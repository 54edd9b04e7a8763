----------------------------- MODULE MCOsalClock -----------------------------
(* The clock with the numbers of the code, on passes that come soon enough *)
(* (two turns of the loop or fewer) and on passes that do not.             *)
EXTENDS OsalClock

SoonGaps == {1, 2, 3, 25, 3124, 3125, 8187, 8188, 8189, 16375, 16376}
LateGaps == SoonGaps \union {24564, 65535}
=============================================================================
