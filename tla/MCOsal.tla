------------------------------- MODULE MCOsal -------------------------------
(* The kernel on a small instance.                                         *)
EXTENDS Osal

CONSTANTS m1, m2

MCMsgs == {m1, m2}
Task1 == {1}
Task2 == {2}
=============================================================================
