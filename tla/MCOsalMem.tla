------------------------------ MODULE MCOsalMem ------------------------------
(* The heap with a bucket of a few blocks and a wilderness of a few more.  *)
EXTENDS OsalMem

MCRequests == {1, 3, 5}
=============================================================================
