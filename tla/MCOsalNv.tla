------------------------------ MODULE MCOsalNv ------------------------------
(* Two items in three pages: a rewrite of either soon needs a compaction.  *)
(* A page has room for both, and for a torn copy of one per reset.         *)
EXTENDS OsalNv

CONSTANTS a, b, v, w

MCIds == {a, b}
MCVals == {v, w}
=============================================================================
