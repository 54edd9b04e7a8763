---------------------------- MODULE MCOsalTimers ----------------------------
(* Two timers that tasks start, one of which an interrupt starts as well.  *)
EXTENDS OsalTimers

CONSTANTS key, poll

MCKeys == {key, poll}
MCIsrKeys == {key}
=============================================================================
