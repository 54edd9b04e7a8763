------------------------------ MODULE OsalClock ------------------------------
(***************************************************************************)
(* The OSAL clock of src/Components/osal/common/OSAL_Clock.c: the ticks of *)
(* the MAC timer since the last pass of the main loop are turned into      *)
(* milliseconds for the clock and the timers, in uint16 arithmetic, the    *)
(* rest being kept for the next pass.  25 ticks of 320 us are 8 ms.        *)
(***************************************************************************)
EXTENDS Integers

CONSTANTS
  W,             \* values of a uint16: 65536
  MAXCALCTICKS,  \* ticks converted in one turn of the loop
  Gaps           \* ticks between two passes that see the MAC timer move

ASSUME ClockAssumption ==
  /\ W \in Nat \ {0}
  /\ MAXCALCTICKS \in Nat \ {0}
  /\ Gaps \subseteq 1 .. W - 1

VARIABLES
  remUsTicks,       \* rest of the last conversion, in 1/25 ms
  timeMSec,         \* milliseconds of the clock
  lostUs,           \* history: time passed less time converted, in 1/25 ms
  lostMSec          \* history: milliseconds converted less the clock's

vars == <<remUsTicks, timeMSec, lostUs, lostMSec>>

Init == remUsTicks = 0 /\ timeMSec = 0 /\ lostUs = 0 /\ lostMSec = 0

(* Turns of the loop: it goes on while more than MAXCALCTICKS are left.    *)
Turns(ticks) == (ticks - 1) \div MAXCALCTICKS

(* Mutant of RemUsTicks: the rest of the turns is dropped.                 *)
RemUsTicks_NoRest(ticks) == remUsTicks

(* remUsTicks after the loop, tmp, and elapsedMSec, each a uint16.         *)
RemUsTicks(ticks) == (remUsTicks + Turns(ticks) * ((MAXCALCTICKS * 8) % 25)) % W

Tmp(ticks) ==
  ((ticks - Turns(ticks) * MAXCALCTICKS) * 8 + RemUsTicks(ticks)) % W

ElapsedMSec(ticks) ==
  (Turns(ticks) * ((MAXCALCTICKS * 8) \div 25) + Tmp(ticks) \div 25) % W

(* Mutant of RolledUp: at most one second at a time.                       *)
RolledUp_OneOnly(msec) == IF msec > 1000 THEN 1 ELSE 0

(* osalClockUpdate: seconds go to OSAL_timeSeconds, of which only what is  *)
(* added matters here.                                                     *)
RolledUp(msec) == IF msec > 1000 THEN msec \div 1000 ELSE 0

(* osalTimeUpdate, including osalClockUpdate, on a pass that finds the MAC *)
(* timer moved on by the given ticks.                                      *)
osalTimeUpdate(ticks) ==
  /\ remUsTicks' = Tmp(ticks) % 25
  /\ lostUs' = lostUs + (ticks * 8 + remUsTicks) - (ElapsedMSec(ticks) * 25 + remUsTicks')
  /\ LET msec == (timeMSec + ElapsedMSec(ticks)) % W
     IN /\ timeMSec' = msec - RolledUp(msec) * 1000
        /\ lostMSec' = lostMSec + (timeMSec + ElapsedMSec(ticks))
                                - (RolledUp(msec) * 1000 + timeMSec')

Next == \E ticks \in Gaps : osalTimeUpdate(ticks)

Spec == Init /\ [][Next]_vars

-----------------------------------------------------------------------------
(* The rest is less than a millisecond, and the milliseconds less than a   *)
(* second but for the one that osalClockUpdate rolls up late.              *)
TypeOK ==
  /\ remUsTicks \in 0 .. 24
  /\ timeMSec \in 0 .. 1000
  /\ lostUs \in Int /\ lostMSec \in Int

(* The clock is exact: what the timers and the clock were given, plus the  *)
(* rest, is all the time that has passed, however the passes of the main   *)
(* loop fall.  For any passes it is what the comment on MAXCALCTICKS       *)
(* promises: "(MAXCALCTICKS * 8) + (max remainder) must be <= (uint16      *)
(* max), so: (8188 * 8) + 24 <= 65535" (OSAL_Clock.c:56-57).               *)
ClockExact == lostUs = 0 /\ lostMSec = 0
=============================================================================
