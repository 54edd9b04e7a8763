------------------------------ MODULE OsalTimers ------------------------------
(***************************************************************************)
(* The software timers of src/Components/osal/common/OSAL_Timers.c: one    *)
(* list of timer records, aged by osalTimerUpdate.  The update takes a     *)
(* critical section for every record, so an interrupt can start a timer    *)
(* between two records, and it sets the event of an expired one-shot only  *)
(* after the record has left the list and interrupts are on again.         *)
(*                                                                         *)
(* Background code is either inside osalTimerUpdate or runs a task, which  *)
(* starts and stops timers; halProcessKeyInterrupt starts a timer from an  *)
(* interrupt (src/Components/hal/target/CC2530EB/hal_key.c:385-409).       *)
(***************************************************************************)
EXTENDS Naturals, Sequences, FiniteSets

CONSTANTS
  Keys,        \* pairs of task and event flag that timers are started for
  IsrKeys,     \* those that interrupts start timers for
  MaxTimeout,  \* bound: longest timeout
  MaxUpdate,   \* bound: longest time between two updates
  MaxTimers    \* timer records the heap has room for

ASSUME TimersAssumption ==
  /\ IsrKeys \subseteq Keys
  /\ MaxTimeout \in Nat /\ MaxUpdate \in Nat \ {0} /\ MaxTimers \in Nat

VARIABLES
  timers,     \* the list from timerHead
  raised,     \* events set for their task and not consumed
  pc,         \* task, walk, free: where the background code is
  updateTime, \* parameter of osalTimerUpdate
  srchTimer,  \* position of the record visited next, 0 for NULL
  freeTimer   \* sequence of at most one record, unlinked but not yet freed

vars == <<timers, raised, pc, updateTime, srchTimer, freeTimer>>

(* A record: event_flag is 0 once osalDeleteTimer has cleared it.  The     *)
(* last three fields are history, of the last start or reload: how much of *)
(* what was asked for the OSAL clock has still to move, whether it has     *)
(* moved since, and whether an interrupt asked.                            *)
Record == [key : Keys, deleted : BOOLEAN, timeout : 0 .. MaxTimeout,
           reloadTimeout : 0 .. MaxTimeout,
           owed : 0 .. MaxTimeout, moved : BOOLEAN, byIsr : BOOLEAN]

(* Mutant of Minus: without the comparison.                                *)
Minus_Unchecked(a, b) == a - b

(* The uint16 difference of the code, which never goes below zero.         *)
Minus(a, b) == IF a <= b THEN 0 ELSE a - b

(* Mutant of Found: the search ends before the last record.                *)
Found_NotLast(k) ==
  {i \in DOMAIN timers : i < Len(timers) /\ timers[i].key = k /\ ~ timers[i].deleted}

(* osalFindTimer.                                                          *)
Found(k) == {i \in DOMAIN timers : timers[i].key = k /\ ~ timers[i].deleted}

Init ==
  /\ timers = <<>>
  /\ raised = {}
  /\ pc = "task"
  /\ updateTime = 0
  /\ srchTimer = 0
  /\ freeTimer = <<>>

-----------------------------------------------------------------------------
(* osalAddTimer: an existing timer only gets the new timeout, a new record *)
(* goes to the end of the list; without room the start fails.  A reloading *)
(* start sets reloadTimeout in both cases, the other leaves it alone.      *)
Start(k, n, reload, isr) ==
  /\ \/ \E i \in Found(k) :
          timers' = [timers EXCEPT
            ![i].timeout = n, ![i].owed = n, ![i].moved = FALSE, ![i].byIsr = isr,
            ![i].reloadTimeout = IF reload THEN n ELSE @]
     \/ /\ Found(k) = {}
        /\ Len(timers) + Len(freeTimer) < MaxTimers
        /\ timers' = Append(timers,
             [key |-> k, deleted |-> FALSE, timeout |-> n,
              reloadTimeout |-> IF reload THEN n ELSE 0,
              owed |-> n, moved |-> FALSE, byIsr |-> isr])
  /\ UNCHANGED <<raised, pc, updateTime, srchTimer, freeTimer>>

osal_start_timerEx(k, n) == pc = "task" /\ Start(k, n, FALSE, FALSE)

osal_start_reload_timer(k, n) == pc = "task" /\ Start(k, n, TRUE, FALSE)

(* An interrupt starts a timer, also in the middle of osalTimerUpdate.     *)
IsrStart(k, n) == Start(k, n, FALSE, TRUE)

(* The record stays in the list until the next update.                     *)
osal_stop_timerEx(k) ==
  /\ pc = "task"
  /\ \E i \in Found(k) : timers' = [timers EXCEPT ![i].deleted = TRUE]
  /\ UNCHANGED <<raised, pc, updateTime, srchTimer, freeTimer>>

(* The scheduler hands the event to its task.                              *)
Consume(k) ==
  /\ pc = "task"
  /\ k \in raised
  /\ raised' = raised \ {k}
  /\ UNCHANGED <<timers, pc, updateTime, srchTimer, freeTimer>>

-----------------------------------------------------------------------------
(* osalTimerUpdate.                                                        *)

(* The OSAL clock moves on by u, and the walk begins at timerHead (without *)
(* a timer nothing else happens).                                          *)
UpdateBegin(u) ==
  /\ pc = "task"
  /\ timers /= <<>>
  /\ timers' = [i \in DOMAIN timers |->
                  [timers[i] EXCEPT !.owed = Minus(@, u), !.moved = TRUE]]
  /\ updateTime' = u
  /\ pc' = "walk"
  /\ srchTimer' = 1
  /\ UNCHANGED <<raised, freeTimer>>

Without(i) == SubSeq(timers, 1, i - 1) \o SubSeq(timers, i + 1, Len(timers))

(* Mutants of Aged: a timer with one tick to go expires; a timer that does *)
(* not expire keeps its timeout.                                           *)
Aged_OneEarly(r) ==
  [r EXCEPT !.timeout = IF @ <= updateTime + 1 THEN 0 ELSE @ - updateTime]

Aged_NoCountdown(r) ==
  [r EXCEPT !.timeout = IF @ <= updateTime THEN 0 ELSE @]

(* A record after updateTime has passed for it, before a reload.           *)
Aged(r) == [r EXCEPT !.timeout = Minus(@, updateTime)]

Reloads(r) == Aged(r).timeout = 0 /\ r.reloadTimeout /= 0 /\ ~ r.deleted

(* Mutant of Unlinks: only deleted records leave the list.                 *)
Unlinks_DeletedOnly(r) == ~ Reloads(r) /\ r.deleted

Unlinks(r) == ~ Reloads(r) /\ (Aged(r).timeout = 0 \/ r.deleted)

(* srchTimer moves on to the record at position i; NULL ends the update.   *)
WalkTo(i) ==
  /\ srchTimer' = i
  /\ pc' = IF i = 0 THEN "task" ELSE "walk"
  /\ updateTime' = IF i = 0 THEN 0 ELSE updateTime

(* The critical section in which the record at srchTimer is aged, reloaded *)
(* or unlinked; what follows it is read before interrupts come on again.   *)
Visit ==
  /\ pc = "walk"
  /\ LET i == srchTimer
         r == timers[i]
     IN \/ /\ Reloads(r)
           /\ raised' = raised \union {r.key}
           /\ timers' = [timers EXCEPT ![i] =
                [r EXCEPT !.timeout = r.reloadTimeout,
                          !.owed = r.reloadTimeout, !.moved = FALSE, !.byIsr = FALSE]]
           /\ WalkTo(IF i < Len(timers) THEN i + 1 ELSE 0)
           /\ UNCHANGED freeTimer
        \/ /\ Unlinks(r)
           /\ timers' = Without(i)
           /\ freeTimer' = <<Aged(r)>>
           /\ srchTimer' = IF i < Len(timers) THEN i ELSE 0
           /\ pc' = "free"
           /\ UNCHANGED <<raised, updateTime>>
        \/ /\ ~ Reloads(r) /\ ~ Unlinks(r)
           /\ timers' = [timers EXCEPT ![i] = Aged(r)]
           /\ WalkTo(IF i < Len(timers) THEN i + 1 ELSE 0)
           /\ UNCHANGED <<raised, freeTimer>>

(* Mutant of Release: no event for a timer that was started again.         *)
Release_Restarted ==
  /\ pc = "free"
  /\ raised' = raised \union
       {freeTimer[i].key : i \in {j \in DOMAIN freeTimer :
          /\ freeTimer[j].timeout = 0 /\ ~ freeTimer[j].deleted
          /\ Found(freeTimer[j].key) = {}}}
  /\ freeTimer' = <<>>
  /\ WalkTo(srchTimer)
  /\ UNCHANGED timers

(* With interrupts on: the event of an expired timer is set (flag 0 of a   *)
(* deleted one sets nothing), the record is freed.                         *)
Release ==
  /\ pc = "free"
  /\ raised' = raised \union
       {freeTimer[i].key : i \in {j \in DOMAIN freeTimer :
          freeTimer[j].timeout = 0 /\ ~ freeTimer[j].deleted}}
  /\ freeTimer' = <<>>
  /\ WalkTo(srchTimer)
  /\ UNCHANGED timers

-----------------------------------------------------------------------------
Update == (\E u \in 1 .. MaxUpdate : UpdateBegin(u)) \/ Visit \/ Release

Task ==
  \E k \in Keys :
    \/ \E n \in 0 .. MaxTimeout : osal_start_timerEx(k, n)
    \/ \E n \in 1 .. MaxTimeout : osal_start_reload_timer(k, n)
    \/ osal_stop_timerEx(k)
    \/ Consume(k)

Next == Update \/ Task \/ \E k \in IsrKeys, n \in 1 .. MaxTimeout : IsrStart(k, n)

Spec == Init /\ [][Next]_vars

(* osalTimeUpdate is called on every pass of the main loop, and the MAC    *)
(* timer it reads never stands still.                                      *)
FairSpec == Spec /\ WF_vars(Update)

-----------------------------------------------------------------------------
(* The type of every variable, and that the walk points into the list.     *)
TypeOK ==
  /\ timers \in Seq(Record) /\ Len(timers) <= MaxTimers
  /\ raised \subseteq Keys
  /\ pc \in {"task", "walk", "free"}
  /\ updateTime \in 0 .. MaxUpdate
  /\ srchTimer \in 0 .. Len(timers)
  /\ pc = "walk" => srchTimer /= 0
  /\ freeTimer \in Seq(Record) /\ Len(freeTimer) <= 1
  /\ pc = "free" <=> Len(freeTimer) = 1

Live == {i \in DOMAIN timers : ~ timers[i].deleted}

(* A task and flag have at most one live timer, also when a stopped one    *)
(* still waits in the list to be unlinked (osalAddTimer, osalDeleteTimer). *)
OneTimerPerKey == \A i, j \in Live : timers[i].key = timers[j].key => i = j

(* No timer is late: once the OSAL clock has moved on by what was asked    *)
(* for, the update that moved it has set the event (osalTimerUpdate).      *)
NeverLate == pc = "task" => \A i \in Live : timers[i].moved => timers[i].owed > 0

(* The timer the walk is about to expire, if any.                          *)
Expiring ==
  {i \in Live : pc = "walk" /\ i = srchTimer /\ Aged(timers[i]).timeout = 0}

(* A timer that a task started or that was reloaded does not expire before *)
(* the OSAL clock has moved on by what was asked for (osalTimerUpdate).    *)
TaskTimersNeverEarly == \A i \in Expiring : ~ timers[i].byIsr => timers[i].owed = 0

(* The same for every timer, as osal_start_timerEx describes itself: "This *)
(* function is called to start a timer to expire in n mSecs"               *)
(* (OSAL_Timers.c:240).                                                    *)
NeverEarly == \A i \in Expiring : timers[i].owed = 0

Expired == {i \in DOMAIN freeTimer : freeTimer[i].timeout = 0 /\ ~ freeTimer[i].deleted}

(* Keys with a timer in the list; keys expired and about to be signalled.  *)
Armed == {timers[i].key : i \in Live}
Due == {freeTimer[i].key : i \in Expired}

Promise == INSTANCE TimerPromise WITH armed <- Armed, due <- Due, updating <- pc /= "task"

(* The timers implement TimerPromise: an event is set only for a timer     *)
(* that was started and not stopped, and only a stop ends a started timer  *)
(* without its event, whatever interrupts start during the update, the     *)
(* same timer included while its old event is still to be set.             *)
ImplementsPromise == Promise!Spec

(* Every wait ends: a timer whose wait has begun to run expires, unless it *)
(* is stopped or started anew first, and a stopped one does not keep its   *)
(* record (osalTimerUpdate is called on every pass of the main loop).      *)
Waiting(k) == \E i \in Found(k) : timers[i].moved
Litter == DOMAIN timers \ Live
EveryTimerEnds ==
  /\ \A k \in Keys : Waiting(k) ~> ~ Waiting(k)
  /\ Litter /= {} ~> Litter = {}
=============================================================================
