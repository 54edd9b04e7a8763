---------------------------- MODULE TimerPromise ----------------------------
(***************************************************************************)
(* What the timers promise: a key (a task and one of its event flags) is   *)
(* armed by a start, at any time, and disarmed by a stop, between updates. *)
(* During an update an armed key may expire.  If it is to fire again, its  *)
(* event is raised at once; if not, it is no longer armed, its event is    *)
(* due, and nothing else happens in the update, nor does it end, before    *)
(* that event is raised, even if the key has been armed again meanwhile.   *)
(***************************************************************************)
CONSTANT Keys

VARIABLES armed, due, raised, updating

timing == <<armed, due, raised, updating>>

Init == armed = {} /\ due = {} /\ raised = {} /\ updating = FALSE

Arm(k) == armed' = armed \union {k} /\ UNCHANGED <<due, raised, updating>>

Disarm(k) ==
  /\ ~ updating
  /\ k \in armed
  /\ armed' = armed \ {k}
  /\ UNCHANGED <<due, raised, updating>>

Consume(k) == raised' = raised \ {k} /\ UNCHANGED <<armed, due, updating>>

Begin == ~ updating /\ updating' = TRUE /\ UNCHANGED <<armed, due, raised>>

(* A key expires for good.                                                 *)
Expire(k) ==
  /\ updating /\ due = {}
  /\ k \in armed
  /\ armed' = armed \ {k} /\ due' = {k}
  /\ UNCHANGED <<raised, updating>>

(* Either may be the last of its update.                                   *)
Fire(k) ==
  /\ k \in due
  /\ due' = due \ {k} /\ raised' = raised \union {k}
  /\ updating' \in BOOLEAN
  /\ UNCHANGED armed

Reload(k) ==
  /\ updating /\ due = {}
  /\ k \in armed
  /\ raised' = raised \union {k}
  /\ updating' \in BOOLEAN
  /\ UNCHANGED <<armed, due>>

End == updating /\ due = {} /\ updating' = FALSE /\ UNCHANGED <<armed, due, raised>>

Next ==
  \/ Begin \/ End
  \/ \E k \in Keys : Arm(k) \/ Disarm(k) \/ Consume(k) \/ Expire(k) \/ Fire(k) \/ Reload(k)

Spec == Init /\ [][Next]_timing
=============================================================================
