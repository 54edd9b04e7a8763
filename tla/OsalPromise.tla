----------------------------- MODULE OsalPromise -----------------------------
(***************************************************************************)
(* What the OSAL kernel promises its tasks: one first-in first-out mailbox *)
(* per task, and flags that wait for the task until its processor runs.  A *)
(* message leaves its mailbox only into the hands of the run of the task   *)
(* it was sent to, the one sent first before the others.  A run is given   *)
(* every flag that waits for its task; it serves at most one of them, and  *)
(* those it does not serve wait again when it ends, unless the task is one *)
(* that discards.                                                          *)
(***************************************************************************)
CONSTANTS Tasks, Msgs, Flags, DiscardingTasks, NoTask

VARIABLES
  mbox,     \* of each task: the messages sent to it and not yet received
  older,    \* pairs of messages in one mailbox, the first sent before the second
  held,     \* messages in the hands of the running code
  waiting,  \* of each task: the flags raised for it that no run was given
  runner,   \* the task whose processor runs, or NoTask
  given,    \* flags that this run was given and has not served
  serving   \* the flag that this run serves

mail  == <<mbox, older, held>>
flags == <<waiting, runner, given, serving>>

Init ==
  /\ mbox = [t \in Tasks |-> {}] /\ older = {} /\ held = {}
  /\ waiting = [t \in Tasks |-> {}]
  /\ runner = NoTask /\ given = {} /\ serving = {}

-----------------------------------------------------------------------------
New(m) ==
  /\ m \notin held /\ \A t \in Tasks : m \notin mbox[t]
  /\ held' = held \union {m}
  /\ UNCHANGED <<mbox, older, flags>>

Free(m) ==
  /\ m \in held
  /\ held' = held \ {m}
  /\ UNCHANGED <<mbox, older, flags>>

Send(m, t) ==
  /\ m \in held
  /\ held' = held \ {m}
  /\ mbox' = [mbox EXCEPT ![t] = @ \union {m}]
  /\ older' = older \union (mbox[t] \X {m})
  /\ UNCHANGED flags

Receive(m) ==
  /\ runner \in Tasks
  /\ m \in mbox[runner] /\ \A n \in mbox[runner] : <<n, m>> \notin older
  /\ mbox' = [mbox EXCEPT ![runner] = @ \ {m}]
  /\ older' = older \ ({m} \X Msgs)
  /\ held' = held \union {m}
  /\ UNCHANGED flags

-----------------------------------------------------------------------------
Raise(t, f) ==
  /\ waiting' = [waiting EXCEPT ![t] = @ \union {f}]
  /\ UNCHANGED <<mail, runner, given, serving>>

Begin(t) ==
  /\ runner = NoTask
  /\ runner' = t
  /\ given' = waiting[t]
  /\ waiting' = [waiting EXCEPT ![t] = {}]
  /\ UNCHANGED <<mail, serving>>

Serve(f) ==
  /\ f \in given /\ serving = {}
  /\ serving' = {f}
  /\ given' = given \ {f}
  /\ UNCHANGED <<mail, waiting, runner>>

Discard ==
  /\ runner \in DiscardingTasks
  /\ given' = {}
  /\ UNCHANGED <<mail, waiting, runner, serving>>

End ==
  /\ runner \in Tasks
  /\ waiting' = [waiting EXCEPT ![runner] = @ \union given]
  /\ runner' = NoTask /\ given' = {} /\ serving' = {}
  /\ UNCHANGED mail

Next ==
  \/ \E m \in Msgs : New(m) \/ Free(m) \/ Receive(m) \/ \E t \in Tasks : Send(m, t)
  \/ \E t \in Tasks : Begin(t) \/ \E f \in Flags : Raise(t, f)
  \/ \E f \in Flags : Serve(f)
  \/ Discard
  \/ End

Spec == Init /\ [][Next]_<<mail, flags>>
=============================================================================
