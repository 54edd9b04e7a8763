-------------------------------- MODULE Osal --------------------------------
(***************************************************************************)
(* The OSAL kernel of src/Components/osal/common/OSAL.c: the priority      *)
(* round of osal_start_system, the event words tasksEvents, the single     *)
(* message queue osal_qHead, and the message buffers with their header.    *)
(*                                                                         *)
(* One action is one stretch of code that an interrupt cannot cut: a       *)
(* critical section (HAL_ENTER/EXIT_CRITICAL_SECTION) or a stretch that    *)
(* touches nothing an interrupt touches.  The background code is the       *)
(* program counter pc; interrupt service routines are the action Isr,      *)
(* enabled at every pc because a routine runs to completion between two    *)
(* background steps.                                                       *)
(***************************************************************************)
EXTENDS Naturals, Sequences, FiniteSets

CONSTANTS
  tasksCnt,        \* number of entries of tasksArr; the task id is the priority
  Msgs,            \* message buffers the heap can hold at once
  Flags,           \* event flags other than SYS_EVENT_MSG
  SYS_EVENT_MSG,   \* the flag that says "a message is queued for you"
  TASK_NO_TASK,    \* dest_id of a buffer that is in no queue
  DiscardingTasks, \* tasks whose processor returns 0 for what it does not know
  IsrTasks,        \* tasks that interrupt service routines signal
  MaxOps           \* bound: kernel calls one run of a handler makes

Tasks == 0 .. tasksCnt - 1

ASSUME ConstantsAssumption ==
  /\ tasksCnt \in Nat \ {0}
  /\ SYS_EVENT_MSG \notin Flags
  /\ TASK_NO_TASK \notin Tasks
  /\ DiscardingTasks \subseteq Tasks
  /\ IsrTasks \subseteq Tasks
  /\ MaxOps \in Nat

VARIABLES
  tasksEvents,  \* event word of each task
  osal_qHead,   \* the linked list of queued messages, head first
  dest_id,      \* header field of each buffer
  allocated,    \* buffers the heap has handed out
  pc,           \* where the background code is
  idx,          \* loop variable of osal_start_system
  events,       \* its local copy of the taken event word
  serving,      \* the flag whose branch of the processor this run executes
  held,         \* buffers the running code points to and that are not queued
  unsignalled,  \* destination between osal_msg_enqueue and osal_set_event
  ops           \* kernel calls made in this run of the handler

kernel == <<tasksEvents, osal_qHead, dest_id, allocated>>
local  == <<pc, idx, events, serving, held, unsignalled, ops>>
vars   == <<kernel, local>>

AllEvents == Flags \union {SYS_EVENT_MSG}

Queued == {osal_qHead[i] : i \in DOMAIN osal_qHead}

(* The background code is inside a handler, or inside the polls the main   *)
(* loop makes before it looks for a ready task, and about to make a call.  *)
Busy == pc \in {"poll", "messages", "serve"} /\ unsignalled = TASK_NO_TASK

(* Positions in the queue of the messages for task t.                      *)
QueuedFor(t) == {i \in DOMAIN osal_qHead : dest_id[osal_qHead[i]] = t}

(* osal_init_system, then the first pass of the loop.                      *)
Init ==
  /\ tasksEvents = [t \in Tasks |-> {}]
  /\ osal_qHead = <<>>
  /\ dest_id = [m \in Msgs |-> TASK_NO_TASK]
  /\ allocated = {}
  /\ pc = "poll"
  /\ idx = 0
  /\ events = {}
  /\ serving = {}
  /\ held = {}
  /\ unsignalled = TASK_NO_TASK
  /\ ops = 0

-----------------------------------------------------------------------------
(* Kernel calls made by the running handler (or by Hal_ProcessPoll).       *)

osal_msg_allocate(m) ==
  /\ Busy /\ ops < MaxOps
  /\ m \notin allocated
  /\ allocated' = allocated \union {m}
  /\ dest_id' = [dest_id EXCEPT ![m] = TASK_NO_TASK]
  /\ held' = held \union {m}
  /\ ops' = ops + 1
  /\ UNCHANGED <<tasksEvents, osal_qHead, pc, idx, events, serving, unsignalled>>

(* Mutant of osal_msg_deallocate: without the test of dest_id.             *)
osal_msg_deallocate_Queued(m) ==
  /\ Busy
  /\ m \in allocated
  /\ allocated' = allocated \ {m}
  /\ held' = held \ {m}
  /\ UNCHANGED <<tasksEvents, osal_qHead, dest_id, pc, idx, events, serving, unsignalled, ops>>

(* Also called with a pointer to what was just sent (MT_UART.c:329-331);   *)
(* refused while dest_id says the buffer is queued.                        *)
osal_msg_deallocate(m) ==
  /\ Busy
  /\ m \in allocated
  /\ dest_id[m] = TASK_NO_TASK
  /\ allocated' = allocated \ {m}
  /\ held' = held \ {m}
  /\ UNCHANGED <<tasksEvents, osal_qHead, dest_id, pc, idx, events, serving, unsignalled, ops>>

(* osal_msg_send up to and including osal_msg_enqueue.                     *)
SendEnqueue(m, t) ==
  /\ Busy /\ ops < MaxOps
  /\ m \in held
  /\ dest_id[m] = TASK_NO_TASK
  /\ dest_id' = [dest_id EXCEPT ![m] = t]
  /\ osal_qHead' = Append(osal_qHead, m)
  /\ held' = held \ {m}
  /\ unsignalled' = t
  /\ ops' = ops + 1
  /\ UNCHANGED <<tasksEvents, allocated, pc, idx, events, serving>>

(* The osal_set_event with which osal_msg_send ends.                       *)
SendSignal ==
  /\ unsignalled /= TASK_NO_TASK
  /\ tasksEvents' = [tasksEvents EXCEPT ![unsignalled] = @ \union {SYS_EVENT_MSG}]
  /\ unsignalled' = TASK_NO_TASK
  /\ UNCHANGED <<osal_qHead, dest_id, allocated, pc, idx, events, serving, held, ops>>

(* osal_msg_send to a task id outside tasksArr gives the buffer back.      *)
SendInvalidTask(m) ==
  /\ Busy /\ ops < MaxOps
  /\ m \in held
  /\ dest_id[m] = TASK_NO_TASK
  /\ allocated' = allocated \ {m}
  /\ held' = held \ {m}
  /\ ops' = ops + 1
  /\ UNCHANGED <<tasksEvents, osal_qHead, dest_id, pc, idx, events, serving, unsignalled>>

osal_set_event(t, f) ==
  /\ Busy /\ ops < MaxOps
  /\ tasksEvents' = [tasksEvents EXCEPT ![t] = @ \union {f}]
  /\ ops' = ops + 1
  /\ UNCHANGED <<osal_qHead, dest_id, allocated, pc, idx, events, serving, held, unsignalled>>

-----------------------------------------------------------------------------
(* osal_start_system.                                                      *)

(* Mutant of BeginScan: the search goes on where the last one ended.       *)
BeginScan_NoReset ==
  /\ pc = "poll" /\ unsignalled = TASK_NO_TASK /\ held = {}
  /\ pc' = "scan"
  /\ UNCHANGED <<kernel, idx, events, serving, held, unsignalled, ops>>

(* The polls are over; the search starts at the highest priority.          *)
BeginScan ==
  /\ pc = "poll" /\ unsignalled = TASK_NO_TASK /\ held = {}
  /\ pc' = "scan"
  /\ idx' = 0
  /\ UNCHANGED <<kernel, events, serving, held, unsignalled, ops>>

(* Mutant of Scan: the loop ends one turn late.                            *)
Scan_OneTooFar ==
  /\ pc = "scan"
  /\ \/ tasksEvents[idx] /= {} /\ pc' = "take" /\ UNCHANGED idx
     \/ tasksEvents[idx] = {} /\ idx' = idx + 1 /\ UNCHANGED pc
  /\ UNCHANGED <<kernel, events, serving, held, unsignalled, ops>>

(* One turn of do ... while (++idx < tasksCnt); the word is read with      *)
(* interrupts on.                                                          *)
Scan ==
  /\ pc = "scan"
  /\ \/ /\ tasksEvents[idx] /= {}
        /\ pc' = "take"
        /\ UNCHANGED <<idx, ops>>
     \/ /\ tasksEvents[idx] = {} /\ idx + 1 < tasksCnt
        /\ idx' = idx + 1
        /\ UNCHANGED <<pc, ops>>
     \/ /\ tasksEvents[idx] = {} /\ idx + 1 = tasksCnt
        /\ pc' = "poll"
        /\ ops' = 0
        /\ UNCHANGED idx
  /\ UNCHANGED <<kernel, events, serving, held, unsignalled>>

Take ==
  /\ pc = "take"
  /\ events' = tasksEvents[idx]
  /\ tasksEvents' = [tasksEvents EXCEPT ![idx] = {}]
  /\ pc' = "dispatch"
  /\ ops' = 0
  /\ UNCHANGED <<osal_qHead, dest_id, allocated, idx, serving, held, unsignalled>>

(* The processor looks at SYS_EVENT_MSG first; without it, it serves one   *)
(* flag and returns the others, or returns 0.                              *)
Dispatch ==
  /\ pc = "dispatch"
  /\ \/ /\ SYS_EVENT_MSG \in events
        /\ pc' = "messages"
        /\ UNCHANGED <<events, serving>>
     \/ /\ SYS_EVENT_MSG \notin events
        /\ idx \notin DiscardingTasks
        /\ \E f \in events : serving' = {f} /\ events' = events \ {f}
        /\ pc' = "serve"
     \/ /\ SYS_EVENT_MSG \notin events
        /\ idx \in DiscardingTasks
        /\ events' = {}
        /\ pc' = "return"
        /\ UNCHANGED serving
  /\ UNCHANGED <<kernel, idx, held, unsignalled, ops>>

(* The queue without the message at position i (osal_msg_extract).         *)
osal_msg_extract(i) ==
  SubSeq(osal_qHead, 1, i - 1) \o SubSeq(osal_qHead, i + 1, Len(osal_qHead))

(* Mutant of osal_msg_receive: the head of the queue, whoever it is for.   *)
osal_msg_receive_AnyTask ==
  /\ pc = "messages" /\ unsignalled = TASK_NO_TASK /\ held = {}
  /\ osal_qHead /= <<>>
  /\ held' = {Head(osal_qHead)}
  /\ dest_id' = [dest_id EXCEPT ![Head(osal_qHead)] = TASK_NO_TASK]
  /\ osal_qHead' = Tail(osal_qHead)
  /\ UNCHANGED <<tasksEvents, allocated, pc, idx, events, serving, unsignalled, ops>>

(* osal_msg_receive, called in a loop by the processor of task idx, each   *)
(* message being deallocated or passed on before the next call.            *)
osal_msg_receive ==
  /\ pc = "messages" /\ unsignalled = TASK_NO_TASK /\ held = {}
  /\ \E i \in QueuedFor(idx) :
       /\ \A j \in QueuedFor(idx) : i <= j
       /\ held' = {osal_qHead[i]}
       /\ dest_id' = [dest_id EXCEPT ![osal_qHead[i]] = TASK_NO_TASK]
       /\ osal_qHead' = osal_msg_extract(i)
       /\ tasksEvents' = [tasksEvents EXCEPT ![idx] =
            IF \E j \in QueuedFor(idx) : j /= i
            THEN @ \union {SYS_EVENT_MSG} ELSE @ \ {SYS_EVENT_MSG}]
  /\ UNCHANGED <<allocated, pc, idx, events, serving, unsignalled, ops>>

(* The call that finds nothing ends the loop; return events ^ SYS.         *)
ReceiveNull ==
  /\ pc = "messages" /\ unsignalled = TASK_NO_TASK /\ held = {}
  /\ QueuedFor(idx) = {}
  /\ tasksEvents' = [tasksEvents EXCEPT ![idx] = @ \ {SYS_EVENT_MSG}]
  /\ events' = events \ {SYS_EVENT_MSG}
  /\ pc' = "return"
  /\ UNCHANGED <<osal_qHead, dest_id, allocated, idx, serving, held, unsignalled, ops>>

EndServe ==
  /\ pc = "serve" /\ unsignalled = TASK_NO_TASK /\ held = {}
  /\ pc' = "return"
  /\ UNCHANGED <<kernel, idx, events, serving, held, unsignalled, ops>>

(* Mutant of Return: = instead of |=, losing what was set meanwhile.       *)
Return_Overwrite ==
  /\ pc = "return"
  /\ tasksEvents' = [tasksEvents EXCEPT ![idx] = events]
  /\ events' = {}
  /\ serving' = {}
  /\ pc' = "poll"
  /\ ops' = 0
  /\ UNCHANGED <<osal_qHead, dest_id, allocated, idx, held, unsignalled>>

(* tasksEvents[idx] |= events puts back what the processor returned.       *)
Return ==
  /\ pc = "return"
  /\ tasksEvents' = [tasksEvents EXCEPT ![idx] = @ \union events]
  /\ events' = {}
  /\ serving' = {}
  /\ pc' = "poll"
  /\ ops' = 0
  /\ UNCHANGED <<osal_qHead, dest_id, allocated, idx, held, unsignalled>>

-----------------------------------------------------------------------------
Calls ==
  \/ \E m \in Msgs : \/ osal_msg_allocate(m)
                     \/ osal_msg_deallocate(m)
                     \/ SendInvalidTask(m)
                     \/ \E t \in Tasks : SendEnqueue(m, t)
  \/ SendSignal
  \/ \E t \in Tasks, f \in Flags : osal_set_event(t, f)

Loop ==
  \/ BeginScan \/ Scan \/ Take \/ Dispatch
  \/ osal_msg_receive \/ ReceiveNull \/ EndServe \/ Return

Background == Calls \/ Loop

(* An interrupt service routine sets an event of a task.                   *)
Isr(t, f) ==
  /\ tasksEvents' = [tasksEvents EXCEPT ![t] = @ \union {f}]
  /\ UNCHANGED <<osal_qHead, dest_id, allocated, local>>

Next == Background \/ \E t \in IsrTasks, f \in Flags : Isr(t, f)

Spec == Init /\ [][Next]_vars

(* The processor executes the background code whenever it is not serving   *)
(* an interrupt, and a handler makes finitely many calls (MaxOps).         *)
FairSpec == Spec /\ WF_vars(Background)

-----------------------------------------------------------------------------
(* The type of every variable, and that the program counter and the        *)
(* loop variables go together.                                             *)
TypeOK ==
  /\ tasksEvents \in [Tasks -> SUBSET AllEvents]
  /\ osal_qHead \in Seq(Msgs)
  /\ dest_id \in [Msgs -> Tasks \union {TASK_NO_TASK}]
  /\ allocated \subseteq Msgs
  /\ pc \in {"poll", "scan", "take", "dispatch", "messages", "serve", "return"}
  /\ idx \in Tasks
  /\ events \subseteq AllEvents
  /\ serving \subseteq Flags
  /\ held \subseteq Msgs
  /\ unsignalled \in Tasks \union {TASK_NO_TASK}
  /\ ops \in 0 .. MaxOps

(* No lost wake-up: a queued message will be looked for.  Its task has     *)
(* SYS_EVENT_MSG pending, or the sender is about to set it, or the task's  *)
(* processor is inside the receive loop that only a NULL ends (OSAL.c:     *)
(* osal_msg_send, osal_msg_receive), or has just been given the event.     *)
WakeupPending(t) ==
  \/ SYS_EVENT_MSG \in tasksEvents[t]
  \/ unsignalled = t
  \/ idx = t /\ pc = "messages"
  \/ idx = t /\ pc = "dispatch" /\ SYS_EVENT_MSG \in events

NoLostWakeup == \A i \in DOMAIN osal_qHead : WakeupPending(dest_id[osal_qHead[i]])

(* Conservation of buffers: every allocated buffer is queued once or held  *)
(* by the running code, never both, and its header says which; nothing     *)
(* else is queued (osal_msg_allocate, _deallocate, _send, _receive).       *)
QueuedOnce ==
  \A i, j \in DOMAIN osal_qHead : osal_qHead[i] = osal_qHead[j] => i = j

BufferConservation ==
  /\ QueuedOnce
  /\ Queued \intersect held = {}
  /\ allocated = Queued \union held
  /\ \A m \in allocated : m \in Queued <=> dest_id[m] \in Tasks

(* Priority: when the loop has passed task t and settles on a lower one,   *)
(* the only events t can have are those an interrupt set meanwhile         *)
(* (osal_start_system restarts its search at index 0 on every pass).       *)
StrictPriority ==
  pc \in {"scan", "take"} =>
    \A t \in 0 .. idx - 1 :
      tasksEvents[t] \subseteq (IF t \in IsrTasks THEN Flags ELSE {})

(* The inductive invariant: a message is between osal_msg_enqueue and      *)
(* osal_set_event only while the code that sends it runs.                  *)
Signalling == unsignalled /= TASK_NO_TASK => pc \in {"poll", "messages", "serve"}

IInv ==
  TypeOK /\ NoLostWakeup /\ BufferConservation /\ StrictPriority /\ Signalling

(* The mailbox of a task is what the one queue holds for it, in the order  *)
(* of the queue.  A flag waits while it is in the event word; the loop's   *)
(* copy of the word is what the run of the processor was given.            *)
Mbox == [t \in Tasks |-> {osal_qHead[i] : i \in QueuedFor(t)}]

Older ==
  {p \in Msgs \X Msgs :
     \E t \in Tasks : \E i, j \in QueuedFor(t) :
       i < j /\ p = <<osal_qHead[i], osal_qHead[j]>>}

Waiting == [t \in Tasks |-> tasksEvents[t] \ {SYS_EVENT_MSG}]

Runner == IF pc \in {"dispatch", "messages", "serve", "return"} THEN idx ELSE TASK_NO_TASK

Given == events \ {SYS_EVENT_MSG}

Promise == INSTANCE OsalPromise
  WITH mbox <- Mbox, older <- Older, waiting <- Waiting, runner <- Runner, given <- Given,
       NoTask <- TASK_NO_TASK

(* The kernel implements the mailboxes and the flags of OsalPromise.  A    *)
(* message leaves the queue only in the osal_msg_receive of the task it    *)
(* was sent to, oldest first, and a buffer is given back only out of the   *)
(* code's hands.  A run is given all the flags of its task; no flag goes   *)
(* but the one whose branch runs, and what the processor returns is        *)
(* waiting again together with what interrupts set meanwhile.              *)
ImplementsPromise == Promise!Spec

(* The processor of the highest-priority task is handed every flag set for *)
(* it, however busy the interrupts and the other tasks are.                *)
TopTaskServed ==
  \A f \in Flags :
    f \in tasksEvents[0] ~> (pc = "dispatch" /\ idx = 0 /\ f \in events)

(* A message leaves the queue into its task's hands, unless tasks of       *)
(* higher priority keep the loop from ever reaching its task.              *)
Reached(t) == pc = "scan" /\ idx = t
DeliveredUnlessStarved ==
  \A t \in Tasks : []<>Reached(t) =>
    \A m \in Msgs :
      (m \in Queued /\ dest_id[m] = t) ~> (m \in held /\ idx = t /\ pc = "messages")
=============================================================================
