----------------------------- MODULE OsalProofs -----------------------------
(***************************************************************************)
(* Proofs about the kernel, for any number of tasks, buffers and flags: no *)
(* wake-up is lost, no buffer is lost, leaked or queued twice, and the     *)
(* loop respects priority.  IInv adds to these three that the window       *)
(* between osal_msg_enqueue and osal_set_event lies inside the sender's    *)
(* code; without it a scan could run inside the window.  The refinement    *)
(* needs besides that the loop's copy of an event word is empty while it   *)
(* looks for the next task, and that no branch of a processor runs before  *)
(* Dispatch has chosen one (BetweenRuns).                                  *)
(***************************************************************************)
EXTENDS Osal, SequenceTheorems, TLAPS

LEMMA TasksFacts ==
  /\ 0 \in Tasks /\ tasksCnt \in Nat
  /\ \A t \in Tasks : t \in Nat /\ t < tasksCnt
  /\ TASK_NO_TASK \notin Tasks
BY ConstantsAssumption DEF Tasks

(* What osal_msg_extract leaves of the queue.                              *)
LEMMA ExtractFacts ==
  ASSUME osal_qHead \in Seq(Msgs), NEW i \in DOMAIN osal_qHead
  PROVE  /\ osal_msg_extract(i) \in Seq(Msgs)
         /\ Len(osal_msg_extract(i)) = Len(osal_qHead) - 1
         /\ \A k \in DOMAIN osal_msg_extract(i) :
              osal_msg_extract(i)[k] = osal_qHead[IF k < i THEN k ELSE k + 1]
<1> DEFINE q == osal_qHead
           n == Len(q)
           a == SubSeq(q, 1, i - 1)
           b == SubSeq(q, i + 1, n)
<1>1. n \in Nat /\ i \in 1 .. n /\ DOMAIN q = 1 .. n
  BY LenProperties
<1>2. a \in Seq(Msgs) /\ Len(a) = i - 1 /\ \A k \in 1 .. i - 1 : a[k] = q[k]
  BY <1>1, SubSeqProperties
<1>3. b \in Seq(Msgs) /\ Len(b) = n - i /\ \A k \in 1 .. n - i : b[k] = q[i + k]
  BY <1>1, SubSeqProperties
<1> HIDE DEF a, b, n, q
<1>4. /\ a \o b \in Seq(Msgs) /\ Len(a \o b) = Len(a) + Len(b)
      /\ \A k \in 1 .. Len(a) + Len(b) :
           (a \o b)[k] = IF k <= Len(a) THEN a[k] ELSE b[k - Len(a)]
  <2> DEFINE S == Seq(Msgs)
  <2>1. \A s, t \in S :
          /\ s \o t \in S /\ Len(s \o t) = Len(s) + Len(t)
          /\ \A k \in 1 .. Len(s) + Len(t) :
               (s \o t)[k] = IF k <= Len(s) THEN s[k] ELSE t[k - Len(s)]
    BY ConcatProperties
  <2>2. a \in S /\ b \in S
    BY <1>2, <1>3
  <2> HIDE DEF S
  <2>3. a \o b \in S /\ Len(a \o b) = Len(a) + Len(b)
    BY <2>1, <2>2
  <2>4. \A k \in 1 .. Len(a) + Len(b) :
          (a \o b)[k] = IF k <= Len(a) THEN a[k] ELSE b[k - Len(a)]
    BY <2>1, <2>2
  <2> QED
    BY <2>3, <2>4 DEF S
<1>5. Len(a \o b) = n - 1 /\ DOMAIN (a \o b) = 1 .. n - 1
  BY <1>1, <1>2, <1>3, <1>4, LenProperties
<1>6. ASSUME NEW k \in 1 .. n - 1
      PROVE  (a \o b)[k] = q[IF k < i THEN k ELSE k + 1]
  <2>0. k \in 1 .. Len(a) + Len(b) /\ (k <= Len(a) <=> k < i)
    BY <1>1, <1>2, <1>3
  <2>1. CASE k < i
    <3>1. k \in 1 .. i - 1 /\ (a \o b)[k] = a[k]
      BY <1>1, <1>4, <2>0, <2>1
    <3> QED
      BY <1>2, <2>1, <3>1
  <2>2. CASE ~ (k < i)
    <3>1. (a \o b)[k] = b[k - (i - 1)]
      BY <1>2, <1>4, <2>0, <2>2
    <3>2. k - (i - 1) \in 1 .. n - i /\ i + (k - (i - 1)) = k + 1
      BY <1>1, <2>2
    <3> QED
      BY <1>3, <2>2, <3>1, <3>2
  <2> QED
    BY <2>1, <2>2
<1> QED
  BY <1>4, <1>5, <1>6 DEF osal_msg_extract, a, b, n, q

LEMMA InitIInv == Init => IInv
<1> SUFFICES ASSUME Init PROVE IInv
  OBVIOUS
<1>1. osal_qHead \in Seq(Msgs) /\ DOMAIN osal_qHead = {}
  BY DEF Init
<1>2. TypeOK
  BY <1>1, TasksFacts, ConstantsAssumption DEF Init, TypeOK, AllEvents
<1>3. NoLostWakeup /\ BufferConservation
  BY <1>1 DEF Init, NoLostWakeup, BufferConservation, QueuedOnce, Queued
<1>4. StrictPriority /\ Signalling
  BY DEF Init, StrictPriority, Signalling
<1> QED
  BY <1>2, <1>3, <1>4 DEF IInv

-----------------------------------------------------------------------------
(* Steps that leave the queue, the headers and the buffers alone.          *)
LEMMA BuffersKept ==
  ASSUME BufferConservation, UNCHANGED <<osal_qHead, dest_id, allocated, held>>
  PROVE  BufferConservation'
BY DEF BufferConservation, QueuedOnce, Queued

(* A queued message's destination is a task.                               *)
LEMMA QueuedDest ==
  ASSUME TypeOK, BufferConservation, NEW i \in DOMAIN osal_qHead
  PROVE  dest_id[osal_qHead[i]] \in Tasks /\ osal_qHead[i] \in Msgs
<1>1. osal_qHead[i] \in Queued /\ osal_qHead[i] \in Msgs
  BY DEF TypeOK, Queued
<1> QED
  BY <1>1 DEF BufferConservation

LEMMA AllocateStep ==
  ASSUME IInv, NEW m \in Msgs, osal_msg_allocate(m) PROVE IInv'
<1> USE DEF IInv, osal_msg_allocate, Busy
<1>1. TypeOK'
  BY ConstantsAssumption DEF TypeOK
<1>2. m \notin Queued /\ m \notin held
  BY DEF BufferConservation
<1>3. \A i \in DOMAIN osal_qHead : dest_id'[osal_qHead[i]] = dest_id[osal_qHead[i]]
  BY <1>2 DEF TypeOK, Queued
<1>4. NoLostWakeup'
  BY <1>3 DEF NoLostWakeup, WakeupPending
<1>5. BufferConservation'
  <2>1. QueuedOnce' /\ Queued' = Queued
    BY DEF BufferConservation, QueuedOnce, Queued
  <2>2. \A x \in allocated' : x \in Queued' <=> dest_id'[x] \in Tasks
    BY <1>2, <2>1, TasksFacts DEF BufferConservation, TypeOK
  <2> QED
    BY <1>2, <2>1, <2>2 DEF BufferConservation
<1>6. StrictPriority' /\ Signalling'
  BY DEF StrictPriority, Signalling
<1> QED
  BY <1>1, <1>4, <1>5, <1>6

(* Giving a held buffer back.                                              *)
LEMMA GiveBack ==
  ASSUME IInv, Busy, NEW m \in held, allocated' = allocated \ {m}, held' = held \ {m},
         UNCHANGED <<tasksEvents, osal_qHead, dest_id, pc, idx, events, serving, unsignalled>>,
         ops' \in 0 .. MaxOps
  PROVE  IInv'
<1> USE DEF IInv
<1>1. TypeOK'
  BY DEF TypeOK
<1>2. m \notin Queued
  BY DEF BufferConservation
<1>3. NoLostWakeup'
  BY DEF NoLostWakeup, WakeupPending
<1>4. BufferConservation'
  <2>1. QueuedOnce' /\ Queued' = Queued
    BY DEF BufferConservation, QueuedOnce, Queued
  <2> QED
    BY <1>2, <2>1 DEF BufferConservation
<1>5. StrictPriority' /\ Signalling'
  BY DEF StrictPriority, Signalling
<1> QED
  BY <1>1, <1>3, <1>4, <1>5

LEMMA DeallocateStep ==
  ASSUME IInv, NEW m \in Msgs, osal_msg_deallocate(m) PROVE IInv'
<1>1. m \in held
  BY TasksFacts DEF osal_msg_deallocate, IInv, BufferConservation
<1> QED
  BY <1>1, GiveBack DEF osal_msg_deallocate, IInv, TypeOK

LEMMA SendInvalidTaskStep ==
  ASSUME IInv, NEW m \in Msgs, SendInvalidTask(m) PROVE IInv'
<1>1. ops' \in 0 .. MaxOps
  BY ConstantsAssumption DEF SendInvalidTask, IInv, TypeOK
<1> QED
  BY <1>1, GiveBack DEF SendInvalidTask

LEMMA SendEnqueueStep ==
  ASSUME IInv, NEW m \in Msgs, NEW t \in Tasks, SendEnqueue(m, t) PROVE IInv'
<1> USE DEF IInv, SendEnqueue, Busy
<1>1. m \notin Queued /\ m \in held /\ m \in allocated
  BY DEF BufferConservation
<1>2. /\ osal_qHead' \in Seq(Msgs)
      /\ DOMAIN osal_qHead = 1 .. Len(osal_qHead) /\ Len(osal_qHead) \in Nat
      /\ DOMAIN osal_qHead' = 1 .. Len(osal_qHead) + 1
      /\ osal_qHead'[Len(osal_qHead) + 1] = m
      /\ \A i \in DOMAIN osal_qHead : osal_qHead'[i] = osal_qHead[i]
  BY AppendProperties, LenProperties DEF TypeOK
<1>3. TypeOK'
  BY <1>2, ConstantsAssumption DEF TypeOK
<1>4. \A i \in DOMAIN osal_qHead :
        osal_qHead[i] /= m /\ dest_id'[osal_qHead[i]] = dest_id[osal_qHead[i]]
  BY <1>1 DEF TypeOK, Queued
<1>5. NoLostWakeup'
  <2> SUFFICES ASSUME NEW i \in DOMAIN osal_qHead'
               PROVE  WakeupPending(dest_id[osal_qHead[i]])'
    BY DEF NoLostWakeup
  <2>1. CASE i \in DOMAIN osal_qHead
    BY <1>2, <1>4, <2>1, TasksFacts, QueuedDest DEF NoLostWakeup, WakeupPending
  <2>2. CASE i = Len(osal_qHead) + 1
    <3>1. dest_id'[osal_qHead'[i]] = t
      BY <1>2, <2>2 DEF TypeOK
    <3> QED
      BY <3>1 DEF WakeupPending
  <2> QED
    BY <1>2, <2>1, <2>2
<1>6. BufferConservation'
  <2>1. Queued' = Queued \union {m}
    <3>1. \A x \in Queued' : x \in Queued \union {m}
      BY <1>2 DEF Queued
    <3>2. \A x \in Queued \union {m} : x \in Queued'
      BY <1>2 DEF Queued
    <3> QED
      BY <3>1, <3>2
  <2>2. QueuedOnce'
    BY <1>2, <1>4 DEF BufferConservation, QueuedOnce
  <2>3. Queued' \intersect held' = {} /\ allocated' = Queued' \union held'
    BY <1>1, <2>1 DEF BufferConservation
  <2>4. \A x \in allocated' : x \in Queued' <=> dest_id'[x] \in Tasks
    BY <1>1, <2>1 DEF BufferConservation, TypeOK
  <2> QED
    BY <2>2, <2>3, <2>4 DEF BufferConservation
<1>7. StrictPriority' /\ Signalling'
  BY DEF StrictPriority, Signalling
<1> QED
  BY <1>3, <1>5, <1>6, <1>7

-----------------------------------------------------------------------------
(* Steps of the loop, and of an interrupt, that change only event words.   *)

(* Adding flags to an event word keeps every wake-up.                      *)
LEMMA MoreEventsKeepWakeups ==
  ASSUME IInv, tasksEvents' \in [Tasks -> SUBSET AllEvents],
         \A u \in Tasks : tasksEvents[u] \subseteq tasksEvents'[u],
         UNCHANGED <<osal_qHead, dest_id, pc, idx, events, unsignalled>>
  PROVE  NoLostWakeup'
<1> SUFFICES ASSUME NEW i \in DOMAIN osal_qHead
             PROVE  WakeupPending(dest_id[osal_qHead[i]])'
  BY DEF NoLostWakeup
<1>1. dest_id[osal_qHead[i]] \in Tasks /\ WakeupPending(dest_id[osal_qHead[i]])
  BY QueuedDest DEF IInv, NoLostWakeup
<1> QED
  BY <1>1 DEF WakeupPending

LEMMA SendSignalStep ==
  ASSUME IInv, SendSignal PROVE IInv'
<1> USE DEF IInv, SendSignal
<1>1. TypeOK' /\ unsignalled \in Tasks
  BY DEF TypeOK, AllEvents
<1>2. NoLostWakeup'
  <2> SUFFICES ASSUME NEW i \in DOMAIN osal_qHead
               PROVE  WakeupPending(dest_id[osal_qHead[i]])'
    BY DEF NoLostWakeup
  <2>1. dest_id[osal_qHead[i]] \in Tasks /\ WakeupPending(dest_id[osal_qHead[i]])
    BY QueuedDest DEF NoLostWakeup
  <2> QED
    BY <1>1, <2>1 DEF WakeupPending, TypeOK
<1>3. BufferConservation'
  BY BuffersKept
<1>4. StrictPriority' /\ Signalling'
  BY DEF StrictPriority, Signalling
<1> QED
  BY <1>1, <1>2, <1>3, <1>4

LEMMA SetEventStep ==
  ASSUME IInv, NEW t \in Tasks, NEW f \in Flags, osal_set_event(t, f) PROVE IInv'
<1> USE DEF IInv, osal_set_event, Busy
<1>1. TypeOK'
  BY ConstantsAssumption DEF TypeOK, AllEvents
<1>2. NoLostWakeup'
  BY <1>1, MoreEventsKeepWakeups DEF TypeOK
<1>3. BufferConservation'
  BY BuffersKept
<1>4. StrictPriority' /\ Signalling'
  BY DEF StrictPriority, Signalling
<1> QED
  BY <1>1, <1>2, <1>3, <1>4

LEMMA IsrStep ==
  ASSUME IInv, NEW t \in IsrTasks, NEW f \in Flags, Isr(t, f) PROVE IInv'
<1> USE DEF IInv, Isr, local
<1>1. TypeOK' /\ t \in Tasks
  BY ConstantsAssumption DEF TypeOK, AllEvents
<1>2. NoLostWakeup'
  BY <1>1, MoreEventsKeepWakeups DEF TypeOK
<1>3. BufferConservation'
  BY BuffersKept
<1>4. StrictPriority'
  <2> SUFFICES ASSUME pc \in {"scan", "take"}, NEW u \in 0 .. idx - 1
               PROVE  tasksEvents'[u] \subseteq (IF u \in IsrTasks THEN Flags ELSE {})
    BY DEF StrictPriority
  <2>1. u \in Tasks /\ tasksEvents[u] \subseteq (IF u \in IsrTasks THEN Flags ELSE {})
    BY TasksFacts DEF StrictPriority, TypeOK, Tasks
  <2> QED
    BY <1>1, <2>1 DEF TypeOK
<1>5. Signalling'
  BY DEF Signalling
<1> QED
  BY <1>1, <1>2, <1>3, <1>4, <1>5

LEMMA BeginScanStep ==
  ASSUME IInv, BeginScan PROVE IInv'
<1> USE DEF IInv, BeginScan, kernel
<1>1. TypeOK'
  BY TasksFacts DEF TypeOK
<1>2. NoLostWakeup'
  BY QueuedDest DEF NoLostWakeup, WakeupPending
<1>3. BufferConservation'
  BY BuffersKept
<1>4. StrictPriority' /\ Signalling'
  BY DEF StrictPriority, Signalling
<1> QED
  BY <1>1, <1>2, <1>3, <1>4

LEMMA ScanStep ==
  ASSUME IInv, Scan PROVE IInv'
<1> USE DEF IInv, Scan, kernel
<1>1. TypeOK'
  <2>1. idx' \in Tasks
    BY TasksFacts DEF TypeOK, Tasks
  <2>2. ops' \in 0 .. MaxOps
    BY ConstantsAssumption DEF TypeOK
  <2> QED
    BY <2>1, <2>2 DEF TypeOK
<1>2. NoLostWakeup'
  BY QueuedDest DEF NoLostWakeup, WakeupPending
<1>3. BufferConservation'
  BY BuffersKept
<1>4. StrictPriority'
  <2> SUFFICES ASSUME pc' \in {"scan", "take"}, NEW u \in 0 .. idx' - 1
               PROVE  tasksEvents[u] \subseteq (IF u \in IsrTasks THEN Flags ELSE {})
    BY DEF StrictPriority
  <2>1. idx \in Nat
    BY TasksFacts DEF TypeOK
  <2>2. CASE u \in 0 .. idx - 1
    BY <2>2 DEF StrictPriority
  <2>3. CASE u = idx
    BY <2>1, <2>3
  <2> QED
    BY <2>1, <2>2, <2>3
<1>5. Signalling'
  BY DEF Signalling
<1> QED
  BY <1>1, <1>2, <1>3, <1>4, <1>5

LEMMA TakeStep ==
  ASSUME IInv, Take PROVE IInv'
<1> USE DEF IInv, Take
<1>1. TypeOK'
  BY ConstantsAssumption DEF TypeOK
<1>2. NoLostWakeup'
  <2> SUFFICES ASSUME NEW i \in DOMAIN osal_qHead
               PROVE  WakeupPending(dest_id[osal_qHead[i]])'
    BY DEF NoLostWakeup
  <2>1. dest_id[osal_qHead[i]] \in Tasks /\ WakeupPending(dest_id[osal_qHead[i]])
    BY QueuedDest DEF NoLostWakeup
  <2> QED
    BY <2>1 DEF WakeupPending, TypeOK
<1>3. BufferConservation'
  BY BuffersKept
<1>4. StrictPriority' /\ Signalling'
  BY DEF StrictPriority, Signalling
<1> QED
  BY <1>1, <1>2, <1>3, <1>4

LEMMA DispatchStep ==
  ASSUME IInv, Dispatch PROVE IInv'
<1> USE DEF IInv, Dispatch, kernel
<1>1. TypeOK'
  BY DEF TypeOK, AllEvents
<1>2. NoLostWakeup'
  BY QueuedDest DEF NoLostWakeup, WakeupPending
<1>3. BufferConservation'
  BY BuffersKept
<1>4. StrictPriority' /\ Signalling'
  BY DEF StrictPriority, Signalling
<1> QED
  BY <1>1, <1>2, <1>3, <1>4

LEMMA EndServeStep ==
  ASSUME IInv, EndServe PROVE IInv'
<1> USE DEF IInv, EndServe, kernel
<1>1. TypeOK'
  BY DEF TypeOK
<1>2. NoLostWakeup'
  BY QueuedDest DEF NoLostWakeup, WakeupPending
<1>3. BufferConservation'
  BY BuffersKept
<1>4. StrictPriority' /\ Signalling'
  BY DEF StrictPriority, Signalling
<1> QED
  BY <1>1, <1>2, <1>3, <1>4

LEMMA ReturnStep ==
  ASSUME IInv, Return PROVE IInv'
<1> USE DEF IInv, Return
<1>1. TypeOK'
  BY ConstantsAssumption DEF TypeOK
<1>2. NoLostWakeup'
  <2> SUFFICES ASSUME NEW i \in DOMAIN osal_qHead
               PROVE  WakeupPending(dest_id[osal_qHead[i]])'
    BY DEF NoLostWakeup
  <2>1. dest_id[osal_qHead[i]] \in Tasks /\ WakeupPending(dest_id[osal_qHead[i]])
    BY QueuedDest DEF NoLostWakeup
  <2> QED
    BY <2>1 DEF WakeupPending, TypeOK
<1>3. BufferConservation'
  BY BuffersKept
<1>4. StrictPriority' /\ Signalling'
  BY DEF StrictPriority, Signalling
<1> QED
  BY <1>1, <1>2, <1>3, <1>4

-----------------------------------------------------------------------------
(* osal_msg_receive.                                                       *)

LEMMA ReceiveNullStep ==
  ASSUME IInv, ReceiveNull PROVE IInv'
<1> USE DEF IInv, ReceiveNull
<1>1. TypeOK'
  BY DEF TypeOK
<1>2. NoLostWakeup'
  <2> SUFFICES ASSUME NEW i \in DOMAIN osal_qHead
               PROVE  WakeupPending(dest_id[osal_qHead[i]])'
    BY DEF NoLostWakeup
  <2>1. dest_id[osal_qHead[i]] \in Tasks /\ WakeupPending(dest_id[osal_qHead[i]])
    BY QueuedDest DEF NoLostWakeup
  <2>2. dest_id[osal_qHead[i]] /= idx
    BY DEF QueuedFor
  <2> QED
    BY <2>1, <2>2 DEF WakeupPending, TypeOK
<1>3. BufferConservation'
  BY BuffersKept
<1>4. StrictPriority' /\ Signalling'
  BY DEF StrictPriority, Signalling
<1> QED
  BY <1>1, <1>2, <1>3, <1>4

LEMMA ReceiveStep ==
  ASSUME IInv, osal_msg_receive PROVE IInv'
<1> USE DEF IInv
<1>1. PICK i \in QueuedFor(idx) :
        /\ held' = {osal_qHead[i]}
        /\ dest_id' = [dest_id EXCEPT ![osal_qHead[i]] = TASK_NO_TASK]
        /\ osal_qHead' = osal_msg_extract(i)
        /\ tasksEvents' = [tasksEvents EXCEPT ![idx] =
             IF \E j \in QueuedFor(idx) : j /= i
             THEN @ \union {SYS_EVENT_MSG} ELSE @ \ {SYS_EVENT_MSG}]
  BY DEF osal_msg_receive
<1> DEFINE m == osal_qHead[i]
<1>2. i \in DOMAIN osal_qHead /\ m \in Msgs /\ m \in Queued /\ m \in allocated
  BY QueuedDest DEF QueuedFor, Queued, BufferConservation
<1>3. /\ osal_qHead' \in Seq(Msgs)
      /\ Len(osal_qHead') = Len(osal_qHead) - 1
      /\ \A k \in DOMAIN osal_qHead' :
           osal_qHead'[k] = osal_qHead[IF k < i THEN k ELSE k + 1]
  BY <1>1, <1>2, ExtractFacts DEF TypeOK
<1>4. /\ Len(osal_qHead) \in Nat /\ i \in 1 .. Len(osal_qHead)
      /\ DOMAIN osal_qHead = 1 .. Len(osal_qHead)
      /\ DOMAIN osal_qHead' = 1 .. Len(osal_qHead) - 1
  BY <1>2, <1>3, LenProperties DEF TypeOK
<1>5. /\ pc = "messages" /\ unsignalled = TASK_NO_TASK /\ held = {}
      /\ UNCHANGED <<allocated, pc, idx, events, serving, unsignalled, ops>>
  BY DEF osal_msg_receive
<1>6. \A k \in DOMAIN osal_qHead' :
        LET j == IF k < i THEN k ELSE k + 1
        IN  j \in DOMAIN osal_qHead /\ j /= i /\ osal_qHead'[k] = osal_qHead[j]
  BY <1>3, <1>4
<1>7. \A j \in DOMAIN osal_qHead : j /= i =>
        \E k \in DOMAIN osal_qHead' : osal_qHead'[k] = osal_qHead[j]
  <2> SUFFICES ASSUME NEW j \in DOMAIN osal_qHead, j /= i
               PROVE  \E k \in DOMAIN osal_qHead' : osal_qHead'[k] = osal_qHead[j]
    OBVIOUS
  <2>1. CASE j < i
    BY <1>3, <1>4, <2>1
  <2>2. CASE ~ (j < i)
    <3>1. j - 1 \in DOMAIN osal_qHead' /\ ~ (j - 1 < i) /\ (j - 1) + 1 = j
      BY <1>4, <2>2
    <3> QED
      BY <1>3, <3>1
  <2> QED
    BY <2>1, <2>2
<1>8. \A j \in DOMAIN osal_qHead : j /= i => osal_qHead[j] /= m
  BY <1>2 DEF BufferConservation, QueuedOnce
<1>9. Queued' = Queued \ {m}
  <2>1. \A x \in Queued' : x \in Queued /\ x /= m
    BY <1>6, <1>8 DEF Queued
  <2>2. \A x \in Queued \ {m} : x \in Queued'
    BY <1>7 DEF Queued
  <2> QED
    BY <2>1, <2>2
<1>10. TypeOK'
  BY <1>1, <1>2, <1>3, <1>5 DEF TypeOK, AllEvents
<1>11. NoLostWakeup'
  <2> SUFFICES ASSUME NEW k \in DOMAIN osal_qHead'
               PROVE  WakeupPending(dest_id[osal_qHead[k]])'
    BY DEF NoLostWakeup
  <2>1. PICK j \in DOMAIN osal_qHead : j /= i /\ osal_qHead'[k] = osal_qHead[j]
    BY <1>6
  <2>2. dest_id'[osal_qHead'[k]] = dest_id[osal_qHead[j]]
    BY <1>1, <1>2, <1>8, <2>1, QueuedDest DEF TypeOK
  <2>3. dest_id[osal_qHead[j]] \in Tasks /\ WakeupPending(dest_id[osal_qHead[j]])
    BY QueuedDest DEF NoLostWakeup
  <2>4. CASE dest_id[osal_qHead[j]] = idx
    BY <1>5, <2>2, <2>4 DEF WakeupPending
  <2>5. CASE dest_id[osal_qHead[j]] /= idx
    BY <1>1, <1>5, <2>2, <2>3, <2>5 DEF WakeupPending, TypeOK
  <2> QED
    BY <2>4, <2>5
<1>12. BufferConservation'
  <2>1. QueuedOnce'
    <3> SUFFICES ASSUME NEW k1 \in DOMAIN osal_qHead', NEW k2 \in DOMAIN osal_qHead',
                        osal_qHead'[k1] = osal_qHead'[k2]
                 PROVE  k1 = k2
      BY DEF QueuedOnce
    <3> DEFINE j1 == IF k1 < i THEN k1 ELSE k1 + 1
               j2 == IF k2 < i THEN k2 ELSE k2 + 1
    <3>1. j1 \in DOMAIN osal_qHead /\ j2 \in DOMAIN osal_qHead
          /\ osal_qHead[j1] = osal_qHead[j2]
      BY <1>6
    <3>2. j1 = j2
      BY <3>1 DEF BufferConservation, QueuedOnce
    <3> QED
      BY <1>4, <3>2
  <2>2. Queued' \intersect held' = {} /\ allocated' = Queued' \union held'
    BY <1>1, <1>2, <1>5, <1>9 DEF BufferConservation
  <2>3. \A x \in allocated' : x \in Queued' <=> dest_id'[x] \in Tasks
    BY <1>1, <1>2, <1>5, <1>9, TasksFacts DEF BufferConservation, TypeOK
  <2> QED
    BY <2>1, <2>2, <2>3 DEF BufferConservation
<1>13. StrictPriority' /\ Signalling'
  BY <1>5 DEF StrictPriority, Signalling
<1> QED
  BY <1>10, <1>11, <1>12, <1>13

-----------------------------------------------------------------------------
(* IInv is an invariant of the kernel.                                     *)
THEOREM KernelInvariant == Spec => []IInv
<1>1. Init => IInv
  BY InitIInv
<1>2. IInv /\ [Next]_vars => IInv'
  <2> SUFFICES ASSUME IInv, [Next]_vars PROVE IInv'
    OBVIOUS
  <2>1. CASE UNCHANGED vars
    BY <2>1 DEF IInv, TypeOK, NoLostWakeup, WakeupPending, BufferConservation, QueuedOnce,
                Queued, StrictPriority, Signalling, vars, kernel, local
  <2>2. CASE Calls
    BY <2>2, AllocateStep, DeallocateStep, SendInvalidTaskStep, SendEnqueueStep,
       SendSignalStep, SetEventStep DEF Calls
  <2>3. CASE Loop
    BY <2>3, BeginScanStep, ScanStep, TakeStep, DispatchStep, ReceiveStep,
       ReceiveNullStep, EndServeStep, ReturnStep DEF Loop
  <2>4. CASE \E t \in IsrTasks, f \in Flags : Isr(t, f)
    BY <2>4, IsrStep
  <2> QED
    BY <2>1, <2>2, <2>3, <2>4 DEF Next, Background
<1> QED
  BY <1>1, <1>2, PTL DEF Spec

(* A queued message always has a wake-up on its way, for any number of     *)
(* tasks and buffers and any interleaving of interrupts.                   *)
THEOREM NoWakeupIsLost == Spec => []NoLostWakeup
BY KernelInvariant, PTL DEF IInv

(* No buffer is leaked, queued twice, or queued while the code holds it.   *)
THEOREM BuffersAreConserved == Spec => []BufferConservation
BY KernelInvariant, PTL DEF IInv

(* A task the loop has passed over has only events an interrupt set since. *)
THEOREM PriorityIsStrict == Spec => []StrictPriority
BY KernelInvariant, PTL DEF IInv

(* Every variable keeps its type.                                          *)
THEOREM KernelTypes == Spec => []TypeOK
BY KernelInvariant, PTL DEF IInv

-----------------------------------------------------------------------------
(* The kernel implements OsalPromise.                                      *)

(* The loop holds a copy of an event word only from Take to Return, and a  *)
(* branch of a processor runs only after Dispatch.                         *)
BetweenRuns ==
  /\ pc \in {"poll", "scan", "take"} => events = {}
  /\ pc \in {"poll", "scan", "take", "dispatch", "messages"} => serving = {}

LEMMA BetweenRunsInvariant == Spec => []BetweenRuns
<1>1. Init => BetweenRuns
  BY DEF Init, BetweenRuns
<1>2. BetweenRuns /\ [Next]_vars => BetweenRuns'
  BY DEF BetweenRuns, Next, Background, Calls, Loop, vars, kernel, local, osal_msg_allocate,
     osal_msg_deallocate, SendInvalidTask, SendEnqueue, SendSignal, osal_set_event, BeginScan,
     Scan, Take, Dispatch, osal_msg_receive, ReceiveNull, EndServe, Return, Isr
<1> QED
  BY <1>1, <1>2, PTL DEF Spec

LEMMA MailboxesKept ==
  ASSUME UNCHANGED osal_qHead,
         \A i \in DOMAIN osal_qHead : dest_id'[osal_qHead[i]] = dest_id[osal_qHead[i]]
  PROVE  UNCHANGED <<Mbox, Older>>
<1>1. \A t \in Tasks : QueuedFor(t)' = QueuedFor(t)
  BY DEF QueuedFor
<1>2. Mbox' = Mbox
  BY <1>1 DEF Mbox
<1>3. Older' = Older
  BY <1>1 DEF Older
<1> QED
  BY <1>2, <1>3

(* Steps that change nothing of the event words but SYS_EVENT_MSG.         *)
LEMMA FlagsKept ==
  ASSUME \A t \in Tasks : tasksEvents'[t] \ {SYS_EVENT_MSG} = tasksEvents[t] \ {SYS_EVENT_MSG},
         UNCHANGED <<idx, events, serving>>,
         (pc \in {"poll", "scan", "take"}) = (pc' \in {"poll", "scan", "take"}),
         TypeOK, pc' \in {"poll", "scan", "take", "dispatch", "messages", "serve", "return"}
  PROVE  UNCHANGED Promise!flags
<1>1. Waiting' = Waiting
  BY DEF Waiting
<1>2. Runner' = Runner
  BY DEF Runner, TypeOK
<1>3. Given' = Given
  BY DEF Given
<1> QED
  BY <1>1, <1>2, <1>3 DEF Promise!flags

LEMMA SendImplements ==
  ASSUME IInv, NEW m \in Msgs, NEW t \in Tasks, SendEnqueue(m, t)
  PROVE  Promise!Send(m, t)
<1> USE DEF IInv
<1> DEFINE q == osal_qHead
           n == Len(osal_qHead)
<1>1. /\ m \notin Queued /\ q' = Append(q, m) /\ dest_id' = [dest_id EXCEPT ![m] = t]
      /\ m \in held /\ held' = held \ {m}
      /\ UNCHANGED <<tasksEvents, pc, idx, events, serving>>
  BY DEF SendEnqueue, BufferConservation
<1>2. /\ q \in Seq(Msgs) /\ n \in Nat /\ DOMAIN q = 1 .. n /\ DOMAIN q' = 1 .. n + 1
      /\ q'[n + 1] = m /\ \A i \in 1 .. n : q'[i] = q[i] /\ q[i] \in Msgs /\ q[i] /= m
  <2>1. q \in Seq(Msgs) /\ n \in Nat /\ DOMAIN q = 1 .. n
    BY LenProperties DEF TypeOK
  <2>2. \A i \in 1 .. n : q[i] /= m
    BY <1>1, <2>1 DEF Queued
  <2>3. /\ q' \in Seq(Msgs) /\ Len(q') = n + 1 /\ q'[n + 1] = m
        /\ \A i \in 1 .. n : q'[i] = q[i]
    BY <1>1, <2>1, AppendProperties
  <2> QED
    BY <2>1, <2>2, <2>3
<1> HIDE DEF n
<1>3. /\ dest_id'[m] = t
      /\ \A i \in 1 .. n : dest_id'[q[i]] = dest_id[q[i]]
  BY <1>1, <1>2 DEF TypeOK
<1>4. \A u \in Tasks : QueuedFor(u) \subseteq 1 .. n
  BY <1>2 DEF QueuedFor
<1>5. ASSUME NEW u \in Tasks
      PROVE  QueuedFor(u)' = IF u = t THEN QueuedFor(u) \union {n + 1} ELSE QueuedFor(u)
  BY <1>2, <1>3 DEF QueuedFor
<1>6. Mbox' = [Mbox EXCEPT ![t] = @ \union {m}]
  <2>1. ASSUME NEW u \in Tasks
        PROVE  Mbox'[u] = IF u = t THEN Mbox[u] \union {m} ELSE Mbox[u]
    <3>1. \A i \in QueuedFor(u) : q'[i] = q[i]
      BY <1>2, <1>4
    <3> QED
      BY <1>2, <1>5, <3>1 DEF Mbox
  <2> QED
    BY <2>1 DEF Mbox
<1>7. Older' = Older \union (Mbox[t] \X {m})
  <2>1. ASSUME NEW p \in Older' PROVE p \in Older \union (Mbox[t] \X {m})
    <3>1. PICK u \in Tasks : \E i, j \in QueuedFor(u)' : i < j /\ p = <<q'[i], q'[j]>>
      BY DEF Older
    <3>2. PICK i \in QueuedFor(u)', j \in QueuedFor(u)' : i < j /\ p = <<q'[i], q'[j]>>
      BY <3>1
    <3>3. i \in QueuedFor(u) /\ q'[i] = q[i]
      BY <1>2, <1>4, <1>5, <3>2
    <3>4. CASE j \in QueuedFor(u)
      BY <1>2, <1>4, <3>2, <3>3, <3>4 DEF Older
    <3>5. CASE u = t /\ j = n + 1
      <4>1. p = <<q[i], m>> /\ q[i] \in Mbox[t]
        BY <1>2, <3>2, <3>3, <3>5 DEF Mbox
      <4> QED
        BY <4>1
    <3> QED
      BY <1>5, <3>2, <3>4, <3>5
  <2>2. ASSUME NEW p \in Older PROVE p \in Older'
    <3>1. PICK u \in Tasks : \E i, j \in QueuedFor(u) : i < j /\ p = <<q[i], q[j]>>
      BY DEF Older
    <3>2. PICK i \in QueuedFor(u), j \in QueuedFor(u) : i < j /\ p = <<q[i], q[j]>>
      BY <3>1
    <3>3. i \in QueuedFor(u)' /\ j \in QueuedFor(u)' /\ p = <<q'[i], q'[j]>> /\ p \in Msgs \X Msgs
      BY <1>2, <1>4, <1>5, <3>2
    <3> QED
      BY <3>2, <3>3 DEF Older
  <2>3. ASSUME NEW p \in Mbox[t] \X {m} PROVE p \in Older'
    <3>1. PICK i \in QueuedFor(t) : p = <<q[i], m>>
      BY DEF Mbox
    <3>2. /\ i \in QueuedFor(t)' /\ n + 1 \in QueuedFor(t)' /\ i < n + 1
          /\ p = <<q'[i], q'[n + 1]>> /\ p \in Msgs \X Msgs
      BY <1>2, <1>4, <1>5, <3>1
    <3> QED
      BY <3>2 DEF Older
  <2> QED
    BY <2>1, <2>2, <2>3
<1>8. UNCHANGED Promise!flags
  BY <1>1, FlagsKept DEF TypeOK
<1> QED
  BY <1>1, <1>6, <1>7, <1>8 DEF Promise!Send

LEMMA ReceiveImplements ==
  ASSUME IInv, osal_msg_receive
  PROVE  \E m \in Msgs : Promise!Receive(m)
<1> USE DEF IInv
<1> DEFINE q == osal_qHead
           n == Len(osal_qHead)
<1>1. PICK i \in QueuedFor(idx) :
        /\ \A j \in QueuedFor(idx) : i <= j
        /\ held' = {osal_qHead[i]}
        /\ dest_id' = [dest_id EXCEPT ![osal_qHead[i]] = TASK_NO_TASK]
        /\ osal_qHead' = osal_msg_extract(i)
        /\ tasksEvents' = [tasksEvents EXCEPT ![idx] =
             IF \E j \in QueuedFor(idx) : j /= i
             THEN @ \union {SYS_EVENT_MSG} ELSE @ \ {SYS_EVENT_MSG}]
  BY DEF osal_msg_receive
<1> DEFINE m == q[i]
           Moved(k) == IF k < i THEN k ELSE k + 1
<1>2. i \in DOMAIN q /\ m \in Msgs /\ dest_id[m] = idx /\ idx \in Tasks
  BY QueuedDest DEF QueuedFor, TypeOK
<1>3. /\ q \in Seq(Msgs) /\ n \in Nat /\ DOMAIN q = 1 .. n /\ i \in 1 .. n
      /\ DOMAIN q' = 1 .. n - 1
      /\ \A k \in 1 .. n - 1 : Moved(k) \in 1 .. n /\ Moved(k) /= i /\ q'[k] = q[Moved(k)]
  <2>1. q \in Seq(Msgs) /\ n \in Nat /\ DOMAIN q = 1 .. n /\ i \in 1 .. n
    BY <1>2, LenProperties DEF TypeOK
  <2>2. /\ q' \in Seq(Msgs) /\ Len(q') = n - 1
        /\ \A k \in DOMAIN q' : q'[k] = q[IF k < i THEN k ELSE k + 1]
    BY <1>1, <1>2, ExtractFacts DEF TypeOK
  <2>3. DOMAIN q' = 1 .. n - 1
    BY <2>1, <2>2, LenProperties
  <2>4. \A k \in 1 .. n - 1 : q'[k] = q[Moved(k)]
    BY <2>2, <2>3
  <2> HIDE DEF n
  <2>5. \A k \in 1 .. n - 1 : Moved(k) \in 1 .. n /\ Moved(k) /= i
    BY <2>1
  <2> HIDE DEF Moved
  <2> QED
    BY <2>1, <2>3, <2>4, <2>5
<1>4. \A j \in 1 .. n : q[j] \in Msgs /\ (j /= i => q[j] /= m)
  BY <1>3 DEF BufferConservation, QueuedOnce
<1> HIDE DEF n, m
<1>5. \A j \in 1 .. n : j /= i => dest_id'[q[j]] = dest_id[q[j]]
  BY <1>1, <1>4 DEF TypeOK, m
<1>6. \A u \in Tasks : QueuedFor(u) \subseteq 1 .. n /\ QueuedFor(u)' \subseteq 1 .. n - 1
  BY <1>3 DEF QueuedFor
<1>7. ASSUME NEW u \in Tasks, NEW k \in 1 .. n - 1
      PROVE  k \in QueuedFor(u)' <=> Moved(k) \in QueuedFor(u)
  <2>1. dest_id'[q'[k]] = dest_id[q[Moved(k)]]
    BY <1>3, <1>5
  <2> QED
    BY <1>3, <2>1 DEF QueuedFor
<1>8. ASSUME NEW j \in 1 .. n, j /= i PROVE \E k \in 1 .. n - 1 : Moved(k) = j
  <2>1. CASE j < i
    <3>1. j \in 1 .. n - 1 /\ Moved(j) = j
      BY <1>3, <2>1
    <3> QED
      BY <3>1
  <2>2. CASE j > i
    <3>1. j - 1 \in 1 .. n - 1 /\ Moved(j - 1) = j
      BY <1>3, <2>2
    <3> QED
      BY <3>1
  <2> QED
    BY <1>3, <1>8, <2>1, <2>2
<1>9. \A k, l \in 1 .. n - 1 : k < l <=> Moved(k) < Moved(l)
  BY <1>3
<1> HIDE DEF Moved
<1>10. \A u \in Tasks : i \in QueuedFor(u) <=> u = idx
  BY <1>2, <1>3 DEF QueuedFor, m
<1>11. Mbox' = [Mbox EXCEPT ![idx] = @ \ {m}]
  <2>1. ASSUME NEW u \in Tasks PROVE Mbox'[u] = Mbox[u] \ {m}
    <3>1. ASSUME NEW x \in Mbox'[u] PROVE x \in Mbox[u] \ {m}
      <4>1. PICK k \in QueuedFor(u)' : x = q'[k]
        BY DEF Mbox
      <4>2. Moved(k) \in QueuedFor(u) /\ x = q[Moved(k)] /\ x /= m
        BY <1>3, <1>4, <1>6, <1>7, <4>1
      <4> QED
        BY <4>2 DEF Mbox
    <3>2. ASSUME NEW x \in Mbox[u] \ {m} PROVE x \in Mbox'[u]
      <4>1. PICK j \in QueuedFor(u) : x = q[j]
        BY DEF Mbox
      <4>2. j \in 1 .. n /\ j /= i
        BY <1>6, <4>1 DEF m
      <4>3. PICK k \in 1 .. n - 1 : Moved(k) = j
        BY <1>8, <4>2
      <4>4. k \in QueuedFor(u)' /\ q'[k] = x
        BY <1>3, <1>7, <4>1, <4>3
      <4> QED
        BY <4>4 DEF Mbox
    <3> QED
      BY <3>1, <3>2
  <2>2. ASSUME NEW u \in Tasks, u /= idx PROVE m \notin Mbox[u]
    <3>1. \A j \in QueuedFor(u) : q[j] /= m
      BY <1>4, <1>6, <1>10, <2>2
    <3> QED
      BY <3>1 DEF Mbox
  <2> QED
    BY <2>1, <2>2 DEF Mbox
<1>12. m \in Mbox[idx]
  BY <1>2 DEF Mbox, m
<1>13. ASSUME NEW x PROVE <<x, m>> \notin Older
  <2> SUFFICES ASSUME <<x, m>> \in Older PROVE FALSE
    OBVIOUS
  <2>1. PICK u \in Tasks : \E k, j \in QueuedFor(u) : k < j /\ <<x, m>> = <<q[k], q[j]>>
    BY DEF Older
  <2>2. PICK k \in QueuedFor(u), j \in QueuedFor(u) : k < j /\ <<x, m>> = <<q[k], q[j]>>
    BY <2>1
  <2>3. q[j] = m /\ j \in 1 .. n /\ k \in 1 .. n
    BY <1>6, <2>2
  <2>4. j = i
    BY <1>4, <2>3
  <2>5. u = idx
    BY <1>10, <2>4
  <2>6. i <= k
    BY <1>1, <2>5
  <2> QED
    BY <1>3, <2>2, <2>3, <2>4, <2>6
<1>14. Older' = Older \ ({m} \X Msgs)
  <2>1. ASSUME NEW p \in Older' PROVE p \in Older /\ p \notin {m} \X Msgs
    <3>1. PICK u \in Tasks : \E k, l \in QueuedFor(u)' : k < l /\ p = <<q'[k], q'[l]>>
      BY DEF Older
    <3>2. PICK k \in QueuedFor(u)', l \in QueuedFor(u)' : k < l /\ p = <<q'[k], q'[l]>>
      BY <3>1
    <3>3. k \in 1 .. n - 1 /\ l \in 1 .. n - 1
      BY <1>6, <3>2
    <3>4. /\ Moved(k) \in QueuedFor(u) /\ Moved(l) \in QueuedFor(u) /\ Moved(k) < Moved(l)
          /\ p = <<q[Moved(k)], q[Moved(l)]>> /\ q[Moved(k)] /= m /\ p \in Msgs \X Msgs
      BY <1>3, <1>4, <1>7, <1>9, <3>2, <3>3
    <3>5. p \in Older
      BY <3>4 DEF Older
    <3> QED
      BY <3>4, <3>5
  <2>2. ASSUME NEW p \in Older, p \notin {m} \X Msgs PROVE p \in Older'
    <3>1. PICK u \in Tasks : \E k, l \in QueuedFor(u) : k < l /\ p = <<q[k], q[l]>>
      BY DEF Older
    <3>2. PICK k \in QueuedFor(u), l \in QueuedFor(u) : k < l /\ p = <<q[k], q[l]>>
      BY <3>1
    <3>3. k \in 1 .. n /\ l \in 1 .. n /\ p \in Msgs \X Msgs
      BY <1>6, <3>2 DEF Older
    <3>4. k /= i
      BY <2>2, <3>2, <3>3 DEF m
    <3>5. l /= i
      BY <1>13, <3>2 DEF m
    <3>6. PICK a \in 1 .. n - 1 : Moved(a) = k
      BY <1>8, <3>3, <3>4
    <3>7. PICK b \in 1 .. n - 1 : Moved(b) = l
      BY <1>8, <3>3, <3>5
    <3>8. a < b /\ a \in QueuedFor(u)' /\ b \in QueuedFor(u)' /\ p = <<q'[a], q'[b]>>
      BY <1>3, <1>7, <1>9, <3>2, <3>6, <3>7
    <3> QED
      BY <3>3, <3>8 DEF Older
  <2> QED
    BY <2>1, <2>2
<1>15. UNCHANGED Promise!flags
  <2>1. UNCHANGED <<pc, idx, events, serving>>
    BY DEF osal_msg_receive
  <2>2. \A t \in Tasks : tasksEvents'[t] \ {SYS_EVENT_MSG} = tasksEvents[t] \ {SYS_EVENT_MSG}
    BY <1>1 DEF TypeOK
  <2> QED
    BY <2>1, <2>2, FlagsKept DEF TypeOK
<1>16. held' = held \union {m} /\ Runner = idx
  BY <1>1 DEF osal_msg_receive, Runner, m
<1>17. Promise!Receive(m)
  BY <1>2, <1>11, <1>12, <1>13, <1>14, <1>15, <1>16 DEF Promise!Receive
<1> QED
  BY <1>2, <1>17

(* A buffer allocated, or given back out of the hands of the code.         *)
LEMMA AllocateImplements ==
  ASSUME IInv, NEW m \in Msgs, osal_msg_allocate(m) PROVE Promise!New(m)
<1>1. m \notin Queued /\ m \notin held /\ held' = held \union {m}
  BY DEF osal_msg_allocate, IInv, BufferConservation
<1>2. \A t \in Tasks : m \notin Mbox[t]
  BY <1>1 DEF Mbox, QueuedFor, Queued
<1>3. UNCHANGED <<Mbox, Older>>
  BY <1>1, MailboxesKept DEF osal_msg_allocate, IInv, TypeOK, Queued
<1>4. UNCHANGED Promise!flags
  BY FlagsKept DEF osal_msg_allocate, IInv, TypeOK
<1> QED
  BY <1>1, <1>2, <1>3, <1>4 DEF Promise!New

LEMMA GiveBackImplements ==
  ASSUME IInv, NEW m \in Msgs, osal_msg_deallocate(m) \/ SendInvalidTask(m)
  PROVE  Promise!Free(m)
<1>1. m \in held /\ held' = held \ {m}
  BY TasksFacts DEF osal_msg_deallocate, SendInvalidTask, IInv, BufferConservation
<1>2. UNCHANGED <<tasksEvents, osal_qHead, dest_id, pc, idx, events, serving>>
  BY DEF osal_msg_deallocate, SendInvalidTask
<1>3. UNCHANGED <<Mbox, Older>>
  BY <1>2, MailboxesKept
<1>4. UNCHANGED Promise!flags
  BY <1>2, FlagsKept DEF IInv, TypeOK
<1> QED
  BY <1>1, <1>3, <1>4 DEF Promise!Free

(* A step that sets a flag of a task, in its event word.                   *)
LEMMA RaiseImplements ==
  ASSUME IInv, NEW t \in Tasks, NEW f \in Flags,
         tasksEvents' = [tasksEvents EXCEPT ![t] = @ \union {f}],
         UNCHANGED <<osal_qHead, dest_id, pc, idx, events, serving, held>>
  PROVE  Promise!Raise(t, f)
<1>1. f /= SYS_EVENT_MSG
  BY ConstantsAssumption
<1>2. Waiting' = [Waiting EXCEPT ![t] = @ \union {f}]
  BY <1>1 DEF Waiting, IInv, TypeOK
<1>3. UNCHANGED <<Mbox, Older>>
  BY MailboxesKept
<1>4. UNCHANGED <<Runner, Given>>
  BY DEF Runner, Given
<1> QED
  BY <1>2, <1>3, <1>4 DEF Promise!Raise, Promise!mail

-----------------------------------------------------------------------------
(* The run of a processor: it begins with all the flags of its task,       *)
(* serves one or discards them, and ends with the put-back.                *)
LEMMA TakeImplements ==
  ASSUME IInv, BetweenRuns, Take PROVE Promise!Begin(idx)
<1>1. UNCHANGED <<Mbox, Older, held, serving>>
  BY MailboxesKept DEF Take
<1>2. Runner = TASK_NO_TASK /\ Runner' = idx
  BY DEF Take, Runner
<1>3. Given' = Waiting[idx] /\ Waiting' = [Waiting EXCEPT ![idx] = {}]
  BY DEF Take, Given, Waiting, IInv, TypeOK
<1> QED
  BY <1>1, <1>2, <1>3 DEF Promise!Begin, Promise!mail

LEMMA DispatchImplements ==
  ASSUME IInv, BetweenRuns, Dispatch
  PROVE  Promise!Next \/ UNCHANGED <<Promise!mail, Promise!flags>>
<1>1. /\ UNCHANGED <<tasksEvents, osal_qHead, dest_id, idx, held>> /\ idx \in Tasks
      /\ events \subseteq AllEvents /\ pc = "dispatch" /\ serving = {}
      /\ pc' \in {"messages", "serve", "return"}
  BY DEF Dispatch, kernel, IInv, TypeOK, BetweenRuns
<1>2. UNCHANGED Promise!mail
  BY <1>1, MailboxesKept DEF Promise!mail
<1>3. UNCHANGED Waiting /\ UNCHANGED Runner /\ Runner = idx
  BY <1>1 DEF Waiting, Runner
<1>4. CASE UNCHANGED <<events, serving>>
  BY <1>2, <1>3, <1>4 DEF Promise!flags, Given
<1>5. ASSUME SYS_EVENT_MSG \notin events,
             NEW f \in events, serving' = {f}, events' = events \ {f}
      PROVE  Promise!Next
  <2>1. f \in Flags /\ f \in Given /\ Given' = Given \ {f}
    BY <1>1, <1>5 DEF AllEvents, Given
  <2>2. Promise!Serve(f)
    BY <1>1, <1>2, <1>3, <1>5, <2>1 DEF Promise!Serve
  <2> QED
    BY <2>1, <2>2 DEF Promise!Next
<1>6. CASE idx \in DiscardingTasks /\ events' = {} /\ serving' = serving
  <2>1. Given' = {}
    BY <1>6 DEF Given
  <2> QED
    BY <1>2, <1>3, <1>6, <2>1 DEF Promise!Discard, Promise!Next
<1> QED
  BY <1>4, <1>5, <1>6 DEF Dispatch

LEMMA ReturnImplements ==
  ASSUME IInv, Return PROVE Promise!End
<1>1. UNCHANGED Promise!mail
  BY MailboxesKept DEF Return, Promise!mail
<1>2. Runner = idx /\ idx \in Tasks /\ Runner' = TASK_NO_TASK
  BY DEF Return, Runner, IInv, TypeOK
<1>3. Given' = {} /\ serving' = {} /\ Waiting' = [Waiting EXCEPT ![idx] = @ \union Given]
  BY DEF Return, Given, Waiting, IInv, TypeOK
<1> QED
  BY <1>1, <1>2, <1>3 DEF Promise!End

(* The other steps change neither a mailbox nor a flag.                    *)
LEMMA OthersStutter ==
  ASSUME IInv, BetweenRuns,
         \/ UNCHANGED vars \/ SendSignal \/ BeginScan \/ Scan \/ ReceiveNull \/ EndServe
  PROVE  UNCHANGED <<Promise!mail, Promise!flags>>
<1>1. UNCHANGED <<osal_qHead, dest_id, held, serving>>
  BY DEF vars, kernel, local, SendSignal, BeginScan, Scan, ReceiveNull, EndServe
<1>2. UNCHANGED Promise!mail
  BY <1>1, MailboxesKept DEF Promise!mail
<1>3. UNCHANGED Runner
  BY DEF Runner, vars, local, SendSignal, BeginScan, Scan, ReceiveNull, EndServe
<1>4. UNCHANGED Given
  BY DEF Given, vars, local, SendSignal, BeginScan, Scan, ReceiveNull, EndServe
<1>5. UNCHANGED Waiting
  <2>1. CASE SendSignal
    <3>1. unsignalled \in Tasks
      BY <2>1 DEF SendSignal, IInv, TypeOK
    <3> QED
      BY <2>1, <3>1 DEF SendSignal, Waiting, IInv, TypeOK
  <2>2. CASE ReceiveNull
    BY <2>2 DEF ReceiveNull, Waiting, IInv, TypeOK
  <2>3. CASE UNCHANGED tasksEvents
    BY <2>3 DEF Waiting
  <2> QED
    BY <2>1, <2>2, <2>3 DEF vars, kernel, BeginScan, Scan, EndServe
<1> QED
  BY <1>1, <1>2, <1>3, <1>4, <1>5 DEF Promise!flags

(* The kernel implements OsalPromise, for any number of tasks, messages    *)
(* and flags: a message goes from its mailbox into the hands of the run of *)
(* its task, oldest first, and a flag goes only when its branch is served, *)
(* or discarded by a task that discards.                                   *)
THEOREM KernelImplementsPromise == Spec => ImplementsPromise
<1>1. Init => Promise!Init
  <2> SUFFICES ASSUME Init PROVE Promise!Init
    OBVIOUS
  <2>1. DOMAIN osal_qHead = {}
    BY DEF Init
  <2>2. \A t \in Tasks : QueuedFor(t) = {}
    BY <2>1 DEF QueuedFor
  <2>3. Mbox = [t \in Tasks |-> {}] /\ Older = {} /\ held = {}
    BY <2>2 DEF Mbox, Older, Init
  <2>4. Waiting = [t \in Tasks |-> {}] /\ Runner = TASK_NO_TASK /\ Given = {} /\ serving = {}
    BY DEF Init, Waiting, Runner, Given
  <2> QED
    BY <2>3, <2>4 DEF Promise!Init
<1>2. IInv /\ BetweenRuns /\ [Next]_vars => [Promise!Next]_<<Promise!mail, Promise!flags>>
  <2> SUFFICES ASSUME IInv, BetweenRuns, [Next]_vars
               PROVE  Promise!Next \/ UNCHANGED <<Promise!mail, Promise!flags>>
    OBVIOUS
  <2>0. idx \in Tasks
    BY DEF IInv, TypeOK
  <2>1. ASSUME NEW m \in Msgs, NEW t \in Tasks, SendEnqueue(m, t) PROVE Promise!Next
    BY <2>1, SendImplements DEF Promise!Next
  <2>2. ASSUME NEW m \in Msgs, osal_msg_allocate(m) PROVE Promise!Next
    BY <2>2, AllocateImplements DEF Promise!Next
  <2>3. ASSUME NEW m \in Msgs, osal_msg_deallocate(m) \/ SendInvalidTask(m)
        PROVE  Promise!Next
    BY <2>3, GiveBackImplements DEF Promise!Next
  <2>4. CASE osal_msg_receive
    BY <2>4, ReceiveImplements DEF Promise!Next
  <2>5. ASSUME NEW t \in Tasks, NEW f \in Flags, osal_set_event(t, f) PROVE Promise!Next
    BY <2>5, RaiseImplements DEF osal_set_event, Promise!Next
  <2>6. ASSUME NEW t \in IsrTasks, NEW f \in Flags, Isr(t, f) PROVE Promise!Next
    <3>1. t \in Tasks
      BY ConstantsAssumption
    <3> QED
      BY <2>6, <3>1, RaiseImplements DEF Isr, local, Promise!Next
  <2>7. CASE Take
    BY <2>0, <2>7, TakeImplements DEF Promise!Next
  <2>8. CASE Dispatch
    BY <2>8, DispatchImplements
  <2>9. CASE Return
    BY <2>9, ReturnImplements DEF Promise!Next
  <2>10. CASE UNCHANGED vars \/ SendSignal \/ BeginScan \/ Scan \/ ReceiveNull \/ EndServe
    BY <2>10, OthersStutter
  <2> QED
    BY <2>1, <2>2, <2>3, <2>4, <2>5, <2>6, <2>7, <2>8, <2>9, <2>10
       DEF Next, Background, Calls, Loop
<1> QED
  BY <1>1, <1>2, KernelInvariant, BetweenRunsInvariant, PTL
     DEF Spec, ImplementsPromise, Promise!Spec
=============================================================================
