--------------------------- MODULE OsalTimersProofs ---------------------------
(***************************************************************************)
(* Proofs about OsalTimers, for any keys, timeouts, updates and room, and  *)
(* for interrupts that start timers anywhere in the update.                *)
(*                                                                         *)
(* The argument: a live record the walk has passed, or any live record     *)
(* outside an update, is in step: its timeout is at most what the clock    *)
(* still owes it, the same if no interrupt started it, and it has run only *)
(* if some of it is left.  A record the walk has still to reach will be in *)
(* step once the time of the update is taken off.                          *)
(***************************************************************************)
EXTENDS OsalTimers, SequenceTheorems, TLAPS

InStep(r) ==
  ~ r.deleted =>
    /\ r.timeout <= r.owed
    /\ ~ r.byIsr => r.timeout = r.owed
    /\ r.moved => r.timeout > 0

Behind(r, time) ==
  ~ r.deleted =>
    /\ Minus(r.timeout, time) <= r.owed
    /\ ~ r.byIsr => Minus(r.timeout, time) = r.owed

(* The positions the walk has still to visit.                              *)
Ahead(i) == pc /= "task" /\ srchTimer /= 0 /\ i >= srchTimer

Steps ==
  \A i \in 1 .. Len(timers) :
    IF Ahead(i) THEN Behind(timers[i], updateTime) ELSE InStep(timers[i])

IInv == TypeOK /\ OneTimerPerKey /\ Steps

-----------------------------------------------------------------------------
LEMMA MinusType ==
  ASSUME NEW a \in Nat, NEW b \in Nat
  PROVE  Minus(a, b) \in Nat /\ Minus(a, b) <= a
BY DEF Minus

LEMMA MinusMonotone ==
  ASSUME NEW a \in Nat, NEW b \in Nat, NEW c \in Nat, a <= b
  PROVE  Minus(a, c) <= Minus(b, c)
BY DEF Minus

(* Records with new fields: a stopped one, and one that the clock owes     *)
(* less.                                                                   *)
Stopped(r) == [r EXCEPT !.deleted = TRUE]
Later(r, time) == [r EXCEPT !.owed = Minus(@, time), !.moved = TRUE]

LEMMA StoppedRecord ==
  ASSUME NEW r \in Record
  PROVE  Stopped(r) \in Record /\ Stopped(r).deleted
BY DEF Stopped, Record

LEMMA LaterRecord ==
  ASSUME NEW r \in Record, NEW time \in Nat
  PROVE  LET q == Later(r, time)
         IN /\ q \in Record /\ q.key = r.key /\ q.deleted = r.deleted
            /\ q.timeout = r.timeout /\ q.owed = Minus(r.owed, time) /\ q.byIsr = r.byIsr
            /\ r.owed \in Nat /\ r.timeout \in Nat
<1> DEFINE o == Minus(r.owed, time)
           q == [r EXCEPT !.owed = o, !.moved = TRUE]
<1>1. r.owed \in Nat /\ r.owed <= MaxTimeout /\ r.timeout \in Nat /\ MaxTimeout \in Nat
  BY TimersAssumption DEF Record
<1>2. o \in 0 .. MaxTimeout
  <2>1. o \in Nat /\ o <= r.owed
    BY <1>1, MinusType
  <2> HIDE DEF o
  <2> QED
    BY <1>1, <2>1
<1> HIDE DEF o
<1>3. /\ q \in Record /\ q.key = r.key /\ q.deleted = r.deleted
      /\ q.timeout = r.timeout /\ q.owed = o /\ q.byIsr = r.byIsr
  BY <1>2 DEF Record
<1>4. Later(r, time) = q
  BY DEF Later, o
<1> QED
  BY <1>1, <1>3, <1>4 DEF o

(* A record taken out of the list: what stands where afterwards.           *)
LEMMA WithoutAt ==
  ASSUME timers \in Seq(Record), NEW i \in 1 .. Len(timers)
  PROVE  /\ Without(i) \in Seq(Record) /\ Len(Without(i)) = Len(timers) - 1
         /\ \A j \in 1 .. Len(timers) - 1 :
              Without(i)[j] = IF j < i THEN timers[j] ELSE timers[j + 1]
<1> DEFINE front == SubSeq(timers, 1, i - 1)
           back == SubSeq(timers, i + 1, Len(timers))
<1>0. Len(timers) \in Nat /\ i \in Nat /\ 1 <= i /\ i <= Len(timers)
  OBVIOUS
<1>1. /\ front \in Seq(Record) /\ Len(front) = i - 1
      /\ \A j \in 1 .. i - 1 : front[j] = timers[j]
  BY <1>0
<1>2. /\ back \in Seq(Record) /\ Len(back) = Len(timers) - i
      /\ \A j \in 1 .. Len(timers) - i : back[j] = timers[j + i]
  BY <1>0
<1> HIDE DEF front, back
<1>3. /\ front \o back \in Seq(Record)
      /\ Len(front \o back) = Len(front) + Len(back)
      /\ \A j \in 1 .. Len(front) + Len(back) :
           (front \o back)[j] = IF j <= Len(front) THEN front[j] ELSE back[j - Len(front)]
  BY <1>1, <1>2, ConcatProperties
<1>4. Without(i) = front \o back
  BY DEF Without, front, back
<1>5. ASSUME NEW j \in 1 .. Len(timers) - 1
      PROVE  Without(i)[j] = IF j < i THEN timers[j] ELSE timers[j + 1]
  <2>1. CASE j < i
    BY <1>0, <1>1, <1>2, <1>3, <1>4, <2>1
  <2>2. CASE j >= i
    <3>1. j - (i - 1) \in 1 .. Len(timers) - i
      BY <1>0, <2>2
    <3>2. back[j - (i - 1)] = timers[j - (i - 1) + i]
      BY <3>1, <1>2
    <3>3. j - (i - 1) + i = j + 1
      BY <1>0
    <3> QED
      BY <1>0, <1>1, <1>2, <1>3, <1>4, <2>2, <3>2, <3>3
  <2> QED
    BY <1>0, <2>1, <2>2
<1>6. Len(Without(i)) = Len(timers) - 1
  BY <1>0, <1>1, <1>2, <1>3, <1>4
<1> QED
  BY <1>3, <1>4, <1>5, <1>6

-----------------------------------------------------------------------------
LEMMA InitIInv == Init => IInv
<1> SUFFICES ASSUME Init PROVE IInv
  OBVIOUS
<1>1. timers = <<>> /\ freeTimer = <<>> /\ Len(timers) = 0 /\ Len(freeTimer) = 0
      /\ timers \in Seq(Record) /\ freeTimer \in Seq(Record)
  BY DEF Init
<1>2. TypeOK
  BY <1>1, TimersAssumption DEF Init, TypeOK
<1>3. OneTimerPerKey /\ Steps
  BY <1>1 DEF OneTimerPerKey, Live, Steps
<1> QED
  BY <1>2, <1>3 DEF IInv

(* What a start does to the list.                                          *)
Restarted(r, n, reload, isr) ==
  [r EXCEPT !.timeout = n, !.owed = n, !.moved = FALSE, !.byIsr = isr,
            !.reloadTimeout = IF reload THEN n ELSE @]

Fresh(k, n, reload, isr) ==
  [key |-> k, deleted |-> FALSE, timeout |-> n,
   reloadTimeout |-> IF reload THEN n ELSE 0,
   owed |-> n, moved |-> FALSE, byIsr |-> isr]

LEMMA StartCases ==
  ASSUME NEW k, NEW n, NEW reload, NEW isr, Start(k, n, reload, isr)
  PROVE  /\ UNCHANGED <<raised, pc, updateTime, srchTimer, freeTimer>>
         /\ \/ \E i \in Found(k) :
                 timers' = [timers EXCEPT ![i] = Restarted(timers[i], n, reload, isr)]
            \/ /\ Found(k) = {} /\ Len(timers) + Len(freeTimer) < MaxTimers
               /\ timers' = Append(timers, Fresh(k, n, reload, isr))
<1>1. UNCHANGED <<raised, pc, updateTime, srchTimer, freeTimer>>
  BY Zenon DEF Start
<1>2. CASE \E i \in Found(k) :
             timers' = [timers EXCEPT
               ![i].timeout = n, ![i].owed = n, ![i].moved = FALSE, ![i].byIsr = isr,
               ![i].reloadTimeout = IF reload THEN n ELSE @]
  <2>1. PICK i \in Found(k) :
          timers' = [timers EXCEPT
            ![i].timeout = n, ![i].owed = n, ![i].moved = FALSE, ![i].byIsr = isr,
            ![i].reloadTimeout = IF reload THEN n ELSE @]
    BY <1>2
  <2>2. timers' = [timers EXCEPT ![i] = Restarted(timers[i], n, reload, isr)]
    BY <2>1 DEF Restarted
  <2> QED
    BY <1>1, <2>2
<1>3. CASE /\ Found(k) = {} /\ Len(timers) + Len(freeTimer) < MaxTimers
           /\ timers' = Append(timers, Fresh(k, n, reload, isr))
  BY <1>1, <1>3
<1> QED
  BY <1>2, <1>3, Zenon DEF Start, Fresh

(* A start: a new record, or a known one with a new timeout, is in step    *)
(* wherever the walk is, for the clock owes it all that was asked.         *)
LEMMA StartStep ==
  ASSUME IInv, NEW k \in Keys, NEW n \in 0 .. MaxTimeout, NEW reload \in BOOLEAN,
         NEW isr \in BOOLEAN, pc = "task" \/ isr, Start(k, n, reload, isr)
  PROVE  IInv'
<1>0. /\ timers \in Seq(Record) /\ n \in Nat /\ MaxTimeout \in Nat /\ MaxTimers \in Nat
      /\ updateTime \in Nat /\ Len(timers) \in Nat
      /\ UNCHANGED <<raised, pc, updateTime, srchTimer, freeTimer>>
  <2>1. UNCHANGED <<raised, pc, updateTime, srchTimer, freeTimer>>
    BY StartCases
  <2>2. MaxTimeout \in Nat /\ MaxTimers \in Nat /\ MaxUpdate \in Nat
    BY TimersAssumption
  <2> QED
    BY <2>1, <2>2 DEF IInv, TypeOK
<1>1. Minus(n, updateTime) <= n
  BY <1>0, MinusType
<1>2. ASSUME NEW i \in Found(k),
             timers' = [timers EXCEPT ![i] = Restarted(timers[i], n, reload, isr)]
      PROVE  IInv'
  <2> DEFINE r == timers[i]
             q == Restarted(timers[i], n, reload, isr)
  <2>1. i \in 1 .. Len(timers) /\ r \in Record /\ r.key = k /\ ~ r.deleted
    BY <1>0 DEF Found
  <2>2. timers' = [timers EXCEPT ![i] = q]
    BY <1>2
  <2>3. q \in Record
    BY <1>0, <2>1 DEF Restarted, Record
  <2>4. q.key = k /\ ~ q.deleted /\ q.timeout = n /\ q.owed = n /\ q.moved = FALSE /\ q.byIsr = isr
    BY <2>1 DEF Restarted, Record
  <2> HIDE DEF q
  <2>5. /\ timers' \in Seq(Record) /\ Len(timers') = Len(timers)
        /\ timers'[i] = q /\ \A j \in 1 .. Len(timers) : j /= i => timers'[j] = timers[j]
    BY <1>0, <2>1, <2>2, <2>3
  <2>6. TypeOK'
    BY <1>0, <2>5 DEF IInv, TypeOK
  <2>7. OneTimerPerKey'
    BY <1>0, <2>1, <2>4, <2>5 DEF IInv, OneTimerPerKey, Live
  <2>8. Steps'
    <3> SUFFICES ASSUME NEW j \in 1 .. Len(timers)
                 PROVE  IF Ahead(j) THEN Behind(timers'[j], updateTime) ELSE InStep(timers'[j])
      BY <1>0, <2>5 DEF Steps, Ahead
    <3>1. CASE j = i
      <4>1. InStep(q)
        BY <1>0, <2>4 DEF InStep
      <4>2. pc /= "task" => Behind(q, updateTime)
        BY <1>1, <2>4 DEF Behind
      <4>3. timers'[j] = q
        BY <2>4, <2>5, <3>1
      <4> QED
        BY <1>0, <4>1, <4>2, <4>3 DEF Ahead
    <3>2. CASE j /= i
      BY <1>0, <2>5, <3>2 DEF IInv, Steps, Ahead, Behind, InStep
    <3> QED
      BY <3>1, <3>2
  <2> QED
    BY <2>6, <2>7, <2>8 DEF IInv
<1>3. ASSUME Found(k) = {}, Len(timers) + Len(freeTimer) < MaxTimers,
             timers' = Append(timers, Fresh(k, n, reload, isr))
      PROVE  IInv'
  <2> DEFINE q == Fresh(k, n, reload, isr)
  <2>1. q \in Record
    BY <1>0 DEF Fresh, Record
  <2>2. q.key = k /\ ~ q.deleted /\ q.timeout = n /\ q.owed = n /\ q.moved = FALSE /\ q.byIsr = isr
    BY DEF Fresh
  <2>3. timers' = Append(timers, q)
    BY <1>3
  <2> HIDE DEF q
  <2>4. /\ timers' \in Seq(Record) /\ Len(timers') = Len(timers) + 1
        /\ timers'[Len(timers) + 1] = q /\ \A j \in 1 .. Len(timers) : timers'[j] = timers[j]
    BY <1>0, <2>1, <2>3
  <2>5. Len(freeTimer) \in Nat
    BY DEF IInv, TypeOK
  <2>6. TypeOK'
    BY <1>0, <1>3, <2>4, <2>5 DEF IInv, TypeOK
  <2>7. \A j \in 1 .. Len(timers) : timers[j].key = k => timers[j].deleted
    BY <1>0, <1>3 DEF Found
  <2>8. OneTimerPerKey'
    BY <1>0, <2>2, <2>4, <2>7 DEF IInv, OneTimerPerKey, Live
  <2>9. Steps'
    <3> SUFFICES ASSUME NEW j \in 1 .. Len(timers) + 1
                 PROVE  IF Ahead(j) THEN Behind(timers'[j], updateTime) ELSE InStep(timers'[j])
      BY <1>0, <2>4 DEF Steps, Ahead
    <3>1. CASE j = Len(timers) + 1
      <4>1. InStep(q)
        BY <1>0, <2>2 DEF InStep
      <4>2. pc /= "task" => Behind(q, updateTime)
        BY <1>1, <2>2 DEF Behind
      <4>3. timers'[j] = q
        BY <2>2, <2>4, <3>1
      <4> QED
        BY <1>0, <4>1, <4>2, <4>3 DEF Ahead
    <3>2. CASE j \in 1 .. Len(timers)
      BY <1>0, <2>4, <3>2 DEF IInv, Steps, Ahead, Behind, InStep
    <3> QED
      BY <1>0, <3>1, <3>2
  <2> QED
    BY <2>6, <2>8, <2>9 DEF IInv
<1> QED
  BY <1>2, <1>3, StartCases
LEMMA StopStep ==
  ASSUME IInv, NEW k \in Keys, osal_stop_timerEx(k)
  PROVE  IInv'
<1>1. PICK i \in Found(k) : timers' = [timers EXCEPT ![i] = Stopped(timers[i])]
  BY DEF osal_stop_timerEx, Stopped
<1>2. /\ timers \in Seq(Record) /\ Len(timers) \in Nat /\ pc = "task"
      /\ UNCHANGED <<raised, pc, updateTime, srchTimer, freeTimer>>
  BY DEF osal_stop_timerEx, IInv, TypeOK
<1> DEFINE q == Stopped(timers[i])
<1>3. i \in 1 .. Len(timers) /\ timers[i] \in Record
  BY <1>2 DEF Found
<1>4. q \in Record /\ q.deleted
  BY <1>3, StoppedRecord
<1> HIDE DEF q
<1>5. /\ timers' \in Seq(Record) /\ Len(timers') = Len(timers)
      /\ timers'[i] = q /\ \A j \in 1 .. Len(timers) : j /= i => timers'[j] = timers[j]
  BY <1>1, <1>2, <1>3, <1>4 DEF q
<1>6. TypeOK'
  BY <1>2, <1>5 DEF IInv, TypeOK
<1>7. OneTimerPerKey'
  BY <1>2, <1>3, <1>4, <1>5 DEF IInv, OneTimerPerKey, Live
<1>8. Steps'
  <2> SUFFICES ASSUME NEW j \in 1 .. Len(timers) PROVE InStep(timers'[j])
    BY <1>2, <1>5 DEF Steps, Ahead
  <2>1. CASE j = i
    BY <1>4, <1>5, <2>1 DEF InStep
  <2>2. CASE j /= i
    BY <1>2, <1>5, <2>2 DEF IInv, Steps, Ahead
  <2> QED
    BY <2>1, <2>2
<1> QED
  BY <1>6, <1>7, <1>8 DEF IInv

(* The clock moves on: everybody is behind by the same time.               *)
LEMMA BeginStep ==
  ASSUME IInv, NEW t \in 1 .. MaxUpdate, UpdateBegin(t)
  PROVE  IInv'
<1>1. /\ timers \in Seq(Record) /\ Len(timers) \in Nat /\ pc = "task" /\ timers /= <<>>
      /\ pc' = "walk" /\ updateTime' = t /\ srchTimer' = 1 /\ UNCHANGED <<raised, freeTimer>>
      /\ DOMAIN timers = 1 .. Len(timers)
  <2>1. timers \in Seq(Record)
    BY DEF IInv, TypeOK
  <2>2. Len(timers) \in Nat /\ DOMAIN timers = 1 .. Len(timers)
    BY <2>1, LenProperties
  <2>3. /\ pc = "task" /\ timers /= <<>>
        /\ pc' = "walk" /\ updateTime' = t /\ srchTimer' = 1 /\ UNCHANGED <<raised, freeTimer>>
    BY DEF UpdateBegin
  <2> QED
    BY <2>1, <2>2, <2>3
<1>2. t \in Nat /\ MaxUpdate \in Nat /\ Len(timers) > 0
  <2>1. MaxUpdate \in Nat
    BY TimersAssumption
  <2>2. Len(timers) \in Nat \ {0}
    BY <1>1, EmptySeq
  <2> QED
    BY <2>1, <2>2
<1>3. timers' = [i \in 1 .. Len(timers) |-> Later(timers[i], t)]
  BY <1>1 DEF UpdateBegin, Later
<1>4. ASSUME NEW i \in 1 .. Len(timers)
      PROVE  LET r == timers[i]
                 q == Later(timers[i], t)
             IN /\ q \in Record /\ q.key = r.key /\ q.deleted = r.deleted
                /\ Behind(q, t)
  <2> DEFINE r == timers[i]
             q == Later(timers[i], t)
  <2>1. r \in Record /\ InStep(r)
    BY <1>1 DEF IInv, Steps, Ahead
  <2>2. /\ q \in Record /\ q.key = r.key /\ q.deleted = r.deleted
        /\ q.timeout = r.timeout /\ q.owed = Minus(r.owed, t) /\ q.byIsr = r.byIsr
        /\ r.owed \in Nat /\ r.timeout \in Nat
    BY <1>2, <2>1, LaterRecord
  <2> HIDE DEF r, q
  <2>3. ~ r.deleted => /\ Minus(r.timeout, t) <= Minus(r.owed, t)
                       /\ ~ r.byIsr => r.timeout = r.owed
    BY <1>2, <2>1, <2>2, MinusMonotone DEF InStep
  <2>4. Behind(q, t)
    BY <2>2, <2>3 DEF Behind
  <2> QED
    BY <2>2, <2>4 DEF r, q
<1>5. /\ timers' \in Seq(Record) /\ Len(timers') = Len(timers)
      /\ \A i \in 1 .. Len(timers) :
           /\ timers'[i].key = timers[i].key /\ timers'[i].deleted = timers[i].deleted
           /\ Behind(timers'[i], t)
  <2>1. timers' \in [1 .. Len(timers) -> Record]
    BY <1>3, <1>4
  <2>2. timers' \in Seq(Record)
    BY <1>1, <2>1, SeqDef
  <2>3. Len(timers') = Len(timers)
    BY <1>1, <2>1, <2>2, LenProperties
  <2> QED
    BY <1>3, <1>4, <2>2, <2>3
<1>6. TypeOK'
  BY <1>1, <1>2, <1>5 DEF IInv, TypeOK
<1>7. OneTimerPerKey'
  BY <1>1, <1>5 DEF IInv, OneTimerPerKey, Live
<1>8. Steps'
  BY <1>1, <1>5 DEF Steps, Ahead
<1> QED
  BY <1>6, <1>7, <1>8 DEF IInv
-----------------------------------------------------------------------------
(* The visit of one record.                                                *)
Reloaded(r) == [r EXCEPT !.timeout = r.reloadTimeout,
                         !.owed = r.reloadTimeout, !.moved = FALSE, !.byIsr = FALSE]

LEMMA ReloadedRecord ==
  ASSUME NEW r \in Record
  PROVE  Reloaded(r) \in Record /\ Reloaded(r).key = r.key /\ Reloaded(r).deleted = r.deleted
         /\ InStep(Reloaded(r))
<1> DEFINE q == Reloaded(r)
<1>1. q \in Record
  BY DEF Reloaded, Record
<1>2. /\ q.key = r.key /\ q.deleted = r.deleted /\ q.timeout = r.reloadTimeout
      /\ q.owed = r.reloadTimeout /\ q.moved = FALSE /\ r.reloadTimeout \in Nat
  BY DEF Reloaded, Record
<1> HIDE DEF q
<1>3. InStep(q)
  BY <1>2 DEF InStep
<1> QED
  BY <1>1, <1>2, <1>3 DEF q

LEMMA AgedRecord ==
  ASSUME NEW r \in Record, updateTime \in Nat
  PROVE  /\ Aged(r) \in Record /\ Aged(r).key = r.key /\ Aged(r).deleted = r.deleted
         /\ Aged(r).timeout = Minus(r.timeout, updateTime) /\ Aged(r).timeout \in Nat
         /\ Aged(r).owed = r.owed /\ Aged(r).byIsr = r.byIsr
<1> DEFINE o == Minus(r.timeout, updateTime)
<1>1. r.timeout \in Nat /\ r.timeout <= MaxTimeout /\ MaxTimeout \in Nat
  BY TimersAssumption DEF Record
<1>2. o \in 0 .. MaxTimeout
  <2>1. o \in Nat /\ o <= r.timeout
    BY <1>1, MinusType
  <2> HIDE DEF o
  <2> QED
    BY <1>1, <2>1
<1>3. Aged(r) = [r EXCEPT !.timeout = o]
  BY DEF Aged
<1> HIDE DEF o
<1>4. /\ Aged(r) \in Record /\ Aged(r).key = r.key /\ Aged(r).deleted = r.deleted
      /\ Aged(r).timeout = o /\ Aged(r).owed = r.owed /\ Aged(r).byIsr = r.byIsr
  BY <1>2, <1>3 DEF Record
<1> QED
  BY <1>2, <1>4 DEF o

(* A record stays in the list, behind the walk, and is in step.            *)
LEMMA KeepStep ==
  ASSUME IInv, pc = "walk", NEW q \in Record, q.key = timers[srchTimer].key,
         q.deleted = timers[srchTimer].deleted, InStep(q),
         timers' = [timers EXCEPT ![srchTimer] = q], raised' \subseteq Keys,
         WalkTo(IF srchTimer < Len(timers) THEN srchTimer + 1 ELSE 0), UNCHANGED freeTimer
  PROVE  IInv'
<1>1. /\ timers \in Seq(Record) /\ Len(timers) \in Nat /\ srchTimer \in 1 .. Len(timers)
      /\ updateTime \in 0 .. MaxUpdate /\ MaxUpdate \in Nat
      /\ freeTimer \in Seq(Record) /\ Len(freeTimer) \in Nat
  BY TimersAssumption DEF IInv, TypeOK
<1>2. /\ timers' \in Seq(Record) /\ Len(timers') = Len(timers) /\ timers'[srchTimer] = q
      /\ \A j \in 1 .. Len(timers) : j /= srchTimer => timers'[j] = timers[j]
  BY <1>1
<1>3. /\ srchTimer' = (IF srchTimer < Len(timers) THEN srchTimer + 1 ELSE 0)
      /\ pc' = (IF srchTimer < Len(timers) THEN "walk" ELSE "task")
      /\ updateTime' = (IF srchTimer < Len(timers) THEN updateTime ELSE 0)
  BY <1>1 DEF WalkTo
<1>4. TypeOK'
  BY <1>1, <1>2, <1>3 DEF IInv, TypeOK
<1>5. OneTimerPerKey'
  BY <1>1, <1>2 DEF IInv, OneTimerPerKey, Live
<1>6. Steps'
  <2> SUFFICES ASSUME NEW j \in 1 .. Len(timers)
               PROVE  IF Ahead(j)' THEN Behind(timers'[j], updateTime') ELSE InStep(timers'[j])
    BY <1>2 DEF Steps
  <2>1. CASE j = srchTimer
    <3>1. ~ Ahead(j)'
      BY <1>1, <1>3, <2>1 DEF Ahead
    <3> QED
      BY <1>2, <2>1, <3>1
  <2>2. CASE j < srchTimer
    <3>1. ~ Ahead(j)' /\ ~ Ahead(j)
      BY <1>1, <1>3, <2>2 DEF Ahead
    <3> QED
      BY <1>1, <1>2, <2>2, <3>1 DEF IInv, Steps
  <2>3. CASE j > srchTimer
    <3>1. Ahead(j)' /\ Ahead(j) /\ updateTime' = updateTime
      BY <1>1, <1>3, <2>3 DEF Ahead
    <3> QED
      BY <1>1, <1>2, <2>3, <3>1 DEF IInv, Steps
  <2> QED
    BY <1>1, <2>1, <2>2, <2>3
<1> QED
  BY <1>4, <1>5, <1>6 DEF IInv

(* A record leaves the list; those behind it move up, and so does the walk.*)
LEMMA UnlinkStep ==
  ASSUME IInv, pc = "walk", timers' = Without(srchTimer),
         freeTimer' = <<Aged(timers[srchTimer])>>,
         srchTimer' = IF srchTimer < Len(timers) THEN srchTimer ELSE 0,
         pc' = "free", UNCHANGED <<raised, updateTime>>
  PROVE  IInv'
<1>1. /\ timers \in Seq(Record) /\ Len(timers) \in Nat /\ srchTimer \in 1 .. Len(timers)
      /\ updateTime \in Nat /\ timers[srchTimer] \in Record
      /\ Len(timers) <= MaxTimers /\ MaxTimers \in Nat
  BY TimersAssumption DEF IInv, TypeOK
<1>2. /\ timers' \in Seq(Record) /\ Len(timers') = Len(timers) - 1
      /\ \A j \in 1 .. Len(timers) - 1 :
           timers'[j] = IF j < srchTimer THEN timers[j] ELSE timers[j + 1]
  BY <1>1, WithoutAt
<1>3. freeTimer' \in Seq(Record) /\ Len(freeTimer') = 1
  BY <1>1, AgedRecord
<1>4. TypeOK'
  BY <1>1, <1>2, <1>3 DEF IInv, TypeOK
<1>5. OneTimerPerKey'
  <2> SUFFICES ASSUME NEW i \in 1 .. Len(timers) - 1, NEW j \in 1 .. Len(timers) - 1,
                      ~ timers'[i].deleted, ~ timers'[j].deleted, timers'[i].key = timers'[j].key
               PROVE  i = j
    BY <1>2 DEF OneTimerPerKey, Live
  <2> DEFINE at(x) == IF x < srchTimer THEN x ELSE x + 1
  <2>1. \A x \in 1 .. Len(timers) - 1 : at(x) \in 1 .. Len(timers) /\ timers'[x] = timers[at(x)]
    BY <1>1, <1>2
  <2>2. at(i) = at(j)
    <3> HIDE DEF at
    <3> QED
      BY <1>1, <2>1 DEF IInv, OneTimerPerKey, Live
  <2> QED
    BY <1>1, <2>2
<1>6. Steps'
  <2> SUFFICES ASSUME NEW j \in 1 .. Len(timers) - 1
               PROVE  IF Ahead(j)' THEN Behind(timers'[j], updateTime) ELSE InStep(timers'[j])
    BY <1>2 DEF Steps
  <2>1. CASE j < srchTimer
    <3>1. ~ Ahead(j)' /\ ~ Ahead(j)
      BY <1>1, <2>1 DEF Ahead
    <3>2. j \in 1 .. Len(timers) /\ timers'[j] = timers[j]
      BY <1>1, <1>2, <2>1
    <3> QED
      BY <3>1, <3>2 DEF IInv, Steps
  <2>2. CASE j >= srchTimer
    <3>0. srchTimer < Len(timers)
      BY <1>1, <2>2
    <3>1. Ahead(j)' /\ Ahead(j + 1) /\ j + 1 \in 1 .. Len(timers) /\ timers'[j] = timers[j + 1]
      BY <1>1, <1>2, <2>2, <3>0 DEF Ahead
    <3> QED
      BY <3>1 DEF IInv, Steps
  <2> QED
    BY <1>1, <2>1, <2>2
<1> QED
  BY <1>4, <1>5, <1>6 DEF IInv
LEMMA VisitStep ==
  ASSUME IInv, Visit
  PROVE  IInv'
<1> DEFINE r == timers[srchTimer]
<1>1. /\ pc = "walk" /\ r \in Record /\ updateTime \in Nat /\ raised \subseteq Keys /\ r.key \in Keys
      /\ srchTimer \in 1 .. Len(timers) /\ Len(timers) \in Nat
  <2>1. pc = "walk"
    BY DEF Visit
  <2>2. /\ srchTimer \in 1 .. Len(timers) /\ Len(timers) \in Nat /\ timers \in Seq(Record)
        /\ updateTime \in Nat /\ raised \subseteq Keys
    BY <2>1, TimersAssumption DEF IInv, TypeOK
  <2>3. r \in Record
    BY <2>2
  <2> QED
    BY <2>1, <2>2, <2>3 DEF Record
<1>2. Behind(r, updateTime)
  BY <1>1 DEF IInv, Steps, Ahead
<1> DEFINE next == IF srchTimer < Len(timers) THEN srchTimer + 1 ELSE 0
<1>3. CASE /\ Reloads(r) /\ raised' = raised \union {r.key}
           /\ timers' = [timers EXCEPT ![srchTimer] = Reloaded(r)]
           /\ WalkTo(next) /\ UNCHANGED freeTimer
  <2>1. /\ Reloaded(r) \in Record /\ Reloaded(r).key = r.key
        /\ Reloaded(r).deleted = r.deleted /\ InStep(Reloaded(r))
    BY <1>1, ReloadedRecord
  <2>2. raised' \subseteq Keys
    BY <1>1, <1>3
  <2> QED
    BY <1>1, <1>3, <2>1, <2>2, KeepStep
<1>4. CASE /\ timers' = Without(srchTimer) /\ freeTimer' = <<Aged(r)>>
           /\ srchTimer' = (IF srchTimer < Len(timers) THEN srchTimer ELSE 0)
           /\ pc' = "free" /\ UNCHANGED <<raised, updateTime>>
  BY <1>1, <1>4, UnlinkStep
<1>5. CASE /\ ~ Reloads(r) /\ ~ Unlinks(r) /\ timers' = [timers EXCEPT ![srchTimer] = Aged(r)]
           /\ WalkTo(next) /\ UNCHANGED <<raised, freeTimer>>
  <2>1. /\ Aged(r) \in Record /\ Aged(r).key = r.key /\ Aged(r).deleted = r.deleted
        /\ Aged(r).timeout = Minus(r.timeout, updateTime) /\ Aged(r).timeout \in Nat
        /\ Aged(r).owed = r.owed /\ Aged(r).byIsr = r.byIsr
    BY <1>1, AgedRecord
  <2>2. ~ r.deleted /\ Aged(r).timeout /= 0
    BY <1>5 DEF Unlinks
  <2>3. InStep(Aged(r))
    BY <1>2, <2>1, <2>2 DEF Behind, InStep
  <2> QED
    BY <1>1, <1>5, <2>1, <2>3, KeepStep
<1> QED
  BY <1>3, <1>4, <1>5 DEF Visit, Reloaded

LEMMA ReleaseStep ==
  ASSUME IInv, Release
  PROVE  IInv'
<1>1. /\ pc = "free" /\ freeTimer' = <<>> /\ timers' = timers /\ srchTimer' = srchTimer
      /\ pc' = (IF srchTimer = 0 THEN "task" ELSE "walk")
      /\ updateTime' = (IF srchTimer = 0 THEN 0 ELSE updateTime)
  BY DEF Release, WalkTo
<1>2. raised' \subseteq Keys
  <2>1. /\ raised' = raised \union {freeTimer[i].key : i \in Expired}
        /\ Expired \subseteq DOMAIN freeTimer
    BY DEF Release, Expired
  <2>2. raised \subseteq Keys /\ freeTimer \in Seq(Record)
    BY DEF IInv, TypeOK
  <2>3. ASSUME NEW i \in DOMAIN freeTimer PROVE freeTimer[i].key \in Keys
    <3>1. freeTimer[i] \in Record
      BY <2>2
    <3> QED
      BY <3>1 DEF Record
  <2> QED
    BY <2>1, <2>2, <2>3
<1>3. freeTimer' \in Seq(Record) /\ Len(freeTimer') = 0
  BY <1>1
<1>4. TypeOK'
  BY <1>1, <1>2, <1>3, TimersAssumption DEF IInv, TypeOK
<1>5. OneTimerPerKey' /\ Steps'
  BY <1>1 DEF IInv, OneTimerPerKey, Live, Steps, Ahead
<1> QED
  BY <1>4, <1>5 DEF IInv

LEMMA QuietStep ==
  ASSUME IInv, UNCHANGED <<timers, pc, updateTime, srchTimer, freeTimer>>, raised' \subseteq raised
  PROVE  IInv'
BY DEF IInv, TypeOK, OneTimerPerKey, Live, Steps, Ahead

LEMMA NextIInv == IInv /\ [Next]_vars => IInv'
<1> SUFFICES ASSUME IInv, [Next]_vars PROVE IInv'
  OBVIOUS
<1>0. IsrKeys \subseteq Keys /\ MaxTimeout \in Nat
  BY TimersAssumption
<1>1. ASSUME NEW k \in Keys, NEW n \in 0 .. MaxTimeout, osal_start_timerEx(k, n) PROVE IInv'
  BY <1>1, StartStep DEF osal_start_timerEx
<1>2. ASSUME NEW k \in Keys, NEW n \in 1 .. MaxTimeout, osal_start_reload_timer(k, n) PROVE IInv'
  <2>1. n \in 0 .. MaxTimeout
    OBVIOUS
  <2> QED
    BY <1>2, <2>1, StartStep DEF osal_start_reload_timer
<1>3. ASSUME NEW k \in IsrKeys, NEW n \in 1 .. MaxTimeout, IsrStart(k, n) PROVE IInv'
  <2>1. n \in 0 .. MaxTimeout /\ k \in Keys
    BY <1>0
  <2> QED
    BY <1>3, <2>1, StartStep DEF IsrStart
<1>4. ASSUME NEW k \in Keys, osal_stop_timerEx(k) PROVE IInv'
  BY <1>4, StopStep
<1>5. ASSUME NEW k \in Keys, Consume(k) PROVE IInv'
  BY <1>5, QuietStep DEF Consume
<1>6. ASSUME NEW t \in 1 .. MaxUpdate, UpdateBegin(t) PROVE IInv'
  BY <1>6, BeginStep
<1>7. CASE Visit
  BY <1>7, VisitStep
<1>8. CASE Release
  BY <1>8, ReleaseStep
<1>9. CASE UNCHANGED vars
  BY <1>9, QuietStep DEF vars
<1> QED
  BY <1>1, <1>2, <1>3, <1>4, <1>5, <1>6, <1>7, <1>8, <1>9 DEF Next, Task, Update

(* The inductive invariant of the timers.                                  *)
THEOREM TimersInvariant == Spec => []IInv
BY InitIInv, NextIInv, PTL DEF Spec

(* Types; and the walk of osalTimerUpdate always points at a record of the *)
(* list, although it unlinks records under itself and interrupts append.   *)
THEOREM TimerTypes == Spec => []TypeOK
<1>1. IInv => TypeOK
  BY DEF IInv
<1> QED
  BY <1>1, TimersInvariant, PTL

(* A task and flag have one live timer at most (osalAddTimer).             *)
THEOREM TimersAreUnique == Spec => []OneTimerPerKey
<1>1. IInv => OneTimerPerKey
  BY DEF IInv
<1> QED
  BY <1>1, TimersInvariant, PTL

(* No timer is late (osalTimerUpdate), whatever interrupts start.          *)
THEOREM TimersAreNeverLate == Spec => []NeverLate
<1>1. IInv => NeverLate
  <2> SUFFICES ASSUME IInv, pc = "task", NEW i \in Live, timers[i].moved
               PROVE  timers[i].owed > 0
    BY DEF NeverLate
  <2>1. i \in 1 .. Len(timers) /\ ~ timers[i].deleted /\ timers[i] \in Record
    BY DEF IInv, TypeOK, Live
  <2>2. InStep(timers[i])
    BY <2>1 DEF IInv, Steps, Ahead
  <2>3. timers[i].timeout > 0 /\ timers[i].timeout <= timers[i].owed
    BY <2>1, <2>2 DEF InStep
  <2>4. timers[i].timeout \in Nat /\ timers[i].owed \in Nat
    BY <2>1, TimersAssumption DEF Record
  <2> QED
    BY <2>3, <2>4
<1> QED
  BY <1>1, TimersInvariant, PTL

(* A timer a task started, or a reloaded one, is never early.              *)
THEOREM TaskTimersAreNeverEarly == Spec => []TaskTimersNeverEarly
<1>1. IInv => TaskTimersNeverEarly
  <2> SUFFICES ASSUME IInv, NEW i \in Expiring, ~ timers[i].byIsr PROVE timers[i].owed = 0
    BY DEF TaskTimersNeverEarly
  <2>1. /\ i \in 1 .. Len(timers) /\ ~ timers[i].deleted /\ timers[i] \in Record
        /\ pc = "walk" /\ i = srchTimer /\ Aged(timers[i]).timeout = 0 /\ updateTime \in Nat
    BY TimersAssumption DEF IInv, TypeOK, Expiring, Live
  <2>2. Behind(timers[i], updateTime)
    BY <2>1 DEF IInv, Steps, Ahead
  <2> QED
    BY <2>1, <2>2, AgedRecord DEF Behind
<1> QED
  BY <1>1, TimersInvariant, PTL

-----------------------------------------------------------------------------
(* The timers implement TimerPromise.  Armed are the keys of the live      *)
(* records, due is that of the record that has expired and left the list.  *)
LEMMA NothingDue ==
  ASSUME IInv, pc /= "free"
  PROVE  Due = {}
<1> DEFINE n == Len(freeTimer)
<1>1. freeTimer \in Seq(Record) /\ n = 0
  <2>1. freeTimer \in Seq(Record) /\ n <= 1 /\ n /= 1
    BY DEF IInv, TypeOK
  <2>2. n \in Nat
    BY <2>1, LenProperties
  <2> HIDE DEF n
  <2> QED
    BY <2>1, <2>2
<1>2. Expired = {}
  BY <1>1 DEF Expired
<1> QED
  BY <1>2 DEF Due

(* A record in the place of another of the same key.                       *)
LEMMA SameKeys ==
  ASSUME timers \in Seq(Record), timers' \in Seq(Record), Len(timers') = Len(timers),
         \A i \in 1 .. Len(timers) :
           timers'[i].key = timers[i].key /\ timers'[i].deleted = timers[i].deleted
  PROVE  Armed' = Armed
<1>1. DOMAIN timers = 1 .. Len(timers) /\ DOMAIN timers' = 1 .. Len(timers)
  OBVIOUS
<1>2. Live' = Live
  BY <1>1 DEF Live
<1> QED
  BY <1>1, <1>2 DEF Armed, Live

LEMMA PutKeys ==
  ASSUME timers \in Seq(Record), NEW i \in 1 .. Len(timers), NEW q \in Record,
         timers' = [timers EXCEPT ![i] = q], q.key = timers[i].key, q.deleted = timers[i].deleted
  PROVE  Armed' = Armed
<1>1. /\ timers' \in Seq(Record) /\ Len(timers') = Len(timers)
      /\ \A j \in 1 .. Len(timers) : timers'[j] = IF j = i THEN q ELSE timers[j]
  BY ExceptSeq
<1> QED
  BY <1>1, SameKeys

LEMMA StartArms ==
  ASSUME IInv, NEW k \in Keys, NEW n \in 0 .. MaxTimeout, NEW reload \in BOOLEAN,
         NEW isr \in BOOLEAN, Start(k, n, reload, isr)
  PROVE  Promise!Arm(k)
<1>1. UNCHANGED <<raised, pc, freeTimer>>
  BY StartCases
<1>2. timers \in Seq(Record) /\ Len(timers) \in Nat
  BY DEF IInv, TypeOK
<1>3. Due' = Due
  BY <1>1 DEF Due, Expired
<1>4. ASSUME NEW i \in Found(k),
             timers' = [timers EXCEPT ![i] = Restarted(timers[i], n, reload, isr)]
      PROVE  Armed' = Armed \union {k}
  <2>1. i \in 1 .. Len(timers) /\ timers[i] \in Record /\ timers[i].key = k /\ i \in Live
    BY <1>2 DEF Found, Live
  <2> DEFINE q == Restarted(timers[i], n, reload, isr)
  <2>2. Armed' = Armed
    <3>1. q \in Record /\ q.key = timers[i].key /\ q.deleted = timers[i].deleted
      BY <2>1 DEF Restarted, Record
    <3>2. timers' = [timers EXCEPT ![i] = q]
      BY <1>4
    <3> HIDE DEF q
    <3> QED
      BY <1>2, <2>1, <3>1, <3>2, PutKeys
  <2>3. k \in Armed
    BY <2>1 DEF Armed
  <2> QED
    BY <2>2, <2>3
<1>5. ASSUME NEW q \in Record, q.key = k, ~ q.deleted, timers' = Append(timers, q)
      PROVE  Armed' = Armed \union {k}
  <2>1. /\ timers' \in Seq(Record) /\ Len(timers') = Len(timers) + 1
        /\ timers'[Len(timers) + 1] = q /\ \A j \in 1 .. Len(timers) : timers'[j] = timers[j]
    BY <1>2, <1>5
  <2>2. Live' = Live \union {Len(timers) + 1}
    BY <1>2, <1>5, <2>1 DEF Live
  <2>3. Live \subseteq 1 .. Len(timers)
    BY <1>2 DEF Live
  <2> QED
    BY <1>5, <2>1, <2>2, <2>3 DEF Armed
<1>6. Armed' = Armed \union {k}
  <2>1. CASE timers' = Append(timers, Fresh(k, n, reload, isr))
    <3> DEFINE q == Fresh(k, n, reload, isr)
    <3>1. q \in Record /\ q.key = k /\ ~ q.deleted
      BY TimersAssumption DEF Fresh, Record
    <3>2. timers' = Append(timers, q)
      BY <2>1
    <3> HIDE DEF q
    <3> QED
      BY <1>5, <3>1, <3>2
  <2> QED
    BY <1>4, <2>1, StartCases
<1> QED
  BY <1>1, <1>3, <1>6 DEF Promise!Arm

LEMMA StopDisarms ==
  ASSUME IInv, NEW k \in Keys, osal_stop_timerEx(k)
  PROVE  Promise!Disarm(k)
<1>1. PICK i \in Found(k) : timers' = [timers EXCEPT ![i] = Stopped(timers[i])]
  BY DEF osal_stop_timerEx, Stopped
<1>2. /\ timers \in Seq(Record) /\ Len(timers) \in Nat /\ pc = "task"
      /\ UNCHANGED <<raised, pc, freeTimer>>
  BY DEF osal_stop_timerEx, IInv, TypeOK
<1> DEFINE q == Stopped(timers[i])
<1>3. i \in 1 .. Len(timers) /\ timers[i] \in Record /\ timers[i].key = k /\ i \in Live
  BY <1>2 DEF Found, Live
<1>4. q \in Record /\ q.deleted
  BY <1>3, StoppedRecord
<1> HIDE DEF q
<1>5. /\ timers' \in Seq(Record) /\ Len(timers') = Len(timers)
      /\ timers'[i] = q /\ \A j \in 1 .. Len(timers) : j /= i => timers'[j] = timers[j]
  BY <1>1, <1>2, <1>3, <1>4 DEF q
<1>6. Live' = Live \ {i}
  BY <1>2, <1>3, <1>4, <1>5 DEF Live
<1>7. \A j \in Live : timers[j].key = k => j = i
  BY <1>3 DEF IInv, OneTimerPerKey
<1>8. Live \subseteq 1 .. Len(timers)
  BY <1>2 DEF Live
<1>9. Armed' = Armed \ {k} /\ k \in Armed
  BY <1>3, <1>5, <1>6, <1>7, <1>8 DEF Armed
<1>10. Due' = Due
  BY <1>2 DEF Due, Expired
<1> QED
  BY <1>2, <1>9, <1>10 DEF Promise!Disarm

(* A visit reloads a timer, expires it or leaves the promise as it is.     *)
LEMMA VisitKeeps ==
  ASSUME IInv, Visit
  PROVE  /\ Due = {}
         /\ \/ UNCHANGED <<Armed, Due, raised>>
            \/ \E k \in Armed : raised' = raised \union {k} /\ UNCHANGED <<Armed, Due>>
            \/ \E k \in Armed : /\ Armed' = Armed \ {k} /\ Due' = {k}
                               /\ raised' = raised /\ pc' = "free"
<1> DEFINE r == timers[srchTimer]
<1>1. /\ pc = "walk" /\ timers \in Seq(Record) /\ Len(timers) \in Nat
      /\ srchTimer \in 1 .. Len(timers) /\ r \in Record /\ updateTime \in Nat
  <2>1. pc = "walk"
    BY DEF Visit
  <2> QED
    BY <2>1, TimersAssumption DEF IInv, TypeOK
<1>2. Due = {}
  BY <1>1, NothingDue
<1>3. /\ Aged(r) \in Record /\ Aged(r).key = r.key /\ Aged(r).deleted = r.deleted
  BY <1>1, AgedRecord
<1>4. CASE /\ Reloads(r) /\ raised' = raised \union {r.key} /\ UNCHANGED freeTimer
           /\ timers' = [timers EXCEPT ![srchTimer] = Reloaded(r)]
  <2>1. Armed' = Armed
    BY <1>1, <1>4, ReloadedRecord, PutKeys
  <2>2. ~ r.deleted
    BY <1>4 DEF Reloads
  <2>3. srchTimer \in Live
    BY <1>1, <2>2 DEF Live
  <2>4. r.key \in Armed
    BY <2>3 DEF Armed
  <2>5. Due' = Due
    BY <1>4 DEF Due, Expired
  <2> QED
    BY <1>2, <1>4, <2>1, <2>4, <2>5
<1>5. CASE /\ Unlinks(r) /\ timers' = Without(srchTimer) /\ freeTimer' = <<Aged(r)>>
           /\ raised' = raised /\ pc' = "free"
  <2>1. /\ timers' \in Seq(Record) /\ Len(timers') = Len(timers) - 1
        /\ \A j \in 1 .. Len(timers) - 1 :
             timers'[j] = IF j < srchTimer THEN timers[j] ELSE timers[j + 1]
    BY <1>1, <1>5, WithoutAt
  <2>2. ASSUME NEW j \in Live'
        PROVE  \E i \in Live : i /= srchTimer /\ timers[i] = timers'[j]
    <3>1. j \in 1 .. Len(timers) - 1 /\ ~ timers'[j].deleted
      BY <1>1, <2>1 DEF Live
    <3> DEFINE i == IF j < srchTimer THEN j ELSE j + 1
    <3>2. i \in 1 .. Len(timers) /\ timers'[j] = timers[i] /\ i /= srchTimer
      BY <1>1, <2>1, <3>1
    <3> HIDE DEF i
    <3>3. i \in Live
      BY <1>1, <3>1, <3>2 DEF Live
    <3> QED
      BY <3>2, <3>3
  <2>3. ASSUME NEW i \in Live, i /= srchTimer PROVE timers[i].key \in Armed'
    <3> DEFINE j == IF i < srchTimer THEN i ELSE i - 1
    <3>1. i \in 1 .. Len(timers) /\ ~ timers[i].deleted
      BY <1>1 DEF Live
    <3>2. j \in 1 .. Len(timers) - 1 /\ timers'[j] = timers[i]
      BY <1>1, <2>1, <2>3, <3>1
    <3>3. j \in Live'
      BY <2>1, <3>1, <3>2 DEF Live
    <3> HIDE DEF j
    <3> QED
      BY <3>2, <3>3 DEF Armed
  <2>4. Armed' = {timers[i].key : i \in Live \ {srchTimer}}
    BY <2>2, <2>3 DEF Armed
  <2>5. Len(freeTimer') = 1 /\ freeTimer'[1] = Aged(r) /\ DOMAIN freeTimer' = {1}
    BY <1>3, <1>5
  <2>6. Due' = IF r.deleted THEN {} ELSE {r.key}
    BY <1>3, <1>5, <2>5 DEF Due, Expired, Unlinks
  <2>7. CASE r.deleted
    <3>1. srchTimer \notin Live
      BY <2>7 DEF Live
    <3>2. Armed' = Armed
      BY <2>4, <3>1 DEF Armed
    <3> QED
      BY <1>2, <1>5, <2>6, <2>7, <3>2
  <2>8. CASE ~ r.deleted
    <3>1. srchTimer \in Live
      BY <1>1, <2>8 DEF Live
    <3>2. \A i \in Live : timers[i].key = r.key => i = srchTimer
      BY <3>1 DEF IInv, OneTimerPerKey
    <3>3. r.key \in Armed /\ Armed' = Armed \ {r.key}
      BY <2>4, <3>1, <3>2 DEF Armed
    <3> QED
      BY <1>2, <1>5, <2>6, <2>8, <3>3
  <2> QED
    BY <2>7, <2>8
<1>6. CASE timers' = [timers EXCEPT ![srchTimer] = Aged(r)] /\ UNCHANGED <<raised, freeTimer>>
  <2>1. Armed' = Armed
    BY <1>1, <1>3, <1>6, PutKeys
  <2>2. Due' = Due
    BY <1>6 DEF Due, Expired
  <2> QED
    BY <1>2, <1>6, <2>1, <2>2
<1> QED
  BY <1>4, <1>5, <1>6 DEF Visit, Reloaded

(* The update begins: the keys stay.                                       *)
LEMMA BeginKeeps ==
  ASSUME IInv, NEW t \in 1 .. MaxUpdate, UpdateBegin(t)
  PROVE  Promise!Begin
<1>1. /\ pc = "task" /\ pc' = "walk" /\ UNCHANGED <<raised, freeTimer>>
      /\ timers \in Seq(Record)
  BY DEF UpdateBegin, IInv, TypeOK
<1>2. t \in Nat /\ DOMAIN timers = 1 .. Len(timers) /\ Len(timers) \in Nat
  BY <1>1, TimersAssumption, LenProperties
<1>3. timers' = [i \in 1 .. Len(timers) |-> Later(timers[i], t)]
  BY <1>2 DEF UpdateBegin, Later
<1>4. ASSUME NEW i \in 1 .. Len(timers)
      PROVE  /\ Later(timers[i], t) \in Record
             /\ Later(timers[i], t).key = timers[i].key
             /\ Later(timers[i], t).deleted = timers[i].deleted
  <2>1. timers[i] \in Record
    BY <1>1
  <2> QED
    BY <1>2, <2>1, LaterRecord
<1>5. timers' \in [1 .. Len(timers) -> Record]
  BY <1>3, <1>4
<1>6. timers' \in Seq(Record) /\ Len(timers') = Len(timers)
  BY <1>2, <1>5, SeqDef, LenProperties
<1>7. Armed' = Armed
  BY <1>1, <1>3, <1>4, <1>6, SameKeys
<1>8. Due' = Due
  BY <1>1 DEF Due, Expired
<1> QED
  BY <1>1, <1>7, <1>8 DEF Promise!Begin

(* The release of a record that has expired raises its event, that of a    *)
(* deleted one none.                                                       *)
LEMMA ReleaseFires ==
  ASSUME IInv, Release
  PROVE  /\ pc = "free" /\ pc' \in {"task", "walk"} /\ Armed' = Armed /\ Due' = {}
         /\ \/ Due = {} /\ raised' = raised
            \/ \E k \in Keys : Due = {k} /\ raised' = raised \union {k}
<1>1. /\ pc = "free" /\ pc' \in {"task", "walk"} /\ freeTimer' = <<>> /\ timers' = timers
      /\ raised' = raised \union Due
  BY DEF Release, WalkTo, Due, Expired
<1>2. freeTimer \in Seq(Record) /\ Len(freeTimer) = 1
  BY <1>1 DEF IInv, TypeOK
<1>3. DOMAIN freeTimer = {1} /\ freeTimer[1] \in Record
  BY <1>2
<1>4. freeTimer[1].key \in Keys
  BY <1>3 DEF Record
<1>5. Due = {} \/ Due = {freeTimer[1].key}
  BY <1>3 DEF Due, Expired
<1>6. Due' = {}
  BY <1>1 DEF Due, Expired
<1>7. Armed' = Armed
  BY <1>1 DEF Armed, Live
<1> QED
  BY <1>1, <1>4, <1>5, <1>6, <1>7

LEMMA ArmedInKeys == IInv => Armed \subseteq Keys
<1> SUFFICES ASSUME IInv PROVE Armed \subseteq Keys
  OBVIOUS
<1>1. timers \in Seq(Record)
  BY DEF IInv, TypeOK
<1>2. \A r \in Record : r.key \in Keys
  BY DEF Record
<1>3. \A i \in Live : timers[i] \in Record
  BY <1>1 DEF Live
<1> QED
  BY <1>2, <1>3 DEF Armed

(* The timers implement TimerPromise, whatever interrupts start.           *)
THEOREM TimersImplementPromise == Spec => ImplementsPromise
<1>1. Init => Promise!Init
  BY DEF Init, Promise!Init, Armed, Due, Live, Expired
<1>2. IInv /\ [Next]_vars => [Promise!Next]_(Promise!timing)
  <2> SUFFICES ASSUME IInv, [Next]_vars
               PROVE  [Promise!Next]_(Promise!timing)
    OBVIOUS
  <2>0. IsrKeys \subseteq Keys /\ 1 .. MaxTimeout \subseteq 0 .. MaxTimeout
    BY TimersAssumption
  <2>1. ASSUME NEW k \in Keys, NEW n \in 0 .. MaxTimeout, osal_start_timerEx(k, n)
        PROVE  Promise!Next
    BY <2>1, StartArms DEF osal_start_timerEx, Promise!Next
  <2>2. ASSUME NEW k \in Keys, NEW n \in 1 .. MaxTimeout, osal_start_reload_timer(k, n)
        PROVE  Promise!Next
    BY <2>0, <2>2, StartArms DEF osal_start_reload_timer, Promise!Next
  <2>3. ASSUME NEW k \in IsrKeys, NEW n \in 1 .. MaxTimeout, IsrStart(k, n)
        PROVE  Promise!Next
    <3>1. k \in Keys /\ n \in 0 .. MaxTimeout
      BY <2>0
    <3> QED
      BY <2>3, <3>1, StartArms DEF IsrStart, Promise!Next
  <2>4. ASSUME NEW k \in Keys, osal_stop_timerEx(k) PROVE Promise!Next
    BY <2>4, StopDisarms DEF Promise!Next
  <2>5. ASSUME NEW k \in Keys, Consume(k) PROVE Promise!Next
    <3>1. raised' = raised \ {k} /\ UNCHANGED <<timers, freeTimer, pc>>
      BY <2>5 DEF Consume
    <3>2. Armed' = Armed /\ Due' = Due
      BY <3>1 DEF Armed, Due, Live, Expired
    <3> QED
      BY <3>1, <3>2 DEF Promise!Next, Promise!Consume
  <2>6. ASSUME NEW t \in 1 .. MaxUpdate, UpdateBegin(t) PROVE Promise!Next
    BY <2>6, BeginKeeps DEF Promise!Next
  <2>7. CASE Visit
    <3>1. pc = "walk" /\ pc' \in {"task", "walk", "free"} /\ Due = {}
      BY <2>7, VisitKeeps DEF Visit, WalkTo
    <3>2. CASE UNCHANGED <<Armed, Due, raised>>
      BY <3>1, <3>2 DEF Promise!Next, Promise!End, Promise!timing
    <3>3. ASSUME NEW k \in Armed, raised' = raised \union {k}, UNCHANGED <<Armed, Due>>
          PROVE  Promise!Next
      BY <3>1, <3>3, ArmedInKeys DEF Promise!Next, Promise!Reload
    <3>4. ASSUME NEW k \in Armed, Armed' = Armed \ {k}, Due' = {k}, raised' = raised,
                 pc' = "free"
          PROVE  Promise!Next
      BY <3>1, <3>4, ArmedInKeys DEF Promise!Next, Promise!Expire
    <3> QED
      BY <2>7, <3>2, <3>3, <3>4, VisitKeeps
  <2>8. CASE Release
    <3>1. pc = "free" /\ pc' \in {"task", "walk"} /\ Armed' = Armed /\ Due' = {}
      BY <2>8, ReleaseFires
    <3>2. CASE Due = {} /\ raised' = raised
      BY <3>1, <3>2 DEF Promise!Next, Promise!End, Promise!timing
    <3>3. ASSUME NEW k \in Keys, Due = {k}, raised' = raised \union {k} PROVE Promise!Next
      BY <3>1, <3>3 DEF Promise!Next, Promise!Fire
    <3> QED
      BY <2>8, <3>2, <3>3, ReleaseFires
  <2>9. CASE UNCHANGED vars
    BY <2>9 DEF vars, Armed, Due, Live, Expired, Promise!timing
  <2> QED
    BY <2>1, <2>2, <2>3, <2>4, <2>5, <2>6, <2>7, <2>8, <2>9 DEF Next, Task, Update
<1> QED
  BY <1>1, <1>2, TimersInvariant, PTL DEF Spec, ImplementsPromise, Promise!Spec
=============================================================================
