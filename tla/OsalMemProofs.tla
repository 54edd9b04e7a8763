---------------------------- MODULE OsalMemProofs ----------------------------
(***************************************************************************)
(* Proofs about the heap: the blocks tile the heap, the bucket stays apart *)
(* from the wilderness, and an allocation fails only when no run of free   *)
(* blocks has room, for every heap size, bucket size and request size.     *)
(*                                                                         *)
(* IInv is the inductive invariant.  Tiling alone is not inductive: that a *)
(* walk joins two neighbours needs Walking (prev is free and ends at hdr), *)
(* that it never joins the NULL block or the block ff1 points to needs     *)
(* BucketApart.                                                            *)
(***************************************************************************)
EXTENDS OsalMem, TLAPS

LEMMA Offsets ==
  /\ END \in Nat /\ WILD \in Nat /\ NullBlk \in Nat
  /\ 0 < NullBlk /\ NullBlk < WILD /\ WILD < END
  /\ HDRSZ \in Nat /\ HDRSZ > 0
  /\ OSALMEM_MIN_BLKSZ \in Nat /\ OSALMEM_MIN_BLKSZ >= HDRSZ
  /\ WILD = NullBlk + HDRSZ
BY MemAssumption DEF END, WILD, NullBlk

(* osal_mem_init builds a heap that satisfies the invariant.               *)
LEMMA InitIInv == Init => IInv
<1> SUFFICES ASSUME Init PROVE IInv
  OBVIOUS
<1> USE Offsets
<1>1. Blocks = {0, NullBlk, WILD, END}
  BY DEF Init, Blocks
<1>2. len[0] = NullBlk /\ len[NullBlk] = HDRSZ /\ len[WILD] = END - WILD /\ len[END] = 0
  BY DEF Init, NullBlk
<1>3. TypeOK
  <2>1. len = [b \in Blocks |-> len[b]]
    BY DEF Init, Blocks
  <2>2. \A b \in Blocks : len[b] \in Offset
    BY <1>1, <1>2 DEF Offset
  <2>3. len \in [Blocks -> Offset]
    BY <2>1, <2>2
  <2>4. 0 \in Offset /\ NullBlk \in Offset /\ WILD \in Offset /\ END \in Offset
    BY DEF Offset
  <2>5. coal \in BOOLEAN /\ kicked \in BOOLEAN
    BY DEF Init
  <2>6. Blocks \subseteq Offset /\ inUse \subseteq Blocks
    BY <1>1, <2>4 DEF Init
  <2>7. ff1 \in Offset /\ ff2 \in Offset
    BY <2>4 DEF Init
  <2>8. /\ start \in Offset /\ hdr \in Offset /\ prev \in Offset /\ size \in Nat
        /\ asked \in Nat /\ ptr \in Offset
    BY <2>4 DEF Init
  <2>9. pc \in {"idle", "walk", "place", "full", "free"}
    BY DEF Init
  <2> QED
    BY <2>3, <2>5, <2>6, <2>7, <2>8, <2>9 DEF TypeOK
<1>4. Tiling
  <2>1. \A b \in Blocks \ {END} :
          /\ len[b] >= HDRSZ
          /\ b + len[b] \in Blocks
          /\ \A c \in Blocks : ~ (b < c /\ c < b + len[b])
    <3>1. SMALLBLKHEAP = NullBlk /\ HDRSZ <= NullBlk
      BY MemAssumption DEF NullBlk
    <3> QED
      BY <1>1, <1>2, <3>1, MemAssumption
  <2>2. \A b \in Blocks \ {0} : \E a \in Blocks \ {END} : a + len[a] = b
    BY <1>1, <1>2
  <2>3. END \notin inUse
    BY DEF Init
  <2> QED
    BY <1>1, <1>2, <2>1, <2>2, <2>3 DEF Tiling
<1>5. BucketApart
  BY <1>1, <1>2 DEF Init, BucketApart
<1>6. WalkOK
  BY DEF Init, WalkOK
<1> QED
  BY <1>3, <1>4, <1>5, <1>6 DEF IInv

-----------------------------------------------------------------------------
(* Facts about the tiling, in the form the steps use them.                 *)

(* The blocks and their sizes are naturals.                                *)
LEMMA BlockNat ==
  ASSUME TypeOK, NEW b \in Blocks
  PROVE  b \in Nat /\ b <= END /\ len[b] \in Nat
BY Offsets DEF TypeOK, Offset

(* Where a walk goes on from a block that is not the last.                 *)
LEMMA NextBlock ==
  ASSUME TypeOK, Tiling, NEW b \in Blocks \ {END}
  PROVE  /\ b + len[b] \in Blocks
         /\ b < b + len[b] /\ b + len[b] \in Nat
         /\ len[b] >= HDRSZ
         /\ \A c \in Blocks : c <= b \/ b + len[b] <= c
<1>1. b \in Nat /\ len[b] \in Nat
  BY BlockNat
<1>2. \A c \in Blocks : c \in Nat
  BY BlockNat
<1> QED
  BY <1>1, <1>2, Offsets DEF Tiling

(* Two blocks never end at the same place.                                 *)
LEMMA SamePredecessor ==
  ASSUME TypeOK, Tiling,
         NEW a \in Blocks \ {END}, NEW b \in Blocks \ {END},
         a + len[a] = b + len[b]
  PROVE  a = b
<1>1. a \in Nat /\ b \in Nat /\ len[a] \in Nat /\ len[b] \in Nat
  BY BlockNat
<1>2. (b <= a \/ a + len[a] <= b) /\ (a <= b \/ b + len[b] <= a)
  BY NextBlock
<1>3. a < a + len[a] /\ b < b + len[b]
  BY NextBlock
<1> QED
  BY <1>1, <1>2, <1>3

(* A block of size zero is the end block.                                  *)
LEMMA OnlyEndIsEmpty ==
  ASSUME TypeOK, Tiling, NEW b \in Blocks
  PROVE  (len[b] = 0) <=> (b = END)
BY NextBlock, Offsets, BlockNat DEF Tiling

(* A free run that reaches past block h begins at h or includes the block  *)
(* before h.                                                               *)
LEMMA RunReaches ==
  ASSUME TypeOK, Tiling,
         NEW h \in Blocks, NEW a \in Blocks, NEW b \in Blocks,
         a < h, h <= b, FreeRun(a, b)
  PROVE  \E p \in Free : a <= p /\ p + len[p] = h
<1>1. a \in Nat /\ b \in Nat /\ h \in Nat
  BY BlockNat
<1>2. PICK p \in Blocks \ {END} : p + len[p] = h
  BY <1>1 DEF Tiling
<1>3. p < h /\ p \in Nat
  BY <1>2, NextBlock, BlockNat
<1>4. a <= p
  BY <1>1, <1>2, <1>3, NextBlock
<1>5. p \in Free
  BY <1>1, <1>3, <1>4 DEF FreeRun
<1> QED
  BY <1>2, <1>4, <1>5

(* Passing a block in use leaves no free run behind that has room.         *)
LEMMA PassInUse ==
  ASSUME TypeOK, Tiling, Walking, hdr \in inUse
  PROVE  NoRoom(start, hdr + len[hdr])
<1> SUFFICES ASSUME NEW a \in Blocks, NEW b \in Blocks,
                    start <= a, b <= hdr + len[hdr], FreeRun(a, b)
             PROVE  b - a < size
  BY DEF NoRoom
<1>1. hdr \in Blocks \ {END}
  BY DEF Walking
<1>2. a \in Nat /\ b \in Nat /\ hdr \in Nat /\ len[hdr] \in Nat
  BY <1>1, BlockNat
<1>3. CASE b <= hdr
  BY <1>3 DEF Walking, NoRoom
<1>4. CASE hdr < b
  <2>1. a <= hdr
    BY <1>1, <1>2, NextBlock DEF FreeRun
  <2>2. hdr \in Free
    BY <1>1, <1>4, <2>1 DEF FreeRun
  <2> QED
    BY <2>2 DEF Free
<1> QED
  BY <1>2, <1>3, <1>4

(* Passing a free block that is too small and begins a run does not either. *)
LEMMA PassSmall ==
  ASSUME TypeOK, Tiling, Walking, ~ coal, len[hdr] < size
  PROVE  NoRoom(start, hdr + len[hdr])
<1> SUFFICES ASSUME NEW a \in Blocks, NEW b \in Blocks,
                    start <= a, b <= hdr + len[hdr], FreeRun(a, b)
             PROVE  b - a < size
  BY DEF NoRoom
<1>1. hdr \in Blocks \ {END}
  BY DEF Walking
<1>2. a \in Nat /\ b \in Nat /\ hdr \in Nat /\ len[hdr] \in Nat
  BY <1>1, BlockNat
<1>3. CASE b <= hdr
  BY <1>3 DEF Walking, NoRoom
<1>4. CASE hdr < b
  <2>1. a <= hdr /\ b = hdr + len[hdr]
    BY <1>1, <1>2, <1>4, NextBlock DEF FreeRun
  <2>2. a = hdr
    <3> SUFFICES ASSUME a < hdr PROVE FALSE
      BY <1>2, <2>1
    <3>1. PICK p \in Free : a <= p /\ p + len[p] = hdr
      BY <1>1, <1>2, <1>4, RunReaches
    <3>2. start <= p
      <4>1. p \in Nat /\ start \in Nat
        BY <3>1, BlockNat DEF Free, Walking
      <4> QED
        BY <1>2, <3>1, <4>1
    <3> QED
      BY <3>1, <3>2 DEF Walking, AfterInUse, Free
  <2> QED
    BY <1>2, <2>1, <2>2
<1> QED
  BY <1>2, <1>3, <1>4

-----------------------------------------------------------------------------
(* The steps that leave the blocks alone.                                  *)

LEMMA HeapUnchanged ==
  ASSUME Tiling, BucketApart, UNCHANGED <<len, inUse, ff1, ff2>>
  PROVE  Tiling' /\ BucketApart'
BY DEF Tiling, BucketApart, Blocks

LEMMA KickStep ==
  ASSUME IInv, osal_mem_kick PROVE IInv'
<1> USE DEF IInv, osal_mem_kick
<1>1. TypeOK'
  BY DEF TypeOK, Blocks, walk, arg
<1>2. Tiling'
  BY DEF Tiling, Blocks
<1>3. BucketApart'
  <2>1. WILD <= WILD
    BY Offsets
  <2> QED
    BY <2>1 DEF BucketApart, Blocks
<1>4. WalkOK'
  BY DEF WalkOK
<1> QED
  BY <1>1, <1>2, <1>3, <1>4

LEMMA FailStep ==
  ASSUME IInv, Fail PROVE IInv'
<1> USE DEF IInv, Fail, EndOfCall, heap
<1>1. TypeOK'
  <2>1. 0 \in Offset
    BY Offsets DEF Offset
  <2> QED
    BY <2>1 DEF TypeOK, Blocks
<1>2. Tiling' /\ BucketApart'
  BY HeapUnchanged
<1>3. WalkOK'
  BY DEF WalkOK
<1> QED
  BY <1>1, <1>2, <1>3

LEMMA FreeBeginStep ==
  ASSUME IInv, NEW b0 \in Owned, FreeBegin(b0) PROVE IInv'
<1> USE DEF IInv, FreeBegin, heap
<1>1. TypeOK'
  <2>1. b0 \in Blocks \ {END}
    BY DEF Owned, TypeOK, Tiling
  <2>2. b0 \in Nat /\ len[b0] \in Nat /\ len[b0] >= HDRSZ /\ b0 + len[b0] <= END
    BY <2>1, BlockNat, NextBlock
  <2>3. b0 + HDRSZ \in Offset
    BY <2>2, Offsets DEF Offset
  <2> QED
    BY <2>3 DEF TypeOK, Blocks, walk
<1>2. Tiling' /\ BucketApart'
  BY HeapUnchanged
<1>3. WalkOK'
  BY DEF WalkOK, Owned
<1> QED
  BY <1>1, <1>2, <1>3

(* osal_mem_free finds the header of the block that was passed.            *)
LEMMA FreeFindsHeader ==
  ASSUME IInv, pc = "free"
  PROVE  ptr - HDRSZ \in Owned
<1>1. PICK b \in Owned : ptr = b + HDRSZ
  BY DEF IInv, WalkOK
<1>2. b \in Nat
  BY BlockNat DEF IInv, TypeOK, Owned
<1>3. ptr - HDRSZ = b
  BY <1>1, <1>2, Offsets
<1> QED
  BY <1>3

LEMMA FreeStep ==
  ASSUME IInv, osal_mem_free PROVE IInv'
<1> DEFINE b0 == ptr - HDRSZ
<1> USE DEF IInv, osal_mem_free, EndOfCall
<1>1. b0 \in Blocks /\ b0 /= NullBlk
  BY FreeFindsHeader DEF Owned, TypeOK
<1> HIDE DEF b0
<1>2. /\ inUse' = inUse \ {b0} /\ ff1' = IF ff1 > b0 THEN b0 ELSE ff1
      /\ UNCHANGED <<len, ff2, kicked>> /\ pc' = "idle"
  BY DEF b0
<1>3. TypeOK'
  <2>1. b0 \in Offset /\ 0 \in Offset
    BY <1>1, Offsets DEF TypeOK, Offset
  <2> QED
    BY <1>2, <2>1 DEF TypeOK, Blocks
<1>4. Tiling'
  BY <1>2 DEF Tiling, Blocks
<1>5. BucketApart'
  <2>1. b0 \in Nat /\ ff1 \in Nat /\ WILD \in Nat
    BY <1>1, BlockNat, Offsets DEF BucketApart
  <2>2. ff1' \in Blocks' /\ ff1' <= WILD
    BY <1>1, <1>2, <2>1 DEF BucketApart, Blocks
  <2> QED
    BY <1>1, <1>2, <2>2 DEF BucketApart, Blocks
<1>6. WalkOK'
  BY <1>2 DEF WalkOK
<1> QED
  BY <1>3, <1>4, <1>5, <1>6

-----------------------------------------------------------------------------
(* The steps of the walk.                                                  *)

LEMMA AllocBeginStep ==
  ASSUME IInv, NEW n \in Requests, AllocBegin(n) PROVE IInv'
<1> USE DEF IInv, AllocBegin, heap
<1>1. n \in Nat /\ n + HDRSZ \in Nat
  BY MemAssumption
<1>2. start' \in Blocks /\ ff1 <= start' /\ start' <= WILD /\ start' \in Nat
  <2>1. ff1 \in Nat /\ WILD \in Nat
    BY BlockNat DEF BucketApart
  <2> QED
    BY <2>1 DEF BucketApart
<1>3. TypeOK'
  <2>1. start' \in Offset /\ hdr' \in Offset
    BY <1>2 DEF TypeOK
  <2> QED
    BY <1>1, <2>1 DEF TypeOK, Blocks
<1>4. Tiling' /\ BucketApart'
  BY HeapUnchanged
<1>5. start' /= END
  BY ONLY <1>2, Offsets
<1>6. \A b \in Blocks : start' <= b => b + len[b] /= start'
  <2> SUFFICES ASSUME NEW b \in Blocks, start' <= b, b + len[b] = start' PROVE FALSE
    OBVIOUS
  <2>1. b \in Nat /\ len[b] \in Nat
    BY BlockNat
  <2>2. b = start'
    BY <1>2, <2>1
  <2> QED
    BY <1>2, <1>5, <2>2, NextBlock
<1>7. \A a, b \in Blocks : ~ (start' <= a /\ b <= start' /\ a < b)
  BY <1>2, BlockNat
<1>8. Walking'
  <2>1. NoRoom(start, hdr)'
    BY <1>7 DEF NoRoom, FreeRun, Blocks
  <2>2. AfterInUse(hdr)'
    BY <1>6 DEF AfterInUse, Blocks
  <2>3. start' <= hdr'
    BY <1>2
  <2> QED
    BY <1>2, <1>5, <2>1, <2>2, <2>3 DEF Walking, Blocks
<1>9. WalkOK'
  BY <1>8 DEF WalkOK
<1> QED
  BY <1>3, <1>4, <1>9

(* What the next turn of the loop needs when the blocks do not change.     *)
LEMMA AdvanceStep ==
  ASSUME IInv, pc = "walk", UNCHANGED <<heap, start, size>>,
         UNCHANGED arg, Advance(hdr + len[hdr]), NoRoom(start, hdr + len[hdr]),
         coal' \in BOOLEAN, prev' \in Offset,
         IF coal'
         THEN /\ prev' = hdr /\ hdr \in Free /\ len[hdr] < size
              /\ AfterInUse(hdr)
         ELSE hdr \in inUse
  PROVE  IInv'
<1> USE DEF IInv, Advance, heap, arg
<1>1. Walking /\ hdr \in Blocks \ {END}
  BY DEF WalkOK, Walking
<1>2. hdr' \in Blocks /\ hdr < hdr' /\ hdr' \in Nat /\ hdr \in Nat /\ start \in Nat
  BY <1>1, NextBlock, BlockNat DEF Walking
<1>3. TypeOK'
  <2>1. hdr' \in Offset
    BY <1>2 DEF TypeOK
  <2> QED
    BY <2>1 DEF TypeOK, Blocks
<1>4. Tiling' /\ BucketApart'
  BY HeapUnchanged
<1>5. NoRoom(start, hdr)'
  BY DEF NoRoom, FreeRun, Blocks, Free
<1>6. pc' = "full" <=> hdr' = END
  BY <1>2, OnlyEndIsEmpty
<1>7. ASSUME pc' = "walk" PROVE Walking'
  <2>1. start' \in Blocks' /\ ff1' <= start' /\ start' <= hdr'
    BY <1>1, <1>2 DEF Walking, Blocks
  <2>2. hdr' \in Blocks' \ {END}
    BY <1>2, <1>6, <1>7 DEF Blocks
  <2>3. CASE coal'
    BY <1>1, <1>2, <1>5, <2>1, <2>2, <2>3 DEF Walking, AfterInUse, Blocks, Free
  <2>4. CASE ~ coal'
    <3>1. AfterInUse(hdr)'
      <4> SUFFICES ASSUME NEW b \in Blocks, b + len[b] = hdr' PROVE b \in inUse
        BY DEF AfterInUse, Blocks
      <4>1. b /= END
        <5> SUFFICES ASSUME b = END PROVE FALSE
          OBVIOUS
        <5> QED
          BY <1>2, <1>6, <1>7, Offsets DEF Tiling
      <4>2. b = hdr
        BY <1>1, <4>1, SamePredecessor
      <4> QED
        BY <2>4, <4>2
    <3> QED
      BY <1>5, <2>1, <2>2, <2>4, <3>1 DEF Walking
  <2> QED
    BY <2>3, <2>4
<1>8. pc' = "full" => NoRoom(start, END)'
  BY <1>5, <1>6
<1>9. WalkOK'
  BY <1>7, <1>8 DEF WalkOK
<1> QED
  BY <1>3, <1>4, <1>9

LEMMA SkipInUseStep ==
  ASSUME IInv, SkipInUse PROVE IInv'
<1>1. NoRoom(start, hdr + len[hdr])
  BY PassInUse DEF IInv, WalkOK, SkipInUse
<1>2. coal' \in BOOLEAN /\ prev' \in Offset /\ ~ coal'
  BY DEF SkipInUse, IInv, TypeOK
<1> QED
  BY <1>1, <1>2, AdvanceStep DEF SkipInUse

LEMMA FirstFreeStep ==
  ASSUME IInv, FirstFree PROVE IInv'
<1>1. TypeOK /\ Tiling /\ Walking /\ ~ coal /\ hdr \in Free /\ hdr \in Offset
  BY DEF IInv, WalkOK, FirstFree, Walking, Free, TypeOK
<1>2. CASE len[hdr] >= size
  <2>1. UNCHANGED <<heap, walk, arg>> /\ pc' = "place"
    BY <1>2 DEF FirstFree, walk
  <2>2. TypeOK'
    BY <1>1, <2>1 DEF TypeOK, Blocks, heap, walk, arg
  <2>3. Tiling' /\ BucketApart'
    BY <2>1, HeapUnchanged DEF IInv, heap
  <2>4. WalkOK'
    BY <1>1, <1>2, <2>1 DEF WalkOK, Free, Blocks, heap, walk, arg, IInv, FirstFree
  <2> QED
    BY <2>2, <2>3, <2>4 DEF IInv
<1>3. CASE ~ (len[hdr] >= size)
  <2>1. len[hdr] < size
    <3>1. len[hdr] \in Nat /\ size \in Nat
      BY <1>1, BlockNat DEF Free, TypeOK
    <3> QED
      BY <1>3, <3>1
  <2>2. NoRoom(start, hdr + len[hdr])
    BY <1>1, <2>1, PassSmall
  <2>3. coal' = TRUE /\ prev' \in Offset /\ prev' = hdr /\ Advance(hdr + len[hdr])
    BY <1>1, <1>3 DEF FirstFree
  <2>5. coal' \in BOOLEAN /\ coal'
    BY <2>3
  <2>6. pc = "walk" /\ UNCHANGED <<heap, start, size, arg>>
    BY DEF FirstFree
  <2>4. AfterInUse(hdr)
    BY <1>1 DEF Walking
  <2> QED
    BY <1>1, <2>1, <2>2, <2>3, <2>4, <2>5, <2>6, AdvanceStep
<1> QED
  BY <1>2, <1>3

(* Joining hdr to the free block before it.                                *)
LEMMA CoalesceStep ==
  ASSUME IInv, Coalesce PROVE IInv'
<1> DEFINE nxt == hdr + len[hdr]
<1>1. TypeOK /\ Tiling /\ BucketApart /\ Walking /\ coal
  BY DEF IInv, WalkOK, Coalesce
<1>2. /\ hdr \in Blocks \ {END} /\ hdr \notin inUse
      /\ prev \in Blocks \ {END} /\ prev \notin inUse /\ prev + len[prev] = hdr
      /\ start \in Blocks /\ ff1 \in Blocks /\ ff1 <= start /\ start <= prev
      /\ len[prev] < size /\ AfterInUse(prev) /\ NoRoom(start, hdr)
  BY <1>1 DEF Walking, Coalesce, Free, BucketApart
<1>3. /\ hdr \in Nat /\ prev \in Nat /\ len[hdr] \in Nat /\ len[prev] \in Nat
      /\ start \in Nat /\ ff1 \in Nat
  BY <1>1, <1>2, BlockNat
<1>4. prev < hdr /\ hdr < nxt /\ nxt \in Blocks /\ nxt \in Nat
  BY <1>1, <1>2, NextBlock
<1>5. \A c \in Blocks : c \in Nat /\ (c <= prev \/ c = hdr \/ nxt <= c)
  BY <1>1, <1>2, <1>3, NextBlock, BlockNat
<1>6. /\ Blocks' = Blocks \ {hdr}
      /\ len'[prev] = len[prev] + len[hdr]
      /\ \A b \in Blocks \ {hdr, prev} : len'[b] = len[b]
      /\ inUse' = inUse /\ ff1' = ff1 /\ ff2' = ff2 /\ kicked' = kicked
      /\ start' = start /\ prev' = prev /\ coal' = coal /\ size' = size
      /\ asked' = asked /\ ptr' = ptr
  BY <1>2, <1>4 DEF Coalesce, Blocks, arg
<1>7. len'[prev] \in Nat /\ prev + len'[prev] = nxt /\ len'[prev] >= HDRSZ
  BY <1>1, <1>2, <1>3, <1>6, NextBlock, Offsets
<1>8. END /= hdr /\ 0 /= hdr /\ NullBlk \notin {hdr, prev}
  BY <1>1, <1>2, <1>3, <1>4 DEF BucketApart
<1>9. WILD /= hdr
  <2> SUFFICES ASSUME WILD = hdr PROVE FALSE
    OBVIOUS
  <2>1. NullBlk \in Blocks \ {END} /\ NullBlk + len[NullBlk] = hdr
    BY <1>1, Offsets DEF BucketApart, TypeOK
  <2>2. NullBlk = prev
    BY <1>1, <1>2, <2>1, SamePredecessor
  <2> QED
    BY <1>8, <2>2
<1>10. hdr' \in Blocks' /\ pc' \in {"walk", "place", "full"}
  BY <1>2, <1>4, <1>6 DEF Coalesce, Advance
<1>11. TypeOK'
  <2>1. len' = [b \in Blocks' |-> len'[b]]
    BY DEF Coalesce, Blocks
  <2>2. \A b \in Blocks' : len'[b] \in Offset
    <3>1. len'[prev] \in Offset
      <4>1. nxt <= END
        BY <1>1, <1>4, BlockNat
      <4> QED
        BY <1>3, <1>7, <4>1, Offsets DEF Offset
    <3> QED
      BY <1>1, <1>6, <3>1 DEF TypeOK
  <2>3. len' \in [Blocks' -> Offset]
    BY <2>1, <2>2
  <2>4. Blocks' \subseteq Offset /\ inUse' \subseteq Blocks' /\ hdr' \in Offset
    BY <1>1, <1>2, <1>6, <1>10 DEF TypeOK
  <2> QED
    BY <1>1, <1>6, <1>10, <2>3, <2>4 DEF TypeOK
<1>12. Tiling'
  <2>1. 0 \in Blocks' /\ END \in Blocks' /\ len'[END] = 0 /\ END \notin inUse'
    BY <1>1, <1>2, <1>6, <1>8 DEF Tiling
  <2>2. ASSUME NEW b \in Blocks' \ {END}
        PROVE  /\ len'[b] >= HDRSZ
               /\ b + len'[b] \in Blocks'
               /\ \A c \in Blocks' : ~ (b < c /\ c < b + len'[b])
    <3>1. CASE b = prev
      BY <1>3, <1>4, <1>5, <1>6, <1>7, <3>1
    <3>2. CASE b /= prev
      <4>1. b \in Blocks \ {END} /\ b /= hdr /\ len'[b] = len[b]
        BY <1>6, <3>2
      <4>2. b + len[b] /= hdr
        BY <1>1, <1>2, <3>2, <4>1, SamePredecessor
      <4> QED
        BY <1>1, <1>6, <4>1, <4>2 DEF Tiling
    <3> QED
      BY <3>1, <3>2
  <2>3. ASSUME NEW b \in Blocks' \ {0}
        PROVE  \E a \in Blocks' \ {END} : a + len'[a] = b
    <3>1. PICK a \in Blocks \ {END} : a + len[a] = b
      BY <1>1, <1>6 DEF Tiling
    <3>2. CASE a = hdr
      BY <1>2, <1>4, <1>6, <1>7, <3>1, <3>2
    <3>3. CASE a /= hdr
      <4>1. a /= prev
        BY <1>2, <1>6, <3>1
      <4> QED
        BY <1>6, <3>1, <3>3, <4>1
    <3> QED
      BY <3>2, <3>3
  <2> QED
    BY <2>1, <2>2, <2>3 DEF Tiling
<1>13. BucketApart'
  <2>1. NullBlk \in Blocks \ {hdr, prev}
    BY <1>1, <1>8 DEF BucketApart, TypeOK
  <2>2. ff1 /= hdr
    BY <1>2, <1>3, <1>4
  <2> QED
    BY <1>1, <1>2, <1>6, <1>9, <2>1, <2>2 DEF BucketApart
<1>14. CASE len[prev] + len[hdr] >= size
  <2>1. hdr' = prev /\ pc' = "place"
    BY <1>14 DEF Coalesce
  <2>2. hdr' \in Free' /\ len'[hdr'] >= size'
    BY <1>2, <1>4, <1>6, <1>14, <2>1 DEF Free
  <2>3. WalkOK'
    BY <1>6, <2>1, <2>2 DEF WalkOK, IInv, Coalesce
  <2> QED
    BY <1>11, <1>12, <1>13, <2>3 DEF IInv
<1>15. CASE ~ (len[prev] + len[hdr] >= size)
  <2>1. Advance(nxt) /\ hdr' = nxt
    BY <1>15 DEF Coalesce, Advance
  <2>2. len'[prev] < size
    BY <1>1, <1>3, <1>6, <1>15 DEF TypeOK
  <2>3. NoRoom(start, hdr)'
    <3> SUFFICES ASSUME NEW a \in Blocks', NEW b \in Blocks',
                        start <= a, b <= nxt, FreeRun(a, b)'
                 PROVE  b - a < size
      BY <1>6, <2>1 DEF NoRoom
    <3>1. a \in Blocks /\ b \in Blocks /\ a \in Nat /\ b \in Nat /\ a < b
      BY <1>5, <1>6 DEF FreeRun
    <3>2. a <= prev /\ (b <= prev \/ b = nxt)
      BY <1>4, <1>5, <1>6, <3>1
    <3>3. ASSUME NEW d \in Blocks, d <= b, d <= prev, a < d PROVE FreeRun(a, d)
      <4>1. ASSUME NEW c \in Blocks, a <= c, c < d PROVE c \in Free
        <5>1. c \in Blocks' /\ c < b
          BY <1>3, <1>4, <1>5, <1>6, <3>1, <3>3, <4>1
        <5> QED
          BY <1>6, <4>1, <5>1 DEF FreeRun, Free
      <4> QED
        BY <3>1, <3>3, <4>1 DEF FreeRun
    <3>4. CASE b <= prev
      <4>1. FreeRun(a, b)
        BY <3>1, <3>3, <3>4
      <4>2. b <= hdr
        BY <1>3, <1>4, <3>1, <3>4
      <4> QED
        BY <1>2, <3>1, <4>1, <4>2 DEF NoRoom
    <3>5. CASE b = nxt /\ a = prev
      BY <1>3, <1>7, <2>2, <3>5
    <3>6. CASE b = nxt /\ a < prev
      <4>1. prev <= b
        BY <1>3, <1>4, <3>6
      <4>2. FreeRun(a, prev)
        BY <1>2, <1>3, <3>3, <3>6, <4>1
      <4>3. PICK p \in Free : a <= p /\ p + len[p] = prev
        BY <1>1, <1>2, <1>3, <3>1, <3>6, <4>2, RunReaches
      <4>4. p \in Blocks /\ start <= p
        BY <1>3, <1>5, <3>1, <4>3 DEF Free
      <4> QED
        BY <1>2, <4>3, <4>4 DEF AfterInUse, Free
    <3> QED
      BY <1>3, <3>1, <3>2, <3>4, <3>5, <3>6
  <2>4. AfterInUse(prev)'
    <3> SUFFICES ASSUME NEW b \in Blocks', start <= b, b + len'[b] = prev
                 PROVE  b \in inUse
      BY <1>6 DEF AfterInUse
    <3>1. b /= prev
      BY <1>3, <1>7, Offsets
    <3>2. b \in Blocks /\ len'[b] = len[b]
      BY <1>6, <3>1
    <3> QED
      BY <1>2, <3>2 DEF AfterInUse
  <2>5. pc' = "full" <=> nxt = END
    BY <1>1, <1>4, <2>1, OnlyEndIsEmpty DEF Advance
  <2>6. pc' \in {"walk", "full"}
    BY <2>1 DEF Advance
  <2>7. ASSUME pc' = "walk" PROVE Walking'
    <3>1. start' \in Blocks' /\ ff1' <= start' /\ start' <= hdr'
      BY <1>2, <1>3, <1>4, <1>6, <2>1
    <3>2. hdr' \in Blocks' \ {END}
      BY <1>10, <2>1, <2>5, <2>7
    <3>3. prev' \in Free' /\ start' <= prev' /\ prev' + len'[prev'] = hdr'
      BY <1>2, <1>3, <1>4, <1>6, <1>7, <2>1 DEF Free
    <3>4. len'[prev'] < size' /\ coal'
      BY <1>1, <1>6, <2>2
    <3> QED
      BY <1>6, <2>3, <2>4, <3>1, <3>2, <3>3, <3>4 DEF Walking, AfterInUse
  <2>8. WalkOK'
    <3>1. pc' = "full" => NoRoom(start, END)'
      BY <2>1, <2>3, <2>5
    <3>2. asked' \in Requests /\ size' = asked' + HDRSZ
      BY <1>6 DEF IInv, WalkOK, Coalesce
    <3> QED
      BY <2>6, <2>7, <3>1, <3>2 DEF WalkOK
  <2> QED
    BY <1>11, <1>12, <1>13, <2>8 DEF IInv
<1> QED
  BY <1>14, <1>15

-----------------------------------------------------------------------------
(* The block that was found, split or whole, becomes the caller's.         *)
LEMMA PlaceStep ==
  ASSUME IInv, Place PROVE IInv'
<1> DEFINE rest == hdr + size
<1>1. TypeOK /\ Tiling /\ BucketApart /\ hdr \in Free /\ len[hdr] >= size
  BY DEF IInv, WalkOK, Place
<1>2. hdr \in Blocks \ {END} /\ hdr \notin inUse
  BY <1>1 DEF Free
<1>3. hdr \in Nat /\ len[hdr] \in Nat /\ size \in Nat /\ size >= HDRSZ
  <2>1. asked \in Requests /\ size = asked + HDRSZ
    BY DEF IInv, WalkOK, Place
  <2>2. asked \in Nat
    BY <2>1, MemAssumption
  <2> QED
    BY <1>1, <1>2, <2>1, <2>2, BlockNat, Offsets DEF TypeOK
<1>4. \A c \in Blocks : c \in Nat /\ (c <= hdr \/ hdr + len[hdr] <= c)
  BY <1>1, <1>2, NextBlock, BlockNat
<1>5. hdr + len[hdr] \in Blocks
  BY <1>1, <1>2, NextBlock
<1>6. inUse' = inUse \union {hdr} /\ ff1' = ff1 /\ ff2' = ff2 /\ kicked' = kicked
  BY DEF Place
<1>7. /\ pc' = "idle" /\ start' = 0 /\ hdr' = 0 /\ prev' = 0 /\ coal' = FALSE /\ size' = 0
      /\ asked' = 0 /\ ptr' = 0
  BY DEF Place, EndOfCall
<1>8. WalkOK'
  BY <1>7 DEF WalkOK
<1>9. 0 \in Offset
  BY Offsets DEF Offset
<1>10. CASE len[hdr] - size >= OSALMEM_MIN_BLKSZ
  <2>1. /\ Blocks' = Blocks \union {rest}
        /\ len' = [b \in Blocks \union {rest} |->
                     IF b = hdr THEN size
                     ELSE IF b = rest THEN len[hdr] - size
                     ELSE len[b]]
    BY <1>10 DEF Place, Blocks
  <2>2. hdr < rest /\ rest < hdr + len[hdr] /\ rest \in Nat
    BY <1>3, <1>10, Offsets
  <2>3. rest \notin Blocks
    BY <1>3, <1>4, <2>2
  <2>4. len'[hdr] = size /\ len'[rest] = len[hdr] - size
    BY <1>2, <1>3, <2>1, <2>2
  <2>5. \A b \in Blocks \ {hdr} : len'[b] = len[b]
    BY <2>1, <2>3
  <2>6. TypeOK'
    <3>1. hdr + len[hdr] <= END
      BY <1>1, <1>5, BlockNat
    <3>2. rest \in Offset /\ size \in Offset /\ len[hdr] - size \in Offset
      BY <1>3, <2>2, <3>1, <1>10, Offsets DEF Offset
    <3>3. \A b \in Blocks' : len'[b] \in Offset
      BY <1>1, <2>1, <2>4, <2>5, <3>2 DEF TypeOK
    <3>4. len' \in [Blocks' -> Offset]
      BY <2>1, <3>3
    <3> QED
      BY <1>1, <1>2, <1>6, <1>7, <1>9, <2>1, <3>2, <3>4 DEF TypeOK
  <2>7. Tiling'
    <3>1. 0 \in Blocks' /\ END \in Blocks' /\ len'[END] = 0 /\ END \notin inUse'
      BY <1>1, <1>2, <1>6, <2>1, <2>5 DEF Tiling
    <3>2. ASSUME NEW b \in Blocks' \ {END}
          PROVE  /\ len'[b] >= HDRSZ
                 /\ b + len'[b] \in Blocks'
                 /\ \A c \in Blocks' : ~ (b < c /\ c < b + len'[b])
      <4>1. CASE b = hdr
        BY <1>3, <1>4, <2>1, <2>2, <2>4, <4>1
      <4>2. CASE b = rest
        <5>1. b + len'[b] = hdr + len[hdr] /\ len'[b] >= HDRSZ
          BY <1>3, <1>10, <2>4, <4>2, Offsets
        <5> QED
          BY <1>3, <1>4, <1>5, <2>1, <2>2, <4>2, <5>1
      <4>3. CASE b \notin {hdr, rest}
        <5>1. b \in Blocks \ {END} /\ b \in Nat /\ len'[b] = len[b] /\ len[b] \in Nat
          BY <1>1, <2>1, <2>5, <4>3, BlockNat
        <5>2. /\ len[b] >= HDRSZ /\ b + len[b] \in Blocks
              /\ \A c \in Blocks : c <= b \/ b + len[b] <= c
          BY <1>1, <5>1, NextBlock
        <5>3. ~ (b < rest /\ rest < b + len[b])
          <6>1. (hdr <= b \/ b + len[b] <= hdr) /\ (b <= hdr \/ hdr + len[hdr] <= b)
            BY <1>2, <1>4, <5>1, <5>2
          <6> QED
            BY <1>3, <2>2, <4>3, <5>1, <6>1
        <5> QED
          BY <1>4, <2>1, <2>2, <5>1, <5>2, <5>3
      <4> QED
        BY <4>1, <4>2, <4>3
    <3>3. ASSUME NEW b \in Blocks' \ {0}
          PROVE  \E a \in Blocks' \ {END} : a + len'[a] = b
      <4>1. CASE b = rest
        BY <1>2, <2>1, <2>4, <4>1
      <4>2. CASE b /= rest
        <5>1. PICK a \in Blocks \ {END} : a + len[a] = b
          BY <1>1, <2>1, <4>2 DEF Tiling
        <5>2. CASE a = hdr
          <6>1. rest \in Blocks' \ {END} /\ rest + len'[rest] = b
            BY <1>1, <1>3, <2>1, <2>3, <2>4, <5>1, <5>2 DEF Tiling
          <6> QED
            BY <6>1
        <5>3. CASE a /= hdr
          BY <2>1, <2>5, <5>1, <5>3
        <5> QED
          BY <5>2, <5>3
      <4> QED
        BY <4>1, <4>2
    <3> QED
      BY <3>1, <3>2, <3>3 DEF Tiling
  <2>8. BucketApart'
    BY <1>1, <1>2, <1>6, <2>1, <2>5 DEF BucketApart, TypeOK
  <2> QED
    BY <1>8, <2>6, <2>7, <2>8 DEF IInv
<1>11. CASE ~ (len[hdr] - size >= OSALMEM_MIN_BLKSZ)
  <2>1. len' = len /\ Blocks' = Blocks
    BY <1>11 DEF Place, Blocks
  <2>2. TypeOK'
    BY <1>1, <1>2, <1>6, <1>7, <1>9, <2>1 DEF TypeOK
  <2>3. Tiling'
    BY <1>1, <1>2, <1>6, <2>1 DEF Tiling
  <2>4. BucketApart'
    BY <1>1, <1>6, <2>1 DEF BucketApart
  <2> QED
    BY <1>8, <2>2, <2>3, <2>4 DEF IInv
<1> QED
  BY <1>10, <1>11

(* IInv is an invariant of the heap.                                       *)
THEOREM HeapInvariant == Spec => []IInv
<1>1. Init => IInv
  BY InitIInv
<1>2. IInv /\ [Next]_vars => IInv'
  <2> SUFFICES ASSUME IInv, [Next]_vars PROVE IInv'
    OBVIOUS
  <2>1. CASE UNCHANGED vars
    <3>1. TypeOK'
      BY <2>1 DEF IInv, TypeOK, vars, heap, walk, arg, Blocks
    <3>2. Tiling' /\ BucketApart'
      BY <2>1, HeapUnchanged DEF IInv, vars, heap
    <3>3. WalkOK'
      BY <2>1 DEF IInv, WalkOK, Walking, NoRoom, FreeRun, AfterInUse, Free, Blocks,
                  Owned, vars, heap, walk, arg
    <3> QED
      BY <3>1, <3>2, <3>3 DEF IInv
  <2>2. CASE Call
    BY <2>2, KickStep, AllocBeginStep, FreeBeginStep DEF Call
  <2>3. CASE Step
    BY <2>3, SkipInUseStep, FirstFreeStep, CoalesceStep, PlaceStep, FailStep,
       FreeStep DEF Step
  <2> QED
    BY <2>1, <2>2, <2>3 DEF Next
<1> QED
  BY <1>1, <1>2, PTL DEF Spec

(* Types of the header words, and the walk stays inside the heap.          *)
THEOREM HeapTypes == Spec => []TypeOK
<1>1. IInv => TypeOK
  BY DEF IInv
<1> QED
  BY <1>1, HeapInvariant, PTL

(* The blocks tile the heap in every reachable state: no call, whatever it *)
(* splits or joins, makes two blocks overlap or loses a byte between them. *)
THEOREM HeapTiles == Spec => []Tiling
BY HeapInvariant, PTL DEF IInv

(* The NULL block keeps the bucket and the wilderness apart, and ff1 and   *)
(* ff2 always point to headers.                                            *)
THEOREM BucketStaysApart == Spec => []BucketApart
BY HeapInvariant, PTL DEF IInv

(* osal_mem_alloc returns NULL only when no run of free blocks from where  *)
(* its walk starts could hold the request.                                 *)
THEOREM AllocationFailsOnlyWhenFull == Spec => []FailsOnlyWhenFull
<1>1. IInv => FailsOnlyWhenFull
  BY DEF IInv, WalkOK, FailsOnlyWhenFull
<1> QED
  BY <1>1, HeapInvariant, PTL

-----------------------------------------------------------------------------
(* The refinement of HeapPromise.                                          *)

(* The payloads of two owned blocks lie apart.                             *)
LEMMA PayloadsApart ==
  ASSUME TypeOK, Tiling, NEW a \in Owned, NEW b \in Owned, a /= b
  PROVE  Promise!Apart(Payload(a), Payload(b))
<1>1. a \in Blocks \ {END} /\ b \in Blocks \ {END}
  BY DEF Owned, TypeOK, Tiling
<1>2. a \in Nat /\ b \in Nat /\ len[a] \in Nat /\ len[b] \in Nat
  BY <1>1, BlockNat
<1>3. (a <= b \/ b + len[b] <= a) /\ (b <= a \/ a + len[a] <= b)
  BY <1>1, NextBlock
<1>4. a + len[a] <= b + HDRSZ \/ b + len[b] <= a + HDRSZ
  BY <1>2, <1>3, Offsets
<1> QED
  BY <1>4 DEF Payload, Promise!Apart

(* A payload is a stretch of the heap.                                     *)
LEMMA PayloadStretch ==
  ASSUME TypeOK, Tiling, NEW b \in Owned
  PROVE  Payload(b) \in Promise!Stretch
<1>1. b \in Blocks \ {END}
  BY DEF Owned, TypeOK, Tiling
<1>2. b \in Nat /\ len[b] \in Nat /\ len[b] >= HDRSZ /\ b + len[b] <= END
  BY <1>1, BlockNat, NextBlock
<1>3. MAXMEMHEAP \in Nat /\ END <= MAXMEMHEAP
  BY MemAssumption DEF END
<1>4. b + HDRSZ \in 0 .. MAXMEMHEAP /\ b + len[b] \in 0 .. MAXMEMHEAP
  BY <1>2, <1>3, Offsets
<1> QED
  BY <1>4 DEF Payload, Promise!Stretch

(* The two facts about the next state of the heap.                         *)
LEMMA PayloadsNext ==
  (TypeOK /\ Tiling)' =>
    /\ \A b \in Owned' : Payload(b)' \in Promise!Stretch
    /\ \A a, b \in Owned' : a /= b => Promise!Apart(Payload(a)', Payload(b)')
<1>1. TypeOK /\ Tiling => \A b \in Owned : Payload(b) \in Promise!Stretch
  BY PayloadStretch
<1>2. TypeOK /\ Tiling =>
        \A a, b \in Owned : a /= b => Promise!Apart(Payload(a), Payload(b))
  BY PayloadsApart
<1>3. (TypeOK /\ Tiling => \A b \in Owned : Payload(b) \in Promise!Stretch)'
  BY <1>1, PTL
<1>4. (TypeOK /\ Tiling =>
        \A a, b \in Owned : a /= b => Promise!Apart(Payload(a), Payload(b)))'
  BY <1>2, PTL
<1> QED
  BY <1>3, <1>4

(* Steps that touch no owned block keep what is granted.                   *)
LEMMA GrantedKept ==
  ASSUME inUse' = inUse, \A b \in Owned : len'[b] = len[b]
  PROVE  Granted' = Granted
BY DEF Granted, Owned, Payload

(* A call begins: a size is asked for, or a block that is granted returned. *)
LEMMA AllocBeginAsks ==
  ASSUME IInv, NEW n \in Requests, AllocBegin(n) PROVE Promise!Ask(n)
<1>1. Granted' = Granted
  BY GrantedKept DEF AllocBegin, heap
<1> QED
  BY <1>1 DEF AllocBegin, Promise!Ask, Promise!NoCall, Asked, Returned

LEMMA FreeBeginReturns ==
  ASSUME IInv, NEW b \in Owned, FreeBegin(b)
  PROVE  Promise!Return(Payload(b)) /\ Payload(b) \in Granted
<1>1. Granted' = Granted
  BY GrantedKept DEF FreeBegin, heap
<1>2. b \in Nat /\ ptr' = b + HDRSZ /\ pc' = "free" /\ len' = len
  BY BlockNat DEF FreeBegin, heap, IInv, TypeOK, Owned
<1>3. ptr' - HDRSZ = b
  BY <1>2, Offsets
<1>4. Returned' = {Payload(b)}
  BY <1>2, <1>3 DEF Returned, Payload
<1> QED
  BY <1>1, <1>4 DEF FreeBegin, Promise!Return, Promise!NoCall, Asked, Returned, Granted

LEMMA FreeReleases ==
  ASSUME IInv, osal_mem_free PROVE Promise!Release
<1> DEFINE b == ptr - HDRSZ
<1>0. b \in Owned /\ inUse' = inUse \ {b}
  BY FreeFindsHeader DEF osal_mem_free
<1> HIDE DEF b
<1>1. \A c \in Owned : c \in Nat
  BY BlockNat DEF IInv, TypeOK, Owned
<1>2. \A c \in Owned : Payload(c) = Payload(b) => c = b
  BY <1>0, <1>1, Offsets DEF Payload
<1>3. Owned' = Owned \ {b} /\ len' = len
  BY <1>0 DEF osal_mem_free, Owned
<1>4. Granted' = {Payload(c) : c \in Owned \ {b}}
  BY <1>3 DEF Granted, Payload
<1>5. Granted' = Granted \ {Payload(b)}
  BY <1>2, <1>4 DEF Granted
<1>6. Returned = {Payload(b)} /\ Returned' = {} /\ Asked = {} /\ Asked' = {}
  BY DEF osal_mem_free, EndOfCall, Returned, Asked, b
<1> QED
  BY <1>5, <1>6 DEF Promise!Release

LEMMA PlaceGrants ==
  ASSUME IInv, Place
  PROVE  \E g \in Promise!Stretch : Promise!Grant(g)
<1>1. TypeOK' /\ Tiling' /\ TypeOK /\ hdr \in Free /\ len[hdr] >= size
  BY PlaceStep DEF IInv, WalkOK, Place
<1>2. asked \in Requests /\ size = asked + HDRSZ
  BY DEF IInv, WalkOK, Place
<1>3. asked \in Nat /\ hdr \in Nat /\ len[hdr] \in Nat /\ hdr \in Blocks
  BY <1>1, <1>2, BlockNat, MemAssumption DEF Free
<1>4. hdr \notin Owned /\ hdr /= NullBlk
  BY <1>1 DEF Free, Owned, IInv, BucketApart
<1>5. Owned' = Owned \union {hdr}
  BY <1>4 DEF Place, Owned
<1>6. \A b \in Owned : len'[b] = len[b] /\ b \in Nat /\ b /= hdr
  <2> SUFFICES ASSUME NEW b \in Owned
               PROVE  len'[b] = len[b] /\ b \in Nat /\ b /= hdr
    OBVIOUS
  <2>1. b \in Blocks /\ b /= hdr /\ b \in Nat
    BY <1>1, <1>4, BlockNat DEF Owned, TypeOK
  <2>2. CASE len[hdr] - size >= OSALMEM_MIN_BLKSZ
    <3>1. hdr < hdr + size /\ hdr + size < hdr + len[hdr]
      BY <1>2, <1>3, <2>2, Offsets
    <3>2. b /= hdr + size
      BY <1>1, <1>3, <2>1, <3>1, NextBlock DEF IInv, Free
    <3> QED
      BY <2>1, <2>2, <3>2 DEF Place
  <2>3. CASE ~ (len[hdr] - size >= OSALMEM_MIN_BLKSZ)
    BY <2>1, <2>3 DEF Place
  <2> QED
    BY <2>2, <2>3
<1>7. len'[hdr] >= size /\ len'[hdr] \in Nat
  BY <1>1, <1>2, <1>3, Offsets DEF Place
<1> DEFINE g == [from |-> hdr + HDRSZ, upto |-> hdr + len'[hdr]]
<1>8. Granted' = Granted \union {g}
  BY <1>5, <1>6 DEF Granted, Payload
<1>9. g \in Promise!Stretch
  BY <1>1, <1>5, PayloadsNext DEF Payload
<1>10. \A h \in Granted : Promise!Apart(g, h)
  <2> SUFFICES ASSUME NEW b \in Owned PROVE Promise!Apart(g, Payload(b))
    BY DEF Granted
  <2>1. b \in Owned' /\ hdr \in Owned' /\ hdr /= b
    BY <1>5, <1>6
  <2>2. \A a, c \in Owned' : a /= c =>
          Promise!Apart([from |-> a + HDRSZ, upto |-> a + len'[a]],
                        [from |-> c + HDRSZ, upto |-> c + len'[c]])
    BY <1>1, PayloadsNext DEF Payload
  <2>3. Promise!Apart(g, [from |-> b + HDRSZ, upto |-> b + len'[b]])
    BY <2>1, <2>2
  <2> QED
    BY <1>6, <2>3 DEF Payload
<1>11. g.upto >= g.from + asked
  BY <1>2, <1>3, <1>7, Offsets
<1>12. g \notin Granted
  <2> SUFFICES ASSUME NEW b \in Owned PROVE g /= Payload(b)
    BY DEF Granted
  <2>1. b + HDRSZ /= hdr + HDRSZ
    BY <1>3, <1>6, Offsets
  <2>2. g.from = hdr + HDRSZ /\ Payload(b).from = b + HDRSZ
    BY DEF Payload
  <2> QED
    BY <2>1, <2>2
<1>13. Asked = {asked} /\ Asked' = {} /\ Returned' = Returned
  BY DEF Place, EndOfCall, Asked, Returned
<1> HIDE DEF g
<1> QED
  BY <1>8, <1>9, <1>10, <1>11, <1>12, <1>13 DEF Promise!Grant

(* The heap implements HeapPromise, for every heap and every request size: *)
(* what is granted is as long as the call under way asked for, and goes    *)
(* only by the osal_mem_free that was passed its pointer.                  *)
THEOREM HeapImplementsPromise == Spec => ImplementsPromise
<1>1. Init => Promise!Init
  BY DEF Init, Promise!Init, Owned, Granted, Asked, Returned
<1>2. IInv /\ [Next]_vars => [Promise!Next]_<<Granted, Asked, Returned>>
  <2> SUFFICES ASSUME IInv, [Next]_vars
               PROVE  Promise!Next \/ UNCHANGED <<Granted, Asked, Returned>>
    OBVIOUS
  <2>1. CASE UNCHANGED vars
    <3>1. Granted' = Granted
      BY <2>1, GrantedKept DEF vars, heap
    <3>2. UNCHANGED <<Asked, Returned>>
      BY <2>1 DEF vars, heap, arg, Asked, Returned, Payload
    <3> QED
      BY <3>1, <3>2
  <2>2. ASSUME NEW n \in Requests, AllocBegin(n) PROVE Promise!Next
    BY <2>2, AllocBeginAsks DEF Promise!Next
  <2>3. ASSUME NEW b \in Owned, FreeBegin(b) PROVE Promise!Next
    BY <2>3, FreeBeginReturns DEF Promise!Next
  <2>4. CASE osal_mem_free
    BY <2>4, FreeReleases DEF Promise!Next
  <2>5. CASE Place
    BY <2>5, PlaceGrants DEF Promise!Next
  <2>6. CASE Fail
    <3>1. Granted' = Granted
      BY <2>6, GrantedKept DEF Fail, heap
    <3>2. Asked' = {} /\ Returned' = Returned
      BY <2>6 DEF Fail, EndOfCall, Asked, Returned
    <3> QED
      BY <3>1, <3>2 DEF Promise!Refuse, Promise!Next
  <2>7. CASE osal_mem_kick \/ SkipInUse \/ FirstFree \/ Coalesce
    <3>1. inUse' = inUse /\ \A b \in Owned : len'[b] = len[b]
      <4>1. CASE Coalesce
        <5>1. inUse' = inUse /\ hdr \notin inUse /\ prev \notin inUse
          BY <4>1 DEF Coalesce, IInv, WalkOK, Walking, Free
        <5> QED
          BY <4>1, <5>1 DEF Coalesce, Owned, IInv, TypeOK
      <4> QED
        BY <2>7, <4>1 DEF osal_mem_kick, SkipInUse, FirstFree, heap
    <3>2. Granted' = Granted
      BY <3>1, GrantedKept
    <3>3. Asked' = Asked
      BY <2>7 DEF osal_mem_kick, SkipInUse, FirstFree, Coalesce, Advance, arg, Asked
    <3>4. Returned = {} /\ Returned' = {}
      BY <2>7 DEF osal_mem_kick, SkipInUse, FirstFree, Coalesce, Advance, Returned
    <3> QED
      BY <3>2, <3>3, <3>4
  <2> QED
    BY <2>1, <2>2, <2>3, <2>4, <2>5, <2>6, <2>7 DEF Next, Call, Step
<1> QED
  BY <1>1, <1>2, HeapInvariant, PTL
     DEF Spec, ImplementsPromise, Promise!Spec, Promise!promise
=============================================================================
