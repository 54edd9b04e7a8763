------------------------------- MODULE OsalMem -------------------------------
(***************************************************************************)
(* The heap of src/Components/osal/common/OSAL_Memory.c: blocks that tile  *)
(* the heap, each with a header that holds its size and an in-use bit; a   *)
(* small-block bucket in front, a NULL block that is never freed, the      *)
(* wilderness behind it, and a size-zero block at the end.  An allocation  *)
(* walks the headers first fit and joins the free neighbours it meets.     *)
(*                                                                         *)
(* Every call runs in one critical section, so calls do not interleave;    *)
(* the walk of osal_mem_alloc is still modelled one turn of its loop at a  *)
(* time, because what it must get right is a property of the walk.         *)
(***************************************************************************)
EXTENDS Naturals, FiniteSets

CONSTANTS
  MAXMEMHEAP,           \* bytes of the heap
  HDRSZ,                \* bytes of a block header
  SMALLBLKHEAP,         \* bytes of the small-block bucket
  OSALMEM_SMALL_BLKSZ,  \* largest block that is looked for in the bucket
  OSALMEM_MIN_BLKSZ,    \* smallest remainder worth splitting off
  Requests              \* sizes the callers ask for

(* Offset of the block of size zero that ends the heap, of the NULL block  *)
(* behind the bucket, and of the wilderness as osal_mem_init leaves it.    *)
END     == MAXMEMHEAP - HDRSZ
NullBlk == SMALLBLKHEAP
WILD    == SMALLBLKHEAP + HDRSZ

ASSUME MemAssumption ==
  /\ HDRSZ \in Nat \ {0}
  /\ OSALMEM_MIN_BLKSZ \in Nat /\ OSALMEM_MIN_BLKSZ >= HDRSZ
  /\ OSALMEM_SMALL_BLKSZ \in Nat
  /\ SMALLBLKHEAP \in Nat /\ SMALLBLKHEAP >= HDRSZ
  /\ MAXMEMHEAP \in Nat /\ MAXMEMHEAP < 32768
  /\ WILD + OSALMEM_MIN_BLKSZ <= END
  /\ Requests \subseteq 0 .. 32768 - HDRSZ

VARIABLES
  len,     \* size field of every header: its domain is the set of blocks
  inUse,   \* blocks whose header has OSALMEM_IN_USE set
  ff1,     \* where a walk for a small block starts
  ff2,     \* where a walk for any other block starts
  kicked,  \* osal_mem_kick has been called (once, by osal_init_system)
  pc,      \* idle; walk, place or full, where osal_mem_alloc is; free
  start, hdr, prev, coal, size,  \* local variables of osal_mem_alloc
  asked,   \* the size its caller passed
  ptr      \* the pointer that osal_mem_free was passed

heap == <<len, inUse, ff1, ff2, kicked>>
walk == <<start, hdr, prev, coal, size>>
arg  == <<asked, ptr>>
vars == <<heap, pc, walk, arg>>

Blocks == DOMAIN len
Free   == {b \in Blocks : b /= END /\ b \notin inUse}
Owned  == inUse \ {NullBlk}   \* blocks that callers hold

(* After osal_mem_init: the bucket, the NULL block, the wilderness.        *)
Init ==
  /\ len = [b \in {0, NullBlk, WILD, END} |->
              CASE b = 0       -> SMALLBLKHEAP
                [] b = NullBlk -> HDRSZ
                [] b = WILD    -> END - WILD
                [] b = END     -> 0]
  /\ inUse = {NullBlk}
  /\ ff1 = 0
  /\ ff2 = WILD
  /\ kicked = FALSE
  /\ pc = "idle"
  /\ start = 0 /\ hdr = 0 /\ prev = 0 /\ coal = FALSE /\ size = 0
  /\ asked = 0 /\ ptr = 0

(* Parameters and local variables end with the call.                       *)
EndOfCall ==
  /\ pc' = "idle"
  /\ start' = 0 /\ hdr' = 0 /\ prev' = 0 /\ coal' = FALSE /\ size' = 0
  /\ asked' = 0 /\ ptr' = 0

(* osal_mem_kick.                                                          *)
osal_mem_kick ==
  /\ pc = "idle" /\ ~ kicked
  /\ kicked' = TRUE
  /\ ff1' = ff2
  /\ UNCHANGED <<len, inUse, ff2, pc, walk, arg>>

(* Mutant of AllocBegin: the request does not count the header.            *)
AllocBegin_NoHeader(n) ==
  /\ pc = "idle"
  /\ asked' = n
  /\ size' = n
  /\ start' = IF n <= OSALMEM_SMALL_BLKSZ THEN ff1 ELSE ff2
  /\ hdr' = start'
  /\ coal' = FALSE
  /\ pc' = "walk"
  /\ UNCHANGED <<heap, prev, ptr>>

(* osal_mem_alloc up to the loop.                                          *)
AllocBegin(n) ==
  /\ pc = "idle"
  /\ asked' = n
  /\ size' = n + HDRSZ
  /\ start' = IF n + HDRSZ <= OSALMEM_SMALL_BLKSZ THEN ff1 ELSE ff2
  /\ hdr' = start'
  /\ coal' = FALSE
  /\ pc' = "walk"
  /\ UNCHANGED <<heap, prev, ptr>>

(* hdr moves to the header at h; the block of size zero ends the walk.     *)
Advance(h) ==
  /\ hdr' = h
  /\ pc' = IF len[h] = 0 THEN "full" ELSE "walk"

(* Mutants of SkipInUse: a block in use does not end the run of free       *)
(* blocks; the walk does not go on from it.                                *)
SkipInUse_KeepsRun ==
  /\ pc = "walk" /\ hdr \in inUse
  /\ Advance(hdr + len[hdr])
  /\ UNCHANGED <<heap, start, prev, coal, size, arg>>

SkipInUse_Stuck ==
  /\ pc = "walk" /\ hdr \in inUse
  /\ coal' = FALSE
  /\ UNCHANGED <<heap, pc, start, hdr, prev, size, arg>>

SkipInUse ==
  /\ pc = "walk" /\ hdr \in inUse
  /\ coal' = FALSE
  /\ Advance(hdr + len[hdr])
  /\ UNCHANGED <<heap, start, prev, size, arg>>

(* Mutant of FirstFree: a block that fits exactly is passed over.          *)
FirstFree_Strict ==
  /\ pc = "walk" /\ hdr \notin inUse /\ ~ coal
  /\ IF len[hdr] > size
     THEN pc' = "place" /\ UNCHANGED <<hdr, prev, coal>>
     ELSE coal' = TRUE /\ prev' = hdr /\ Advance(hdr + len[hdr])
  /\ UNCHANGED <<heap, start, size, arg>>

FirstFree ==
  /\ pc = "walk" /\ hdr \notin inUse /\ ~ coal
  /\ IF len[hdr] >= size
     THEN pc' = "place" /\ UNCHANGED <<hdr, prev, coal>>
     ELSE coal' = TRUE /\ prev' = hdr /\ Advance(hdr + len[hdr])
  /\ UNCHANGED <<heap, start, size, arg>>

(* *prev += *hdr: the header at hdr is no block any more.                  *)
Coalesce ==
  /\ pc = "walk" /\ hdr \notin inUse /\ coal
  /\ len' = [b \in Blocks \ {hdr} |->
               IF b = prev THEN len[prev] + len[hdr] ELSE len[b]]
  /\ IF len[prev] + len[hdr] >= size
     THEN hdr' = prev /\ pc' = "place"
     ELSE Advance(hdr + len[hdr])
  /\ UNCHANGED <<inUse, ff1, ff2, kicked, start, prev, coal, size, arg>>

(* The block found is split when enough remains, and marked in use.        *)
Place ==
  /\ pc = "place"
  /\ len' = IF len[hdr] - size >= OSALMEM_MIN_BLKSZ
            THEN [b \in Blocks \union {hdr + size} |->
                    IF b = hdr THEN size
                    ELSE IF b = hdr + size THEN len[hdr] - size
                    ELSE len[b]]
            ELSE len
  /\ inUse' = inUse \union {hdr}
  /\ EndOfCall
  /\ UNCHANGED <<ff1, ff2, kicked>>

(* hdr == NULL: the call returns NULL.                                     *)
Fail ==
  /\ pc = "full"
  /\ EndOfCall
  /\ UNCHANGED heap

(* A caller passes the pointer of a block that it holds.                   *)
FreeBegin(b) ==
  /\ pc = "idle"
  /\ b \in Owned
  /\ ptr' = b + HDRSZ
  /\ pc' = "free"
  /\ UNCHANGED <<heap, walk, asked>>

(* Mutants of osal_mem_free: the pointer is stepped back by two headers;   *)
(* ff1 is set without the comparison.                                      *)
osal_mem_free_TwoBack ==
  /\ pc = "free"
  /\ LET currHdr == ptr - 2 * HDRSZ
     IN  /\ inUse' = inUse \ {currHdr}
         /\ ff1' = IF ff1 > currHdr THEN currHdr ELSE ff1
  /\ EndOfCall
  /\ UNCHANGED <<len, ff2, kicked>>

osal_mem_free_AlwaysFf1 ==
  /\ pc = "free"
  /\ inUse' = inUse \ {ptr - HDRSZ}
  /\ ff1' = ptr - HDRSZ
  /\ EndOfCall
  /\ UNCHANGED <<len, ff2, kicked>>

(* osal_mem_free: the header in front of the pointer.                      *)
osal_mem_free ==
  /\ pc = "free"
  /\ LET currHdr == ptr - HDRSZ
     IN  /\ inUse' = inUse \ {currHdr}
         /\ ff1' = IF ff1 > currHdr THEN currHdr ELSE ff1
  /\ EndOfCall
  /\ UNCHANGED <<len, ff2, kicked>>

Call ==
  \/ osal_mem_kick
  \/ \E n \in Requests : AllocBegin(n)
  \/ \E b \in Owned : FreeBegin(b)

Step == SkipInUse \/ FirstFree \/ Coalesce \/ Place \/ Fail \/ osal_mem_free

Next == Call \/ Step

Spec == Init /\ [][Next]_vars

(* A call that has begun runs on: nothing can preempt a critical section.  *)
FairSpec == Spec /\ WF_vars(Step)

-----------------------------------------------------------------------------
Offset == 0 .. END

TypeOK ==
  /\ Blocks \subseteq Offset
  /\ len \in [Blocks -> Offset]
  /\ inUse \subseteq Blocks
  /\ ff1 \in Offset /\ ff2 \in Offset
  /\ kicked \in BOOLEAN
  /\ pc \in {"idle", "walk", "place", "full", "free"}
  /\ start \in Offset /\ hdr \in Offset /\ prev \in Offset
  /\ coal \in BOOLEAN
  /\ size \in Nat /\ asked \in Nat
  /\ ptr \in Offset

(* The blocks tile the heap: from offset 0 to the end block, every block   *)
(* ends where the next one begins and no header lies inside a block, so    *)
(* that no two callers ever share a byte (osal_mem_alloc's split and       *)
(* coalescing, osal_mem_free).                                             *)
Tiling ==
  /\ 0 \in Blocks /\ END \in Blocks
  /\ len[END] = 0 /\ END \notin inUse
  /\ \A b \in Blocks \ {END} :
       /\ len[b] >= HDRSZ
       /\ b + len[b] \in Blocks
       /\ \A c \in Blocks : ~ (b < c /\ c < b + len[b])
  /\ \A b \in Blocks \ {0} : \E a \in Blocks \ {END} : a + len[a] = b

(* The bucket and the wilderness never grow together: the NULL block stays *)
(* in use, the wilderness begins right behind it, and a walk begins at a   *)
(* block, for a large one never in the bucket (osal_mem_init's comment).   *)
BucketApart ==
  /\ NullBlk \in inUse /\ len[NullBlk] = HDRSZ
  /\ WILD \in Blocks
  /\ ff2 = WILD
  /\ ff1 \in Blocks /\ ff1 <= WILD

(* [a, b) is a run of free blocks.                                         *)
FreeRun(a, b) ==
  /\ a \in Blocks /\ b \in Blocks /\ a < b
  /\ \A c \in Blocks : a <= c /\ c < b => c \in Free

(* No run of free blocks between the two headers has room for the request. *)
NoRoom(lo, hi) ==
  \A a, b \in Blocks : lo <= a /\ b <= hi /\ FreeRun(a, b) => b - a < size

(* An allocation fails only when no run of free blocks from where its walk *)
(* starts to the end of the heap could hold it, even joined together       *)
(* (osal_mem_alloc's first fit with lazy coalescing).                      *)
FailsOnlyWhenFull == pc = "full" => NoRoom(start, END)

(* What an allocation knows of the headers it has passed: none of the free *)
(* runs among them has room; prev is the head of the free run that ends at *)
(* hdr, or hdr follows a block in use (or begins the walk).                *)
AfterInUse(h) == \A b \in Blocks : start <= b /\ b + len[b] = h => b \in inUse

Walking ==
  /\ start \in Blocks /\ ff1 <= start /\ start <= hdr
  /\ hdr \in Blocks \ {END}
  /\ NoRoom(start, hdr)
  /\ IF coal
     THEN /\ prev \in Free
          /\ start <= prev /\ prev + len[prev] = hdr
          /\ len[prev] < size
          /\ AfterInUse(prev)
     ELSE AfterInUse(hdr)

WalkOK ==
  /\ pc = "walk" => Walking
  /\ pc = "place" => hdr \in Free /\ len[hdr] >= size
  /\ pc = "full" => NoRoom(start, END)
  /\ pc \in {"walk", "place"} => asked \in Requests /\ size = asked + HDRSZ
  /\ pc = "free" => \E b \in Owned : ptr = b + HDRSZ

IInv == TypeOK /\ Tiling /\ BucketApart /\ WalkOK

(* The payload of the blocks that callers hold, the bytes behind the       *)
(* header, is what HeapPromise calls granted.                              *)
Payload(b) == [from |-> b + HDRSZ, upto |-> b + len[b]]

Granted  == {Payload(b) : b \in Owned}
Asked    == IF pc \in {"walk", "place", "full"} THEN {asked} ELSE {}
Returned == IF pc = "free" THEN {Payload(ptr - HDRSZ)} ELSE {}

Promise == INSTANCE HeapPromise WITH
  Bytes <- MAXMEMHEAP, granted <- Granted, asked <- Asked, returned <- Returned

(* The heap implements HeapPromise: the block that osal_mem_alloc returns  *)
(* is as large as its caller asked for and shares no byte with another;    *)
(* osal_mem_free takes back the block whose pointer it was passed, and no  *)
(* other call moves, shrinks or takes back a block that a caller holds.    *)
ImplementsPromise == Promise!Spec

(* Every call returns: the walk of osal_mem_alloc meets a fitting block or *)
(* the end block.                                                          *)
AllocTerminates == pc /= "idle" ~> pc = "idle"
=============================================================================
