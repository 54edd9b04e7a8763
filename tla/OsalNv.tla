-------------------------------- MODULE OsalNv --------------------------------
(***************************************************************************)
(* The NV items of src/Components/osal/mcu/cc2530/OSAL_Nv.c: items in      *)
(* flash pages, of which one is the reserve.  A write makes a new copy,    *)
(* marks the old one as the source, and zeroes it when the new checksum is *)
(* in place; a page full of zeroed items is compacted into the reserve.    *)
(*                                                                         *)
(* Flash is written a word at a time, bits go from 1 to 0 only, and a      *)
(* reset can come before any write: it keeps the flash, loses the RAM, and *)
(* starts initNV.  One action writes at most one word, except that the     *)
(* data words of an item are one step: until the last of them the          *)
(* checksum does not match, however many have been written.  Items have    *)
(* the same size here, and the supply voltage suffices (failF stays        *)
(* FALSE).                                                                 *)
(***************************************************************************)
EXTENDS Naturals, Sequences, FiniteSets

CONSTANTS
  PageCnt,     \* OSAL_NV_PAGES_USED
  PageItems,   \* items that fit in a page
  Ids,         \* NV item ids
  Vals,        \* what items hold
  Blank,       \* data or checksum still erased
  Zeroed,      \* OSAL_NV_ZEROED_ID
  Absent,      \* what a reader gets for an item that does not exist
  MaxResets    \* bound: resets

Pages == 1 .. PageCnt
NULL == 0      \* OSAL_NV_PAGE_NULL

ASSUME NvAssumption ==
  /\ PageCnt \in Nat /\ PageCnt > 1
  /\ PageItems \in Nat \ {0}
  /\ Zeroed \notin Ids /\ Blank \notin Vals /\ Absent \notin Vals
  /\ MaxResets \in Nat

VARIABLES
  pgHdr,   \* flash: header of each page
  items,   \* flash: items of each page
  pgRes, pgLost,                \* RAM: reserve page, zeroed items of each page
  pc,                           \* next step of the call under way, or idle
  op,                           \* its parameters and locals
  pg, offset, lost, findDups, newPg, oldPg, \* locals of initNV and compactPage
  stat,                         \* stat of the header compactPage has read
  resets,  \* bound and history: resets so far
  expect   \* history: what a reader of each item may get

flash == <<pgHdr, items>>
ram   == <<pgRes, pgLost>>
scan  == <<pg, offset, lost, findDups, newPg, oldPg>>
vars  == <<flash, ram, pc, op, scan, stat, resets, expect>>

PageHdr == [active : BOOLEAN, inUse : BOOLEAN, xfer : BOOLEAN]
ErasedHdr == [active |-> FALSE, inUse |-> FALSE, xfer |-> FALSE]

Item == [id : Ids \union {Zeroed}, data : Vals \union {Blank},
         chk : Vals \union {Blank}, old : BOOLEAN]

(* Nothing reads the rest of an item whose id is zeroed.                   *)
ZeroedItem == [id |-> Zeroed, data |-> Blank, chk |-> Blank, old |-> FALSE]

(* Mutant of Valid: a checksum is taken for the right one.                 *)
Valid_AnyChecksum(it) == it.chk /= Blank

(* hdr.chk == calcChkF.                                                    *)
Valid(it) == it.chk = it.data /\ it.chk /= Blank

LostIn(p) == Cardinality({o \in DOMAIN items[p] : items[p][o].id = Zeroed})

(* Places (page and position) of the copies of an item.                    *)
Copies(id, old) ==
  {x \in Pages \X (1 .. PageItems) :
     x[2] \in DOMAIN items[x[1]] /\ items[x[1]][x[2]].id = id /\ items[x[1]][x[2]].old = old}

FirstOf(S) == CHOOSE x \in S : \A y \in S : x[1] < y[1] \/ (x[1] = y[1] /\ x[2] <= y[2])

(* findItem: the new copy, or the source copy of an interrupted write.     *)
Exists(id) == Copies(id, FALSE) \union Copies(id, TRUE) /= {}
findItem(id) ==
  IF Copies(id, FALSE) /= {} THEN FirstOf(Copies(id, FALSE)) ELSE FirstOf(Copies(id, TRUE))

(* The pages its initPage walks to the end have pgLost set anew.           *)
Rewalked(found) ==
  [p \in Pages |-> IF found = {} \/ p < FirstOf(found)[1] THEN LostIn(p) ELSE pgLost[p]]

(* osal_nv_read of a whole item.                                           *)
osal_nv_read(id) ==
  IF Exists(id) THEN items[findItem(id)[1]][findItem(id)[2]].data ELSE Absent

(* The items after a word of the one at x has been written.                *)
With(x, it) == [items EXCEPT ![x[1]][x[2]] = it]
ItemAt(x) == items[x[1]][x[2]]

NoOp == [id |-> Zeroed, val |-> Blank, src |-> <<NULL, 0>>, dstPg |-> NULL, comPg |-> NULL]

NoScan ==
  pg' = NULL /\ offset' = 0 /\ lost' = 0 /\ findDups' = FALSE /\ newPg' = NULL /\ oldPg' = NULL

Idle == pc' = "idle" /\ op' = NoOp /\ NoScan

(* A device fresh from the factory starts for the first time.              *)
Init ==
  /\ pgHdr = [p \in Pages |-> ErasedHdr]
  /\ items = [p \in Pages |-> <<>>]
  /\ pgRes = NULL
  /\ pgLost = [p \in Pages |-> 0]
  /\ pc = "initPage"
  /\ op = NoOp
  /\ pg = 1 /\ offset = 0 /\ lost = 0 /\ findDups = FALSE /\ newPg = NULL /\ oldPg = NULL
  /\ stat = FALSE
  /\ resets = 0
  /\ expect = [i \in Ids |-> {Absent}]

-----------------------------------------------------------------------------
(* osal_nv_item_init and osal_nv_write.                                    *)

(* initItem looks for a page with room from the one after the reserve on.  *)
Roomy(lst) == {p \in Pages \ {pgRes} : Len(items[p]) + 1 - lst[p] <= PageItems}
Distance(p) == (p + PageCnt - pgRes - 1) % PageCnt
ChosenPage(lst) == CHOOSE p \in Roomy(lst) : \A q \in Roomy(lst) : Distance(p) <= Distance(q)

(* Mutant of Destination: a full page is written to once more.             *)
Destination_OneMore(com) == IF Len(items[com]) > PageItems THEN pgRes ELSE com

(* The item goes to the chosen page, or to the reserve when it fits there  *)
(* only after a compaction.                                                *)
Destination(com) == IF Len(items[com]) + 1 > PageItems THEN pgRes ELSE com

(* initItem up to its first write.                                         *)
initItem(id, val, src, lst) ==
  /\ pgLost' = lst
  /\ IF Roomy(lst) = {}
     THEN UNCHANGED <<pc, op, expect>>
     ELSE LET com == ChosenPage(lst)
              dst == Destination(com)
          IN /\ op' = [id |-> id, val |-> val, src |-> src, dstPg |-> dst, comPg |-> com]
             /\ pc' = IF dst = pgRes THEN "activate" ELSE "header"
             /\ expect' = [expect EXCEPT ![id] = @ \union {val}]
  /\ UNCHANGED <<flash, pgRes, scan, stat, resets>>

(* A call that only looks for the item: osal_nv_read, osal_nv_item_len,    *)
(* osal_nv_item_init of an item that exists, osal_nv_write of the value it *)
(* has.                                                                    *)
Lookup(id) ==
  /\ pc = "idle"
  /\ pgLost' = Rewalked(Copies(id, FALSE))
  /\ UNCHANGED <<flash, pgRes, pc, op, scan, stat, resets, expect>>

(* Without an item of the id.                                              *)
osal_nv_item_init(id, val) ==
  /\ pc = "idle"
  /\ ~ Exists(id)
  /\ initItem(id, val, <<NULL, 0>>, Rewalked({}))

(* With a different value.                                                 *)
osal_nv_write(id, val) ==
  /\ pc = "idle"
  /\ Exists(id)
  /\ osal_nv_read(id) /= val
  /\ initItem(id, val, findItem(id), Rewalked(Copies(id, FALSE)))

(* setPageUse(pgRes, FALSE).                                               *)
Activate ==
  /\ pc = "activate"
  /\ pgHdr' = [pgHdr EXCEPT ![op.dstPg].active = TRUE]
  /\ pc' = "header"
  /\ UNCHANGED <<items, ram, op, scan, stat, resets, expect>>

(* writeItem: id and length.                                               *)
Header ==
  /\ pc = "header"
  /\ items' = [items EXCEPT ![op.dstPg] =
       Append(@, [id |-> op.id, data |-> Blank, chk |-> Blank, old |-> FALSE])]
  /\ pc' = IF op.src[1] = NULL THEN "data" ELSE "markOld"
  /\ UNCHANGED <<pgHdr, ram, op, scan, stat, resets, expect>>

NewItem == <<op.dstPg, Len(items[op.dstPg])>>

(* Mutant of MarkOld: the old item is zeroed before the new one is there.  *)
MarkOld_Zero ==
  /\ pc = "markOld"
  /\ items' = With(op.src, ZeroedItem)
  /\ pc' = "data"
  /\ UNCHANGED <<pgHdr, ram, op, scan, stat, resets, expect>>

(* setItem(srcPg, srcOff, eNvXfer).                                        *)
MarkOld ==
  /\ pc = "markOld"
  /\ items' = With(op.src, [ItemAt(op.src) EXCEPT !.old = TRUE])
  /\ pc' = "data"
  /\ UNCHANGED <<pgHdr, ram, op, scan, stat, resets, expect>>

Data ==
  /\ pc = "data"
  /\ items' = With(NewItem, [ItemAt(NewItem) EXCEPT !.data = op.val])
  /\ pc' = "chk"
  /\ UNCHANGED <<pgHdr, ram, op, scan, stat, resets, expect>>

(* The call ends, or goes on with the compaction that makes room.          *)
EndOrCompact ==
  IF op.dstPg = pgRes
  THEN pc' = "mark" /\ pg' = op.comPg /\ UNCHANGED <<op, offset, lost, findDups, newPg, oldPg>>
  ELSE Idle

(* From the checksum on the new item is the one that a reader finds, or    *)
(* that a reset keeps.                                                     *)
Checksum ==
  /\ pc = "chk"
  /\ items' = With(NewItem, [ItemAt(NewItem) EXCEPT !.chk = ItemAt(NewItem).data])
  /\ expect' = [expect EXCEPT ![op.id] = {op.val}]
  /\ IF op.src[1] = NULL
     THEN EndOrCompact
     ELSE pc' = "zero" /\ UNCHANGED <<op, scan>>
  /\ UNCHANGED <<pgHdr, ram, stat, resets>>

(* setItem(srcPg, origOff, eNvZero).                                       *)
Zero ==
  /\ pc = "zero"
  /\ items' = With(op.src, ZeroedItem)
  /\ pgLost' = [pgLost EXCEPT ![op.src[1]] = @ + 1]
  /\ EndOrCompact
  /\ UNCHANGED <<pgHdr, pgRes, stat, resets, expect>>

Write == Activate \/ Header \/ MarkOld \/ Data \/ Checksum \/ Zero

-----------------------------------------------------------------------------
(* compactPage of page pg into the reserve.                                *)

Mark ==
  /\ pc = "mark"
  /\ pgHdr' = [pgHdr EXCEPT ![pg].xfer = TRUE]
  /\ pc' = "compact" /\ offset' = 1
  /\ UNCHANGED <<items, ram, op, pg, lost, findDups, newPg, oldPg, stat, resets, expect>>

Here == <<pg, offset>>

(* The item at offset: a zeroed one is passed over, one with a bad         *)
(* checksum zeroed, a good one marked as source before it is copied.       *)
CompactItem ==
  /\ pc = "compact"
  /\ \/ /\ offset > Len(items[pg])
        /\ pc' = "erase"
        /\ UNCHANGED <<items, pgLost, offset, stat>>
     \/ /\ offset <= Len(items[pg]) /\ ItemAt(Here).id = Zeroed
        /\ offset' = offset + 1
        /\ UNCHANGED <<items, pgLost, pc, stat>>
     \/ /\ offset <= Len(items[pg]) /\ ItemAt(Here).id /= Zeroed
        /\ ~ Valid(ItemAt(Here))
        /\ pc' = "copyZero"
        /\ UNCHANGED <<items, pgLost, offset, stat>>
     \/ /\ offset <= Len(items[pg]) /\ ItemAt(Here).id /= Zeroed
        /\ Valid(ItemAt(Here))
        /\ stat' = ItemAt(Here).old
        /\ items' = With(Here, [ItemAt(Here) EXCEPT !.old = TRUE])
        /\ pc' = "copyHdr"
        /\ UNCHANGED <<pgLost, offset>>
  /\ UNCHANGED <<pgHdr, pgRes, op, pg, lost, findDups, newPg, oldPg, resets, expect>>

(* The header is copied as it was read, before it was marked.  Its two     *)
(* words are one step: a reset between them leaves what a reset behind     *)
(* them leaves, an item whose checksum does not fit its data.              *)
CopyHdr ==
  /\ pc = "copyHdr"
  /\ items' = [items EXCEPT ![pgRes] =
       Append(@, [ItemAt(Here) EXCEPT !.data = Blank, !.old = stat])]
  /\ pc' = "copyData" /\ stat' = FALSE
  /\ UNCHANGED <<pgHdr, ram, op, scan, resets, expect>>

CopyData ==
  /\ pc = "copyData"
  /\ LET copy == <<pgRes, Len(items[pgRes])>>
     IN items' = With(copy, [ItemAt(copy) EXCEPT !.data = ItemAt(Here).data])
  /\ pc' = "copyZero"
  /\ UNCHANGED <<pgHdr, ram, op, scan, stat, resets, expect>>

CopyZero ==
  /\ pc = "copyZero"
  /\ items' = With(Here, ZeroedItem)
  /\ pgLost' = [pgLost EXCEPT ![pg] = @ + 1]
  /\ pc' = "compact" /\ offset' = offset + 1
  /\ UNCHANGED <<pgHdr, pgRes, op, pg, lost, findDups, newPg, oldPg, stat, resets, expect>>

(* Mutant of erasePage: the page header stays.                             *)
erasePage_KeepHeader(p) ==
  /\ UNCHANGED pgHdr
  /\ items' = [items EXCEPT ![p] = <<>>]
  /\ pgLost' = [pgLost EXCEPT ![p] = 0]

erasePage(p) ==
  /\ pgHdr' = [pgHdr EXCEPT ![p] = ErasedHdr]
  /\ items' = [items EXCEPT ![p] = <<>>]
  /\ pgLost' = [pgLost EXCEPT ![p] = 0]

Erase ==
  /\ pc = "erase"
  /\ erasePage(pg)
  /\ pc' = "finish"
  /\ UNCHANGED <<pgRes, op, scan, stat, resets, expect>>

(* What is found when initNV ends is what counts from then on.             *)
Found == [i \in Ids |-> expect[i] \intersect {osal_nv_read(i)}]

(* setPageUse(pgRes, TRUE); the erased page is the reserve.                *)
Finish ==
  /\ pc = "finish"
  /\ pgHdr' = [pgHdr EXCEPT ![pgRes].active = TRUE, ![pgRes].inUse = TRUE]
  /\ pgRes' = pg
  /\ expect' = IF op = NoOp THEN Found ELSE expect
  /\ Idle
  /\ UNCHANGED <<items, pgLost, stat, resets>>

Compact == Mark \/ CompactItem \/ CopyHdr \/ CopyData \/ CopyZero \/ Erase \/ Finish

-----------------------------------------------------------------------------
(* initNV.                                                                 *)

(* The header of the page: the first erased page is the reserve, other     *)
(* erased pages are put in use; pages of an interrupted compaction are     *)
(* noted.  pgRes is not reset when the walk starts over.                   *)
ScanHeader ==
  /\ pc = "initPage" /\ offset = 0
  /\ LET h == pgHdr[pg]
     IN /\ pgRes' = IF ~ h.active /\ pgRes = NULL THEN pg ELSE pgRes
        /\ pgHdr' = IF ~ h.active /\ pgRes /= NULL
                    THEN [pgHdr EXCEPT ![pg].active = TRUE, ![pg].inUse = TRUE]
                    ELSE pgHdr
        /\ newPg' = IF h.active /\ ~ h.inUse THEN pg ELSE newPg
        /\ oldPg' = IF h.active /\ h.inUse /\ h.xfer THEN pg ELSE oldPg
  /\ offset' = 1
  /\ UNCHANGED <<items, pgLost, pc, op, pg, lost, findDups, stat, resets, expect>>

(* initPage: the item at offset.  A bad checksum zeroes it; a first old    *)
(* item starts the walk over, now looking for the old copy of every new    *)
(* item.                                                                   *)
ScanItem ==
  /\ pc = "initPage" /\ offset \in DOMAIN items[pg]
  /\ LET it == ItemAt(Here)
         dups == Copies(it.id, TRUE)
     IN \/ /\ it.id = Zeroed
           /\ offset' = offset + 1 /\ lost' = lost + 1
           /\ UNCHANGED <<items, pgLost, pg, findDups>>
        \/ /\ it.id /= Zeroed /\ ~ Valid(it)
           /\ items' = With(Here, ZeroedItem)
           /\ offset' = offset + 1 /\ lost' = lost + 1
           /\ UNCHANGED <<pgLost, pg, findDups>>
        \/ /\ it.id /= Zeroed /\ Valid(it) /\ ~ it.old /\ findDups
           /\ IF dups = {}
              THEN items' = items /\ pgLost' = Rewalked(dups)
              ELSE /\ items' = With(FirstOf(dups), ZeroedItem)
                   /\ pgLost' = [Rewalked(dups) EXCEPT ![FirstOf(dups)[1]] = @ + 1]
           /\ offset' = offset + 1
           /\ UNCHANGED <<pg, lost, findDups>>
        \/ /\ it.id /= Zeroed /\ Valid(it) /\ it.old /\ ~ findDups
           /\ findDups' = TRUE
           /\ pg' = 1 /\ offset' = 0 /\ lost' = 0
           /\ UNCHANGED <<items, pgLost>>
        \/ /\ it.id /= Zeroed /\ Valid(it) /\ it.old = findDups
           /\ offset' = offset + 1
           /\ UNCHANGED <<items, pgLost, pg, lost, findDups>>
  /\ UNCHANGED <<pgHdr, pgRes, pc, op, newPg, oldPg, stat, resets, expect>>

(* The end of the page; after the last one the walk is over.               *)
ScanEnd ==
  /\ pc = "initPage" /\ offset > Len(items[pg])
  /\ pgLost' = [pgLost EXCEPT ![pg] = lost]
  /\ lost' = 0
  /\ IF pg < PageCnt
     THEN pg' = pg + 1 /\ offset' = 0 /\ UNCHANGED <<pc, findDups>>
     ELSE pg' = NULL /\ offset' = 0 /\ findDups' = FALSE /\ pc' = "resume"
  /\ UNCHANGED <<flash, pgRes, op, newPg, oldPg, stat, resets, expect>>

(* An interrupted compaction is resumed; without a reserve page the pages  *)
(* are erased.                                                             *)
Resume ==
  /\ pc = "resume"
  /\ pgRes' = IF pgRes = NULL /\ newPg /= NULL /\ oldPg /= NULL THEN newPg ELSE pgRes
  /\ pgHdr' = IF pgRes /= NULL /\ newPg /= NULL
              THEN [pgHdr EXCEPT ![newPg].inUse = TRUE] ELSE pgHdr
  /\ \/ /\ newPg /= NULL /\ oldPg /= NULL
        /\ pc' = "mark" /\ pg' = oldPg
        /\ newPg' = NULL /\ oldPg' = NULL
        /\ UNCHANGED <<op, offset, lost, findDups, expect>>
     \/ /\ newPg = NULL \/ oldPg = NULL
        /\ pgRes = NULL
        /\ pc' = "eraseAll" /\ pg' = 1
        /\ newPg' = NULL /\ oldPg' = NULL
        /\ UNCHANGED <<op, offset, lost, findDups, expect>>
     \/ /\ newPg = NULL \/ oldPg = NULL
        /\ pgRes /= NULL
        /\ Idle
        /\ expect' = Found
  /\ UNCHANGED <<items, pgLost, stat, resets>>

(* The pages are erased one after the other, and initNV starts again.      *)
EraseAll ==
  /\ pc = "eraseAll"
  /\ erasePage(pg)
  /\ IF pg < PageCnt
     THEN pg' = pg + 1 /\ UNCHANGED <<pc, expect>>
     ELSE pg' = 1 /\ pc' = "initPage" /\ expect' = [i \in Ids |-> {Absent}]
  /\ UNCHANGED <<pgRes, op, offset, lost, findDups, newPg, oldPg, stat, resets>>

initNV == ScanHeader \/ ScanItem \/ ScanEnd \/ Resume \/ EraseAll

(* A reset, between any two words written.                                 *)
Reset ==
  /\ resets < MaxResets
  /\ resets' = resets + 1
  /\ pgRes' = NULL /\ pgLost' = [p \in Pages |-> 0]
  /\ pc' = "initPage" /\ op' = NoOp /\ stat' = FALSE
  /\ pg' = 1 /\ offset' = 0 /\ lost' = 0 /\ findDups' = FALSE /\ newPg' = NULL /\ oldPg' = NULL
  /\ UNCHANGED <<flash, expect>>

-----------------------------------------------------------------------------
Step == Write \/ Compact \/ initNV

Call ==
  \E i \in Ids :
    \/ Lookup(i)
    \/ \E val \in Vals : osal_nv_item_init(i, val) \/ osal_nv_write(i, val)

Next == Step \/ Call \/ Reset

Spec == Init /\ [][Next]_vars

(* A call that has begun, and initNV, run on.                              *)
FairSpec == Spec /\ WF_vars(Step)

-----------------------------------------------------------------------------
(* The type of every variable; no page holds more than fits in it, which   *)
(* rests on pgLost never counting more than a compaction wins back.        *)
TypeOK ==
  /\ pgHdr \in [Pages -> PageHdr]
  /\ items \in [Pages -> Seq(Item)]
  /\ \A p \in Pages : Len(items[p]) <= PageItems
  /\ pgRes \in Pages \union {NULL}
  /\ pgLost \in [Pages -> 0 .. PageItems]
  /\ pc \in {"idle", "activate", "header", "markOld", "data", "chk", "zero",
             "mark", "compact", "copyHdr", "copyData", "copyZero", "erase", "finish",
             "initPage", "resume", "eraseAll"}
  /\ op \in [id : Ids \union {Zeroed}, val : Vals \union {Blank},
             src : (Pages \union {NULL}) \X (0 .. PageItems),
             dstPg : Pages \union {NULL}, comPg : Pages \union {NULL}]
  /\ pg \in Pages \union {NULL} /\ offset \in 0 .. PageItems + 1
  /\ lost \in 0 .. PageItems
  /\ findDups \in BOOLEAN /\ stat \in BOOLEAN
  /\ newPg \in Pages \union {NULL} /\ oldPg \in Pages \union {NULL}
  /\ resets \in 0 .. MaxResets
  /\ expect \in [Ids -> SUBSET (Vals \union {Absent})]

(* Between calls, after one reset at most, a reader of an item gets the    *)
(* last value whose write was completed, or, when the reset interrupted a  *)
(* write, the one before; the initNV that follows settles which.  (When    *)
(* initNV erases all pages, every item is absent.)                         *)
LastWritten ==
  pc = "idle" /\ resets <= 1 => \A i \in Ids : osal_nv_read(i) \in expect[i]

(* After more resets, also of initNV and of the compaction it resumes,     *)
(* items can be lost, but no reader gets a torn value, or a stale one      *)
(* after a newer one (the order of the writes in osal_nv_write and         *)
(* compactPage, initPage).                                                 *)
NeverStale == pc = "idle" => \A i \in Ids : osal_nv_read(i) \in expect[i] \union {Absent}

(* initNV gives the items up and erases the pages only when a compaction   *)
(* was under way or about to begin, the reserve page having been taken for *)
(* it: "If no page met the criteria to be the reserve page: - A            *)
(* compactPage() failed or board reset before doing so." (OSAL_Nv.c:317-   *)
(* 318; its other reason, a changed set of pages, does not occur here).    *)
ErasesOnlyForCompaction ==
  pc = "eraseAll" /\ pg = 1 => \E p \in Pages : pgHdr[p].active /\ ~ pgHdr[p].inUse

(* Every call, and initNV after every reset, comes to its end.             *)
CallsEnd == pc /= "idle" ~> pc = "idle"
=============================================================================
