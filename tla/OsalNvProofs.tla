---------------------------- MODULE OsalNvProofs ----------------------------
(***************************************************************************)
(* Proofs about the NV items: for any number of pages, items and values,   *)
(* any calls, and a reset between any two words that are written.          *)
(*                                                                         *)
(* Without a reset nothing is assumed of the sizes: pages are not written  *)
(* past their end, a compaction fits in the reserve page, and readers get  *)
(* what was written last.  With a reset, wherever it comes, also during    *)
(* the first initNV or a compaction, the same is proved under RoomForAll.  *)
(* That is needed: the copy that the reset tears stays in the reserve page *)
(* and takes a place there, and with PageItems = Cardinality(Ids) TLC has  *)
(* a run in which the resumed compaction has no place for the last item,   *)
(* which a reader then misses.  A second reset can tear a second copy:     *)
(* with a place to spare for that too (RoomForTwo), no page overflows, and *)
(* no reader gets a stale or a torn value.  With one place fewer TLC has a *)
(* run with two resets in which a compaction writes past the end of the    *)
(* reserve page.  Three resets are outside the theorems: NeverStale does   *)
(* not hold with three, not even with a place for each.                    *)
(*                                                                         *)
(* Safe says where each operation is, what it has written so far, and that *)
(* every item has one copy at most but for the one being written (Settled) *)
(* and what can be read is what is expected (Readable).  Tally relates the *)
(* counts in RAM to the zeroed items in flash.  One lemma per action says  *)
(* that it keeps Safe; the lemmas on Tally take the actions in groups.     *)
(* After the second reset Safe is lost: two old copies of an item can be   *)
(* there.  Sound is what is left of it, Spare counts the places that the   *)
(* resets have cost, and PagesKept and Erasing are what the second reset   *)
(* relies on in the state that the first one left.                         *)
(***************************************************************************)
EXTENDS OsalNv, FiniteSetTheorems, FunctionTheorems, SequenceTheorems, WellFoundedInduction, TLAPS

(* All items fit in one page, with one place to spare.                     *)
RoomForAll == IsFiniteSet(Ids) /\ PageItems > Cardinality(Ids)

(* The places of items, and those whose item has not been zeroed.          *)
Slots == {x \in Pages \X (1 .. PageItems) : x[2] \in DOMAIN items[x[1]]}
Used == {x \in Slots : ItemAt(x).id # Zeroed}

Fits == \A p \in Pages : Len(items[p]) <= PageItems

(* Where pc is in osal_nv_write, in compactPage and in initNV.             *)
WritePcs == {"markOld", "data", "chk", "zero"}
CopyPcs == {"copyData", "copyZero"}
CompactPcs == {"mark", "compact", "copyHdr", "copyData", "copyZero", "erase", "finish"}
ScanPcs == {"initPage", "resume", "eraseAll"}

(* The copy that compactPage is writing: the last item of the reserve page. *)
Copy == <<pgRes, Len(items[pgRes])>>

(* The type of the state, but for the counts, and the lengths of the pages. *)
Shape ==
  /\ pgHdr \in [Pages -> PageHdr]
  /\ items \in [Pages -> Seq(Item)]
  /\ Fits
  /\ pgRes \in Pages \union {NULL}
  /\ pc \in {"idle", "activate", "header"} \union WritePcs \union CompactPcs \union ScanPcs
  /\ pg \in Pages \union {NULL} /\ offset \in Nat
  /\ findDups \in BOOLEAN /\ stat \in BOOLEAN
  /\ newPg \in Pages \union {NULL} /\ oldPg \in Pages \union {NULL}
  /\ resets \in Nat
  /\ expect \in [Ids -> SUBSET (Vals \union {Absent})]
  /\ pc \notin ScanPcs => pgRes \in Pages

(* A call has a place for its item, and knows the copy it will replace.    *)
Calling ==
  pc \in {"activate", "header"} \union WritePcs =>
    /\ op.id \in Ids /\ op.val \in Vals /\ op.val \in expect[op.id]
    /\ op.comPg \in Pages \ {pgRes}
    /\ op.dstPg \in {pgRes, op.comPg}
    /\ pc = "activate" => op.dstPg = pgRes
    /\ pc \in {"activate", "header"} =>
         /\ Len(items[op.dstPg]) < PageItems
         /\ IF op.src[1] = NULL
            THEN \A x \in Used : ItemAt(x).id # op.id
            ELSE op.src \in Used /\ ItemAt(op.src).id = op.id

(* How much of the new item is written, and that the old copy, if there    *)
(* is one, is marked before there is data to read in the new one.          *)
Writing ==
  pc \in WritePcs =>
    /\ NewItem \in Slots
    /\ ItemAt(NewItem).id = op.id /\ ~ ItemAt(NewItem).old
    /\ pc \in {"markOld", "data"} => ItemAt(NewItem).data = Blank
    /\ pc \in {"chk", "zero"} => ItemAt(NewItem).data = op.val
    /\ ItemAt(NewItem).chk = IF pc = "zero" THEN op.val ELSE Blank
    /\ pc \in {"markOld", "zero"} => op.src[1] # NULL
    /\ IF op.src[1] = NULL
       THEN \A x \in Used \ {NewItem} : ItemAt(x).id # op.id
       ELSE /\ op.src \in Used \ {NewItem} /\ ItemAt(op.src).id = op.id
            /\ pc # "markOld" => ItemAt(op.src).old

(* compactPage zeroes what it has copied, from the last item to the first, *)
(* and erases a page that holds nothing more.                              *)
Compacting ==
  pc \in CompactPcs =>
    /\ pg \in Pages \ {pgRes}
    /\ pc \notin {"mark", "erase", "finish"} =>
         offset > 0 /\ \A x \in Used : x[1] = pg => x[2] >= offset
    /\ pc \in {"erase", "finish"} => \A x \in Used : x[1] # pg
    /\ pc = "finish" => items[pg] = <<>>
    /\ pc \in {"copyHdr", "copyData", "copyZero"} => Here \in Used /\ ItemAt(Here).old /\ Valid(ItemAt(Here))
    /\ pc \in CopyPcs =>
         /\ Copy \in Slots /\ ItemAt(Copy).id = ItemAt(Here).id
         /\ ItemAt(Copy).chk = ItemAt(Here).chk
         /\ ItemAt(Copy).data = IF pc = "copyData" THEN Blank ELSE ItemAt(Here).data

(* The item being written or copied.                                       *)
Fresh ==
  IF pc \in WritePcs THEN {NewItem} ELSE IF pc \in CopyPcs THEN {Copy} ELSE {}

(* Valid items, one of an id at most.                                      *)
Clean(S) ==
  \A x \in S : Valid(ItemAt(x)) /\ \A y \in S : ItemAt(y).id = ItemAt(x).id => y = x

(* Outside initNV only the item being written may be torn or a second copy. *)
Settled == pc \notin {"initPage", "eraseAll"} => Clean(Used \ Fresh)

(* What a reader could be given: a new copy, or an old one with no new.    *)
Current(x) ==
  /\ x \in Used /\ Valid(ItemAt(x))
  /\ ItemAt(x).old =>
       \A y \in Used : ItemAt(y).id = ItemAt(x).id /\ Valid(ItemAt(y)) => ItemAt(y).old

(* It is what the reader may expect, wherever a reset interrupts.          *)
Readable ==
  pc # "eraseAll" =>
    \A i \in Ids :
      /\ \A x \in Used : Current(x) /\ ItemAt(x).id = i => ItemAt(x).data \in expect[i]
      /\ (\A x \in Used : ItemAt(x).id = i => ~ Valid(ItemAt(x))) => Absent \in expect[i]

(* Places of a page that hold no valid item. *)
Bad(p) == {x \in Slots : x[1] = p /\ ~ (x \in Used /\ Valid(ItemAt(x)))}

AtMostOne(S) == \A x, y \in S : x = y

(* What the reserve page holds; a reset has torn one copy in it at most.   *)
Room ==
  /\ pc \in {"idle", "activate", "header"} => items[pgRes] = <<>>
  /\ pc \in WritePcs => IF op.dstPg = pgRes THEN Len(items[pgRes]) = 1 ELSE items[pgRes] = <<>>
  /\ pc \in CompactPcs => AtMostOne(Bad(pgRes) \ Fresh)

(* What a reset relies on, as long as there was none; and what the walk after it relies on. *)
Headers ==
  resets = 0 \/ pc \in {"initPage", "resume"} =>
    \A p \in Pages :
      /\ pgHdr[p].xfer => pgHdr[p].active
      /\ ~ pgHdr[p].active => items[p] = <<>>
      /\ pgHdr[p].active /\ ~ pgHdr[p].inUse =>
           AtMostOne(Bad(p)) /\ \A x \in Used : x[1] = p => ~ ItemAt(x).old

(* Before the first reset the only old copy is the one being replaced.     *)
Unmarked ==
  resets = 0 =>
    /\ ~ stat
    /\ \A x \in Used : ItemAt(x).old =>
         \/ pc \in {"data", "chk", "zero"} /\ x = op.src
         \/ pc \in {"copyHdr", "copyData", "copyZero"} /\ x = Here
    /\ pc \in CompactPcs => \A x \in Slots : x[1] = pgRes => ItemAt(x).id # Zeroed

(* An erased page, and one in use.                                         *)
Erased(p) == ~ pgHdr[p].active /\ ~ pgHdr[p].inUse /\ ~ pgHdr[p].xfer
InUse(p) == pgHdr[p].active /\ pgHdr[p].inUse

(* The headers of the pages before the first reset, so that initNV after   *)
(* it takes the right page for the reserve.                                *)
FirstStart ==
  resets = 0 =>
    /\ pc \in ScanPcs =>
         /\ pc # "eraseAll" /\ newPg = NULL
         /\ \A p \in Pages : items[p] = <<>>
    /\ pc = "initPage" =>
         /\ pg > 1 \/ offset > 0 => pgRes \in Pages
         /\ pgRes # NULL => pgRes < pg \/ (pgRes = pg /\ offset > 0)
         /\ \A p \in Pages :
              IF (p < pg \/ (p = pg /\ offset > 0)) /\ p # pgRes THEN InUse(p) ELSE Erased(p)
    /\ pc = "resume" => pgRes \in Pages
    /\ pc \in {"resume", "idle", "activate", "header"} \union WritePcs \union CompactPcs =>
         \A p \in Pages : p # pgRes /\ ~ (pc = "finish" /\ p = pg) => InUse(p)
    /\ pc = "finish" => Erased(pg)
    /\ IF pc \in CompactPcs \/ (pc \in {"header"} \union WritePcs /\ op.dstPg = pgRes)
       THEN pgHdr[pgRes].active /\ ~ pgHdr[pgRes].inUse /\ ~ pgHdr[pgRes].xfer
       ELSE pc # "initPage" => Erased(pgRes)

(* The items the walk of initNV has passed.                                *)
Passed(x) == x[1] < pg \/ (x[1] = pg /\ x[2] < offset)

(* What initNV may rely on, and what it has found out of the items it has  *)
(* passed: all valid, and no two of an id left by the second walk.         *)
Walk ==
  /\ pc = "initPage" =>
       /\ pg \in Pages
       /\ \A x, y \in Used : x # y /\ ItemAt(x).id = ItemAt(y).id /\ Valid(ItemAt(x)) /\ Valid(ItemAt(y))
            => ItemAt(x).old # ItemAt(y).old
       /\ \A x \in Used : ItemAt(x).old => Valid(ItemAt(x))
       /\ \A x \in Used : Passed(x) =>
            /\ Valid(ItemAt(x))
            /\ IF findDups
               THEN ItemAt(x).old \/ \A y \in Used : ItemAt(y).id = ItemAt(x).id => ~ ItemAt(y).old
               ELSE ~ ItemAt(x).old
  /\ pc \in {"initPage", "resume"} =>
       /\ pgRes # NULL => items[pgRes] = <<>> /\ ~ pgHdr[pgRes].xfer
       /\ oldPg # NULL => pgHdr[oldPg].inUse /\ pgHdr[oldPg].xfer
       /\ newPg # NULL => pgHdr[newPg].active /\ ~ pgHdr[newPg].inUse
  /\ pc = "resume" => offset = 0 /\ ~ findDups
  /\ pc = "eraseAll" =>
       /\ pgRes = NULL /\ newPg = NULL /\ oldPg = NULL /\ ~ findDups /\ offset = 0
       /\ pg \in Pages /\ \A p \in Pages : p < pg => items[p] = <<>> /\ Erased(p)

(* The state of flash and calls, as initNV and the readers rely on it.     *)
Safe ==
  /\ Shape /\ Calling /\ Writing /\ Compacting /\ Settled /\ Readable
  /\ Room /\ Headers /\ Unmarked /\ FirstStart /\ Walk

(* The zeroed items of a page.                                             *)
Gone(p) == {o \in DOMAIN items[p] : items[p][o].id = Zeroed}

(* The locals of a call.                                                   *)
Ops == [id : Ids \union {Zeroed}, val : Vals \union {Blank},
        src : (Pages \union {NULL}) \X (0 .. PageItems),
        dstPg : Pages \union {NULL}, comPg : Pages \union {NULL}]

(* The zeroed items the walk has passed in its page.                       *)
Passing == {o \in Gone(pg) : o < offset}

(* What the counts in RAM are worth: never more than the zeroed items.     *)
Tally ==
  /\ pgLost \in [Pages -> Nat] /\ \A p \in Pages : pgLost[p] <= LostIn(p)
  /\ offset <= PageItems + 1
  /\ op \in Ops
  /\ lost \in Nat /\ IF pc = "initPage" THEN lost <= Cardinality(Passing) ELSE lost = 0

(* What a compaction copies fits in the reserve, as long as no reset came. *)
Balance ==
  /\ pc \in {"activate", "header"} \union WritePcs /\ op.dstPg = pgRes =>
       Len(items[op.comPg]) < PageItems + LostIn(op.comPg)
  /\ pc \in CompactPcs \ {"erase", "finish"} =>
       Len(items[pg]) + Len(items[pgRes]) <= PageItems + LostIn(pg) + (IF pc \in CopyPcs THEN 1 ELSE 0)

(* With room, until the second reset; with any sizes, until the first.     *)
IInv == resets \in Nat /\ (resets <= 1 => Safe /\ Tally)

Unreset == resets \in Nat /\ (resets = 0 => Safe /\ Tally /\ Balance)

-----------------------------------------------------------------------------
(* The second reset.  What of the above is there after any reset, and what *)
(* the counts rest on: outside the walk only the item being written may be *)
(* torn.                                                                   *)
Whole == pc \notin {"initPage", "eraseAll"} => \A x \in Used \ Fresh : Valid(ItemAt(x))

(* The reserve page, as long as nothing is compacted into it.              *)
Emptied ==
  /\ pc \in {"idle", "activate", "header"} => items[pgRes] = <<>>
  /\ pc \in WritePcs => IF op.dstPg = pgRes THEN Len(items[pgRes]) = 1 ELSE items[pgRes] = <<>>

(* What initNV relies on, and what it has found out of the items it has    *)
(* passed.                                                                 *)
Rewalk ==
  /\ pc = "initPage" => pg \in Pages /\ \A x \in Used : Passed(x) => Valid(ItemAt(x))
  /\ pc \in {"initPage", "resume"} =>
       /\ pgRes # NULL => items[pgRes] = <<>> /\ ~ pgHdr[pgRes].xfer
       /\ oldPg # NULL => pgHdr[oldPg].inUse /\ pgHdr[oldPg].xfer
       /\ newPg # NULL => pgHdr[newPg].active /\ ~ pgHdr[newPg].inUse
       /\ \A p \in Pages : ~ pgHdr[p].active => items[p] = <<>> /\ ~ pgHdr[p].xfer
  /\ pc = "resume" => offset = 0 /\ ~ findDups
  /\ pc = "eraseAll" =>
       /\ pgRes = NULL /\ newPg = NULL /\ oldPg = NULL /\ ~ findDups /\ offset = 0
       /\ pg \in Pages /\ \A p \in Pages : p < pg => items[p] = <<>> /\ Erased(p)

(* Where each operation is and what it has written, after any reset.       *)
Placed == Shape /\ Calling /\ Writing /\ Compacting /\ Whole /\ Emptied /\ Rewalk

(* Two resets can leave two old copies of an item, but one new one at most. *)
OneNew ==
  \A x, y \in Used :
    /\ Valid(ItemAt(x)) /\ Valid(ItemAt(y)) /\ ItemAt(x).id = ItemAt(y).id
    /\ ~ ItemAt(x).old /\ ~ ItemAt(y).old
    => x = y

(* All other copies of the item that a call replaces are old already.      *)
Replacing ==
  pc \in {"activate", "header"} \union WritePcs /\ op.src[1] # NULL =>
    \A x \in Used \ (Fresh \union {op.src}) : ItemAt(x).id = op.id => ItemAt(x).old

(* The compaction moves a new item, which is marked and not yet copied: for *)
(* a while an old copy is all there is, and it may be one of several.      *)
Moving ==
  \/ pc = "copyHdr" /\ ~ stat
  \/ pc = "copyData" /\ ~ ItemAt(Copy).old

Copying ==
  Moving => /\ ItemAt(Here).data \in expect[ItemAt(Here).id]
            /\ \A x \in Used \ Fresh : ItemAt(x).id = ItemAt(Here).id => ItemAt(x).old

(* The items under way, which no reader asks for before the end.           *)
Busy(id) ==
  \/ pc \in {"activate", "header", "markOld", "data", "chk"} /\ id = op.id
  \/ Moving /\ id = ItemAt(Here).id

(* What a reader of the item could be given is one value, and expected.    *)
Known(i) ==
  /\ \A x \in Used : Current(x) /\ ItemAt(x).id = i => ItemAt(x).data \in expect[i]
  /\ \A x, y \in Used :
       Current(x) /\ Current(y) /\ ItemAt(x).id = i /\ ItemAt(y).id = i =>
         ItemAt(x).data = ItemAt(y).data

Fitting == pc # "eraseAll" => \A i \in Ids : Busy(i) \/ Known(i)

(* The state after the second reset: less than Safe, and enough for the    *)
(* readers as long as there is no third one.                               *)
Sound == Placed /\ OneNew /\ Replacing /\ Copying /\ Fitting

(* What the second reset relies on.  A page that is active and not in use  *)
(* is the one that initNV may take for the reserve of an interrupted       *)
(* compaction.                                                             *)
Unused(p) == pgHdr[p].active /\ ~ pgHdr[p].inUse

(* The page being compacted is the only one that is marked.                *)
Marked == \A p \in Pages : pgHdr[p].xfer => pc \in CompactPcs \ {"mark", "finish"} /\ p = pg

(* The pages the walk has seen the header of.                              *)
Seen(p) == p < pg \/ (p = pg /\ offset > 0)

(* The page headers: initNV meets one unused page at most, and puts all    *)
(* pages but the reserve in use.                                           *)
PagesKept ==
  /\ \A p \in Pages : ~ pgHdr[p].active => items[p] = <<>> /\ ~ pgHdr[p].xfer
  /\ resets = 0 => Marked
  /\ pc \in ScanPcs => AtMostOne({p \in Pages : Unused(p)})
  /\ pc = "initPage" => \A p \in Pages \ {pgRes} : Seen(p) => InUse(p) \/ newPg = p
  /\ pc = "resume" => \A p \in Pages \ {pgRes} : InUse(p) \/ newPg = p
  /\ pc \in {"initPage", "resume"} /\ (\E p \in Pages : pgHdr[p].xfer) =>
       pgRes = NULL /\ \A p \in Pages : pgHdr[p].active
  /\ pc \notin ScanPcs =>
       \A p \in Pages \ {pgRes} : InUse(p) \/ (pc = "finish" /\ p = pg /\ Erased(p))
  /\ pc \in CompactPcs \/ (pc \in {"header"} \union WritePcs /\ op.dstPg = pgRes) =>
       pgHdr[pgRes].active

(* When the pages are erased, what is left is still what was written.      *)
Erasing ==
  pc = "eraseAll" => Clean(Used) /\ \A x \in Used : ItemAt(x).data \in expect[ItemAt(x).id]

(* Each reset costs a place: but for as many places as there were resets,  *)
(* and the one being written, the items have one copy each, and the page   *)
(* that a compaction fills holds no other bad ones.                        *)
Apart(S) == \A x, y \in S : ItemAt(x).id = ItemAt(y).id => x = y

Spares(E) ==
  /\ Apart(Used \ (E \union Fresh))
  /\ pc \in CompactPcs => Bad(pgRes) \subseteq E \union Fresh
  /\ pc \in ScanPcs => \A p \in Pages : Unused(p) => Bad(p) \subseteq E

Spare == \E E : IsFiniteSet(E) /\ Cardinality(E) <= resets /\ Spares(E)

(* A place to spare for each of two resets.                                *)
RoomForTwo == IsFiniteSet(Ids) /\ PageItems > Cardinality(Ids) + 1

(* With that room, until the third reset.                                  *)
IInvTwo ==
  /\ resets \in Nat
  /\ resets <= 1 => Safe /\ PagesKept /\ Erasing
  /\ resets = 2 => Sound
  /\ resets <= 2 => Spare /\ Tally

-----------------------------------------------------------------------------
(* Flash: what one word changes.                                           *)
LEMMA Numbers ==
  /\ PageCnt \in Nat /\ PageCnt > 1 /\ PageItems \in Nat /\ PageItems > 0
  /\ Pages \subseteq Nat /\ \A p \in Pages : p > 0 /\ p <= PageCnt
  /\ NULL \notin Pages /\ 1 \in Pages
  /\ Zeroed \notin Ids /\ Blank \notin Vals /\ Absent \notin Vals
BY NvAssumption DEF Pages, NULL

LEMMA SlotParts ==
  ASSUME NEW x \in Slots
  PROVE  /\ x[1] \in Pages /\ x[2] \in 1 .. PageItems /\ x[2] \in DOMAIN items[x[1]]
         /\ x = <<x[1], x[2]>>
BY Numbers DEF Slots

LEMMA PlaceIsSlot ==
  ASSUME items \in [Pages -> Seq(Item)], Fits, NEW p \in Pages, NEW j \in DOMAIN items[p]
  PROVE  /\ <<p, j>> \in Slots /\ ItemAt(<<p, j>>) = items[p][j]
         /\ j \in Nat /\ j > 0 /\ j <= Len(items[p])
<1>1. items[p] \in Seq(Item)
  OBVIOUS
<1>2. Len(items[p]) \in Nat /\ DOMAIN items[p] = 1 .. Len(items[p]) /\ Len(items[p]) <= PageItems
  BY <1>1 DEF Fits
<1> QED
  BY <1>2, Numbers DEF Slots, ItemAt

LEMMA ItemsAreItems ==
  ASSUME items \in [Pages -> Seq(Item)], NEW x \in Slots
  PROVE  /\ ItemAt(x) \in Item
         /\ ItemAt(x).id \in Ids \union {Zeroed} /\ ItemAt(x).data \in Vals \union {Blank}
         /\ ItemAt(x).chk \in Vals \union {Blank} /\ ItemAt(x).old \in BOOLEAN
<1>1. items[x[1]] \in Seq(Item) /\ x[2] \in DOMAIN items[x[1]]
  BY SlotParts
<1>2. ItemAt(x) \in Item
  BY <1>1 DEF ItemAt
<1> QED
  BY <1>2 DEF Item

LEMMA Lengths ==
  ASSUME items \in [Pages -> Seq(Item)]
  PROVE  \A p \in Pages : Len(items[p]) \in Nat /\ DOMAIN items[p] = 1 .. Len(items[p])
OBVIOUS

LEMMA NoItems ==
  ASSUME NEW p \in Pages, items[p] = <<>>, NEW x \in Slots
  PROVE  x[1] # p
BY SlotParts

(* A word of an item that is there already.                                *)
LEMMA WriteAt ==
  ASSUME items \in [Pages -> Seq(Item)], Fits, NEW x \in Slots, NEW it \in Item,
         items' = With(x, it)
  PROVE  /\ items' \in [Pages -> Seq(Item)]
         /\ \A p \in Pages : Len(items'[p]) = Len(items[p])
         /\ \A p \in Pages : p # x[1] => items'[p] = items[p]
         /\ \A p \in Pages : items[p] = <<>> => items'[p] = <<>>
         /\ Fits'
         /\ Slots' = Slots
         /\ \A y \in Slots : ItemAt(y)' = IF y = x THEN it ELSE ItemAt(y)
<1>1. /\ x[1] \in Pages /\ x[2] \in DOMAIN items[x[1]] /\ x = <<x[1], x[2]>>
  BY SlotParts
<1>2. \A p \in Pages : items'[p] = IF p = x[1] THEN [items[p] EXCEPT ![x[2]] = it] ELSE items[p]
  BY <1>1 DEF With
<1>3. \A p \in Pages : /\ items'[p] \in Seq(Item) /\ Len(items'[p]) = Len(items[p])
                        /\ DOMAIN items'[p] = DOMAIN items[p]
  <2> SUFFICES ASSUME NEW p \in Pages
               PROVE  /\ items'[p] \in Seq(Item) /\ Len(items'[p]) = Len(items[p])
                      /\ DOMAIN items'[p] = DOMAIN items[p]
    OBVIOUS
  <2>1. items[p] \in Seq(Item)
    OBVIOUS
  <2>2. CASE p = x[1]
    <3>1. items'[p] = [items[p] EXCEPT ![x[2]] = it] /\ x[2] \in 1 .. Len(items[p])
      BY <1>1, <1>2, <2>1, <2>2
    <3> HIDE DEF Item
    <3>2. [items[p] EXCEPT ![x[2]] = it] \in Seq(Item) /\ Len([items[p] EXCEPT ![x[2]] = it]) = Len(items[p])
      BY <2>1, <3>1, ExceptSeq
    <3>3. DOMAIN [items[p] EXCEPT ![x[2]] = it] = DOMAIN items[p]
      OBVIOUS
    <3> QED
      BY <3>1, <3>2, <3>3
  <2>3. CASE p # x[1]
    BY <1>2, <2>1, <2>3
  <2> QED
    BY <2>2, <2>3
<1>4. items' \in [Pages -> Seq(Item)]
  <2>1. items' = [items EXCEPT ![x[1]] = [items[x[1]] EXCEPT ![x[2]] = it]]
    BY DEF With
  <2>2. [items[x[1]] EXCEPT ![x[2]] = it] \in Seq(Item)
    BY <1>1, <1>2, <1>3
  <2> QED
    BY <1>1, <2>1, <2>2
<1>5. Fits'
  BY <1>3 DEF Fits
<1>6. Slots' = Slots
  BY <1>3 DEF Slots
<1>7. \A y \in Slots : ItemAt(y)' = IF y = x THEN it ELSE ItemAt(y)
  <2> SUFFICES ASSUME NEW y \in Slots
               PROVE  ItemAt(y)' = IF y = x THEN it ELSE ItemAt(y)
    OBVIOUS
  <2>1. y[1] \in Pages /\ y[2] \in DOMAIN items[y[1]] /\ y = <<y[1], y[2]>>
    BY SlotParts
  <2>2. ItemAt(y)' = items'[y[1]][y[2]]
    BY DEF ItemAt
  <2>3. CASE y[1] = x[1]
    <3>1. items'[y[1]] = [items[y[1]] EXCEPT ![x[2]] = it]
      BY <1>2, <2>1, <2>3
    <3>2. items'[y[1]][y[2]] = IF y[2] = x[2] THEN it ELSE items[y[1]][y[2]]
      BY <2>1, <3>1
    <3>3. y = x <=> y[2] = x[2]
      BY <1>1, <2>1, <2>3
    <3> QED
      BY <2>2, <3>2, <3>3 DEF ItemAt
  <2>4. CASE y[1] # x[1]
    BY <1>2, <2>1, <2>2, <2>4 DEF ItemAt
  <2> QED
    BY <2>3, <2>4
<1>8. \A p \in Pages : items[p] = <<>> => items'[p] = <<>>
  BY <1>1, <1>2, NoItems
<1> QED
  BY <1>2, <1>3, <1>4, <1>5, <1>6, <1>7, <1>8

(* The header of a new item.                                               *)
LEMMA AppendAt ==
  ASSUME items \in [Pages -> Seq(Item)], Fits, NEW p \in Pages, NEW it \in Item,
         Len(items[p]) < PageItems,
         items' = [items EXCEPT ![p] = Append(@, it)],
         NEW n, n = <<p, Len(items[p]) + 1>>
  PROVE  /\ items' \in [Pages -> Seq(Item)]
         /\ \A q \in Pages : Len(items'[q]) = IF q = p THEN Len(items[p]) + 1 ELSE Len(items[q])
         /\ \A q \in Pages : q # p => items'[q] = items[q]
         /\ Fits'
         /\ n = <<p, Len(items'[p])>>
         /\ n \notin Slots /\ Slots' = Slots \union {n}
         /\ \A y \in Slots : ItemAt(y)' = ItemAt(y)
         /\ ItemAt(n)' = it
<1>1. \A q \in Pages : items'[q] = IF q = p THEN Append(items[p], it) ELSE items[q]
  OBVIOUS
<1>2. /\ items[p] \in Seq(Item) /\ Len(items[p]) \in Nat /\ DOMAIN items[p] = 1 .. Len(items[p])
      /\ items'[p] = Append(items[p], it)
  BY <1>1
<1>3. /\ Append(items[p], it) \in Seq(Item) /\ Len(Append(items[p], it)) = Len(items[p]) + 1
      /\ DOMAIN Append(items[p], it) = 1 .. Len(items[p]) + 1
      /\ \A j \in 1 .. Len(items[p]) : Append(items[p], it)[j] = items[p][j]
      /\ Append(items[p], it)[Len(items[p]) + 1] = it
  BY <1>2
<1>4. items' \in [Pages -> Seq(Item)]
  BY <1>1, <1>3
<1>5. \A q \in Pages : Len(items'[q]) = IF q = p THEN Len(items[p]) + 1 ELSE Len(items[q])
  BY <1>1, <1>3
<1>6. Fits'
  BY <1>2, <1>5, Numbers DEF Fits
<1>7. n \notin Slots
  BY <1>2, SlotParts
<1>8. Slots' = Slots \union {n}
  <2>1. ASSUME NEW y \in Slots' PROVE y \in Slots \union {n}
    <3>1. y \in Pages \X (1 .. PageItems) /\ y[2] \in DOMAIN items'[y[1]] /\ y = <<y[1], y[2]>>
      BY <2>1 DEF Slots
    <3>2. CASE y[1] = p
      BY <1>2, <1>3, <3>1, <3>2 DEF Slots
    <3>3. CASE y[1] # p
      BY <1>1, <3>1, <3>3 DEF Slots
    <3> QED
      BY <3>2, <3>3
  <2>2. ASSUME NEW y \in Slots PROVE y \in Slots'
    <3>1. y \in Pages \X (1 .. PageItems) /\ y[2] \in DOMAIN items[y[1]] /\ y = <<y[1], y[2]>>
      BY <2>2 DEF Slots
    <3>2. CASE y[1] = p
      BY <1>2, <1>3, <3>1, <3>2 DEF Slots
    <3>3. CASE y[1] # p
      BY <1>1, <3>1, <3>3 DEF Slots
    <3> QED
      BY <3>2, <3>3
  <2>3. n \in Slots'
    BY <1>2, <1>3, Numbers DEF Slots
  <2> QED
    BY <2>1, <2>2, <2>3
<1>9. \A y \in Slots : ItemAt(y)' = ItemAt(y)
  <2> SUFFICES ASSUME NEW y \in Slots
               PROVE  items'[y[1]][y[2]] = items[y[1]][y[2]]
    BY DEF ItemAt
  <2>1. y[1] \in Pages /\ y[2] \in DOMAIN items[y[1]]
    BY SlotParts
  <2> QED
    BY <1>1, <1>2, <1>3, <2>1
<1>10. ItemAt(n)' = it
  BY <1>2, <1>3 DEF ItemAt
<1>11. n = <<p, Len(items'[p])>>
  BY <1>5
<1> QED
  BY <1>1, <1>4, <1>5, <1>6, <1>7, <1>8, <1>9, <1>10, <1>11

(* An erased page.                                                         *)
LEMMA EraseAt ==
  ASSUME items \in [Pages -> Seq(Item)], Fits, NEW p \in Pages,
         items' = [items EXCEPT ![p] = <<>>]
  PROVE  /\ items' \in [Pages -> Seq(Item)]
         /\ items'[p] = <<>> /\ \A q \in Pages : q # p => items'[q] = items[q]
         /\ Fits'
         /\ Slots' = {x \in Slots : x[1] # p}
         /\ \A y \in Slots' : ItemAt(y)' = ItemAt(y)
<1>1. \A q \in Pages : items'[q] = IF q = p THEN <<>> ELSE items[q]
  OBVIOUS
<1>2. items' \in [Pages -> Seq(Item)] /\ Fits'
  BY <1>1, Numbers DEF Fits
<1>3. Slots' = {x \in Slots : x[1] # p}
  BY <1>1 DEF Slots
<1>4. \A y \in Slots' : ItemAt(y)' = ItemAt(y)
  <2> SUFFICES ASSUME NEW y \in Slots'
               PROVE  items'[y[1]][y[2]] = items[y[1]][y[2]]
    BY DEF ItemAt
  <2>1. y[1] \in Pages /\ y[1] # p
    BY <1>3, SlotParts
  <2> QED
    BY <1>1, <2>1
<1> QED
  BY <1>1, <1>2, <1>3, <1>4

LEMMA SameFlash ==
  ASSUME UNCHANGED items
  PROVE  Slots' = Slots /\ Used' = Used /\ \A y : ItemAt(y)' = ItemAt(y)
BY DEF Slots, Used, ItemAt

(* The items the code writes are items.                                    *)
LEMMA NewItems ==
  /\ ZeroedItem \in Item /\ ZeroedItem.id = Zeroed /\ ~ Valid(ZeroedItem) /\ ~ ZeroedItem.old
  /\ \A it \in Item : /\ [it EXCEPT !.old = TRUE] \in Item
                       /\ [it EXCEPT !.old = TRUE].id = it.id
                       /\ [it EXCEPT !.old = TRUE].data = it.data
                       /\ [it EXCEPT !.old = TRUE].chk = it.chk
                       /\ [it EXCEPT !.old = TRUE].old
                       /\ Valid([it EXCEPT !.old = TRUE]) <=> Valid(it)
BY DEF ZeroedItem, Item, Valid

-----------------------------------------------------------------------------
(* Named places after a step, so that what a step does to the item at a    *)
(* given place can be applied to them.                                     *)
LEMMA Links ==
  /\ \A y : y = Here' => ItemAt(Here)' = ItemAt(y)'
  /\ \A y : y = NewItem' => ItemAt(NewItem)' = ItemAt(y)'
  /\ \A y : y = Copy' => ItemAt(Copy)' = ItemAt(y)'
  /\ \A y : y = op'.src => ItemAt(op.src)' = ItemAt(y)'
BY DEF ItemAt

(* A step that changes none of what Safe speaks of.                        *)
LEMMA NothingNew ==
  ASSUME Safe, UNCHANGED <<flash, pgRes, pc, op, scan, stat, resets, expect>>
  PROVE  Safe'
<1> USE DEF flash, scan
<1>1. Shape'
  BY DEF Safe, Shape, Fits
<1>2. Calling'
  BY DEF Safe, Calling, Used, Slots, ItemAt
<1>3. Writing'
  BY DEF Safe, Writing, Used, Slots, ItemAt, NewItem
<1>4. Compacting'
  BY DEF Safe, Compacting, Used, Slots, ItemAt, Here, Copy, Valid
<1>5. Settled'
  BY DEF Safe, Settled, Clean, Used, Slots, ItemAt, Fresh, NewItem, Copy, Valid
<1>6. Readable'
  BY DEF Safe, Readable, Current, Used, Slots, ItemAt, Valid
<1>7. Room'
  BY DEF Safe, Room, AtMostOne, Bad, Used, Slots, ItemAt, Fresh, NewItem, Copy, Valid
<1>8. Headers'
  BY DEF Safe, Headers, AtMostOne, Bad, Used, Slots, ItemAt, Valid
<1>9. Unmarked'
  BY DEF Safe, Unmarked, Used, Slots, ItemAt, Here
<1>10. FirstStart'
  BY DEF Safe, FirstStart, Erased, InUse
<1>11. Walk'
  BY DEF Safe, Walk, Used, Slots, ItemAt, Valid, Passed, Erased
<1> QED
  BY <1>1, <1>2, <1>3, <1>4, <1>5, <1>6, <1>7, <1>8, <1>9, <1>10, <1>11 DEF Safe

(* Outside the walk what a reset relies on follows from the rest.          *)
LEMMA HeadersHold ==
  ASSUME pc' \notin ScanPcs, Shape', Calling', Writing', Compacting', Settled', Room', Unmarked',
         FirstStart'
  PROVE  Headers'
<1> SUFFICES ASSUME resets' = 0, NEW p \in Pages
             PROVE  (/\ pgHdr[p].xfer => pgHdr[p].active
                     /\ ~ pgHdr[p].active => items[p] = <<>>
                     /\ pgHdr[p].active /\ ~ pgHdr[p].inUse =>
                          AtMostOne(Bad(p)) /\ \A x \in Used : x[1] = p => ~ ItemAt(x).old)'
  BY DEF Headers, ScanPcs
<1>1. pgRes' \in Pages /\ pgHdr' \in [Pages -> PageHdr] /\ pc' \in {"idle", "activate", "header"} \union WritePcs \union CompactPcs
  BY DEF Shape
<1>2. CASE p # pgRes' /\ ~ (pc' = "finish" /\ p = pg')
  BY <1>1, <1>2 DEF FirstStart, InUse
<1>3. CASE pc' = "finish" /\ p = pg'
  BY <1>3 DEF FirstStart, Erased, Compacting, CompactPcs
<1>4. CASE p = pgRes'
  <2>1. ~ pgHdr'[p].xfer
    BY <1>1, <1>4 DEF FirstStart, Erased
  <2>2. ~ pgHdr'[p].active => items'[p] = <<>>
    <3>1. CASE pc' \in CompactPcs
      BY <1>4, <3>1 DEF FirstStart
    <3>2. CASE pc' \in WritePcs /\ op'.dstPg = pgRes'
      BY <1>4, <3>2 DEF FirstStart
    <3>3. CASE pc' \in WritePcs /\ op'.dstPg # pgRes'
      BY <1>4, <3>3 DEF Room
    <3>4. CASE pc' \in {"idle", "activate", "header"}
      BY <1>4, <3>4 DEF Room
    <3> QED
      BY <1>1, <3>1, <3>2, <3>3, <3>4
  <2>3. AtMostOne(Bad(p))'
    <3>1. CASE pc' \in CompactPcs
      <4>1. \A x \in Bad(p)' : x \in Fresh'
        BY <1>4, <3>1 DEF Unmarked, Settled, Clean, Bad, Used, Valid, CompactPcs, ScanPcs
      <4> QED
        BY <4>1 DEF AtMostOne, Fresh
    <3>2. CASE pc' \in WritePcs /\ op'.dstPg = pgRes'
      <4>1. Len(items'[p]) = 1
        BY <1>4, <3>2 DEF Room
      <4>2. \A x \in Slots' : x[1] = p => x = <<p, 1>>
        BY <4>1 DEF Slots
      <4> QED
        BY <4>2 DEF Bad, AtMostOne
    <3>3. CASE items'[p] = <<>>
      BY <3>3 DEF AtMostOne, Bad, Slots
    <3> QED
      BY <1>1, <1>4, <3>1, <3>2, <3>3 DEF Room
  <2>4. ASSUME NEW x \in Used', x[1] = p, ItemAt(x).old'
        PROVE  FALSE
    <3>1. CASE pc' \in {"data", "chk", "zero"} /\ x = op'.src
      <4>1. x # NewItem' /\ x \in Slots'
        BY <2>4, <3>1, Numbers DEF Writing, WritePcs, Used
      <4>2. CASE op'.dstPg = pgRes'
        <5>1. Len(items'[p]) = 1 /\ NewItem' = <<p, 1>>
          BY <1>4, <3>1, <4>2 DEF Room, WritePcs, NewItem
        <5>2. x = <<p, 1>>
          BY <2>4, <4>1, <5>1 DEF Slots
        <5> QED
          BY <4>1, <5>1, <5>2
      <4>3. CASE op'.dstPg # pgRes'
        <5>1. items'[p] = <<>>
          BY <1>4, <3>1, <4>3 DEF Room, WritePcs
        <5> QED
          BY <2>4, <4>1, <5>1 DEF Slots
      <4> QED
        BY <4>2, <4>3
    <3>2. CASE pc' \in {"copyHdr", "copyData", "copyZero"} /\ x = Here'
      BY <1>4, <2>4, <3>2 DEF Compacting, CompactPcs, Here
    <3> QED
      BY <2>4, <3>1, <3>2 DEF Unmarked
  <2> QED
    BY <2>1, <2>2, <2>3, <2>4
<1> QED
  BY <1>2, <1>3, <1>4

(* Of one copy, FirstOf finds that one.                                    *)
LEMMA FirstOfOne ==
  ASSUME NEW x \in Slots
  PROVE  FirstOf({x}) = x
<1>1. x[1] \in Nat /\ x[2] \in Nat
  BY SlotParts, Numbers
<1>2. x \in {x} /\ \A y \in {x} : x[1] < y[1] \/ (x[1] = y[1] /\ x[2] <= y[2])
  BY <1>1
<1> QED
  BY <1>2 DEF FirstOf

(* The first place of any set of places is one of them.                    *)
LEMMA FirstOfIn ==
  ASSUME NEW S, S \subseteq Slots, S # {}
  PROVE  FirstOf(S) \in S
<1> DEFINE R == OpToRel(<, Nat)
           D == {x[1] : x \in S}
<1>1. IsWellFoundedOn(R, Nat)
  BY NatLessThanWellFounded
<1>2. \A x \in S : x[1] \in Nat /\ x[2] \in Nat
  BY SlotParts, Numbers
<1>3. \A m, n \in Nat : n <= m \/ <<m, n>> \in R
  BY DEF OpToRel
<1> HIDE DEF R
<1>4. PICK n \in D : \A m \in D : ~ (<<m, n>> \in R)
  <2>1. D \subseteq Nat /\ D # {}
    BY <1>2
  <2> QED
    BY <1>1, <2>1, WFMin, Zenon
<1> DEFINE O == {x[2] : x \in {y \in S : y[1] = n}}
<1>5. PICK o \in O : \A m \in O : ~ (<<m, o>> \in R)
  <2>1. O \subseteq Nat /\ O # {}
    BY <1>2
  <2> QED
    BY <1>1, <2>1, WFMin, Zenon
<1>6. PICK x \in S : x[1] = n /\ x[2] = o
  OBVIOUS
<1>7. ASSUME NEW y \in S
      PROVE  x[1] < y[1] \/ (x[1] = y[1] /\ x[2] <= y[2])
  <2>1. x[1] \in Nat /\ x[2] \in Nat /\ y[1] \in Nat /\ y[2] \in Nat
    BY <1>2
  <2>2. n <= y[1]
    BY <1>3, <1>4, <1>6, <2>1
  <2>3. y[1] = n => o <= y[2]
    BY <1>3, <1>5, <1>6, <2>1
  <2> QED
    BY <1>6, <2>1, <2>2, <2>3
<1> QED
  BY <1>7 DEF FirstOf

LEMMA CopiesAre ==
  ASSUME NEW id \in Ids, NEW old \in BOOLEAN
  PROVE  Copies(id, old) = {x \in Used : ItemAt(x).id = id /\ ItemAt(x).old = old}
BY Numbers DEF Copies, Used, Slots, ItemAt

(* Lookup finds the copy to replace, if there is one.                      *)
LEMMA FindItem ==
  ASSUME Shape, NEW id \in Ids
  PROVE  IF Exists(id)
         THEN /\ findItem(id) \in Used /\ ItemAt(findItem(id)).id = id
              /\ ItemAt(findItem(id)).old => \A x \in Used : ItemAt(x).id = id => ItemAt(x).old
         ELSE \A x \in Used : ItemAt(x).id # id
<1>1. /\ Copies(id, TRUE) = {x \in Used : ItemAt(x).id = id /\ ItemAt(x).old = TRUE}
      /\ Copies(id, FALSE) = {x \in Used : ItemAt(x).id = id /\ ItemAt(x).old = FALSE}
  BY CopiesAre
<1>2. Used \subseteq Slots
  BY DEF Used
<1>3. \A x \in Used : ItemAt(x).old \in BOOLEAN
  BY <1>2, ItemsAreItems DEF Shape
<1>4. CASE Copies(id, FALSE) # {}
  <2>1. FirstOf(Copies(id, FALSE)) \in Copies(id, FALSE)
    BY <1>1, <1>2, <1>4, FirstOfIn
  <2>2. Exists(id) /\ findItem(id) = FirstOf(Copies(id, FALSE))
    BY <1>4 DEF Exists, findItem
  <2> QED
    BY <1>1, <2>1, <2>2
<1>5. CASE Copies(id, FALSE) = {} /\ Copies(id, TRUE) # {}
  <2>1. FirstOf(Copies(id, TRUE)) \in Copies(id, TRUE)
    BY <1>1, <1>2, <1>5, FirstOfIn
  <2>2. Exists(id) /\ findItem(id) = FirstOf(Copies(id, TRUE))
    BY <1>5 DEF Exists, findItem
  <2> QED
    BY <1>1, <1>3, <1>5, <2>1, <2>2
<1>6. CASE Copies(id, FALSE) = {} /\ Copies(id, TRUE) = {}
  <2>1. ~ Exists(id)
    BY <1>6 DEF Exists
  <2> QED
    BY <1>1, <1>3, <1>6, <2>1
<1> QED
  BY <1>4, <1>5, <1>6

(* The page chosen for a new item has a place for it.                      *)
LEMMA ChosenIsRoomy ==
  ASSUME NEW lst, pgRes \in Pages, Roomy(lst) # {}
  PROVE  ChosenPage(lst) \in Roomy(lst)
<1> DEFINE R == OpToRel(<, Nat)
           D == {Distance(p) : p \in Roomy(lst)}
<1>1. IsWellFoundedOn(R, Nat)
  BY NatLessThanWellFounded
<1>2. \A p \in Roomy(lst) : Distance(p) \in Nat
  <2> SUFFICES ASSUME NEW p \in Roomy(lst)
               PROVE  Distance(p) \in Nat
    OBVIOUS
  <2>1. p \in Nat /\ pgRes \in Nat /\ p > 0 /\ pgRes <= PageCnt /\ PageCnt \in Nat /\ PageCnt > 0
    BY Numbers DEF Roomy
  <2>2. p + PageCnt - pgRes - 1 \in Nat
    BY <2>1
  <2>3. \A m, n \in Nat : n > 0 => m % n \in Nat
    OBVIOUS
  <2> QED
    BY <2>1, <2>2, <2>3 DEF Distance
<1>3. D \subseteq Nat /\ D # {}
  BY <1>2
<1> HIDE DEF R
<1>4. PICK n \in D : \A m \in D : ~ (<<m, n>> \in R)
  BY <1>1, <1>3, WFMin, Zenon
<1>5. PICK p \in Roomy(lst) : n = Distance(p)
  OBVIOUS
<1>6. \A q \in Roomy(lst) : Distance(p) <= Distance(q)
  <2> SUFFICES ASSUME NEW q \in Roomy(lst)
               PROVE  Distance(p) <= Distance(q)
    OBVIOUS
  <2>1. Distance(p) \in Nat /\ Distance(q) \in Nat /\ Distance(q) \in D
    BY <1>2
  <2>2. Distance(q) < Distance(p) => <<Distance(q), Distance(p)>> \in R
    BY <2>1 DEF OpToRel, R
  <2> QED
    BY <1>4, <1>5, <2>1, <2>2
<1> QED
  BY <1>6 DEF ChosenPage

-----------------------------------------------------------------------------
(* The actions of a write.                                                 *)
LEMMA InitItemSafe ==
  ASSUME Safe, pc = "idle", NEW id \in Ids, NEW val \in Vals, NEW src, NEW lst,
         initItem(id, val, src, lst),
         IF src[1] = NULL THEN \A x \in Used : ItemAt(x).id # id
                          ELSE src \in Used /\ ItemAt(src).id = id
  PROVE  Safe'
<1>1. /\ UNCHANGED <<pgHdr, items, pgRes, pg, offset, lost, findDups, newPg, oldPg, stat, resets>>
      /\ Slots' = Slots /\ Used' = Used /\ \A y : ItemAt(y)' = ItemAt(y)
  BY SameFlash DEF initItem, flash, scan
<1>2. CASE Roomy(lst) = {}
  BY <1>1, <1>2, NothingNew DEF initItem, flash, scan
<1>3. CASE Roomy(lst) # {}
  <2> DEFINE com == ChosenPage(lst)
             dst == Destination(com)
  <2>1. pgRes \in Pages /\ items \in [Pages -> Seq(Item)] /\ Fits
    BY DEF Safe, Shape, ScanPcs
  <2>2. com \in Pages \ {pgRes}
    BY <1>3, <2>1, ChosenIsRoomy DEF Roomy
  <2>3. /\ op'.id = id /\ op'.val = val /\ op'.src = src /\ op'.dstPg = dst /\ op'.comPg = com
        /\ pc' = IF dst = pgRes THEN "activate" ELSE "header"
        /\ expect' = [expect EXCEPT ![id] = @ \union {val}]
    BY <1>3 DEF initItem
  <2>4. dst \in {pgRes, com} /\ Len(items[dst]) < PageItems
    <3>1. Len(items[com]) \in Nat /\ Len(items[pgRes]) \in Nat
      BY <2>1, <2>2, Lengths
    <3>2. Len(items[pgRes]) = 0
      BY DEF Safe, Room
    <3> QED
      BY <3>1, <3>2, Numbers DEF Destination
  <2> HIDE DEF com, dst
  <2>5. expect \in [Ids -> SUBSET (Vals \union {Absent})]
    BY DEF Safe, Shape
  <2>6. Shape'
    BY <1>1, <2>1, <2>3, <2>5 DEF Safe, Shape, Fits, ScanPcs
  <2>7. Calling'
    <3>1. val \in expect'[id]
      BY <2>3, <2>5
    <3>2. op'.src = src /\ ItemAt(op.src)' = ItemAt(src)
      BY <1>1, <2>3, Links
    <3> QED
      BY <1>1, <2>1, <2>2, <2>3, <2>4, <3>1, <3>2 DEF Calling, WritePcs
  <2>8. Writing' /\ Compacting'
    BY <2>3 DEF Writing, Compacting, WritePcs, CompactPcs
  <2>9. Settled'
    BY <1>1, <2>3 DEF Safe, Settled, Clean, Fresh, Valid, WritePcs, CopyPcs
  <2>10. Readable'
    <3>1. \A i \in Ids : expect[i] \subseteq expect'[i]
      BY <2>3, <2>5
    <3>2. \A x : Current(x)' <=> Current(x)
      BY <1>1 DEF Current, Valid
    <3>3. \A x : Valid(ItemAt(x))' <=> Valid(ItemAt(x))
      BY <1>1 DEF Valid
    <3> QED
      BY <1>1, <2>3, <3>1, <3>2, <3>3 DEF Safe, Readable
  <2>11. Room'
    BY <1>1, <2>3 DEF Safe, Room, WritePcs, CompactPcs
  <2>12. Headers'
    BY <1>1, <2>3 DEF Safe, Headers, AtMostOne, Bad, Valid
  <2>13. Unmarked'
    BY <1>1, <2>3 DEF Safe, Unmarked, CompactPcs
  <2>14. FirstStart'
    BY <1>1, <2>1, <2>3 DEF Safe, FirstStart, Erased, InUse, WritePcs, CompactPcs, ScanPcs
  <2>15. Walk'
    BY <2>3 DEF Walk
  <2> QED
    BY <2>6, <2>7, <2>8, <2>9, <2>10, <2>11, <2>12, <2>13, <2>14, <2>15 DEF Safe
<1> QED
  BY <1>2, <1>3

LEMMA CallSafe ==
  ASSUME Safe, Call
  PROVE  Safe'
<1>1. Shape
  BY DEF Safe
<1>2. CASE pc = "idle"
  <2>1. Clean(Used)
    <3>1. Fresh = {}
      BY <1>2 DEF Fresh, WritePcs, CopyPcs
    <3> QED
      BY <1>2, <3>1 DEF Safe, Settled, Clean
  <2>2. ASSUME NEW i \in Ids, Lookup(i)
        PROVE  Safe'
    BY <2>2, NothingNew DEF Lookup
  <2>3. ASSUME NEW i \in Ids, NEW val \in Vals, osal_nv_item_init(i, val)
        PROVE  Safe'
    <3>1. \A x \in Used : ItemAt(x).id # i
      BY <1>1, <2>1, <2>3, FindItem DEF osal_nv_item_init
    <3>2. initItem(i, val, <<NULL, 0>>, Rewalked({}))
      BY <2>3 DEF osal_nv_item_init
    <3> QED
      BY <1>2, <3>1, <3>2, InitItemSafe
  <2>4. ASSUME NEW i \in Ids, NEW val \in Vals, osal_nv_write(i, val)
        PROVE  Safe'
    <3>1. findItem(i) \in Used /\ ItemAt(findItem(i)).id = i
      BY <1>1, <2>1, <2>4, FindItem DEF osal_nv_write
    <3>2. findItem(i)[1] # NULL
      BY <3>1, SlotParts, Numbers DEF Used
    <3>3. initItem(i, val, findItem(i), Rewalked(Copies(i, FALSE)))
      BY <2>4 DEF osal_nv_write
    <3> QED
      BY <1>2, <3>1, <3>2, <3>3, InitItemSafe
  <2> QED
    BY <2>2, <2>3, <2>4 DEF Call
<1>3. pc = "idle"
  BY DEF Call, Lookup, osal_nv_item_init, osal_nv_write
<1> QED
  BY <1>2, <1>3

LEMMA ActivateSafe ==
  ASSUME Safe, Activate
  PROVE  Safe'
<1>1. /\ pc = "activate" /\ pc' = "header"
      /\ pgHdr' = [pgHdr EXCEPT ![op.dstPg].active = TRUE]
      /\ UNCHANGED <<items, pgRes, op, pg, offset, lost, findDups, newPg, oldPg, stat, resets, expect>>
      /\ Slots' = Slots /\ Used' = Used /\ \A y : ItemAt(y)' = ItemAt(y)
  BY SameFlash DEF Activate, ram, scan
<1>2. pgRes \in Pages /\ pgHdr \in [Pages -> PageHdr] /\ op.dstPg = pgRes
  BY <1>1 DEF Safe, Shape, Calling, ScanPcs
<1>3. /\ pgHdr' \in [Pages -> PageHdr]
      /\ \A p \in Pages : /\ pgHdr'[p].active = (p = pgRes \/ pgHdr[p].active)
                          /\ pgHdr'[p].inUse = pgHdr[p].inUse /\ pgHdr'[p].xfer = pgHdr[p].xfer
  BY <1>1, <1>2 DEF PageHdr
<1>4. Shape'
  BY <1>1, <1>3 DEF Safe, Shape, Fits, ScanPcs
<1>5. Calling'
  <2>1. ItemAt(op.src)' = ItemAt(op.src)
    BY <1>1, Links
  <2> QED
    BY <1>1, <2>1 DEF Safe, Calling, WritePcs
<1>6. Writing' /\ Compacting'
  BY <1>1 DEF Writing, Compacting, WritePcs, CompactPcs
<1>7. Settled'
  BY <1>1 DEF Safe, Settled, Clean, Fresh, Valid, WritePcs, CopyPcs
<1>8. Readable'
  <2>1. \A x : Current(x)' <=> Current(x)
    BY <1>1 DEF Current, Valid
  <2> QED
    BY <1>1, <2>1 DEF Safe, Readable, Valid
<1>9. Room'
  BY <1>1 DEF Safe, Room, WritePcs, CompactPcs
<1>11. Unmarked'
  BY <1>1 DEF Safe, Unmarked, CompactPcs
<1>12. FirstStart'
  BY <1>1, <1>2, <1>3 DEF Safe, FirstStart, Erased, InUse, WritePcs, CompactPcs, ScanPcs
<1>13. Walk'
  BY <1>1 DEF Walk
<1>10. Headers'
  BY <1>1, <1>4, <1>5, <1>6, <1>7, <1>9, <1>11, <1>12, HeadersHold DEF ScanPcs
<1> QED
  BY <1>4, <1>5, <1>6, <1>7, <1>8, <1>9, <1>10, <1>11, <1>12, <1>13 DEF Safe

LEMMA HeaderSafe ==
  ASSUME Safe, Header
  PROVE  Safe'
<1> DEFINE it == [id |-> op.id, data |-> Blank, chk |-> Blank, old |-> FALSE]
<1>0. PICK n : n = <<op.dstPg, Len(items[op.dstPg]) + 1>>
  OBVIOUS
<1>1. /\ pc = "header" /\ pc' = IF op.src[1] = NULL THEN "data" ELSE "markOld"
      /\ items' = [items EXCEPT ![op.dstPg] = Append(@, it)]
      /\ UNCHANGED <<pgHdr, pgRes, op, pg, offset, lost, findDups, newPg, oldPg, stat, resets, expect>>
  BY DEF Header, ram, scan
<1>2. /\ Shape /\ pgRes \in Pages /\ op.dstPg \in Pages /\ Len(items[op.dstPg]) < PageItems
      /\ op.id \in Ids /\ op.val \in Vals /\ op.val \in expect[op.id]
      /\ op.comPg \in Pages \ {pgRes} /\ op.dstPg \in {pgRes, op.comPg}
      /\ IF op.src[1] = NULL
         THEN \A x \in Used : ItemAt(x).id # op.id
         ELSE op.src \in Used /\ ItemAt(op.src).id = op.id
  BY <1>1 DEF Safe, Shape, Calling, ScanPcs
<1>3. it \in Item /\ it.id = op.id /\ it.data = Blank /\ it.chk = Blank /\ ~ it.old /\ ~ Valid(it)
  BY <1>2 DEF Item, Valid
<1> HIDE DEF it
<1>4. /\ items' \in [Pages -> Seq(Item)] /\ Fits'
      /\ \A q \in Pages : Len(items'[q]) = IF q = op.dstPg THEN Len(items[op.dstPg]) + 1 ELSE Len(items[q])
      /\ \A q \in Pages : q # op.dstPg => items'[q] = items[q]
      /\ n = <<op.dstPg, Len(items'[op.dstPg])>>
      /\ n \notin Slots /\ Slots' = Slots \union {n}
      /\ \A y \in Slots : ItemAt(y)' = ItemAt(y)
      /\ ItemAt(n)' = it
  <2>1. items \in [Pages -> Seq(Item)] /\ Fits
    BY <1>2 DEF Shape
  <2>2. items' = [items EXCEPT ![op.dstPg] = Append(@, it)]
    BY <1>1
  <2> QED
    BY <1>0, <1>2, <1>3, <2>1, <2>2, AppendAt
<1>5. NewItem' = n
  BY <1>1, <1>4 DEF NewItem
<1>6. Used' = Used \union {n} /\ n \notin Used /\ Used \subseteq Slots
  BY <1>2, <1>3, <1>4, Numbers DEF Used
<1>7. Fresh' = {n} /\ Fresh = {} /\ pc' \in WritePcs
  BY <1>1, <1>5 DEF Fresh, WritePcs, CopyPcs
<1>8. ItemAt(NewItem)' = it
  BY <1>4, <1>5, Links
<1>9. Shape'
  BY <1>1, <1>2, <1>4 DEF Shape, ScanPcs, WritePcs
<1>10. Calling'
  BY <1>1, <1>2 DEF Calling, WritePcs
<1>11. Writing'
  <2>1. op.src[1] # NULL => ItemAt(op.src)' = ItemAt(op.src)
    BY <1>1, <1>2, <1>4, <1>6, Links
  <2>2. NewItem' \in Slots'
    BY <1>4, <1>5
  <2>3. op.src[1] = NULL => \A x \in Used' \ {n} : ItemAt(x)'.id # op.id
    BY <1>2, <1>4, <1>6
  <2>4. op.src[1] # NULL => op.src \in Used' \ {n} /\ ItemAt(op.src)'.id = op.id
    BY <1>2, <1>6, <2>1
  <2>5. ItemAt(NewItem)'.id = op.id /\ ~ ItemAt(NewItem)'.old
        /\ ItemAt(NewItem)'.data = Blank /\ ItemAt(NewItem)'.chk = Blank
    BY <1>3, <1>8
  <2>6. op' = op /\ NewItem' = n
    BY <1>1, <1>5
  <2> QED
    BY <1>1, <2>2, <2>3, <2>4, <2>5, <2>6 DEF Writing, WritePcs
<1>12. Compacting'
  BY <1>1 DEF Compacting, CompactPcs
<1>13. Settled'
  <2>1. Clean(Used)
    BY <1>1, <1>7 DEF Safe, Settled, Clean
  <2> QED
    BY <1>4, <1>6, <1>7, <2>1 DEF Settled, Clean, Valid
<1>14. Readable'
  <2>1. \A x \in Slots : Valid(ItemAt(x))' <=> Valid(ItemAt(x))
    BY <1>4 DEF Valid
  <2>2. ~ Valid(ItemAt(n))'
    BY <1>3, <1>4 DEF Valid
  <2>3. \A x : Current(x)' => Current(x)
    BY <1>4, <1>6, <2>1, <2>2 DEF Current
  <2>4. \A x : Current(x)' => x \in Used
    BY <2>3 DEF Current
  <2> QED
    BY <1>1, <1>4, <1>6, <2>1, <2>2, <2>3, <2>4 DEF Safe, Readable
<1>15. Room'
  <2>1. items[pgRes] = <<>>
    BY <1>1 DEF Safe, Room
  <2>2. Len(items[pgRes]) = 0
    BY <2>1
  <2> QED
    BY <1>1, <1>2, <1>4, <1>7, <2>1, <2>2 DEF Room, WritePcs, CompactPcs
<1>16. Unmarked'
  BY <1>1, <1>3, <1>4, <1>6 DEF Safe, Unmarked, CompactPcs
<1>17. FirstStart'
  BY <1>1, <1>2, <1>7 DEF Safe, FirstStart, Erased, InUse, WritePcs, CompactPcs, ScanPcs
<1>18. Headers'
  BY <1>1, <1>9, <1>10, <1>11, <1>12, <1>13, <1>15, <1>16, <1>17, HeadersHold DEF ScanPcs
<1>19. Walk'
  BY <1>1 DEF Walk
<1> QED
  BY <1>9, <1>10, <1>11, <1>12, <1>13, <1>14, <1>15, <1>16, <1>17, <1>18, <1>19 DEF Safe

(* Where a write is.                                                       *)
LEMMA WriteKnows ==
  ASSUME Safe, pc \in WritePcs
  PROVE  /\ Shape /\ pgRes \in Pages
         /\ op.id \in Ids /\ op.val \in Vals /\ op.val \in expect[op.id]
         /\ op.comPg \in Pages \ {pgRes} /\ op.dstPg \in {pgRes, op.comPg}
         /\ NewItem \in Slots /\ NewItem \in Used /\ NewItem[1] = op.dstPg
         /\ ItemAt(NewItem).id = op.id /\ ~ ItemAt(NewItem).old
         /\ IF op.src[1] = NULL
            THEN \A x \in Used \ {NewItem} : ItemAt(x).id # op.id
            ELSE op.src \in Used /\ op.src # NewItem /\ ItemAt(op.src).id = op.id
         /\ Used \subseteq Slots
         /\ Fresh = {NewItem}
         /\ \A x \in Used \ {NewItem} : Valid(ItemAt(x))
         /\ \A x, y \in Used \ {NewItem} : ItemAt(x).id = ItemAt(y).id => y = x
         /\ IF op.dstPg = pgRes THEN Len(items[pgRes]) = 1 ELSE items[pgRes] = <<>>
<1>1. Shape /\ pgRes \in Pages
  BY DEF Safe, Shape, ScanPcs, WritePcs
<1>2. /\ op.id \in Ids /\ op.val \in Vals /\ op.val \in expect[op.id]
      /\ op.comPg \in Pages \ {pgRes} /\ op.dstPg \in {pgRes, op.comPg}
  BY DEF Safe, Calling
<1>3. /\ NewItem \in Slots /\ ItemAt(NewItem).id = op.id /\ ~ ItemAt(NewItem).old
      /\ IF op.src[1] = NULL
         THEN \A x \in Used \ {NewItem} : ItemAt(x).id # op.id
         ELSE op.src \in Used /\ op.src # NewItem /\ ItemAt(op.src).id = op.id
  BY DEF Safe, Writing
<1>4. NewItem \in Used /\ Used \subseteq Slots
  BY <1>2, <1>3, Numbers DEF Used
<1>5. Fresh = {NewItem}
  BY DEF Fresh
<1>6. Clean(Used \ {NewItem})
  BY <1>5 DEF Safe, Settled, WritePcs
<1>7. NewItem[1] = op.dstPg
  BY DEF NewItem
<1>8. IF op.dstPg = pgRes THEN Len(items[pgRes]) = 1 ELSE items[pgRes] = <<>>
  BY DEF Safe, Room
<1> QED
  BY <1>1, <1>2, <1>3, <1>4, <1>5, <1>6, <1>7, <1>8 DEF Clean

LEMMA MarkOldSafe ==
  ASSUME Safe, MarkOld
  PROVE  Safe'
<1> DEFINE it == [ItemAt(op.src) EXCEPT !.old = TRUE]
<1>1. /\ pc = "markOld" /\ pc' = "data" /\ pc \in WritePcs /\ pc' \in WritePcs
      /\ items' = With(op.src, it)
      /\ UNCHANGED <<pgHdr, pgRes, op, pg, offset, lost, findDups, newPg, oldPg, stat, resets, expect>>
  BY DEF MarkOld, ram, scan, WritePcs
<1>2. /\ op.src[1] # NULL /\ ItemAt(NewItem).data = Blank /\ ItemAt(NewItem).chk = Blank
  BY <1>1 DEF Safe, Writing
<1>3. /\ Shape /\ pgRes \in Pages
      /\ op.id \in Ids /\ op.val \in Vals /\ op.val \in expect[op.id]
      /\ op.comPg \in Pages \ {pgRes} /\ op.dstPg \in {pgRes, op.comPg}
      /\ NewItem \in Slots /\ NewItem \in Used
      /\ ItemAt(NewItem).id = op.id /\ ~ ItemAt(NewItem).old
      /\ op.src \in Used /\ op.src # NewItem /\ ItemAt(op.src).id = op.id
      /\ Used \subseteq Slots
      /\ Fresh = {NewItem}
      /\ \A x \in Used \ {NewItem} : Valid(ItemAt(x))
      /\ \A x, y \in Used \ {NewItem} : ItemAt(x).id = ItemAt(y).id => y = x
      /\ IF op.dstPg = pgRes THEN Len(items[pgRes]) = 1 ELSE items[pgRes] = <<>>
  BY <1>1, <1>2, WriteKnows
<1>4. /\ it \in Item /\ it.id = ItemAt(op.src).id /\ it.data = ItemAt(op.src).data
      /\ it.chk = ItemAt(op.src).chk /\ it.old /\ (Valid(it) <=> Valid(ItemAt(op.src)))
  BY <1>3, ItemsAreItems, NewItems DEF Shape
<1> HIDE DEF it
<1>5. /\ items' \in [Pages -> Seq(Item)] /\ Fits'
      /\ \A p \in Pages : Len(items'[p]) = Len(items[p])
      /\ \A p \in Pages : items[p] = <<>> => items'[p] = <<>>
      /\ Slots' = Slots
      /\ \A y \in Slots : ItemAt(y)' = IF y = op.src THEN it ELSE ItemAt(y)
  BY <1>1, <1>3, <1>4, WriteAt DEF Shape
<1>6. Used' = Used /\ NewItem' = NewItem /\ Fresh' = Fresh
  <2>1. NewItem' = NewItem
    BY <1>1, <1>3, <1>5 DEF NewItem
  <2> QED
    BY <1>1, <1>3, <1>4, <1>5, <2>1 DEF Used, Fresh
<1>7. \A x \in Slots : (Valid(ItemAt(x))' <=> Valid(ItemAt(x))) /\ ItemAt(x)'.id = ItemAt(x).id
                      /\ ItemAt(x)'.data = ItemAt(x).data
  BY <1>4, <1>5 DEF Valid
<1>8. ItemAt(NewItem)' = ItemAt(NewItem) /\ ItemAt(op.src)' = it
  BY <1>1, <1>3, <1>5, <1>6, Links
<1>9. Shape'
  BY <1>1, <1>3, <1>5 DEF Shape, ScanPcs
<1>10. Calling'
  BY <1>1, <1>3 DEF Calling, WritePcs
<1>11. Writing'
  BY <1>1, <1>2, <1>3, <1>4, <1>6, <1>8, <1>5 DEF Writing, WritePcs
<1>12. Compacting'
  BY <1>1 DEF Compacting, CompactPcs
<1>13. Settled'
  <2>1. \A x \in Used : Valid(ItemAt(x))' <=> Valid(ItemAt(x))
    BY <1>3, <1>7
  <2> QED
    BY <1>3, <1>6, <1>7, <2>1 DEF Settled, Clean
<1>14. Readable'
  <2>1. ~ Valid(ItemAt(NewItem))
    BY <1>2 DEF Valid
  <2>2. ASSUME NEW x, Current(x)'
        PROVE  Current(x)
    <3>1. /\ x \in Used /\ Valid(ItemAt(x)) /\ x # NewItem /\ x \in Slots
          /\ ItemAt(x)'.old =>
               \A y \in Used : ItemAt(y).id = ItemAt(x).id /\ Valid(ItemAt(y)) => ItemAt(y)'.old
      BY <1>3, <1>6, <1>7, <2>1, <2>2 DEF Current
    <3>2. ASSUME ItemAt(x).old, NEW y \in Used, ItemAt(y).id = ItemAt(x).id, Valid(ItemAt(y))
          PROVE  ItemAt(y).old
      <4>1. y = x
        BY <1>3, <2>1, <3>1, <3>2
      <4> QED
        BY <3>2, <4>1
    <3> QED
      BY <3>1, <3>2 DEF Current
  <2> QED
    BY <1>1, <1>3, <1>6, <1>7, <2>2 DEF Safe, Readable, Current
<1>15. Room'
  BY <1>1, <1>3, <1>5 DEF Room, WritePcs, CompactPcs
<1>16. Unmarked'
  BY <1>1, <1>3, <1>5, <1>6 DEF Safe, Unmarked, CompactPcs
<1>17. FirstStart'
  BY <1>1, <1>3 DEF Safe, FirstStart, Erased, InUse, WritePcs, CompactPcs, ScanPcs
<1>18. Headers'
  BY <1>1, <1>9, <1>10, <1>11, <1>12, <1>13, <1>15, <1>16, <1>17, HeadersHold DEF ScanPcs
<1>19. Walk'
  BY <1>1 DEF Walk
<1> QED
  BY <1>9, <1>10, <1>11, <1>12, <1>13, <1>14, <1>15, <1>16, <1>17, <1>18, <1>19 DEF Safe

LEMMA DataSafe ==
  ASSUME Safe, Data
  PROVE  Safe'
<1> DEFINE it == [ItemAt(NewItem) EXCEPT !.data = op.val]
<1>1. /\ pc = "data" /\ pc' = "chk" /\ pc \in WritePcs /\ pc' \in WritePcs
      /\ items' = With(NewItem, it)
      /\ UNCHANGED <<pgHdr, pgRes, op, pg, offset, lost, findDups, newPg, oldPg, stat, resets, expect>>
  BY DEF Data, ram, scan, WritePcs
<1>2. ItemAt(NewItem).data = Blank /\ ItemAt(NewItem).chk = Blank
  BY <1>1 DEF Safe, Writing
<1>3. /\ Shape /\ pgRes \in Pages
      /\ op.id \in Ids /\ op.val \in Vals /\ op.val \in expect[op.id]
      /\ op.comPg \in Pages \ {pgRes} /\ op.dstPg \in {pgRes, op.comPg}
      /\ NewItem \in Slots /\ NewItem \in Used
      /\ ItemAt(NewItem).id = op.id /\ ~ ItemAt(NewItem).old
      /\ IF op.src[1] = NULL
         THEN \A x \in Used \ {NewItem} : ItemAt(x).id # op.id
         ELSE op.src \in Used /\ op.src # NewItem /\ ItemAt(op.src).id = op.id
      /\ Used \subseteq Slots
      /\ Fresh = {NewItem}
      /\ \A x \in Used \ {NewItem} : Valid(ItemAt(x))
      /\ \A x, y \in Used \ {NewItem} : ItemAt(x).id = ItemAt(y).id => y = x
      /\ IF op.dstPg = pgRes THEN Len(items[pgRes]) = 1 ELSE items[pgRes] = <<>>
  BY <1>1, WriteKnows
<1>4. /\ it \in Item /\ it.id = op.id /\ it.data = op.val /\ it.chk = Blank /\ ~ it.old
      /\ ~ Valid(it) /\ ~ Valid(ItemAt(NewItem))
  <2>1. ItemAt(NewItem) \in Item
    BY <1>3, ItemsAreItems DEF Shape
  <2> QED
    BY <1>2, <1>3, <2>1 DEF Item, Valid
<1> HIDE DEF it
<1>5. /\ items' \in [Pages -> Seq(Item)] /\ Fits'
      /\ \A p \in Pages : Len(items'[p]) = Len(items[p])
      /\ \A p \in Pages : items[p] = <<>> => items'[p] = <<>>
      /\ Slots' = Slots
      /\ \A y \in Slots : ItemAt(y)' = IF y = NewItem THEN it ELSE ItemAt(y)
  BY <1>1, <1>3, <1>4, WriteAt DEF Shape
<1>6. Used' = Used /\ NewItem' = NewItem /\ Fresh' = Fresh
  <2>1. NewItem' = NewItem
    BY <1>1, <1>3, <1>5 DEF NewItem
  <2> QED
    BY <1>1, <1>3, <1>4, <1>5, <2>1 DEF Used, Fresh
<1>7. \A x \in Slots : (Valid(ItemAt(x))' <=> Valid(ItemAt(x))) /\ ItemAt(x)'.id = ItemAt(x).id
                      /\ ItemAt(x)'.old = ItemAt(x).old
                      /\ (x # NewItem => ItemAt(x)' = ItemAt(x))
  <2> SUFFICES ASSUME NEW x \in Slots
               PROVE  /\ (Valid(ItemAt(x))' <=> Valid(ItemAt(x))) /\ ItemAt(x)'.id = ItemAt(x).id
                      /\ ItemAt(x)'.old = ItemAt(x).old
                      /\ (x # NewItem => ItemAt(x)' = ItemAt(x))
    OBVIOUS
  <2>1. CASE x = NewItem
    <3>1. ItemAt(x)' = it
      BY <1>5, <2>1
    <3>2. it.old = FALSE /\ ItemAt(NewItem).old = FALSE
      <4>1. it.old \in BOOLEAN /\ ItemAt(NewItem).old \in BOOLEAN
        BY <1>3, <1>4, ItemsAreItems DEF Shape, Item
      <4> QED
        BY <1>3, <1>4, <4>1
    <3>3. ~ Valid(ItemAt(x))'
      BY <1>4, <3>1 DEF Valid
    <3> QED
      BY <1>3, <1>4, <2>1, <3>1, <3>2, <3>3
  <2>2. CASE x # NewItem
    <3>1. ItemAt(x)' = ItemAt(x)
      BY <1>5, <2>2
    <3> QED
      BY <2>2, <3>1 DEF Valid
  <2> QED
    BY <2>1, <2>2
<1>8. ItemAt(NewItem)' = it /\ (op.src[1] # NULL => ItemAt(op.src)' = ItemAt(op.src))
  BY <1>1, <1>3, <1>5, <1>6, Links
<1>9. Shape'
  BY <1>1, <1>3, <1>5 DEF Shape, ScanPcs
<1>10. Calling'
  BY <1>1, <1>3 DEF Calling, WritePcs
<1>11. Writing'
  <2>1. op.src[1] # NULL => ItemAt(op.src).old
    BY <1>1 DEF Safe, Writing
  <2>2. \A x \in Used \ {NewItem} : ItemAt(x)' = ItemAt(x)
    BY <1>3, <1>7
  <2> QED
    BY <1>1, <1>3, <1>4, <1>5, <1>6, <1>8, <2>1, <2>2 DEF Writing, WritePcs
<1>12. Compacting'
  BY <1>1 DEF Compacting, CompactPcs
<1>13. Settled'
  <2>1. \A x \in Used : Valid(ItemAt(x))' <=> Valid(ItemAt(x))
    BY <1>3, <1>7
  <2> QED
    BY <1>3, <1>6, <1>7, <2>1 DEF Settled, Clean
<1>14. Readable'
  <2>1. \A x : Current(x)' <=> Current(x)
    BY <1>3, <1>6, <1>7 DEF Current
  <2>2. \A x : Current(x) => x \in Slots /\ x # NewItem
    BY <1>3, <1>4 DEF Current
  <2>3. \A x : Current(x) => ItemAt(x)' = ItemAt(x)
    BY <1>7, <2>2
  <2> QED
    BY <1>1, <1>3, <1>6, <1>7, <2>1, <2>3 DEF Safe, Readable
<1>15. Room'
  BY <1>1, <1>3, <1>5 DEF Room, WritePcs, CompactPcs
<1>16. Unmarked'
  BY <1>1, <1>3, <1>6, <1>7 DEF Safe, Unmarked, CompactPcs
<1>17. FirstStart'
  BY <1>1, <1>3 DEF Safe, FirstStart, Erased, InUse, WritePcs, CompactPcs, ScanPcs
<1>18. Headers'
  BY <1>1, <1>9, <1>10, <1>11, <1>12, <1>13, <1>15, <1>16, <1>17, HeadersHold DEF ScanPcs
<1>19. Walk'
  BY <1>1 DEF Walk
<1> QED
  BY <1>9, <1>10, <1>11, <1>12, <1>13, <1>14, <1>15, <1>16, <1>17, <1>18, <1>19 DEF Safe

(* A write that has nothing left to write ends, or begins a compaction.    *)
LEMMA WriteEnds ==
  ASSUME Safe, pc \in WritePcs, EndOrCompact, UNCHANGED <<pgHdr, pgRes, stat, resets>>,
         items' \in [Pages -> Seq(Item)], Fits', expect' \in [Ids -> SUBSET (Vals \union {Absent})],
         Clean(Used)', Readable',
         IF op.dstPg = pgRes
         THEN Len(items'[pgRes]) = 1 /\ \A x \in Slots' : x[1] = pgRes => ItemAt(x)'.id # Zeroed
         ELSE items'[pgRes] = <<>>,
         resets = 0 => \A x \in Used' : ~ ItemAt(x)'.old
  PROVE  Safe'
<1>1. /\ pgRes \in Pages /\ op.comPg \in Pages \ {pgRes} /\ Shape
  BY WriteKnows
<1>2. \/ /\ op.dstPg = pgRes /\ pc' = "mark" /\ pg' = op.comPg
         /\ UNCHANGED <<op, offset, lost, findDups, newPg, oldPg>>
      \/ /\ op.dstPg # pgRes /\ pc' = "idle"
         /\ pg' = NULL /\ offset' = 0 /\ findDups' = FALSE /\ newPg' = NULL /\ oldPg' = NULL
  BY DEF EndOrCompact, Idle, NoScan
<1>3. pc' \in {"mark", "idle"} /\ pc' \notin WritePcs /\ pc' \notin CopyPcs /\ pc' \notin ScanPcs
      /\ Fresh' = {}
  BY <1>2 DEF WritePcs, CopyPcs, ScanPcs, Fresh
<1>4. Shape'
  <2>1. pg' \in Pages \union {NULL} /\ offset' \in Nat /\ findDups' \in BOOLEAN
        /\ newPg' \in Pages \union {NULL} /\ oldPg' \in Pages \union {NULL}
    <3>1. /\ pg' \in {op.comPg, NULL} /\ offset' \in {offset, 0} /\ findDups' \in {findDups, FALSE}
          /\ newPg' \in {newPg, NULL} /\ oldPg' \in {oldPg, NULL}
      BY <1>2
    <3>2. op.comPg \in Pages /\ offset \in Nat /\ findDups \in BOOLEAN
          /\ newPg \in Pages \union {NULL} /\ oldPg \in Pages \union {NULL}
      BY <1>1 DEF Shape
    <3>3. findDups' \in BOOLEAN
      BY <3>1, <3>2, Zenon
    <3>4. 0 \in Nat
      OBVIOUS
    <3> QED
      BY <3>1, <3>2, <3>3, <3>4
  <2>2. pgHdr' \in [Pages -> PageHdr] /\ stat' \in BOOLEAN /\ resets' \in Nat /\ pgRes' \in Pages
    BY <1>1 DEF Shape
  <2> QED
    BY <1>3, <2>1, <2>2 DEF Shape, CompactPcs
<1>5. Calling' /\ Writing'
  BY <1>2 DEF Calling, Writing, WritePcs
<1>6. Compacting'
  BY <1>1, <1>2 DEF Compacting, CompactPcs, CopyPcs
<1>7. Settled'
  <2>1. \A x, y \in Used' : Valid(ItemAt(x))' /\ (ItemAt(x)'.id = ItemAt(y)'.id => y = x)
    BY DEF Clean
  <2> QED
    BY <1>3, <2>1 DEF Settled, Clean
<1>8. Room'
  <2>1. pc' = "idle" => items'[pgRes] = <<>>
    BY <1>2
  <2>2. ASSUME pc' = "mark" PROVE AtMostOne(Bad(pgRes))'
    <3>1. \A x \in Slots' : x[1] = pgRes => x = <<pgRes, 1>>
      BY <1>2, <2>2 DEF Slots
    <3> QED
      BY <3>1 DEF AtMostOne, Bad
  <2> QED
    BY <1>3, <2>1, <2>2 DEF Room, WritePcs, CompactPcs, AtMostOne
<1>9. Unmarked'
  BY <1>2, <1>3 DEF Safe, Unmarked, CompactPcs
<1>10. FirstStart'
  BY <1>1, <1>2 DEF Safe, FirstStart, Erased, InUse, WritePcs, CompactPcs, ScanPcs
<1>11. Headers'
  BY <1>3, <1>4, <1>5, <1>6, <1>7, <1>8, <1>9, <1>10, HeadersHold
<1>12. Walk'
  BY <1>3 DEF Walk
<1> QED
  BY <1>4, <1>5, <1>6, <1>7, <1>8, <1>9, <1>10, <1>11, <1>12 DEF Safe

LEMMA ChecksumSafe ==
  ASSUME Safe, Checksum
  PROVE  Safe'
<1> DEFINE it == [ItemAt(NewItem) EXCEPT !.chk = ItemAt(NewItem).data]
<1>1. /\ pc = "chk" /\ pc \in WritePcs
      /\ items' = With(NewItem, it)
      /\ expect' = [expect EXCEPT ![op.id] = {op.val}]
      /\ IF op.src[1] = NULL THEN EndOrCompact ELSE pc' = "zero" /\ UNCHANGED <<op, scan>>
      /\ UNCHANGED <<pgHdr, pgRes, stat, resets>>
  BY DEF Checksum, ram, WritePcs
<1>2. ItemAt(NewItem).data = op.val /\ ItemAt(NewItem).chk = Blank
  BY <1>1 DEF Safe, Writing
<1>3. /\ Shape /\ pgRes \in Pages
      /\ op.id \in Ids /\ op.val \in Vals /\ op.val \in expect[op.id]
      /\ op.comPg \in Pages \ {pgRes} /\ op.dstPg \in {pgRes, op.comPg}
      /\ NewItem \in Slots /\ NewItem \in Used /\ NewItem[1] = op.dstPg
      /\ ItemAt(NewItem).id = op.id /\ ~ ItemAt(NewItem).old
      /\ IF op.src[1] = NULL
         THEN \A x \in Used \ {NewItem} : ItemAt(x).id # op.id
         ELSE op.src \in Used /\ op.src # NewItem /\ ItemAt(op.src).id = op.id
      /\ Used \subseteq Slots
      /\ Fresh = {NewItem}
      /\ \A x \in Used \ {NewItem} : Valid(ItemAt(x))
      /\ \A x, y \in Used \ {NewItem} : ItemAt(x).id = ItemAt(y).id => y = x
      /\ IF op.dstPg = pgRes THEN Len(items[pgRes]) = 1 ELSE items[pgRes] = <<>>
  BY <1>1, WriteKnows
<1>4. /\ it \in Item /\ it.id = op.id /\ it.data = op.val /\ it.chk = op.val /\ ~ it.old
      /\ Valid(it) /\ ~ Valid(ItemAt(NewItem))
  <2>1. ItemAt(NewItem) \in Item
    BY <1>3, ItemsAreItems DEF Shape
  <2> QED
    BY <1>2, <1>3, <2>1, Numbers DEF Item, Valid
<1> HIDE DEF it
<1>5. /\ items' \in [Pages -> Seq(Item)] /\ Fits'
      /\ \A p \in Pages : Len(items'[p]) = Len(items[p])
      /\ \A p \in Pages : items[p] = <<>> => items'[p] = <<>>
      /\ Slots' = Slots
      /\ \A y \in Slots : ItemAt(y)' = IF y = NewItem THEN it ELSE ItemAt(y)
  BY <1>1, <1>3, <1>4, WriteAt DEF Shape
<1>6. PICK n : n = NewItem
  OBVIOUS
<1>7. ItemAt(n)' = it /\ \A x \in Slots : x # n => ItemAt(x)' = ItemAt(x)
  BY <1>3, <1>5, <1>6
<1>8. Used' = Used
  BY <1>3, <1>4, <1>5, <1>6, <1>7, Numbers DEF Used
<1>9. Valid(ItemAt(n))' /\ \A x \in Used : x # n => (Valid(ItemAt(x))' /\ ItemAt(x)' = ItemAt(x))
  <2>1. Valid(ItemAt(n))'
    BY <1>4, <1>7 DEF Valid
  <2>2. \A x \in Used : x # n => (Valid(ItemAt(x)) /\ ItemAt(x)' = ItemAt(x))
    BY <1>3, <1>6, <1>7
  <2> QED
    BY <2>1, <2>2 DEF Valid
<1>10. expect' \in [Ids -> SUBSET (Vals \union {Absent})]
  BY <1>1, <1>3 DEF Shape
<1>11. Readable'
  <2> SUFFICES ASSUME NEW i \in Ids
               PROVE  /\ \A x \in Used' : Current(x)' /\ ItemAt(x)'.id = i => ItemAt(x)'.data \in expect'[i]
                      /\ (\A x \in Used' : ItemAt(x)'.id = i => ~ Valid(ItemAt(x))') => Absent \in expect'[i]
    BY DEF Readable
  <2>1. ItemAt(n)'.id = op.id /\ ItemAt(n)'.data = op.val /\ ~ ItemAt(n)'.old /\ n \in Used
    BY <1>3, <1>4, <1>6, <1>7
  <2>2. CASE i = op.id
    <3>1. expect'[i] = {op.val}
      BY <1>1, <1>3, <2>2 DEF Shape
    <3>2. ASSUME NEW x \in Used', Current(x)', ItemAt(x)'.id = i, x # n
          PROVE  FALSE
      <4>1. x \in Used /\ ItemAt(x)' = ItemAt(x) /\ ItemAt(x).id = op.id
        BY <1>8, <1>9, <2>2, <3>2
      <4>2. x = op.src /\ op.src[1] # NULL
        BY <1>3, <1>6, <3>2, <4>1
      <4>3. ItemAt(op.src).old
        BY <1>1, <4>2 DEF Safe, Writing
      <4> QED
        BY <1>8, <1>9, <2>1, <2>2, <3>2, <4>1, <4>2, <4>3 DEF Current
    <3> QED
      BY <1>8, <1>9, <2>1, <2>2, <3>1, <3>2
  <2>3. CASE i # op.id
    <3>1. expect'[i] = expect[i]
      BY <1>1, <1>3, <2>3 DEF Shape
    <3>2. \A x \in Used : ItemAt(x)'.id = i => x # n /\ ItemAt(x)' = ItemAt(x)
      BY <1>9, <2>1, <2>3
    <3>3. \A x \in Used : ItemAt(x).id = i => x # n /\ ItemAt(x)' = ItemAt(x)
      BY <1>3, <1>6, <1>9, <2>3
    <3>4. \A x \in Used : ItemAt(x).id = i => (Valid(ItemAt(x))' <=> Valid(ItemAt(x)))
      BY <3>3 DEF Valid
    <3>5. \A x : Current(x)' /\ ItemAt(x)'.id = i => Current(x)
      BY <1>8, <3>2, <3>3, <3>4 DEF Current
    <3>6. /\ \A x \in Used : Current(x) /\ ItemAt(x).id = i => ItemAt(x).data \in expect[i]
          /\ (\A x \in Used : ItemAt(x).id = i => ~ Valid(ItemAt(x))) => Absent \in expect[i]
      BY <1>1 DEF Safe, Readable
    <3> QED
      BY <1>8, <3>1, <3>2, <3>3, <3>4, <3>5, <3>6
  <2> QED
    BY <2>2, <2>3
<1>12. CASE op.src[1] = NULL
  <2>1. EndOrCompact
    BY <1>1, <1>12
  <2>2. Clean(Used)'
    BY <1>3, <1>4, <1>6, <1>7, <1>8, <1>9, <1>12 DEF Clean
  <2>3. IF op.dstPg = pgRes
        THEN Len(items'[pgRes]) = 1 /\ \A x \in Slots' : x[1] = pgRes => ItemAt(x)'.id # Zeroed
        ELSE items'[pgRes] = <<>>
    <3>1. CASE op.dstPg = pgRes
      <4>1. Len(items'[pgRes]) = 1
        BY <1>3, <1>5, <3>1
      <4>2. \A x \in Slots' : x[1] = pgRes => x = <<pgRes, 1>>
        BY <4>1 DEF Slots
      <4>3. n \in Slots' /\ n[1] = pgRes
        BY <1>3, <1>5, <1>6, <3>1
      <4> QED
        BY <1>3, <1>4, <1>7, <3>1, <4>1, <4>2, <4>3, Numbers
    <3>2. CASE op.dstPg # pgRes
      BY <1>3, <1>5, <3>2
    <3> QED
      BY <3>1, <3>2
  <2>4. resets = 0 => \A x \in Used' : ~ ItemAt(x)'.old
    <3>1. \A x \in Used : x # op.src
      BY <1>12, SlotParts, Numbers DEF Used
    <3>2. resets = 0 => \A x \in Used : ~ ItemAt(x).old
      BY <1>1, <3>1 DEF Safe, Unmarked
    <3> QED
      BY <1>4, <1>7, <1>8, <1>9, <3>2
  <2> QED
    BY <1>1, <1>5, <1>10, <1>11, <2>1, <2>2, <2>3, <2>4, WriteEnds
<1>13. CASE op.src[1] # NULL
  <2>1. /\ pc' = "zero" /\ pc' \in WritePcs
        /\ UNCHANGED <<op, pg, offset, findDups, newPg, oldPg>>
    BY <1>1, <1>13 DEF WritePcs, scan
  <2>2. NewItem' = n /\ Fresh' = {n}
    BY <1>3, <1>5, <1>6, <2>1 DEF NewItem, Fresh
  <2>3. ItemAt(NewItem)' = it /\ ItemAt(op.src)' = ItemAt(op.src)
    BY <1>3, <1>6, <1>7, <1>13, <2>1, <2>2, Links
  <2>4. Shape'
    BY <1>1, <1>3, <1>5, <1>10, <2>1 DEF Shape, ScanPcs
  <2>5. Calling'
    <3>1. op.val \in expect'[op.id]
      BY <1>1, <1>3 DEF Shape
    <3> QED
      BY <1>1, <1>3, <2>1, <3>1 DEF Calling, WritePcs
  <2>6. Writing'
    <3>1. ItemAt(op.src).old
      BY <1>1, <1>13 DEF Safe, Writing
    <3> QED
      BY <1>3, <1>4, <1>5, <1>6, <1>8, <1>13, <2>1, <2>2, <2>3, <3>1 DEF Writing, WritePcs
  <2>7. Compacting'
    BY <2>1 DEF Compacting, CompactPcs
  <2>8. Settled'
    BY <1>3, <1>6, <1>8, <1>9, <2>1, <2>2 DEF Settled, Clean
  <2>9. Room'
    BY <1>1, <1>3, <1>5, <2>1 DEF Room, WritePcs, CompactPcs
  <2>10. Unmarked'
    BY <1>1, <1>4, <1>7, <1>8, <1>9, <2>1 DEF Safe, Unmarked, CompactPcs
  <2>11. FirstStart'
    BY <1>1, <1>3, <2>1 DEF Safe, FirstStart, Erased, InUse, WritePcs, CompactPcs, ScanPcs
  <2>12. Headers'
    BY <2>1, <2>4, <2>5, <2>6, <2>7, <2>8, <2>9, <2>10, <2>11, HeadersHold DEF ScanPcs
  <2>13. Walk'
    BY <2>1 DEF Walk
  <2> QED
    BY <1>11, <2>4, <2>5, <2>6, <2>7, <2>8, <2>9, <2>10, <2>11, <2>12, <2>13 DEF Safe
<1> QED
  BY <1>12, <1>13

LEMMA ZeroSafe ==
  ASSUME Safe, Zero
  PROVE  Safe'
<1>1. /\ pc = "zero" /\ pc \in WritePcs
      /\ items' = With(op.src, ZeroedItem)
      /\ EndOrCompact
      /\ UNCHANGED <<pgHdr, pgRes, stat, resets, expect>>
  BY DEF Zero, WritePcs
<1>2. op.src[1] # NULL /\ ItemAt(NewItem).data = op.val /\ ItemAt(NewItem).chk = op.val
  BY <1>1 DEF Safe, Writing
<1>3. /\ Shape /\ pgRes \in Pages
      /\ op.id \in Ids /\ op.val \in Vals /\ op.val \in expect[op.id]
      /\ op.comPg \in Pages \ {pgRes} /\ op.dstPg \in {pgRes, op.comPg}
      /\ NewItem \in Slots /\ NewItem \in Used /\ NewItem[1] = op.dstPg
      /\ ItemAt(NewItem).id = op.id /\ ~ ItemAt(NewItem).old
      /\ op.src \in Used /\ op.src # NewItem /\ ItemAt(op.src).id = op.id
      /\ Used \subseteq Slots
      /\ \A x \in Used \ {NewItem} : Valid(ItemAt(x))
      /\ \A x, y \in Used \ {NewItem} : ItemAt(x).id = ItemAt(y).id => y = x
      /\ IF op.dstPg = pgRes THEN Len(items[pgRes]) = 1 ELSE items[pgRes] = <<>>
  BY <1>1, <1>2, WriteKnows
<1>4. PICK n, s : n = NewItem /\ s = op.src
  OBVIOUS
<1>5. /\ items' \in [Pages -> Seq(Item)] /\ Fits'
      /\ \A p \in Pages : Len(items'[p]) = Len(items[p])
      /\ \A p \in Pages : items[p] = <<>> => items'[p] = <<>>
      /\ Slots' = Slots
      /\ \A y \in Slots : ItemAt(y)' = IF y = op.src THEN ZeroedItem ELSE ItemAt(y)
  BY <1>1, <1>3, NewItems, WriteAt DEF Shape
<1>6. Used' = Used \ {s}
  BY <1>3, <1>4, <1>5, NewItems DEF Used
<1>7. \A x \in Used' : ItemAt(x)' = ItemAt(x)
  BY <1>3, <1>4, <1>5, <1>6
<1>8. Valid(ItemAt(n)) /\ n \in Used'
  BY <1>2, <1>3, <1>4, <1>6, Numbers DEF Valid
<1>9. \A x \in Used' : Valid(ItemAt(x))' /\ Valid(ItemAt(x))
  <2>1. \A x \in Used' : Valid(ItemAt(x))
    BY <1>3, <1>4, <1>6, <1>8
  <2> QED
    BY <1>7, <2>1 DEF Valid
<1>10. \A x \in Used' : ItemAt(x).id = op.id => x = n
  BY <1>3, <1>4, <1>6
<1>11. Clean(Used)'
  BY <1>3, <1>4, <1>6, <1>7, <1>9, <1>10 DEF Clean
<1>12. Readable'
  <2> SUFFICES ASSUME NEW i \in Ids
               PROVE  /\ \A x \in Used' : Current(x)' /\ ItemAt(x)'.id = i => ItemAt(x)'.data \in expect[i]
                      /\ (\A x \in Used' : ItemAt(x)'.id = i => ~ Valid(ItemAt(x))') => Absent \in expect[i]
    BY <1>1 DEF Readable
  <2>1. CASE i = op.id
    BY <1>2, <1>3, <1>4, <1>7, <1>8, <1>9, <1>10, <2>1
  <2>2. CASE i # op.id
    <3>1. \A x \in Used : ItemAt(x).id = i => x \in Used'
      BY <1>3, <1>4, <1>6, <2>2
    <3>2. \A x \in Used : ItemAt(x).id = i => Current(x)
      <4>1. \A x, y \in Used : ItemAt(x).id = i /\ ItemAt(y).id = i => x = y
        BY <1>3, <2>2
      <4> QED
        BY <1>9, <3>1, <4>1 DEF Current
    <3>3. /\ \A x \in Used : Current(x) /\ ItemAt(x).id = i => ItemAt(x).data \in expect[i]
          /\ (\A x \in Used : ItemAt(x).id = i => ~ Valid(ItemAt(x))) => Absent \in expect[i]
      BY <1>1 DEF Safe, Readable
    <3> QED
      BY <1>6, <1>7, <1>9, <3>1, <3>2, <3>3
  <2> QED
    BY <2>1, <2>2
<1>13. IF op.dstPg = pgRes
       THEN Len(items'[pgRes]) = 1 /\ \A x \in Slots' : x[1] = pgRes => ItemAt(x)'.id # Zeroed
       ELSE items'[pgRes] = <<>>
  <2>1. CASE op.dstPg = pgRes
    <3>1. Len(items'[pgRes]) = 1
      BY <1>3, <1>5, <2>1
    <3>2. \A x \in Slots' : x[1] = pgRes => x = <<pgRes, 1>>
      BY <3>1 DEF Slots
    <3>3. n \in Slots' /\ n[1] = pgRes
      BY <1>3, <1>4, <1>5, <2>1
    <3> QED
      BY <1>3, <1>4, <1>7, <1>8, <2>1, <3>1, <3>2, <3>3, Numbers
  <2>2. CASE op.dstPg # pgRes
    BY <1>3, <1>5, <2>2
  <2> QED
    BY <2>1, <2>2
<1>14. resets = 0 => \A x \in Used' : ~ ItemAt(x)'.old
  <2>1. resets = 0 => \A x \in Used : ItemAt(x).old => x = s
    BY <1>1, <1>4 DEF Safe, Unmarked
  <2> QED
    BY <1>6, <1>7, <2>1
<1>15. expect' \in [Ids -> SUBSET (Vals \union {Absent})]
  BY <1>1, <1>3 DEF Shape
<1> QED
  BY <1>1, <1>5, <1>11, <1>12, <1>13, <1>14, <1>15, WriteEnds

-----------------------------------------------------------------------------
(* Compaction.  With one copy of every item at most, readable means that   *)
(* each holds what is expected.                                            *)
LEMMA CleanReads ==
  ASSUME Safe, pc # "eraseAll", Clean(Used)
  PROVE  /\ \A x \in Used : ItemAt(x).data \in expect[ItemAt(x).id]
         /\ \A i \in Ids : (\A x \in Used : ItemAt(x).id # i) => Absent \in expect[i]
<1>1. \A x \in Used : Current(x) /\ ItemAt(x).id \in Ids
  <2> SUFFICES ASSUME NEW x \in Used
               PROVE  Current(x) /\ ItemAt(x).id \in Ids
    OBVIOUS
  <2>1. x \in Slots /\ ItemAt(x).id # Zeroed
    BY DEF Used
  <2>2. ItemAt(x).id \in Ids
    BY <2>1, ItemsAreItems DEF Safe, Shape
  <2>3. Current(x)
    BY DEF Clean, Current
  <2> QED
    BY <2>2, <2>3
<1> QED
  BY <1>1 DEF Safe, Readable

(* And the other way round.                                                *)
LEMMA ReadsClean ==
  ASSUME Clean(Used)',
         \A x \in Used' : ItemAt(x)'.data \in expect'[ItemAt(x)'.id],
         \A i \in Ids : (\A x \in Used' : ItemAt(x)'.id # i) => Absent \in expect'[i]
  PROVE  Readable'
<1>1. \A x \in Used' : Valid(ItemAt(x))'
  BY DEF Clean
<1> QED
  BY <1>1 DEF Readable

(* With one copy at most, a reader gets it.                                *)
LEMMA ReadIs ==
  ASSUME Shape, Clean(Used), NEW id \in Ids
  PROVE  /\ \A x \in Used : ItemAt(x).id = id => osal_nv_read(id) = ItemAt(x).data
         /\ (\A x \in Used : ItemAt(x).id # id) => osal_nv_read(id) = Absent
<1>1. CASE Exists(id)
  <2>1. findItem(id) \in Used /\ ItemAt(findItem(id)).id = id
    BY <1>1, FindItem
  <2>2. osal_nv_read(id) = ItemAt(findItem(id)).data
    BY <1>1 DEF osal_nv_read, ItemAt
  <2> QED
    BY <2>1, <2>2 DEF Clean
<1>2. CASE ~ Exists(id)
  BY <1>2, FindItem DEF osal_nv_read
<1> QED
  BY <1>1, <1>2

(* The copy that a reset has torn takes one place, and the items have one  *)
(* each: there is room for one more.                                       *)
LEMMA RoomToCopy ==
  ASSUME RoomForAll, Shape, Clean(Used), pgRes \in Pages, AtMostOne(Bad(pgRes)),
         NEW x \in Used, x[1] # pgRes
  PROVE  Len(items[pgRes]) < PageItems
<1> DEFINE n == Len(items[pgRes])
           T == (Ids \ {ItemAt(x).id}) \union {Zeroed}
           is(j) == <<pgRes, j>> \in Used /\ Valid(ItemAt(<<pgRes, j>>))
           f == [j \in 1 .. n |-> IF is(j) THEN ItemAt(<<pgRes, j>>).id ELSE Zeroed]
<1>1. items \in [Pages -> Seq(Item)] /\ Fits
  BY DEF Shape
<1>2. n \in Nat /\ DOMAIN items[pgRes] = 1 .. n
  BY <1>1, Lengths
<1>3. \A y \in Used : ItemAt(y).id \in Ids
  BY <1>1, ItemsAreItems DEF Used
<1>4. \A j \in 1 .. n : <<pgRes, j>> \in Slots
  BY <1>1, <1>2, PlaceIsSlot
<1>5. f \in [1 .. n -> T]
  <2> SUFFICES ASSUME NEW j \in 1 .. n, is(j)
               PROVE  ItemAt(<<pgRes, j>>).id \in Ids \ {ItemAt(x).id}
    OBVIOUS
  <2>1. <<pgRes, j>> # x
    OBVIOUS
  <2> QED
    BY <1>3, <2>1 DEF Clean
<1>6. \A j, k \in 1 .. n : f[j] = f[k] => j = k
  <2> SUFFICES ASSUME NEW j \in 1 .. n, NEW k \in 1 .. n, f[j] = f[k]
               PROVE  j = k
    OBVIOUS
  <2>1. CASE is(j) /\ is(k)
    <3>1. ItemAt(<<pgRes, j>>).id = ItemAt(<<pgRes, k>>).id
      BY <2>1
    <3> QED
      BY <2>1, <3>1 DEF Clean
  <2>2. CASE ~ is(j) /\ ~ is(k)
    <3>1. <<pgRes, j>> \in Bad(pgRes) /\ <<pgRes, k>> \in Bad(pgRes)
      BY <1>4, <2>2 DEF Bad
    <3>2. <<pgRes, j>> = <<pgRes, k>>
      BY <3>1 DEF AtMostOne
    <3> QED
      BY <3>2
  <2>3. CASE is(j) /\ ~ is(k)
    BY <1>3, <2>3, Numbers
  <2>4. CASE ~ is(j) /\ is(k)
    BY <1>3, <2>4, Numbers
  <2> QED
    BY <2>1, <2>2, <2>3, <2>4
<1> HIDE DEF f
<1>7. f \in Injection(1 .. n, T)
  BY <1>5, <1>6 DEF Injection, IsInjective
<1>8. IsFiniteSet(T) /\ Cardinality(T) = Cardinality(Ids)
  <2>1. IsFiniteSet(Ids \ {ItemAt(x).id}) /\ Cardinality(Ids \ {ItemAt(x).id}) = Cardinality(Ids) - 1
    BY <1>3, FS_RemoveElement DEF RoomForAll
  <2>2. Zeroed \notin Ids \ {ItemAt(x).id}
    BY Numbers
  <2>3. IsFiniteSet(T) /\ Cardinality(T) = Cardinality(Ids \ {ItemAt(x).id}) + 1
    BY <2>1, <2>2, FS_AddElement
  <2>4. Cardinality(Ids) \in Nat
    BY FS_CardinalityType DEF RoomForAll
  <2> QED
    BY <2>1, <2>3, <2>4
<1> HIDE DEF T
<1>9. Cardinality(1 .. n) <= Cardinality(T)
  BY <1>7, <1>8, FS_Injection
<1>10. Cardinality(1 .. n) = n
  BY <1>2, FS_Interval
<1>11. Cardinality(Ids) \in Nat
  BY FS_CardinalityType DEF RoomForAll
<1> QED
  BY <1>2, <1>8, <1>9, <1>10, <1>11, Numbers DEF RoomForAll

(* Where a compaction is.                                                  *)
LEMMA CompactKnows ==
  ASSUME Safe, pc \in CompactPcs
  PROVE  /\ Shape /\ items \in [Pages -> Seq(Item)] /\ Fits
         /\ pgRes \in Pages /\ pg \in Pages /\ pg # pgRes
         /\ Used \subseteq Slots /\ AtMostOne(Bad(pgRes) \ Fresh)
         /\ Clean(Used \ Fresh)
         /\ pc \notin CopyPcs => Fresh = {} /\ Clean(Used) /\ AtMostOne(Bad(pgRes))
         /\ pc \in CopyPcs => Fresh = {Copy}
<1>1. Shape /\ items \in [Pages -> Seq(Item)] /\ Fits /\ pgRes \in Pages
  BY DEF Safe, Shape, ScanPcs, CompactPcs
<1>2. pg \in Pages /\ pg # pgRes
  BY DEF Safe, Compacting
<1>3. Used \subseteq Slots
  BY DEF Used
<1>4. AtMostOne(Bad(pgRes) \ Fresh)
  BY DEF Safe, Room
<1>5. Clean(Used \ Fresh)
  BY DEF Safe, Settled, CompactPcs
<1>6. IF pc \in CopyPcs THEN Fresh = {Copy} ELSE Fresh = {}
  BY DEF Fresh, CompactPcs, WritePcs
<1>7. pc \notin CopyPcs => Clean(Used) /\ AtMostOne(Bad(pgRes))
  <2> SUFFICES ASSUME pc \notin CopyPcs
               PROVE  Clean(Used) /\ AtMostOne(Bad(pgRes))
    OBVIOUS
  <2>1. Used \ Fresh = Used /\ Bad(pgRes) \ Fresh = Bad(pgRes)
    BY <1>6
  <2> QED
    BY <1>4, <1>5, <2>1
<1> QED
  BY <1>1, <1>2, <1>3, <1>4, <1>5, <1>6, <1>7

LEMMA MarkSafe ==
  ASSUME Safe, Mark
  PROVE  Safe'
<1>1. /\ pc = "mark" /\ pc' = "compact" /\ offset' = 1
      /\ pgHdr' = [pgHdr EXCEPT ![pg].xfer = TRUE]
      /\ UNCHANGED <<items, pgRes, op, pg, findDups, newPg, oldPg, stat, resets, expect>>
      /\ Slots' = Slots /\ Used' = Used /\ \A y : ItemAt(y)' = ItemAt(y)
  BY SameFlash DEF Mark, ram
<1>2. pc \in CompactPcs /\ pc \notin CopyPcs
  BY <1>1 DEF CompactPcs, CopyPcs
<1>3. /\ Shape /\ pgRes \in Pages /\ pg \in Pages /\ pg # pgRes
      /\ Used \subseteq Slots /\ AtMostOne(Bad(pgRes)) /\ Clean(Used)
  BY <1>2, CompactKnows
<1>4. /\ pgHdr' \in [Pages -> PageHdr]
      /\ \A p \in Pages : /\ pgHdr'[p].active = pgHdr[p].active /\ pgHdr'[p].inUse = pgHdr[p].inUse
                          /\ p # pg => pgHdr'[p].xfer = pgHdr[p].xfer
  BY <1>1, <1>3 DEF Shape, PageHdr
<1>5. Shape'
  BY <1>1, <1>3, <1>4 DEF Shape, Fits, ScanPcs, CompactPcs
<1>6. Calling' /\ Writing'
  BY <1>1 DEF Calling, Writing, WritePcs
<1>7. Compacting'
  <2>1. \A x \in Used' : x[2] >= 1
    BY <1>1, <1>3, SlotParts, Numbers
  <2> QED
    BY <1>1, <1>3, <2>1 DEF Compacting, CompactPcs, CopyPcs
<1>8. Settled'
  BY <1>1, <1>3 DEF Settled, Clean, Fresh, Valid, WritePcs, CopyPcs
<1>9. Readable'
  <2>1. \A x : Current(x)' <=> Current(x)
    BY <1>1 DEF Current, Valid
  <2> QED
    BY <1>1, <2>1 DEF Safe, Readable, Valid
<1>10. Room'
  BY <1>1, <1>3 DEF Room, WritePcs, CompactPcs, AtMostOne, Bad, Valid
<1>11. Unmarked'
  BY <1>1, <1>2 DEF Safe, Unmarked, CompactPcs
<1>12. FirstStart'
  BY <1>1, <1>2, <1>3, <1>4 DEF Safe, FirstStart, Erased, InUse, WritePcs, CompactPcs, ScanPcs
<1>13. Headers'
  BY <1>1, <1>5, <1>6, <1>7, <1>8, <1>10, <1>11, <1>12, HeadersHold DEF ScanPcs
<1>14. Walk'
  BY <1>1 DEF Walk
<1> QED
  BY <1>5, <1>6, <1>7, <1>8, <1>9, <1>10, <1>11, <1>12, <1>13, <1>14 DEF Safe

LEMMA CompactItemSafe ==
  ASSUME Safe, CompactItem
  PROVE  Safe'
<1>1. /\ pc = "compact"
      /\ UNCHANGED <<pgHdr, pgRes, op, pg, lost, findDups, newPg, oldPg, resets, expect>>
  BY DEF CompactItem
<1>2. pc \in CompactPcs /\ pc \notin CopyPcs
  BY <1>1 DEF CompactPcs, CopyPcs
<1>3. /\ Shape /\ items \in [Pages -> Seq(Item)] /\ Fits
      /\ pgRes \in Pages /\ pg \in Pages /\ pg # pgRes
      /\ Used \subseteq Slots /\ AtMostOne(Bad(pgRes)) /\ Clean(Used)
  BY <1>2, CompactKnows
<1>4. /\ offset \in Nat /\ offset > 0 /\ \A x \in Used : x[1] = pg => x[2] >= offset
  BY <1>1, <1>3 DEF Safe, Compacting, CompactPcs, Shape
<1>5. Len(items[pg]) \in Nat /\ DOMAIN items[pg] = 1 .. Len(items[pg])
  BY <1>3, Lengths
<1>6. offset <= Len(items[pg]) => Here \in Slots
  <2> SUFFICES ASSUME offset <= Len(items[pg])
               PROVE  Here \in Slots
    OBVIOUS
  <2>1. offset \in DOMAIN items[pg]
    BY <1>4, <1>5
  <2> QED
    BY <1>3, <2>1, PlaceIsSlot DEF Here
<1>7. CASE /\ UNCHANGED items /\ pc' \in {"compact", "erase"} /\ offset' \in Nat /\ offset' > 0
           /\ \A x \in Used : x[1] = pg => x[2] >= offset' /\ pc' = "compact"
           /\ UNCHANGED stat
  <2>1. Slots' = Slots /\ Used' = Used /\ \A y : ItemAt(y)' = ItemAt(y)
    BY <1>7, SameFlash
  <2>2. Shape'
    BY <1>1, <1>3, <1>7 DEF Shape, Fits, ScanPcs, CompactPcs
  <2>3. Calling' /\ Writing'
    BY <1>7 DEF Calling, Writing, WritePcs
  <2>4. Compacting'
    BY <1>1, <1>3, <1>7, <2>1 DEF Compacting, CompactPcs, CopyPcs
  <2>5. Settled'
    BY <1>3, <1>7, <2>1 DEF Settled, Clean, Fresh, Valid, WritePcs, CopyPcs
  <2>6. Readable'
    <3>1. \A x : Current(x)' <=> Current(x)
      BY <2>1 DEF Current, Valid
    <3> QED
      BY <1>1, <2>1, <3>1 DEF Safe, Readable, Valid
  <2>7. Room'
    BY <1>1, <1>3, <1>7, <2>1 DEF Room, WritePcs, CompactPcs, AtMostOne, Bad, Valid
  <2>8. Unmarked'
    BY <1>1, <1>2, <1>7, <2>1 DEF Safe, Unmarked, CompactPcs
  <2>9. FirstStart'
    BY <1>1, <1>2, <1>3, <1>7 DEF Safe, FirstStart, Erased, InUse, WritePcs, CompactPcs, ScanPcs
  <2>10. Headers'
    BY <1>7, <2>2, <2>3, <2>4, <2>5, <2>7, <2>8, <2>9, HeadersHold DEF ScanPcs
  <2>11. Walk'
    BY <1>7 DEF Walk
  <2> QED
    BY <2>2, <2>3, <2>4, <2>5, <2>6, <2>7, <2>8, <2>9, <2>10, <2>11 DEF Safe
<1>8. CASE /\ offset > Len(items[pg]) /\ pc' = "erase" /\ UNCHANGED <<items, offset, stat>>
  <2>1. \A x \in Used : x[1] # pg
    BY <1>3, <1>4, <1>5, <1>8, SlotParts
  <2> QED
    BY <1>4, <1>7, <1>8, <2>1
<1>9. CASE /\ offset <= Len(items[pg]) /\ ItemAt(Here).id = Zeroed
           /\ offset' = offset + 1 /\ UNCHANGED <<items, pc, stat>>
  <2>1. Here \notin Used
    BY <1>9 DEF Used
  <2>2. ASSUME NEW x \in Used, x[1] = pg
        PROVE  x[2] >= offset + 1
    <3>1. x[2] \in Nat /\ x = <<pg, x[2]>> /\ x[2] >= offset
      BY <1>3, <1>4, <2>2, SlotParts
    <3>2. x[2] # offset
      BY <2>1, <3>1 DEF Here
    <3> QED
      BY <1>4, <3>1, <3>2
  <2> QED
    BY <1>1, <1>4, <1>7, <1>9, <2>2
<1>10. CASE /\ offset <= Len(items[pg]) /\ ItemAt(Here).id # Zeroed /\ ~ Valid(ItemAt(Here))
  BY <1>3, <1>6, <1>10 DEF Used, Clean
<1>11. CASE /\ offset <= Len(items[pg]) /\ ItemAt(Here).id # Zeroed
            /\ stat' = ItemAt(Here).old
            /\ items' = With(Here, [ItemAt(Here) EXCEPT !.old = TRUE])
            /\ pc' = "copyHdr" /\ UNCHANGED offset
  <2> DEFINE it == [ItemAt(Here) EXCEPT !.old = TRUE]
  <2>1. Here \in Slots /\ Here \in Used
    BY <1>6, <1>11 DEF Used
  <2>2. /\ it \in Item /\ it.id = ItemAt(Here).id /\ it.data = ItemAt(Here).data
        /\ it.chk = ItemAt(Here).chk /\ it.old /\ (Valid(it) <=> Valid(ItemAt(Here)))
        /\ ItemAt(Here).old \in BOOLEAN
    <3>1. ItemAt(Here) \in Item /\ ItemAt(Here).old \in BOOLEAN
      BY <1>3, <2>1, ItemsAreItems
    <3> QED
      BY <3>1 DEF Item, Valid
  <2> HIDE DEF it
  <2>3. /\ items' \in [Pages -> Seq(Item)] /\ Fits'
        /\ \A p \in Pages : Len(items'[p]) = Len(items[p])
        /\ Slots' = Slots
        /\ \A y \in Slots : ItemAt(y)' = IF y = Here THEN it ELSE ItemAt(y)
    BY <1>3, <1>11, <2>1, <2>2, WriteAt DEF it
  <2>4. \A x \in Slots : (Valid(ItemAt(x))' <=> Valid(ItemAt(x))) /\ ItemAt(x)'.id = ItemAt(x).id
                        /\ ItemAt(x)'.data = ItemAt(x).data /\ (x # Here => ItemAt(x)' = ItemAt(x))
    BY <2>2, <2>3 DEF Valid
  <2>5. Used' = Used
    BY <2>3, <2>4 DEF Used
  <2>6. Here' = Here /\ ItemAt(Here)' = it
    <3>1. Here' = Here
      BY <1>1, <1>11 DEF Here
    <3> QED
      BY <2>1, <2>3, <3>1, Links
  <2>7. stat' \in BOOLEAN
    BY <1>11, <2>2
  <2>8. Shape'
    BY <1>1, <1>3, <1>11, <2>3, <2>7 DEF Shape, ScanPcs, CompactPcs
  <2>9. Calling' /\ Writing'
    BY <1>11 DEF Calling, Writing, WritePcs
  <2>10. Clean(Used)'
    BY <1>3, <2>4, <2>5 DEF Clean
  <2>11. Valid(ItemAt(Here))'
    <3>1. Valid(it)
      BY <1>3, <2>1, <2>2 DEF Clean
    <3> QED
      BY <2>6, <3>1 DEF Valid
  <2>12. Compacting'
    BY <1>1, <1>3, <1>4, <1>11, <2>1, <2>2, <2>5, <2>6, <2>11 DEF Compacting, CompactPcs, CopyPcs
  <2>13. Settled'
    <3>1. Fresh' = {}
      BY <1>11 DEF Fresh, WritePcs, CopyPcs
    <3> QED
      BY <2>10, <3>1 DEF Settled, Clean
  <2>14. Readable'
    <3>1. /\ \A x \in Used : ItemAt(x).data \in expect[ItemAt(x).id]
          /\ \A i \in Ids : (\A x \in Used : ItemAt(x).id # i) => Absent \in expect[i]
      BY <1>1, <1>3, CleanReads
    <3> QED
      BY <1>1, <1>3, <2>4, <2>5, <2>10, <3>1, ReadsClean
  <2>15. Room'
    <3>1. \A x : x \in Bad(pgRes)' => x \in Bad(pgRes)
      BY <1>1, <2>3, <2>4, <2>5 DEF Bad
    <3> QED
      BY <1>3, <1>11, <3>1 DEF Room, WritePcs, CompactPcs, AtMostOne
  <2>16. Unmarked'
    <3>1. resets = 0 => ~ ItemAt(Here).old
      BY <1>1, <2>1 DEF Safe, Unmarked
    <3>2. resets = 0 => ~ stat'
      BY <1>11, <3>1
    <3>3. resets = 0 => \A x \in Used' : ItemAt(x)'.old => x = Here
      BY <1>1, <1>3, <2>4, <2>5 DEF Safe, Unmarked
    <3>4. resets = 0 => \A x \in Slots' : x[1] = pgRes => ItemAt(x)'.id # Zeroed
      BY <1>2, <2>3, <2>4 DEF Safe, Unmarked
    <3> QED
      BY <1>1, <1>11, <2>6, <3>2, <3>3, <3>4 DEF Unmarked
  <2>17. FirstStart'
    BY <1>1, <1>2, <1>3, <1>11 DEF Safe, FirstStart, Erased, InUse, WritePcs, CompactPcs, ScanPcs
  <2>18. Headers'
    BY <1>11, <2>8, <2>9, <2>12, <2>13, <2>15, <2>16, <2>17, HeadersHold DEF ScanPcs
  <2>19. Walk'
    BY <1>11 DEF Walk
  <2> QED
    BY <2>8, <2>9, <2>12, <2>13, <2>14, <2>15, <2>16, <2>17, <2>18, <2>19 DEF Safe
<1> QED
  BY <1>8, <1>9, <1>10, <1>11 DEF CompactItem

LEMMA CopyHdrSafe ==
  ASSUME Safe, CopyHdr, Len(items[pgRes]) < PageItems
  PROVE  Safe'
<1> DEFINE it == [ItemAt(Here) EXCEPT !.data = Blank, !.old = stat]
<1>0. PICK n : n = <<pgRes, Len(items[pgRes]) + 1>>
  OBVIOUS
<1>1. /\ pc = "copyHdr" /\ pc' = "copyData" /\ stat' = FALSE
      /\ items' = [items EXCEPT ![pgRes] = Append(@, it)]
      /\ UNCHANGED <<pgHdr, pgRes, op, pg, offset, findDups, newPg, oldPg, resets, expect>>
  BY DEF CopyHdr, ram, scan
<1>2. pc \in CompactPcs /\ pc \notin CopyPcs /\ pc' \in CopyPcs /\ pc' \in CompactPcs
  BY <1>1 DEF CompactPcs, CopyPcs
<1>3. /\ Shape /\ items \in [Pages -> Seq(Item)] /\ Fits
      /\ pgRes \in Pages /\ pg \in Pages /\ pg # pgRes
      /\ Used \subseteq Slots /\ AtMostOne(Bad(pgRes)) /\ Clean(Used)
  BY <1>2, CompactKnows
<1>4. /\ Here \in Used /\ ItemAt(Here).old /\ Valid(ItemAt(Here)) /\ Here[1] = pg
      /\ offset > 0 /\ \A x \in Used : x[1] = pg => x[2] >= offset
  BY <1>1 DEF Safe, Compacting, CompactPcs, Here
<1>5. /\ it \in Item /\ it.id = ItemAt(Here).id /\ it.data = Blank /\ it.chk = ItemAt(Here).chk
      /\ it.old = stat /\ ~ Valid(it) /\ it.id # Zeroed
  <2>1. ItemAt(Here) \in Item
    BY <1>3, <1>4, ItemsAreItems
  <2>2. stat \in BOOLEAN
    BY <1>3 DEF Shape
  <2>3. ItemAt(Here).id # Zeroed
    BY <1>4 DEF Used
  <2> QED
    BY <1>4, <2>1, <2>2, <2>3 DEF Item, Valid
<1> HIDE DEF it
<1>6. Len(items[pgRes]) < PageItems
  OBVIOUS
<1>7. /\ items' \in [Pages -> Seq(Item)] /\ Fits'
      /\ \A q \in Pages : q # pgRes => items'[q] = items[q]
      /\ n = <<pgRes, Len(items'[pgRes])>>
      /\ n \notin Slots /\ Slots' = Slots \union {n}
      /\ \A y \in Slots : ItemAt(y)' = ItemAt(y)
      /\ ItemAt(n)' = it
  <2>1. items' = [items EXCEPT ![pgRes] = Append(@, it)]
    BY <1>1
  <2> QED
    BY <1>0, <1>3, <1>5, <1>6, <2>1, AppendAt
<1>8. Copy' = n /\ Here' = Here
  BY <1>1, <1>7 DEF Copy, Here
<1>9. ItemAt(Copy)' = it /\ ItemAt(Here)' = ItemAt(Here)
  <2>1. PICK h : h = Here
    OBVIOUS
  <2>2. ItemAt(h)' = ItemAt(h)
    BY <1>3, <1>4, <1>7, <2>1
  <2>3. ItemAt(Here)' = ItemAt(h)'
    BY <1>8, <2>1, Links
  <2>4. ItemAt(Copy)' = ItemAt(n)'
    BY <1>8, Links
  <2> QED
    BY <1>7, <2>1, <2>2, <2>3, <2>4
<1>10. Used' = Used \union {n} /\ n \notin Used /\ n[1] = pgRes
  <2>1. n \notin Used /\ n[1] = pgRes
    BY <1>0, <1>3, <1>7
  <2>2. ASSUME NEW x \in Used' PROVE x \in Used \union {n}
    BY <1>7, <2>2 DEF Used
  <2>3. ASSUME NEW x \in Used PROVE x \in Used'
    BY <1>7, <2>3 DEF Used
  <2>4. n \in Used'
    BY <1>5, <1>7 DEF Used
  <2> QED
    BY <2>1, <2>2, <2>3, <2>4
<1>11. Fresh' = {n}
  BY <1>1, <1>8 DEF Fresh, WritePcs, CopyPcs
<1>12. Shape'
  BY <1>1, <1>3, <1>7 DEF Shape, ScanPcs, CompactPcs, CopyPcs
<1>13. Calling' /\ Writing'
  BY <1>1 DEF Calling, Writing, WritePcs
<1>14. Compacting'
  <2>1. Valid(ItemAt(Here))'
    BY <1>4, <1>9 DEF Valid
  <2>2. \A x \in Used' : x[1] = pg => x[2] >= offset
    BY <1>3, <1>4, <1>10
  <2>3. Copy' \in Slots' /\ ItemAt(Copy)'.id = ItemAt(Here)'.id
        /\ ItemAt(Copy)'.chk = ItemAt(Here)'.chk /\ ItemAt(Copy)'.data = Blank
    BY <1>5, <1>7, <1>8, <1>9
  <2>4. Here' \in Used' /\ ItemAt(Here)'.old
    BY <1>4, <1>8, <1>9, <1>10
  <2> QED
    BY <1>1, <1>3, <1>4, <2>1, <2>2, <2>3, <2>4 DEF Compacting, CompactPcs, CopyPcs
<1>15. Settled'
  <2>1. Used' \ Fresh' = Used
    BY <1>10, <1>11
  <2>2. \A x \in Used : ItemAt(x)' = ItemAt(x)
    BY <1>3, <1>7
  <2> QED
    BY <1>3, <2>1, <2>2 DEF Settled, Clean, Valid
<1>16. Readable'
  <2>1. \A x \in Slots : Valid(ItemAt(x))' <=> Valid(ItemAt(x))
    BY <1>7 DEF Valid
  <2>2. ~ Valid(ItemAt(n))'
    BY <1>5, <1>7 DEF Valid
  <2>3. \A x : Current(x)' => Current(x)
    BY <1>3, <1>7, <1>10, <2>1, <2>2 DEF Current
  <2>4. \A x : Current(x)' => x \in Used
    BY <2>3 DEF Current
  <2> QED
    BY <1>1, <1>3, <1>7, <1>10, <2>1, <2>2, <2>3, <2>4 DEF Safe, Readable
<1>17. Room'
  <2>1. \A x : x \in Bad(pgRes)' /\ x # n => x \in Bad(pgRes)
    <3>1. \A x \in Slots : Valid(ItemAt(x))' <=> Valid(ItemAt(x))
      BY <1>7 DEF Valid
    <3> QED
      BY <1>1, <1>7, <1>10, <3>1 DEF Bad
  <2> QED
    BY <1>1, <1>3, <1>11, <2>1 DEF Room, WritePcs, CompactPcs, AtMostOne
<1>18. Unmarked'
  <2>1. resets = 0 => ~ it.old
    BY <1>5 DEF Safe, Unmarked
  <2>2. resets = 0 => \A x \in Used' : ItemAt(x)'.old => x = Here
    BY <1>1, <1>3, <1>7, <1>10, <2>1 DEF Safe, Unmarked
  <2>3. resets = 0 => \A x \in Slots' : x[1] = pgRes => ItemAt(x)'.id # Zeroed
    BY <1>2, <1>5, <1>7 DEF Safe, Unmarked
  <2> QED
    BY <1>1, <1>8, <2>2, <2>3 DEF Unmarked
<1>19. FirstStart'
  BY <1>1, <1>2, <1>3 DEF Safe, FirstStart, Erased, InUse, WritePcs, CompactPcs, ScanPcs
<1>20. Headers'
  BY <1>1, <1>12, <1>13, <1>14, <1>15, <1>17, <1>18, <1>19, HeadersHold DEF ScanPcs
<1>21. Walk'
  BY <1>1 DEF Walk
<1> QED
  BY <1>12, <1>13, <1>14, <1>15, <1>16, <1>17, <1>18, <1>19, <1>20, <1>21 DEF Safe

(* Where a copy is.                                                        *)
LEMMA CopyKnows ==
  ASSUME Safe, pc \in CopyPcs
  PROVE  /\ Here \in Used /\ Here \in Slots /\ Copy \in Used /\ Copy \in Slots
         /\ Here[1] = pg /\ Here[2] = offset /\ Copy[1] = pgRes /\ Here # Copy
         /\ ItemAt(Here).old /\ Valid(ItemAt(Here))
         /\ offset \in Nat /\ offset > 0 /\ \A x \in Used : x[1] = pg => x[2] >= offset
         /\ ItemAt(Copy).id = ItemAt(Here).id /\ ItemAt(Copy).chk = ItemAt(Here).chk
         /\ ItemAt(Copy).data = IF pc = "copyData" THEN Blank ELSE ItemAt(Here).data
         /\ \A x \in Used \ {Copy} : Valid(ItemAt(x))
         /\ \A x, y \in Used \ {Copy} : ItemAt(x).id = ItemAt(y).id => y = x
         /\ \A x \in Used : ItemAt(x).id = ItemAt(Here).id => x = Here \/ x = Copy
<1>1. pc \in CompactPcs /\ pc \notin {"mark", "erase", "finish"}
      /\ pc \in {"copyHdr", "copyData", "copyZero"}
  BY DEF CopyPcs, CompactPcs
<1>2. /\ Shape /\ pgRes \in Pages /\ pg \in Pages /\ pg # pgRes /\ Used \subseteq Slots
      /\ Clean(Used \ Fresh) /\ Fresh = {Copy}
  BY <1>1, CompactKnows
<1>3. /\ Here \in Used /\ ItemAt(Here).old /\ Valid(ItemAt(Here))
      /\ offset > 0 /\ \A x \in Used : x[1] = pg => x[2] >= offset
      /\ Copy \in Slots /\ ItemAt(Copy).id = ItemAt(Here).id /\ ItemAt(Copy).chk = ItemAt(Here).chk
      /\ ItemAt(Copy).data = IF pc = "copyData" THEN Blank ELSE ItemAt(Here).data
  BY <1>1 DEF Safe, Compacting
<1>4. Here[1] = pg /\ Here[2] = offset /\ Copy[1] = pgRes
  BY DEF Here, Copy
<1>5. Here # Copy /\ Copy \in Used
  BY <1>2, <1>3, <1>4 DEF Used
<1>6. offset \in Nat
  BY <1>2 DEF Shape
<1> QED
  BY <1>2, <1>3, <1>4, <1>5, <1>6 DEF Clean

LEMMA CopyDataSafe ==
  ASSUME Safe, CopyData
  PROVE  Safe'
<1> DEFINE it == [ItemAt(Copy) EXCEPT !.data = ItemAt(Here).data]
<1>0. PICK n, h : n = Copy /\ h = Here
  OBVIOUS
<1>1. /\ pc = "copyData" /\ pc' = "copyZero" /\ items' = With(Copy, it)
      /\ UNCHANGED <<pgHdr, pgRes, op, pg, offset, findDups, newPg, oldPg, stat, resets, expect>>
  BY DEF CopyData, Copy, ram, scan
<1>2. pc \in CompactPcs /\ pc \in CopyPcs /\ pc' \in CopyPcs /\ pc' \in CompactPcs
  BY <1>1 DEF CompactPcs, CopyPcs
<1>3. /\ Shape /\ items \in [Pages -> Seq(Item)] /\ Fits
      /\ pgRes \in Pages /\ pg \in Pages /\ pg # pgRes
      /\ Used \subseteq Slots /\ AtMostOne(Bad(pgRes) \ Fresh) /\ Fresh = {Copy}
  BY <1>2, CompactKnows
<1>4. /\ h \in Used /\ h \in Slots /\ n \in Used /\ n \in Slots
      /\ h # n
      /\ ItemAt(h).old /\ Valid(ItemAt(h))
      /\ offset \in Nat /\ offset > 0 /\ \A x \in Used : x[1] = pg => x[2] >= offset
      /\ ItemAt(n).id = ItemAt(h).id /\ ItemAt(n).chk = ItemAt(h).chk /\ ItemAt(n).data = Blank
      /\ \A x \in Used \ {n} : Valid(ItemAt(x))
      /\ \A x, y \in Used \ {n} : ItemAt(x).id = ItemAt(y).id => y = x
      /\ \A x \in Used : ItemAt(x).id = ItemAt(h).id => x = h \/ x = n
  BY <1>0, <1>1, <1>2, CopyKnows
<1>5. /\ it \in Item /\ it.id = ItemAt(h).id /\ it.data = ItemAt(h).data /\ it.chk = ItemAt(h).chk
      /\ it.old = ItemAt(n).old /\ Valid(it) /\ ~ Valid(ItemAt(n))
  <2>1. ItemAt(h) \in Item /\ ItemAt(n) \in Item
    BY <1>3, <1>4, ItemsAreItems
  <2>2. it = [ItemAt(n) EXCEPT !.data = ItemAt(h).data]
    BY <1>0
  <2> HIDE DEF it
  <2> QED
    BY <1>4, <2>1, <2>2 DEF Item, Valid
<1> HIDE DEF it
<1>6. /\ items' \in [Pages -> Seq(Item)] /\ Fits'
      /\ \A p \in Pages : Len(items'[p]) = Len(items[p])
      /\ Slots' = Slots
      /\ \A y \in Slots : ItemAt(y)' = IF y = n THEN it ELSE ItemAt(y)
  <2>1. items' = With(n, it)
    BY <1>0, <1>1
  <2> QED
    BY <1>3, <1>4, <1>5, <2>1, WriteAt
<1>7. ItemAt(n)' = it /\ \A x \in Slots : x # n => ItemAt(x)' = ItemAt(x)
  BY <1>4, <1>6
<1>8. Copy' = n /\ Here' = h
  BY <1>0, <1>1, <1>3, <1>6 DEF Copy, Here
<1>9. ItemAt(Copy)' = it /\ ItemAt(Here)' = ItemAt(h)
  <2>1. ItemAt(Copy)' = ItemAt(n)' /\ ItemAt(Here)' = ItemAt(h)'
    BY <1>8, Links
  <2> QED
    BY <1>4, <1>7, <2>1
<1>10. \A x \in Slots : ItemAt(x)'.id = ItemAt(x).id /\ ItemAt(x)'.old = ItemAt(x).old
  BY <1>4, <1>5, <1>6
<1>11. Used' = Used
  BY <1>6, <1>10 DEF Used
<1>12. Fresh' = {n}
  BY <1>1, <1>8 DEF Fresh, WritePcs, CopyPcs
<1>13. Shape'
  BY <1>1, <1>3, <1>6 DEF Shape, ScanPcs, CompactPcs, CopyPcs
<1>14. Calling' /\ Writing'
  BY <1>1 DEF Calling, Writing, WritePcs
<1>15. Compacting'
  <2>1. Valid(ItemAt(Here))'
    BY <1>4, <1>9 DEF Valid
  <2>2. Copy' \in Slots' /\ ItemAt(Copy)'.id = ItemAt(Here)'.id
        /\ ItemAt(Copy)'.chk = ItemAt(Here)'.chk /\ ItemAt(Copy)'.data = ItemAt(Here)'.data
    BY <1>4, <1>5, <1>6, <1>8, <1>9
  <2>3. Here' \in Used' /\ ItemAt(Here)'.old
    BY <1>4, <1>8, <1>9, <1>11
  <2> QED
    BY <1>1, <1>3, <1>4, <1>11, <2>1, <2>2, <2>3 DEF Compacting, CompactPcs, CopyPcs
<1>16. \A x \in Used \ {n} : ItemAt(x)' = ItemAt(x)
  BY <1>3, <1>7
<1>17. Settled'
  <2>1. Used' \ Fresh' = Used \ {n}
    BY <1>11, <1>12
  <2> QED
    BY <1>4, <1>16, <2>1 DEF Settled, Clean, Valid
<1>18. Valid(ItemAt(n))' /\ \A x \in Used \ {n} : Valid(ItemAt(x))'
  BY <1>4, <1>5, <1>7, <1>16 DEF Valid
<1>19. Readable'
  <2> SUFFICES ASSUME NEW i \in Ids
               PROVE  /\ \A x \in Used : Current(x)' /\ ItemAt(x)'.id = i => ItemAt(x)'.data \in expect[i]
                      /\ (\A x \in Used : ItemAt(x)'.id = i => ~ Valid(ItemAt(x))') => Absent \in expect[i]
    BY <1>1, <1>11 DEF Readable
  <2>1. /\ \A x \in Used : Current(x) /\ ItemAt(x).id = i => ItemAt(x).data \in expect[i]
        /\ (\A x \in Used : ItemAt(x).id = i => ~ Valid(ItemAt(x))) => Absent \in expect[i]
    BY <1>1 DEF Safe, Readable
  <2>2. \A x \in Used \ {n} : Current(x)
    <3> SUFFICES ASSUME NEW x \in Used \ {n}
                 PROVE  Current(x)
      OBVIOUS
    <3>1. \A y \in Used : ItemAt(y).id = ItemAt(x).id /\ Valid(ItemAt(y)) => y = x
      BY <1>4, <1>5
    <3> QED
      BY <1>4, <3>1 DEF Current
  <2>3. \A x \in Used \ {n} : ItemAt(x).id = i => ItemAt(x)'.data \in expect[i] /\ ItemAt(x)'.id = i
    BY <1>16, <2>1, <2>2
  <2>4. ItemAt(n)'.id = i => ItemAt(n)'.data \in expect[i]
    BY <1>4, <1>5, <1>7, <2>1, <2>2
  <2>5. \A x \in Used : ItemAt(x)'.id = i => ItemAt(x)'.data \in expect[i]
    BY <1>16, <2>3, <2>4
  <2>6. (\A x \in Used : ItemAt(x)'.id = i => ~ Valid(ItemAt(x))') => Absent \in expect[i]
    <3> SUFFICES ASSUME \A x \in Used : ItemAt(x)'.id # i
                 PROVE  Absent \in expect[i]
      BY <1>18
    <3>1. \A x \in Used : ItemAt(x).id # i
      BY <1>3, <1>10
    <3> QED
      BY <2>1, <3>1
  <2> QED
    BY <2>5, <2>6
<1>20. Room'
  <2>1. \A x : x \in Bad(pgRes)' /\ x # n => x \in Bad(pgRes) /\ x \notin Fresh
    <3>1. \A x \in Slots : x # n => (Valid(ItemAt(x))' <=> Valid(ItemAt(x)))
      BY <1>7 DEF Valid
    <3> QED
      BY <1>0, <1>1, <1>3, <1>6, <1>11, <3>1 DEF Bad
  <2> QED
    BY <1>1, <1>3, <1>12, <2>1 DEF Room, WritePcs, CompactPcs, AtMostOne
<1>21. Unmarked'
  <2>1. resets = 0 => ~ stat /\ \A x \in Used' : ItemAt(x)'.old => x = h
    BY <1>0, <1>1, <1>3, <1>10, <1>11 DEF Safe, Unmarked
  <2>2. resets = 0 => \A x \in Slots' : x[1] = pgRes => ItemAt(x)'.id # Zeroed
    BY <1>2, <1>6, <1>10 DEF Safe, Unmarked
  <2> QED
    BY <1>1, <1>8, <2>1, <2>2 DEF Unmarked
<1>22. FirstStart'
  BY <1>1, <1>2, <1>3 DEF Safe, FirstStart, Erased, InUse, WritePcs, CompactPcs, ScanPcs
<1>23. Headers'
  BY <1>1, <1>13, <1>14, <1>15, <1>17, <1>20, <1>21, <1>22, HeadersHold DEF ScanPcs
<1>24. Walk'
  BY <1>1 DEF Walk
<1> QED
  BY <1>13, <1>14, <1>15, <1>17, <1>19, <1>20, <1>21, <1>22, <1>23, <1>24 DEF Safe

LEMMA CopyZeroSafe ==
  ASSUME Safe, CopyZero
  PROVE  Safe'
<1>0. PICK n, h : n = Copy /\ h = Here
  OBVIOUS
<1>1. /\ pc = "copyZero" /\ pc' = "compact" /\ items' = With(h, ZeroedItem) /\ offset' = offset + 1
      /\ UNCHANGED <<pgHdr, pgRes, op, pg, findDups, newPg, oldPg, stat, resets, expect>>
  BY <1>0 DEF CopyZero
<1>2. pc \in CompactPcs /\ pc \in CopyPcs /\ pc' \notin CopyPcs /\ pc' \in CompactPcs
  BY <1>1 DEF CompactPcs, CopyPcs
<1>3. /\ Shape /\ items \in [Pages -> Seq(Item)] /\ Fits
      /\ pgRes \in Pages /\ pg \in Pages /\ pg # pgRes
      /\ Used \subseteq Slots /\ AtMostOne(Bad(pgRes) \ Fresh) /\ Fresh = {Copy}
  BY <1>2, CompactKnows
<1>4. /\ h \in Used /\ h \in Slots /\ n \in Used /\ n \in Slots
      /\ h[1] = pg /\ h[2] = offset /\ h # n
      /\ ItemAt(h).old /\ Valid(ItemAt(h))
      /\ offset \in Nat /\ offset > 0 /\ \A x \in Used : x[1] = pg => x[2] >= offset
      /\ ItemAt(n).id = ItemAt(h).id /\ ItemAt(n).chk = ItemAt(h).chk /\ ItemAt(n).data = ItemAt(h).data
      /\ \A x \in Used \ {n} : Valid(ItemAt(x))
      /\ \A x, y \in Used \ {n} : ItemAt(x).id = ItemAt(y).id => y = x
      /\ \A x \in Used : ItemAt(x).id = ItemAt(h).id => x = h \/ x = n
  BY <1>0, <1>1, <1>2, CopyKnows
<1>5. Valid(ItemAt(n))
  BY <1>4 DEF Valid
<1>6. /\ items' \in [Pages -> Seq(Item)] /\ Fits'
      /\ \A p \in Pages : Len(items'[p]) = Len(items[p])
      /\ Slots' = Slots
      /\ \A y \in Slots : ItemAt(y)' = IF y = h THEN ZeroedItem ELSE ItemAt(y)
  BY <1>1, <1>3, <1>4, NewItems, WriteAt
<1>7. Used' = Used \ {h}
  BY <1>4, <1>6, NewItems DEF Used
<1>8. \A x \in Used' : ItemAt(x)' = ItemAt(x)
  BY <1>3, <1>6, <1>7
<1>9. Clean(Used)'
  <2>1. \A x \in Used' : Valid(ItemAt(x))
    BY <1>4, <1>5, <1>7
  <2>2. \A x, y \in Used' : ItemAt(x).id = ItemAt(y).id => y = x
    <3> SUFFICES ASSUME NEW x \in Used', NEW y \in Used', ItemAt(x).id = ItemAt(y).id
                 PROVE  y = x
      OBVIOUS
    <3>1. CASE x = n \/ y = n
      BY <1>4, <1>7, <3>1
    <3>2. CASE x # n /\ y # n
      BY <1>4, <1>7, <3>2
    <3> QED
      BY <3>1, <3>2
  <2> QED
    BY <1>8, <2>1, <2>2 DEF Clean, Valid
<1>10. Readable'
  <2>1. \A x \in Used' : Current(x)
    <3> SUFFICES ASSUME NEW x \in Used'
                 PROVE  Current(x)
      OBVIOUS
    <3>1. CASE x = n
      <4>1. ItemAt(n).old => \A y \in Used : ItemAt(y).id = ItemAt(n).id => ItemAt(y).old
        BY <1>4
      <4> QED
        BY <1>4, <1>5, <3>1, <4>1 DEF Current
    <3>2. CASE x # n
      <4>1. x \in Used \ {n} /\ x # h
        BY <1>7, <3>2
      <4>2. ItemAt(x).id # ItemAt(h).id
        BY <1>4, <4>1
      <4>3. \A y \in Used : ItemAt(y).id = ItemAt(x).id => y = x
        BY <1>4, <4>1, <4>2
      <4> QED
        BY <1>4, <4>1, <4>3 DEF Current
    <3> QED
      BY <3>1, <3>2
  <2>2. \A x \in Used' : ItemAt(x).id \in Ids
    <3> SUFFICES ASSUME NEW x \in Used'
                 PROVE  ItemAt(x).id \in Ids
      OBVIOUS
    <3>1. x \in Slots /\ ItemAt(x).id # Zeroed
      BY <1>7 DEF Used
    <3> QED
      BY <1>3, <3>1, ItemsAreItems
  <2>3. \A x \in Used' : ItemAt(x).data \in expect[ItemAt(x).id]
    BY <1>1, <1>7, <2>1, <2>2 DEF Safe, Readable
  <2>4. ASSUME NEW i \in Ids, \A x \in Used' : ItemAt(x).id # i
        PROVE  Absent \in expect[i]
    <3>1. \A x \in Used : ItemAt(x).id # i
      BY <1>4, <1>7, <2>4
    <3> QED
      BY <1>1, <3>1 DEF Safe, Readable
  <2> QED
    BY <1>1, <1>8, <1>9, <2>3, <2>4, ReadsClean
<1>11. Shape'
  BY <1>1, <1>3, <1>4, <1>6 DEF Shape, ScanPcs, CompactPcs
<1>12. Calling' /\ Writing'
  BY <1>1 DEF Calling, Writing, WritePcs
<1>13. Compacting'
  <2>1. ASSUME NEW x \in Used', x[1] = pg
        PROVE  x[2] >= offset + 1
    <3>1. x \in Used /\ x # h /\ x \in Slots /\ x[2] >= offset
      BY <1>3, <1>4, <1>7, <2>1
    <3>2. x[2] \in Nat /\ x = <<x[1], x[2]>> /\ h = <<h[1], h[2]>>
      BY <1>4, <3>1, SlotParts
    <3>3. x[2] # offset
      BY <1>4, <2>1, <3>1, <3>2
    <3> QED
      BY <1>4, <3>1, <3>2, <3>3
  <2> QED
    BY <1>1, <1>3, <1>4, <2>1 DEF Compacting, CompactPcs, CopyPcs
<1>14. Fresh' = {}
  BY <1>1 DEF Fresh, WritePcs, CopyPcs
<1>15. Settled'
  BY <1>9, <1>14 DEF Settled, Clean
<1>16. Room'
  <2>1. \A x : x \in Bad(pgRes)' => x \in Bad(pgRes) /\ x \notin Fresh
    <3> SUFFICES ASSUME NEW x, x \in Bad(pgRes)'
                 PROVE  x \in Bad(pgRes) /\ x \notin Fresh
      OBVIOUS
    <3>1. x \in Slots /\ x[1] = pgRes /\ ~ (x \in Used' /\ Valid(ItemAt(x))')
      BY <1>1, <1>6 DEF Bad
    <3>2. x # h /\ ItemAt(x)' = ItemAt(x)
      BY <1>3, <1>4, <1>6, <3>1
    <3>3. ~ (x \in Used /\ Valid(ItemAt(x)))
      BY <1>7, <3>1, <3>2 DEF Valid
    <3>4. x # n
      BY <1>4, <1>5, <3>3
    <3> QED
      BY <1>0, <1>3, <3>1, <3>3, <3>4 DEF Bad
  <2> QED
    BY <1>1, <1>3, <1>14, <2>1 DEF Room, WritePcs, CompactPcs, AtMostOne
<1>17. Unmarked'
  <2>1. resets = 0 => ~ stat /\ \A x \in Used' : ~ ItemAt(x)'.old
    BY <1>0, <1>1, <1>7, <1>8 DEF Safe, Unmarked
  <2>2. resets = 0 => \A x \in Slots' : x[1] = pgRes => ItemAt(x)'.id # Zeroed
    BY <1>2, <1>3, <1>4, <1>6 DEF Safe, Unmarked
  <2> QED
    BY <1>1, <2>1, <2>2 DEF Unmarked
<1>18. FirstStart'
  BY <1>1, <1>2, <1>3 DEF Safe, FirstStart, Erased, InUse, WritePcs, CompactPcs, ScanPcs
<1>19. Headers'
  BY <1>1, <1>11, <1>12, <1>13, <1>15, <1>16, <1>17, <1>18, HeadersHold DEF ScanPcs
<1>20. Walk'
  BY <1>1 DEF Walk
<1> QED
  BY <1>10, <1>11, <1>12, <1>13, <1>15, <1>16, <1>17, <1>18, <1>19, <1>20 DEF Safe

LEMMA EraseSafe ==
  ASSUME Safe, Erase
  PROVE  Safe'
<1>1. /\ pc = "erase" /\ pc' = "finish" /\ items' = [items EXCEPT ![pg] = <<>>]
      /\ pgHdr' = [pgHdr EXCEPT ![pg] = ErasedHdr]
      /\ UNCHANGED <<pgRes, op, pg, offset, findDups, newPg, oldPg, stat, resets, expect>>
  BY DEF Erase, erasePage, scan
<1>2. pc \in CompactPcs /\ pc \notin CopyPcs /\ pc' \in CompactPcs /\ pc' \notin CopyPcs
      /\ pc' \notin WritePcs
  BY <1>1 DEF CompactPcs, CopyPcs, WritePcs
<1>3. /\ Shape /\ items \in [Pages -> Seq(Item)] /\ Fits
      /\ pgRes \in Pages /\ pg \in Pages /\ pg # pgRes
      /\ Used \subseteq Slots /\ AtMostOne(Bad(pgRes)) /\ Clean(Used)
  BY <1>2, CompactKnows
<1>4. \A x \in Used : x[1] # pg
  BY <1>1, <1>2 DEF Safe, Compacting
<1>5. /\ items' \in [Pages -> Seq(Item)] /\ Fits'
      /\ items'[pg] = <<>> /\ \A q \in Pages : q # pg => items'[q] = items[q]
      /\ Slots' = {x \in Slots : x[1] # pg}
      /\ \A y \in Slots' : ItemAt(y)' = ItemAt(y)
  BY <1>1, <1>3, EraseAt
<1>6. Used' = Used /\ \A x \in Used : ItemAt(x)' = ItemAt(x)
  BY <1>3, <1>4, <1>5 DEF Used
<1>7. /\ pgHdr' \in [Pages -> PageHdr]
      /\ \A p \in Pages : p # pg => pgHdr'[p] = pgHdr[p]
      /\ pgHdr'[pg] = ErasedHdr
  BY <1>1, <1>3 DEF Shape, PageHdr, ErasedHdr
<1>8. Fresh' = {}
  BY <1>2 DEF Fresh
<1>9. Shape'
  BY <1>1, <1>3, <1>5, <1>7 DEF Shape, ScanPcs, CompactPcs
<1>10. Calling' /\ Writing'
  BY <1>1 DEF Calling, Writing, WritePcs
<1>11. Compacting'
  BY <1>1, <1>3, <1>4, <1>5, <1>6 DEF Compacting, CompactPcs, CopyPcs
<1>12. Clean(Used)'
  BY <1>3, <1>6 DEF Clean, Valid
<1>13. Settled'
  BY <1>8, <1>12 DEF Settled, Clean
<1>14. Readable'
  <2>1. /\ \A x \in Used : ItemAt(x).data \in expect[ItemAt(x).id]
        /\ \A i \in Ids : (\A x \in Used : ItemAt(x).id # i) => Absent \in expect[i]
    BY <1>1, <1>3, CleanReads
  <2> QED
    BY <1>1, <1>6, <1>12, <2>1, ReadsClean
<1>15. Room'
  <2>1. \A x : x \in Bad(pgRes)' => x \in Bad(pgRes)
    <3> SUFFICES ASSUME NEW x, x \in Bad(pgRes)'
                 PROVE  x \in Bad(pgRes)
      OBVIOUS
    <3>1. x \in Slots' /\ x[1] = pgRes /\ ~ (x \in Used' /\ Valid(ItemAt(x))')
      BY <1>1 DEF Bad
    <3>2. x \in Slots /\ ItemAt(x)' = ItemAt(x)
      BY <1>5, <3>1
    <3> QED
      BY <1>6, <3>1, <3>2 DEF Bad, Valid
  <2> QED
    BY <1>1, <1>3, <2>1 DEF Room, WritePcs, CompactPcs, AtMostOne
<1>16. Unmarked'
  <2>1. resets = 0 => ~ stat /\ \A x \in Used' : ~ ItemAt(x)'.old
    BY <1>1, <1>6 DEF Safe, Unmarked
  <2>2. resets = 0 => \A x \in Slots' : x[1] = pgRes => ItemAt(x)'.id # Zeroed
    BY <1>2, <1>5 DEF Safe, Unmarked
  <2> QED
    BY <1>1, <2>1, <2>2 DEF Unmarked
<1>17. FirstStart'
  BY <1>1, <1>2, <1>3, <1>7 DEF Safe, FirstStart, Erased, ErasedHdr, InUse, WritePcs, CompactPcs, ScanPcs
<1>18. Headers'
  BY <1>1, <1>9, <1>10, <1>11, <1>13, <1>15, <1>16, <1>17, HeadersHold DEF ScanPcs
<1>19. Walk'
  BY <1>1 DEF Walk
<1> QED
  BY <1>9, <1>10, <1>11, <1>13, <1>14, <1>15, <1>16, <1>17, <1>18, <1>19 DEF Safe

(* What initNV finds is what counts.                                       *)
LEMMA FoundReads ==
  ASSUME Safe, pc # "eraseAll", Clean(Used), UNCHANGED items, expect' = Found
  PROVE  Readable' /\ expect' \in [Ids -> SUBSET (Vals \union {Absent})]
<1>1. Shape /\ Used \subseteq Slots /\ items \in [Pages -> Seq(Item)]
  BY DEF Safe, Shape, Used
<1>2. Used' = Used /\ \A y : ItemAt(y)' = ItemAt(y)
  BY SameFlash
<1>3. Clean(Used)'
  BY <1>2 DEF Clean, Valid
<1>4. \A i \in Ids : expect'[i] = expect[i] \intersect {osal_nv_read(i)}
  BY DEF Found
<1>5. \A x \in Used : ItemAt(x).id \in Ids
  BY <1>1, ItemsAreItems DEF Used
<1>6. /\ \A x \in Used : ItemAt(x).data \in expect[ItemAt(x).id]
      /\ \A i \in Ids : (\A x \in Used : ItemAt(x).id # i) => Absent \in expect[i]
  BY CleanReads
<1>7. \A x \in Used : ItemAt(x).data \in expect'[ItemAt(x).id]
  BY <1>1, <1>4, <1>5, <1>6, ReadIs
<1>8. \A i \in Ids : (\A x \in Used : ItemAt(x).id # i) => Absent \in expect'[i]
  BY <1>1, <1>4, <1>6, ReadIs
<1>9. Readable'
  BY <1>2, <1>3, <1>7, <1>8, ReadsClean
<1>10. expect' \in [Ids -> SUBSET (Vals \union {Absent})]
  <2>1. expect \in [Ids -> SUBSET (Vals \union {Absent})]
    BY <1>1 DEF Shape
  <2> QED
    BY <2>1 DEF Found
<1> QED
  BY <1>9, <1>10

LEMMA FinishSafe ==
  ASSUME Safe, Finish
  PROVE  Safe'
<1>1. /\ pc = "finish" /\ pc' = "idle" /\ pgRes' = pg
      /\ pgHdr' = [pgHdr EXCEPT ![pgRes].active = TRUE, ![pgRes].inUse = TRUE]
      /\ expect' = IF op = NoOp THEN Found ELSE expect
      /\ pg' = NULL /\ offset' = 0 /\ findDups' = FALSE /\ newPg' = NULL /\ oldPg' = NULL
      /\ UNCHANGED <<items, stat, resets>>
      /\ Slots' = Slots /\ Used' = Used /\ \A y : ItemAt(y)' = ItemAt(y)
  BY SameFlash DEF Finish, Idle, NoScan
<1>2. pc \in CompactPcs /\ pc \notin CopyPcs /\ pc' \notin CompactPcs /\ pc' \notin CopyPcs
      /\ pc' \notin WritePcs /\ pc' \notin ScanPcs
  BY <1>1 DEF CompactPcs, CopyPcs, WritePcs, ScanPcs
<1>3. /\ Shape /\ pgRes \in Pages /\ pg \in Pages /\ pg # pgRes
      /\ Used \subseteq Slots /\ Clean(Used) /\ items[pg] = <<>>
  BY <1>1, <1>2, CompactKnows DEF Safe, Compacting
<1>4. /\ pgHdr' \in [Pages -> PageHdr]
      /\ \A p \in Pages : p # pgRes => pgHdr'[p] = pgHdr[p]
      /\ pgHdr'[pgRes].active /\ pgHdr'[pgRes].inUse
  BY <1>1, <1>3 DEF Shape, PageHdr
<1>5. Clean(Used)'
  BY <1>1, <1>3 DEF Clean, Valid
<1>6. Readable' /\ expect' \in [Ids -> SUBSET (Vals \union {Absent})]
  <2>1. CASE op = NoOp
    BY <1>1, <1>3, <2>1, FoundReads
  <2>2. CASE op # NoOp
    <3>1. expect' = expect
      BY <1>1, <2>2
    <3>2. /\ \A x \in Used : ItemAt(x).data \in expect[ItemAt(x).id]
          /\ \A i \in Ids : (\A x \in Used : ItemAt(x).id # i) => Absent \in expect[i]
      BY <1>1, <1>3, CleanReads
    <3>3. Readable'
      BY <1>1, <1>5, <3>1, <3>2, ReadsClean
    <3> QED
      BY <1>3, <3>1, <3>3 DEF Shape
  <2> QED
    BY <2>1, <2>2
<1>7. Shape'
  BY <1>1, <1>2, <1>3, <1>4, <1>6, Numbers DEF Shape, Fits, ScanPcs
<1>8. Calling' /\ Writing' /\ Compacting'
  BY <1>1, <1>2 DEF Calling, Writing, Compacting, WritePcs
<1>9. Settled'
  <2>1. Fresh' = {}
    BY <1>2 DEF Fresh
  <2> QED
    BY <1>5, <2>1 DEF Settled, Clean
<1>10. Room'
  BY <1>1, <1>2, <1>3 DEF Room
<1>11. Unmarked'
  BY <1>1, <1>2 DEF Safe, Unmarked
<1>12. FirstStart'
  BY <1>1, <1>2, <1>3, <1>4 DEF Safe, FirstStart, Erased, InUse, WritePcs, CompactPcs, ScanPcs
<1>13. Headers'
  BY <1>2, <1>7, <1>8, <1>9, <1>10, <1>11, <1>12, HeadersHold
<1>14. Walk'
  BY <1>1 DEF Walk
<1> QED
  BY <1>6, <1>7, <1>8, <1>9, <1>10, <1>11, <1>12, <1>13, <1>14 DEF Safe

-----------------------------------------------------------------------------
(* initNV.                                                                 *)
LEMMA WalkKnows ==
  ASSUME Safe, pc = "initPage"
  PROVE  /\ Shape /\ items \in [Pages -> Seq(Item)] /\ Fits /\ pgHdr \in [Pages -> PageHdr]
         /\ pg \in Pages /\ pg \in Nat /\ offset \in Nat /\ findDups \in BOOLEAN
         /\ pgRes \in Pages \union {NULL}
         /\ newPg \in Pages \union {NULL} /\ oldPg \in Pages \union {NULL}
         /\ Used \subseteq Slots
         /\ \A p \in Pages :
              /\ pgHdr[p].xfer => pgHdr[p].active
              /\ ~ pgHdr[p].active => items[p] = <<>>
              /\ pgHdr[p].active /\ ~ pgHdr[p].inUse =>
                   AtMostOne(Bad(p)) /\ \A x \in Used : x[1] = p => ~ ItemAt(x).old
         /\ pgRes # NULL => items[pgRes] = <<>> /\ ~ pgHdr[pgRes].xfer
         /\ oldPg # NULL => pgHdr[oldPg].inUse /\ pgHdr[oldPg].xfer
         /\ newPg # NULL => pgHdr[newPg].active /\ ~ pgHdr[newPg].inUse
         /\ \A x, y \in Used : x # y /\ ItemAt(x).id = ItemAt(y).id /\ Valid(ItemAt(x)) /\ Valid(ItemAt(y))
              => ItemAt(x).old # ItemAt(y).old
         /\ \A x \in Used : ItemAt(x).old => Valid(ItemAt(x))
         /\ \A x \in Used : Passed(x) =>
              /\ Valid(ItemAt(x))
              /\ IF findDups
                 THEN ItemAt(x).old \/ \A y \in Used : ItemAt(y).id = ItemAt(x).id => ~ ItemAt(y).old
                 ELSE ~ ItemAt(x).old
<1>1. /\ Shape /\ items \in [Pages -> Seq(Item)] /\ Fits /\ pgHdr \in [Pages -> PageHdr]
      /\ offset \in Nat /\ findDups \in BOOLEAN
      /\ pgRes \in Pages \union {NULL}
      /\ newPg \in Pages \union {NULL} /\ oldPg \in Pages \union {NULL}
  BY DEF Safe, Shape
<1>2. pg \in Pages /\ pg \in Nat
  BY Numbers DEF Safe, Walk
<1>3. Used \subseteq Slots
  BY DEF Used
<1>4. \A p \in Pages :
        /\ pgHdr[p].xfer => pgHdr[p].active
        /\ ~ pgHdr[p].active => items[p] = <<>>
        /\ pgHdr[p].active /\ ~ pgHdr[p].inUse =>
             AtMostOne(Bad(p)) /\ \A x \in Used : x[1] = p => ~ ItemAt(x).old
  BY DEF Safe, Headers
<1>5. /\ pgRes # NULL => items[pgRes] = <<>> /\ ~ pgHdr[pgRes].xfer
      /\ oldPg # NULL => pgHdr[oldPg].inUse /\ pgHdr[oldPg].xfer
      /\ newPg # NULL => pgHdr[newPg].active /\ ~ pgHdr[newPg].inUse
  BY DEF Safe, Walk
<1>6. /\ \A x, y \in Used : x # y /\ ItemAt(x).id = ItemAt(y).id /\ Valid(ItemAt(x)) /\ Valid(ItemAt(y))
           => ItemAt(x).old # ItemAt(y).old
      /\ \A x \in Used : ItemAt(x).old => Valid(ItemAt(x))
      /\ \A x \in Used : Passed(x) =>
           /\ Valid(ItemAt(x))
           /\ IF findDups
              THEN ItemAt(x).old \/ \A y \in Used : ItemAt(y).id = ItemAt(x).id => ~ ItemAt(y).old
              ELSE ~ ItemAt(x).old
  BY DEF Safe, Walk
<1> QED
  BY <1>1, <1>2, <1>3, <1>4, <1>5, <1>6

LEMMA ScanHeaderSafe ==
  ASSUME Safe, ScanHeader
  PROVE  Safe'
<1>1. /\ pc = "initPage" /\ pc' = "initPage" /\ offset = 0 /\ offset' = 1
      /\ pgRes' = (IF ~ pgHdr[pg].active /\ pgRes = NULL THEN pg ELSE pgRes)
      /\ pgHdr' = (IF ~ pgHdr[pg].active /\ pgRes # NULL
                   THEN [pgHdr EXCEPT ![pg].active = TRUE, ![pg].inUse = TRUE] ELSE pgHdr)
      /\ newPg' = (IF pgHdr[pg].active /\ ~ pgHdr[pg].inUse THEN pg ELSE newPg)
      /\ oldPg' = (IF pgHdr[pg].active /\ pgHdr[pg].inUse /\ pgHdr[pg].xfer THEN pg ELSE oldPg)
      /\ UNCHANGED <<items, op, pg, findDups, stat, resets, expect>>
      /\ Slots' = Slots /\ Used' = Used /\ \A y : ItemAt(y)' = ItemAt(y)
  BY SameFlash DEF ScanHeader
<1>2. /\ Shape /\ items \in [Pages -> Seq(Item)] /\ Fits /\ pgHdr \in [Pages -> PageHdr]
      /\ pg \in Pages /\ pg \in Nat /\ pgRes \in Pages \union {NULL}
      /\ newPg \in Pages \union {NULL} /\ oldPg \in Pages \union {NULL}
      /\ Used \subseteq Slots
      /\ \A p \in Pages :
           /\ pgHdr[p].xfer => pgHdr[p].active
           /\ ~ pgHdr[p].active => items[p] = <<>>
           /\ pgHdr[p].active /\ ~ pgHdr[p].inUse =>
                AtMostOne(Bad(p)) /\ \A x \in Used : x[1] = p => ~ ItemAt(x).old
      /\ pgRes # NULL => items[pgRes] = <<>> /\ ~ pgHdr[pgRes].xfer
      /\ oldPg # NULL => pgHdr[oldPg].inUse /\ pgHdr[oldPg].xfer
      /\ newPg # NULL => pgHdr[newPg].active /\ ~ pgHdr[newPg].inUse
  BY <1>1, WalkKnows
<1>3. /\ pgHdr' \in [Pages -> PageHdr]
      /\ \A p \in Pages : p # pg \/ pgHdr[p].active => pgHdr'[p] = pgHdr[p]
      /\ \A p \in Pages : pgHdr'[p].xfer = pgHdr[p].xfer
      /\ pgHdr'[pg] # pgHdr[pg] => pgHdr'[pg].active /\ pgHdr'[pg].inUse
      /\ ~ pgHdr[pg].active /\ pgRes # NULL => pgHdr'[pg].active /\ pgHdr'[pg].inUse
      /\ pgRes = NULL => pgHdr' = pgHdr
  <2>1. CASE ~ pgHdr[pg].active /\ pgRes # NULL
    BY <1>1, <1>2, <2>1 DEF PageHdr
  <2>2. CASE ~ (~ pgHdr[pg].active /\ pgRes # NULL)
    BY <1>1, <1>2, <2>2
  <2> QED
    BY <2>1, <2>2
<1>4. pgRes' \in Pages \union {NULL} /\ newPg' \in Pages \union {NULL} /\ oldPg' \in Pages \union {NULL}
  BY <1>1, <1>2
<1>5. Shape'
  BY <1>1, <1>2, <1>3, <1>4 DEF Shape, Fits, ScanPcs
<1>6. Calling' /\ Writing' /\ Compacting' /\ Settled'
  BY <1>1 DEF Calling, Writing, Compacting, Settled, WritePcs, CompactPcs
<1>7. Readable'
  <2>1. \A x : Current(x)' <=> Current(x)
    BY <1>1 DEF Current, Valid
  <2> QED
    BY <1>1, <2>1 DEF Safe, Readable, Valid
<1>8. Room'
  BY <1>1 DEF Room, WritePcs, CompactPcs
<1>9. Headers'
  <2>1. \A p \in Pages : Bad(p)' = Bad(p)
    BY <1>1 DEF Bad, Valid
  <2> SUFFICES ASSUME NEW p \in Pages
               PROVE  /\ pgHdr'[p].xfer => pgHdr'[p].active
                      /\ ~ pgHdr'[p].active => items[p] = <<>>
                      /\ pgHdr'[p].active /\ ~ pgHdr'[p].inUse =>
                           AtMostOne(Bad(p)) /\ \A x \in Used : x[1] = p => ~ ItemAt(x).old
    BY <1>1, <2>1 DEF Headers, AtMostOne
  <2>2. CASE pgHdr'[p] = pgHdr[p]
    BY <1>2, <2>2
  <2>3. CASE pgHdr'[p] # pgHdr[p]
    BY <1>3, <2>3
  <2> QED
    BY <2>2, <2>3
<1>10. Unmarked'
  BY <1>1 DEF Safe, Unmarked, CompactPcs
<1>11. FirstStart'
  <2> SUFFICES ASSUME resets = 0
               PROVE  FirstStart'
    BY <1>1 DEF FirstStart
  <2>1. /\ newPg = NULL /\ \A p \in Pages : items[p] = <<>>
        /\ pg > 1 => pgRes \in Pages
        /\ pgRes # NULL => pgRes < pg
        /\ \A p \in Pages : IF p < pg /\ p # pgRes THEN InUse(p) ELSE Erased(p)
    BY <1>1, <1>2, Numbers DEF Safe, FirstStart, ScanPcs
  <2>2. Erased(pg)
    BY <1>2, <2>1
  <2>3. newPg' = NULL
    BY <1>1, <2>1, <2>2 DEF Erased
  <2>4. pgRes' \in Pages /\ (pgRes' < pg \/ pgRes' = pg)
    BY <1>1, <1>2, <2>1, <2>2 DEF Erased
  <2>5. ASSUME NEW p \in Pages
        PROVE  IF (p < pg \/ p = pg) /\ p # pgRes' THEN InUse(p)' ELSE Erased(p)'
    <3>1. CASE pgRes = NULL
      <4>1. pgRes' = pg /\ pgHdr' = pgHdr
        BY <1>1, <1>3, <2>2, <3>1 DEF Erased
      <4>2. (InUse(p)' <=> InUse(p)) /\ (Erased(p)' <=> Erased(p))
        BY <4>1 DEF InUse, Erased
      <4> QED
        BY <1>2, <2>1, <2>5, <3>1, <4>1, <4>2, Numbers
    <3>2. CASE pgRes # NULL /\ p # pg
      <4>1. pgRes' = pgRes /\ pgHdr'[p] = pgHdr[p]
        BY <1>1, <1>3, <2>5, <3>2
      <4>2. (InUse(p)' <=> InUse(p)) /\ (Erased(p)' <=> Erased(p))
        BY <4>1 DEF InUse, Erased
      <4> QED
        BY <2>1, <2>5, <3>2, <4>1, <4>2
    <3>3. CASE pgRes # NULL /\ p = pg
      <4>1. pgRes' = pgRes /\ pgRes < pg /\ pgRes \in Nat
        BY <1>1, <1>2, <2>1, <3>3, Numbers
      <4>2. InUse(p)'
        BY <1>3, <2>2, <3>3 DEF InUse, Erased
      <4> QED
        BY <1>2, <3>3, <4>1, <4>2
    <3> QED
      BY <3>1, <3>2, <3>3
  <2>6. /\ pc' = "initPage" /\ pg' = pg /\ offset' = 1 /\ items' = items /\ "initPage" \notin CompactPcs
        /\ "initPage" \notin WritePcs
    BY <1>1 DEF CompactPcs, WritePcs
  <2> QED
    BY <2>1, <2>3, <2>4, <2>5, <2>6 DEF FirstStart
<1>12. Walk'
  <2>1. \A x \in Slots : Passed(x)' => Passed(x)
    <3> SUFFICES ASSUME NEW x \in Slots, Passed(x)'
                 PROVE  Passed(x)
      OBVIOUS
    <3>1. x[2] \in Nat /\ x[2] > 0
      BY SlotParts, Numbers
    <3> QED
      BY <1>1, <3>1 DEF Passed
  <2>2. pgRes' # NULL => items'[pgRes'] = <<>> /\ ~ pgHdr'[pgRes'].xfer
    BY <1>1, <1>2, <1>3
  <2>3. oldPg' # NULL => pgHdr'[oldPg'].inUse /\ pgHdr'[oldPg'].xfer
    BY <1>1, <1>2, <1>3
  <2>4. newPg' # NULL => pgHdr'[newPg'].active /\ ~ pgHdr'[newPg'].inUse
    BY <1>1, <1>2, <1>3
  <2>5. \A x : Valid(ItemAt(x))' <=> Valid(ItemAt(x))
    BY <1>1 DEF Valid
  <2>6. /\ \A x, y \in Used : x # y /\ ItemAt(x).id = ItemAt(y).id /\ Valid(ItemAt(x)) /\ Valid(ItemAt(y))
             => ItemAt(x).old # ItemAt(y).old
        /\ \A x \in Used : ItemAt(x).old => Valid(ItemAt(x))
        /\ \A x \in Used : Passed(x) =>
             /\ Valid(ItemAt(x))
             /\ IF findDups
                THEN ItemAt(x).old \/ \A y \in Used : ItemAt(y).id = ItemAt(x).id => ~ ItemAt(y).old
                ELSE ~ ItemAt(x).old
    BY <1>1, WalkKnows
  <2> QED
    BY <1>1, <1>2, <2>1, <2>2, <2>3, <2>4, <2>5, <2>6 DEF Walk
<1> QED
  BY <1>5, <1>6, <1>7, <1>8, <1>9, <1>10, <1>11, <1>12 DEF Safe

(* After a reset, what Safe says of the walk.                              *)
LEMMA WalkGoesOn ==
  ASSUME pc' \in {"initPage", "eraseAll"}, resets' # 0, Shape', Readable', Headers', Walk'
  PROVE  Safe'
<1>1. Calling' /\ Writing' /\ Compacting' /\ Settled' /\ Room'
  BY DEF Calling, Writing, Compacting, Settled, Room, WritePcs, CompactPcs
<1>2. Unmarked' /\ FirstStart'
  BY DEF Unmarked, FirstStart
<1> QED
  BY <1>1, <1>2 DEF Safe

(* A torn item, or the old copy of an item that has a new one, is zeroed.  *)
LEMMA WalkZeroes ==
  ASSUME Safe, pc = "initPage", pc' = "initPage", NEW z \in Used, items' = With(z, ZeroedItem),
         UNCHANGED <<pgHdr, pgRes, pg, findDups, newPg, oldPg, stat, resets, expect>>,
         offset' \in Nat,
         \/ ~ Valid(ItemAt(z))
         \/ /\ ItemAt(z).old
            /\ \E y \in Used : ItemAt(y).id = ItemAt(z).id /\ Valid(ItemAt(y)) /\ ~ ItemAt(y).old
  PROVE  /\ Used' = Used \ {z} /\ \A x \in Used' : ItemAt(x)' = ItemAt(x)
         /\ Shape' /\ Readable' /\ Headers'
         /\ \A p \in Pages : items[p] = <<>> => items'[p] = <<>>
<1>1. /\ Shape /\ items \in [Pages -> Seq(Item)] /\ Fits
      /\ Used \subseteq Slots
      /\ \A p \in Pages :
           /\ pgHdr[p].xfer => pgHdr[p].active
           /\ ~ pgHdr[p].active => items[p] = <<>>
           /\ pgHdr[p].active /\ ~ pgHdr[p].inUse =>
                AtMostOne(Bad(p)) /\ \A x \in Used : x[1] = p => ~ ItemAt(x).old
  BY WalkKnows
<1>2. /\ items' \in [Pages -> Seq(Item)] /\ Fits'
      /\ \A p \in Pages : items[p] = <<>> => items'[p] = <<>>
      /\ Slots' = Slots
      /\ \A y \in Slots : ItemAt(y)' = IF y = z THEN ZeroedItem ELSE ItemAt(y)
  BY <1>1, NewItems, WriteAt
<1>3. Used' = Used \ {z}
  BY <1>1, <1>2, NewItems DEF Used
<1>4. \A x \in Used' : ItemAt(x)' = ItemAt(x)
  BY <1>1, <1>2, <1>3
<1>5. \A x \in Used' : Valid(ItemAt(x))' <=> Valid(ItemAt(x))
  BY <1>4 DEF Valid
<1>6. Shape'
  BY <1>1, <1>2 DEF Shape, ScanPcs
<1>7. Readable'
  <2> SUFFICES ASSUME NEW i \in Ids
               PROVE  /\ \A x \in Used' : Current(x)' /\ ItemAt(x).id = i => ItemAt(x).data \in expect[i]
                      /\ (\A x \in Used' : ItemAt(x).id = i => ~ Valid(ItemAt(x))) => Absent \in expect[i]
    BY <1>4, <1>5 DEF Readable
  <2>1. /\ \A x \in Used : Current(x) /\ ItemAt(x).id = i => ItemAt(x).data \in expect[i]
        /\ (\A x \in Used : ItemAt(x).id = i => ~ Valid(ItemAt(x))) => Absent \in expect[i]
    BY DEF Safe, Readable
  <2>2. ASSUME NEW x \in Used', Current(x)'
        PROVE  Current(x)
    <3>1. /\ x \in Used /\ x # z /\ Valid(ItemAt(x))
          /\ ItemAt(x).old =>
               \A y \in Used' : ItemAt(y).id = ItemAt(x).id /\ Valid(ItemAt(y)) => ItemAt(y).old
      BY <1>3, <1>4, <1>5, <2>2 DEF Current
    <3>2. ItemAt(x).old =>
            \A y \in Used : ItemAt(y).id = ItemAt(x).id /\ Valid(ItemAt(y)) => ItemAt(y).old
      BY <1>3, <3>1
    <3> QED
      BY <3>1, <3>2 DEF Current
  <2>3. (\A x \in Used' : ItemAt(x).id = i => ~ Valid(ItemAt(x))) =>
          (\A x \in Used : ItemAt(x).id = i => ~ Valid(ItemAt(x)))
    <3> SUFFICES ASSUME \A x \in Used' : ItemAt(x).id = i => ~ Valid(ItemAt(x)),
                        ItemAt(z).id = i
                 PROVE  ~ Valid(ItemAt(z))
      BY <1>3
    <3>1. CASE ~ Valid(ItemAt(z))
      BY <3>1
    <3>2. CASE /\ ItemAt(z).old
               /\ \E y \in Used : ItemAt(y).id = ItemAt(z).id /\ Valid(ItemAt(y)) /\ ~ ItemAt(y).old
      <4>1. PICK y \in Used : ItemAt(y).id = ItemAt(z).id /\ Valid(ItemAt(y)) /\ ~ ItemAt(y).old
        BY <3>2
      <4>2. y # z
        BY <3>2, <4>1
      <4> QED
        BY <1>3, <4>1, <4>2
    <3> QED
      BY <3>1, <3>2
  <2> QED
    BY <1>3, <2>1, <2>2, <2>3
<1>8. Headers'
  <2> SUFFICES ASSUME NEW p \in Pages
               PROVE  /\ pgHdr[p].xfer => pgHdr[p].active
                      /\ ~ pgHdr[p].active => items'[p] = <<>>
                      /\ pgHdr[p].active /\ ~ pgHdr[p].inUse =>
                           AtMostOne(Bad(p))' /\ \A x \in Used' : x[1] = p => ~ ItemAt(x)'.old
    BY DEF Headers
  <2>1. ASSUME pgHdr[p].active, ~ pgHdr[p].inUse
        PROVE  AtMostOne(Bad(p))'
    <3>1. z[1] = p => ~ Valid(ItemAt(z))
      BY <1>1, <2>1
    <3>2. \A x : x \in Bad(p)' => x \in Bad(p)
      <4> SUFFICES ASSUME NEW x, x \in Bad(p)'
                   PROVE  x \in Bad(p)
        OBVIOUS
      <4>1. x \in Slots /\ x[1] = p /\ ~ (x \in Used' /\ Valid(ItemAt(x))')
        BY <1>2 DEF Bad
      <4> QED
        BY <1>3, <1>5, <3>1, <4>1 DEF Bad
    <3> QED
      BY <1>1, <2>1, <3>2 DEF AtMostOne
  <2> QED
    BY <1>1, <1>2, <1>3, <1>4, <2>1
<1> QED
  BY <1>2, <1>3, <1>4, <1>6, <1>7, <1>8

(* The walk after a change, given what it has passed.                      *)
LEMMA WalkHolds ==
  ASSUME Safe, pc = "initPage", pc' = "initPage",
         UNCHANGED <<pgHdr, pgRes, newPg, oldPg>>, pg' \in Pages,
         \A p \in Pages : items[p] = <<>> => items'[p] = <<>>,
         Used' \subseteq Used, \A x \in Used' : ItemAt(x)' = ItemAt(x),
         \A x \in Used' : Passed(x)' =>
            /\ Valid(ItemAt(x))
            /\ IF findDups'
               THEN ItemAt(x).old \/ \A y \in Used' : ItemAt(y).id = ItemAt(x).id => ~ ItemAt(y).old
               ELSE ~ ItemAt(x).old
  PROVE  Walk'
<1>1. /\ pgRes \in Pages \union {NULL}
      /\ pgRes # NULL => items[pgRes] = <<>> /\ ~ pgHdr[pgRes].xfer
      /\ oldPg # NULL => pgHdr[oldPg].inUse /\ pgHdr[oldPg].xfer
      /\ newPg # NULL => pgHdr[newPg].active /\ ~ pgHdr[newPg].inUse
      /\ \A x, y \in Used : x # y /\ ItemAt(x).id = ItemAt(y).id /\ Valid(ItemAt(x)) /\ Valid(ItemAt(y))
           => ItemAt(x).old # ItemAt(y).old
      /\ \A x \in Used : ItemAt(x).old => Valid(ItemAt(x))
  BY WalkKnows
<1>2. \A x \in Used' : Valid(ItemAt(x))' <=> Valid(ItemAt(x))
  BY DEF Valid
<1>3. \A x, y \in Used' : x # y /\ ItemAt(x)'.id = ItemAt(y)'.id /\ Valid(ItemAt(x))' /\ Valid(ItemAt(y))'
        => ItemAt(x)'.old # ItemAt(y)'.old
  BY <1>1, <1>2
<1>4. \A x \in Used' : ItemAt(x)'.old => Valid(ItemAt(x))'
  BY <1>1, <1>2
<1>5. \A x \in Used' : Passed(x)' =>
        /\ Valid(ItemAt(x))'
        /\ IF findDups'
           THEN ItemAt(x)'.old \/ \A y \in Used' : ItemAt(y)'.id = ItemAt(x)'.id => ~ ItemAt(y)'.old
           ELSE ~ ItemAt(x)'.old
  BY <1>2
<1>6. pgRes # NULL => items'[pgRes] = <<>> /\ ~ pgHdr[pgRes].xfer
  BY <1>1
<1> QED
  BY <1>1, <1>3, <1>4, <1>5, <1>6 DEF Walk

LEMMA ScanItemSafe ==
  ASSUME Safe, ScanItem
  PROVE  Safe'
<1>0. PICK h : h = Here
  OBVIOUS
<1>1. /\ pc = "initPage" /\ pc' = "initPage" /\ offset \in DOMAIN items[pg]
      /\ UNCHANGED <<pgHdr, pgRes, op, newPg, oldPg, stat, resets, expect>>
  BY DEF ScanItem
<1>2. /\ Shape /\ items \in [Pages -> Seq(Item)] /\ Fits
      /\ pg \in Pages /\ pg \in Nat /\ offset \in Nat /\ findDups \in BOOLEAN
      /\ Used \subseteq Slots
      /\ \A x, y \in Used : x # y /\ ItemAt(x).id = ItemAt(y).id /\ Valid(ItemAt(x)) /\ Valid(ItemAt(y))
           => ItemAt(x).old # ItemAt(y).old
      /\ \A x \in Used : ItemAt(x).old => Valid(ItemAt(x))
      /\ \A x \in Used : Passed(x) =>
           /\ Valid(ItemAt(x))
           /\ IF findDups
              THEN ItemAt(x).old \/ \A y \in Used : ItemAt(y).id = ItemAt(x).id => ~ ItemAt(y).old
              ELSE ~ ItemAt(x).old
  BY <1>1, WalkKnows
<1>3. /\ h \in Slots /\ h = <<pg, offset>> /\ h[1] = pg /\ h[2] = offset
  BY <1>0, <1>1, <1>2, PlaceIsSlot DEF Here
<1>4. resets # 0
  <2>1. DOMAIN items[pg] # {}
    BY <1>1
  <2>2. items[pg] # <<>>
    BY <2>1
  <2> QED
    BY <1>1, <1>2, <2>2 DEF Safe, FirstStart, ScanPcs
<1>5. h \in Used <=> ItemAt(h).id # Zeroed
  BY <1>3 DEF Used
<1>6. ItemAt(h).old \in BOOLEAN
  BY <1>2, <1>3, ItemsAreItems
<1>7. ASSUME pg' = pg, offset' = offset + 1, NEW x \in Slots, Passed(x)'
      PROVE  Passed(x) \/ x = h
  <2>1. x[1] \in Nat /\ x[2] \in Nat /\ x = <<x[1], x[2]>>
    BY <1>7, SlotParts, Numbers
  <2>2. x[1] < pg \/ (x[1] = pg /\ x[2] < offset + 1)
    BY <1>7 DEF Passed
  <2>3. x[1] < pg \/ (x[1] = pg /\ x[2] < offset) \/ (x[1] = pg /\ x[2] = offset)
    BY <1>2, <2>1, <2>2
  <2> QED
    BY <1>3, <2>1, <2>3 DEF Passed
<1>8. ASSUME UNCHANGED items, offset' \in Nat, pg' \in Pages, findDups' \in BOOLEAN, Walk'
      PROVE  Safe'
  <2>1. Slots' = Slots /\ Used' = Used /\ \A y : ItemAt(y)' = ItemAt(y)
    BY <1>8, SameFlash
  <2>2. Shape'
    BY <1>1, <1>2, <1>8 DEF Shape, Fits, ScanPcs
  <2>3. Readable'
    <3>1. \A x : Current(x)' <=> Current(x)
      BY <2>1 DEF Current, Valid
    <3> QED
      BY <1>1, <2>1, <3>1 DEF Safe, Readable, Valid
  <2>4. Headers'
    <3>1. \A p \in Pages : Bad(p)' = Bad(p)
      BY <2>1 DEF Bad, Valid
    <3> QED
      BY <1>1, <1>8, <2>1, <3>1 DEF Safe, Headers, AtMostOne
  <2> QED
    BY <1>1, <1>4, <1>8, <2>2, <2>3, <2>4, WalkGoesOn
<1>9. ASSUME UNCHANGED <<items, pg, findDups>>, offset' = offset + 1,
             h \in Used => /\ Valid(ItemAt(h))
                           /\ IF findDups
                              THEN ItemAt(h).old \/ \A y \in Used : ItemAt(y).id = ItemAt(h).id => ~ ItemAt(y).old
                              ELSE ~ ItemAt(h).old
      PROVE  Safe'
  <2>1. Used' = Used /\ \A y : ItemAt(y)' = ItemAt(y)
    BY <1>9, SameFlash
  <2>2. \A x \in Used : Passed(x)' => Passed(x) \/ x = h
    BY <1>2, <1>7, <1>9
  <2>3. \A x \in Used' : Passed(x)' =>
            /\ Valid(ItemAt(x))
            /\ IF findDups'
               THEN ItemAt(x).old \/ \A y \in Used' : ItemAt(y).id = ItemAt(x).id => ~ ItemAt(y).old
               ELSE ~ ItemAt(x).old
    BY <1>2, <1>9, <2>1, <2>2
  <2>4. Walk'
    BY <1>1, <1>2, <1>9, <2>1, <2>3, WalkHolds
  <2> QED
    BY <1>2, <1>8, <1>9, <2>4
<1>10. ASSUME UNCHANGED <<pg, findDups>>, offset' = offset + 1, NEW z \in Used,
              items' = With(z, ZeroedItem),
              \/ ~ Valid(ItemAt(z))
              \/ /\ ItemAt(z).old
                 /\ \E y \in Used : ItemAt(y).id = ItemAt(z).id /\ Valid(ItemAt(y)) /\ ~ ItemAt(y).old,
              h \in Used /\ h # z =>
                /\ Valid(ItemAt(h))
                /\ IF findDups
                   THEN ItemAt(h).old \/ \A y \in Used \ {z} : ItemAt(y).id = ItemAt(h).id => ~ ItemAt(y).old
                   ELSE ~ ItemAt(h).old
       PROVE  Safe'
  <2>1. /\ Used' = Used \ {z} /\ \A x \in Used' : ItemAt(x)' = ItemAt(x)
        /\ Shape' /\ Readable' /\ Headers'
        /\ \A p \in Pages : items[p] = <<>> => items'[p] = <<>>
    <3>1. offset' \in Nat
      BY <1>2, <1>10
    <3> QED
      BY <1>1, <1>10, <3>1, WalkZeroes
  <2>2. \A x \in Used : Passed(x)' => Passed(x) \/ x = h
    BY <1>2, <1>7, <1>10
  <2>3. ASSUME NEW x \in Used', Passed(x)'
        PROVE  /\ Valid(ItemAt(x))
               /\ IF findDups'
                  THEN ItemAt(x).old \/ \A y \in Used' : ItemAt(y).id = ItemAt(x).id => ~ ItemAt(y).old
                  ELSE ~ ItemAt(x).old
    <3>1. x \in Used /\ x # z /\ findDups' = findDups
      BY <1>10, <2>1, <2>3
    <3>2. CASE Passed(x)
      BY <1>2, <2>1, <3>1, <3>2
    <3>3. CASE x = h
      BY <1>10, <2>1, <3>1, <3>3
    <3> QED
      BY <2>2, <2>3, <3>1, <3>2, <3>3
  <2>4. Walk'
    BY <1>1, <1>2, <1>10, <2>1, <2>3, WalkHolds
  <2> QED
    BY <1>1, <1>4, <2>1, <2>4, WalkGoesOn
<1> DEFINE dups == Copies(ItemAt(h).id, TRUE)
<1>11. CASE /\ ItemAt(h).id = Zeroed /\ offset' = offset + 1 /\ UNCHANGED <<items, pg, findDups>>
  BY <1>5, <1>9, <1>11
<1>12. CASE /\ ItemAt(h).id # Zeroed /\ ~ Valid(ItemAt(h))
            /\ items' = With(h, ZeroedItem) /\ offset' = offset + 1 /\ UNCHANGED <<pg, findDups>>
  BY <1>5, <1>10, <1>12
<1>13. CASE /\ ItemAt(h).id # Zeroed /\ Valid(ItemAt(h)) /\ ~ ItemAt(h).old /\ findDups
            /\ IF dups = {} THEN items' = items
                            ELSE items' = With(FirstOf(dups), ZeroedItem)
            /\ offset' = offset + 1 /\ UNCHANGED <<pg, findDups>>
  <2>1. h \in Used /\ ItemAt(h).id \in Ids
    BY <1>2, <1>3, <1>5, <1>13, ItemsAreItems
  <2>2. dups = {x \in Used : ItemAt(x).id = ItemAt(h).id /\ ItemAt(x).old = TRUE}
    BY <2>1, CopiesAre
  <2>3. \A x \in Used : ItemAt(x).old \in BOOLEAN
    BY <1>2, ItemsAreItems
  <2> HIDE DEF dups
  <2>4. CASE dups = {}
    <3>1. \A y \in Used : ItemAt(y).id = ItemAt(h).id => ~ ItemAt(y).old
      BY <2>2, <2>3, <2>4
    <3> QED
      BY <1>9, <1>13, <2>4, <3>1
  <2>5. CASE dups # {}
    <3>1. PICK z \in Used : ItemAt(z).id = ItemAt(h).id /\ ItemAt(z).old
      BY <2>2, <2>5
    <3>2. \A x \in Used : ItemAt(x).id = ItemAt(h).id /\ ItemAt(x).old => x = z
      BY <1>2, <2>3, <3>1
    <3>3. dups = {z}
      BY <2>2, <2>3, <3>1, <3>2
    <3>4. FirstOf(dups) = z
      BY <1>2, <3>1, <3>3, FirstOfOne
    <3>5. \E y \in Used : ItemAt(y).id = ItemAt(z).id /\ Valid(ItemAt(y)) /\ ~ ItemAt(y).old
      BY <1>13, <2>1, <3>1
    <3>6. \A y \in Used \ {z} : ItemAt(y).id = ItemAt(h).id => ~ ItemAt(y).old
      BY <3>2
    <3> QED
      BY <1>10, <1>13, <2>5, <3>1, <3>4, <3>5, <3>6
  <2> QED
    BY <2>4, <2>5
<1>14. CASE /\ findDups' = TRUE /\ pg' = 1 /\ offset' = 0 /\ UNCHANGED items
  <2>1. Used' = Used /\ \A y : ItemAt(y)' = ItemAt(y)
    BY <1>14, SameFlash
  <2>2. \A x \in Used : ~ Passed(x)'
    <3> SUFFICES ASSUME NEW x \in Used
                 PROVE  ~ (x[1] < 1 \/ (x[1] = 1 /\ x[2] < 0))
      BY <1>14 DEF Passed
    <3>1. x[1] \in Nat /\ x[1] > 0 /\ x[2] \in Nat
      BY <1>2, SlotParts, Numbers
    <3> QED
      BY <3>1
  <2>3. Walk'
    BY <1>1, <1>14, <2>1, <2>2, Numbers, WalkHolds
  <2> QED
    BY <1>8, <1>14, <2>3, Numbers
<1>15. CASE /\ ItemAt(h).id # Zeroed /\ Valid(ItemAt(h)) /\ ItemAt(h).old = findDups
            /\ offset' = offset + 1 /\ UNCHANGED <<items, pg, findDups>>
  <2>1. IF findDups THEN ItemAt(h).old ELSE ~ ItemAt(h).old
    BY <1>15
  <2> QED
    BY <1>9, <1>15, <2>1
<1> QED
  <2>1. h = Here
    BY <1>0
  <2> QED
    BY <1>11, <1>12, <1>13, <1>14, <1>15, <2>1 DEF ScanItem

(* A step of the walk that writes nothing.                                 *)
LEMMA WalkOnlyReads ==
  ASSUME Safe, pc = "initPage", pc' \in {"initPage", "resume"},
         UNCHANGED <<items, pgHdr, pgRes, newPg, oldPg, stat, resets, expect>>,
         pg' \in Pages \union {NULL}, offset' \in Nat, findDups' \in BOOLEAN
  PROVE  Shape' /\ Readable' /\ Headers'
<1>1. Slots' = Slots /\ Used' = Used /\ \A y : ItemAt(y)' = ItemAt(y)
  BY SameFlash
<1>2. Shape'
  BY DEF Safe, Shape, Fits, ScanPcs
<1>3. Readable'
  <2>1. \A x : Current(x)' <=> Current(x)
    BY <1>1 DEF Current, Valid
  <2> QED
    BY <1>1, <2>1 DEF Safe, Readable, Valid
<1>4. Headers'
  <2>1. \A p \in Pages : Bad(p)' = Bad(p)
    BY <1>1 DEF Bad, Valid
  <2> QED
    BY <1>1, <2>1 DEF Safe, Headers, AtMostOne
<1> QED
  BY <1>2, <1>3, <1>4

LEMMA ScanEndSafe ==
  ASSUME Safe, ScanEnd
  PROVE  Safe'
<1>1. /\ pc = "initPage" /\ offset > Len(items[pg]) /\ offset' = 0
      /\ UNCHANGED <<items, pgHdr, pgRes, op, newPg, oldPg, stat, resets, expect>>
      /\ Slots' = Slots /\ Used' = Used /\ \A y : ItemAt(y)' = ItemAt(y)
  BY SameFlash DEF ScanEnd, flash
<1>2. /\ Shape /\ items \in [Pages -> Seq(Item)]
      /\ pg \in Pages /\ pg \in Nat /\ offset \in Nat /\ findDups \in BOOLEAN
      /\ pgRes \in Pages \union {NULL}
      /\ Used \subseteq Slots
      /\ \A x, y \in Used : x # y /\ ItemAt(x).id = ItemAt(y).id /\ Valid(ItemAt(x)) /\ Valid(ItemAt(y))
           => ItemAt(x).old # ItemAt(y).old
      /\ \A x \in Used : Passed(x) =>
           /\ Valid(ItemAt(x))
           /\ IF findDups
              THEN ItemAt(x).old \/ \A y \in Used : ItemAt(y).id = ItemAt(x).id => ~ ItemAt(y).old
              ELSE ~ ItemAt(x).old
  BY <1>1, WalkKnows
<1>3. ASSUME NEW x \in Used, x[1] < pg \/ x[1] = pg
      PROVE  Passed(x)
  <2>1. x[1] \in Nat /\ x[2] \in DOMAIN items[x[1]] /\ x[1] \in Pages
    BY <1>2, <1>3, SlotParts, Numbers
  <2>2. x[1] = pg => x[2] < offset
    <3> SUFFICES ASSUME x[1] = pg
                 PROVE  x[2] < offset
      OBVIOUS
    <3>1. Len(items[pg]) \in Nat /\ x[2] \in 1 .. Len(items[pg])
      BY <1>2, <2>1, Lengths
    <3> QED
      BY <1>1, <1>2, <3>1
  <2> QED
    BY <1>2, <1>3, <2>1, <2>2 DEF Passed
<1>4. offset > 0
  <2>1. Len(items[pg]) \in Nat
    BY <1>2, Lengths
  <2> QED
    BY <1>1, <1>2, <2>1
<1>5. resets = 0 =>
        /\ newPg = NULL /\ \A p \in Pages : items[p] = <<>>
        /\ pgRes \in Pages /\ (pgRes < pg \/ pgRes = pg)
        /\ \A p \in Pages : IF (p < pg \/ p = pg) /\ p # pgRes THEN InUse(p) ELSE Erased(p)
  BY <1>1, <1>4, Numbers DEF Safe, FirstStart, ScanPcs
<1>6. CASE pg < PageCnt
  <2>1. pg' = pg + 1 /\ UNCHANGED <<pc, findDups>> /\ pg' \in Pages
    BY <1>2, <1>6, Numbers DEF ScanEnd, Pages
  <2>2. Shape' /\ Readable' /\ Headers'
    BY <1>1, <1>2, <2>1, WalkOnlyReads
  <2>3. ASSUME NEW x \in Used, Passed(x)'
        PROVE  Passed(x)
    <3>1. x[1] \in Nat /\ x[2] \in Nat /\ x[2] > 0
      BY <1>2, <2>3, SlotParts, Numbers
    <3>2. x[1] < pg + 1
      BY <1>1, <2>1, <2>3, <3>1 DEF Passed
    <3>3. x[1] < pg \/ x[1] = pg
      BY <1>2, <3>1, <3>2
    <3> QED
      BY <1>3, <3>3
  <2>4. Walk'
    <3>1. \A x \in Used' : Passed(x)' =>
            /\ Valid(ItemAt(x))
            /\ IF findDups'
               THEN ItemAt(x).old \/ \A y \in Used' : ItemAt(y).id = ItemAt(x).id => ~ ItemAt(y).old
               ELSE ~ ItemAt(x).old
      BY <1>1, <1>2, <2>1, <2>3
    <3> QED
      BY <1>1, <2>1, <3>1, WalkHolds
  <2>5. Calling' /\ Writing' /\ Compacting' /\ Settled' /\ Room'
    BY <1>1, <2>1 DEF Calling, Writing, Compacting, Settled, Room, WritePcs, CompactPcs
  <2>6. Unmarked'
    BY <1>1, <2>1 DEF Safe, Unmarked, CompactPcs
  <2>7. FirstStart'
    <3> SUFFICES ASSUME resets = 0
                 PROVE  FirstStart'
      BY <1>1 DEF FirstStart
    <3>1. pgRes' \in Pages /\ pgRes' < pg'
      BY <1>1, <1>2, <1>5, <2>1, Numbers
    <3>2. ASSUME NEW p \in Pages
          PROVE  IF p < pg' /\ p # pgRes' THEN InUse(p)' ELSE Erased(p)'
      <4>1. p < pg' <=> (p < pg \/ p = pg)
        BY <1>2, <2>1, Numbers
      <4> QED
        BY <1>1, <1>5, <4>1 DEF InUse, Erased
    <3>3. pc' = "initPage" /\ pc' \notin CompactPcs /\ pc' \notin WritePcs
      BY <1>1, <2>1 DEF CompactPcs, WritePcs
    <3>4. newPg' = NULL /\ \A p \in Pages : items'[p] = <<>>
      BY <1>1, <1>5
    <3>5. \A p \in Pages : IF (p < pg' \/ (p = pg' /\ offset' > 0)) /\ p # pgRes' THEN InUse(p)' ELSE Erased(p)'
      BY <1>1, <3>2
    <3> QED
      BY <3>1, <3>3, <3>4, <3>5 DEF FirstStart
  <2> QED
    BY <2>2, <2>4, <2>5, <2>6, <2>7 DEF Safe
<1>7. CASE ~ (pg < PageCnt)
  <2>1. pg' = NULL /\ findDups' = FALSE /\ pc' = "resume" /\ pg = PageCnt
    BY <1>2, <1>7, Numbers DEF ScanEnd
  <2>2. Shape' /\ Readable' /\ Headers'
    BY <1>1, <2>1, WalkOnlyReads
  <2>3. \A x \in Used : Passed(x)
    <3> SUFFICES ASSUME NEW x \in Used
                 PROVE  x[1] < pg \/ x[1] = pg
      BY <1>3
    <3>1. x[1] \in Nat /\ x[1] <= PageCnt
      BY <1>2, SlotParts, Numbers
    <3> QED
      BY <1>2, <2>1, <3>1
  <2>4. Clean(Used)
    <3>1. \A x \in Used : Valid(ItemAt(x))
      BY <1>2, <2>3
    <3>2. ASSUME NEW x \in Used, NEW y \in Used, ItemAt(y).id = ItemAt(x).id, y # x
          PROVE  FALSE
      <4>1. ItemAt(x).old # ItemAt(y).old
        BY <1>2, <3>1, <3>2
      <4>2. ItemAt(x).old \in BOOLEAN /\ ItemAt(y).old \in BOOLEAN
        BY <1>2, ItemsAreItems
      <4>3. CASE findDups
        <5>1. ItemAt(x).old \/ \A z \in Used : ItemAt(z).id = ItemAt(x).id => ~ ItemAt(z).old
          BY <1>2, <2>3, <4>3
        <5>2. ItemAt(y).old \/ \A z \in Used : ItemAt(z).id = ItemAt(y).id => ~ ItemAt(z).old
          BY <1>2, <2>3, <4>3
        <5> QED
          BY <3>2, <4>1, <4>2, <5>1, <5>2
      <4>4. CASE ~ findDups
        BY <1>2, <2>3, <4>1, <4>2, <4>4
      <4> QED
        BY <4>3, <4>4
    <3> QED
      BY <3>1, <3>2 DEF Clean
  <2>5. Calling' /\ Writing' /\ Compacting' /\ Room'
    BY <2>1 DEF Calling, Writing, Compacting, Room, WritePcs, CompactPcs
  <2>6. Settled'
    BY <1>1, <2>4 DEF Settled, Clean, Valid
  <2>7. Unmarked'
    BY <1>1, <2>1 DEF Safe, Unmarked, CompactPcs
  <2>8. FirstStart'
    <3> SUFFICES ASSUME resets = 0
                 PROVE  FirstStart'
      BY <1>1 DEF FirstStart
    <3>1. pc' = "resume" /\ pc' \notin CompactPcs /\ pc' \notin WritePcs
      BY <2>1 DEF CompactPcs, WritePcs
    <3>2. newPg' = NULL /\ (\A p \in Pages : items'[p] = <<>>) /\ pgRes' \in Pages
      BY <1>1, <1>5
    <3>3. \A p \in Pages : IF p # pgRes' THEN InUse(p)' ELSE Erased(p)'
      <4>1. \A p \in Pages : p < pg \/ p = pg
        BY <1>2, <2>1, Numbers
      <4> QED
        BY <1>1, <1>5, <4>1 DEF InUse, Erased
    <3> QED
      BY <3>1, <3>2, <3>3 DEF FirstStart
  <2>9. Walk'
    BY <1>1, <1>2, <2>1, WalkKnows DEF Walk
  <2> QED
    BY <2>2, <2>5, <2>6, <2>7, <2>8, <2>9 DEF Safe
<1> QED
  BY <1>6, <1>7

LEMMA ResumeSafe ==
  ASSUME Safe, Resume
  PROVE  Safe'
<1>1. /\ pc = "resume"
      /\ pgRes' = (IF pgRes = NULL /\ newPg # NULL /\ oldPg # NULL THEN newPg ELSE pgRes)
      /\ pgHdr' = (IF pgRes # NULL /\ newPg # NULL THEN [pgHdr EXCEPT ![newPg].inUse = TRUE] ELSE pgHdr)
      /\ UNCHANGED <<items, stat, resets>>
      /\ Slots' = Slots /\ Used' = Used /\ \A y : ItemAt(y)' = ItemAt(y)
  BY SameFlash DEF Resume
<1>2. /\ Shape /\ pgHdr \in [Pages -> PageHdr]
      /\ pgRes \in Pages \union {NULL}
      /\ newPg \in Pages \union {NULL} /\ oldPg \in Pages \union {NULL}
      /\ expect \in [Ids -> SUBSET (Vals \union {Absent})]
      /\ pgRes # NULL => items[pgRes] = <<>> /\ ~ pgHdr[pgRes].xfer
      /\ oldPg # NULL => pgHdr[oldPg].inUse /\ pgHdr[oldPg].xfer
      /\ newPg # NULL => pgHdr[newPg].active /\ ~ pgHdr[newPg].inUse
      /\ offset = 0 /\ ~ findDups
      /\ resets = 0 => newPg = NULL /\ pgRes \in Pages
  BY <1>1 DEF Safe, Shape, Walk, FirstStart, ScanPcs
<1>3. Clean(Used)
  <2>1. Fresh = {}
    BY <1>1 DEF Fresh, WritePcs, CopyPcs
  <2> QED
    BY <1>1, <2>1 DEF Safe, Settled, Clean
<1>4. Clean(Used)'
  BY <1>1, <1>3 DEF Clean, Valid
<1>5. pgHdr' \in [Pages -> PageHdr]
  <2>1. CASE pgRes # NULL /\ newPg # NULL
    BY <1>1, <1>2, <2>1 DEF PageHdr
  <2> QED
    BY <1>1, <1>2, <2>1
<1>6. CASE /\ newPg # NULL /\ oldPg # NULL
           /\ pc' = "mark" /\ pg' = oldPg /\ newPg' = NULL /\ oldPg' = NULL
           /\ UNCHANGED <<op, offset, lost, findDups, expect>>
  <2>1. pc' \in CompactPcs /\ pc' \notin CopyPcs /\ pc' \notin WritePcs /\ pc' \notin ScanPcs
    BY <1>6 DEF CompactPcs, CopyPcs, WritePcs, ScanPcs
  <2>2. resets' # 0
    BY <1>1, <1>2, <1>6
  <2>3. pgRes' \in Pages /\ pg' \in Pages /\ pg' # pgRes'
    BY <1>1, <1>2, <1>6
  <2>4. Shape'
    BY <1>1, <1>2, <1>5, <1>6, <2>1, <2>3 DEF Shape, Fits
  <2>5. Calling' /\ Writing'
    BY <1>6 DEF Calling, Writing, WritePcs
  <2>6. Compacting'
    BY <1>6, <2>3 DEF Compacting, CompactPcs, CopyPcs
  <2>7. Fresh' = {}
    BY <2>1 DEF Fresh
  <2>8. Settled'
    BY <1>4, <2>7 DEF Settled, Clean
  <2>9. Readable'
    <3>1. /\ \A x \in Used : ItemAt(x).data \in expect[ItemAt(x).id]
          /\ \A i \in Ids : (\A x \in Used : ItemAt(x).id # i) => Absent \in expect[i]
      BY <1>1, <1>3, CleanReads
    <3> QED
      BY <1>1, <1>4, <1>6, <3>1, ReadsClean
  <2>10. Room'
    <3>1. AtMostOne(Bad(pgRes'))
      <4>1. CASE pgRes = NULL
        BY <1>1, <1>2, <1>6, <4>1 DEF Safe, Headers
      <4>2. CASE pgRes # NULL
        <5>1. pgRes' = pgRes /\ pgRes \in Pages /\ items[pgRes] = <<>>
          BY <1>1, <1>2, <4>2
        <5>2. \A x \in Slots : x[1] # pgRes
          BY <5>1, NoItems
        <5> QED
          BY <5>1, <5>2 DEF Bad, AtMostOne
      <4> QED
        BY <4>1, <4>2
    <3>2. Bad(pgRes)' = Bad(pgRes')
      BY <1>1 DEF Bad, Valid
    <3> QED
      BY <1>6, <2>1, <2>7, <3>1, <3>2 DEF Room, AtMostOne
  <2>11. Headers'
    BY <1>6, <2>2 DEF Headers
  <2>12. Unmarked' /\ FirstStart'
    BY <2>2 DEF Unmarked, FirstStart
  <2>13. Walk'
    BY <1>6 DEF Walk
  <2> QED
    BY <2>4, <2>5, <2>6, <2>8, <2>9, <2>10, <2>11, <2>12, <2>13 DEF Safe
<1>7. CASE /\ newPg = NULL \/ oldPg = NULL
           /\ pgRes = NULL
           /\ pc' = "eraseAll" /\ pg' = 1 /\ newPg' = NULL /\ oldPg' = NULL
           /\ UNCHANGED <<op, offset, lost, findDups, expect>>
  <2>1. resets' # 0 /\ pgRes' = NULL
    BY <1>1, <1>2, <1>7, Numbers
  <2>2. Shape'
    BY <1>1, <1>2, <1>5, <1>7, <2>1, Numbers DEF Shape, Fits, ScanPcs
  <2>3. Readable' /\ Headers'
    BY <1>7, <2>1 DEF Readable, Headers
  <2>4. \A p \in Pages : ~ (p < 1)
    BY Numbers
  <2>5. Walk'
    BY <1>2, <1>7, <2>1, <2>4, Numbers DEF Walk
  <2> QED
    BY <1>7, <2>1, <2>2, <2>3, <2>5, WalkGoesOn
<1>8. CASE /\ newPg = NULL \/ oldPg = NULL
           /\ pgRes # NULL
           /\ Idle
           /\ expect' = Found
  <2>1. /\ pc' = "idle" /\ pg' = NULL /\ offset' = 0 /\ findDups' = FALSE /\ newPg' = NULL /\ oldPg' = NULL
        /\ pgRes' = pgRes /\ pgRes \in Pages
    BY <1>1, <1>2, <1>8 DEF Idle, NoScan
  <2>2. pc' \notin CompactPcs /\ pc' \notin CopyPcs /\ pc' \notin WritePcs /\ pc' \notin ScanPcs
    BY <2>1 DEF CompactPcs, CopyPcs, WritePcs, ScanPcs
  <2>3. Readable' /\ expect' \in [Ids -> SUBSET (Vals \union {Absent})]
    BY <1>1, <1>3, <1>8, FoundReads
  <2>4. Shape'
    BY <1>1, <1>2, <1>5, <2>1, <2>3, Numbers DEF Shape, Fits
  <2>5. Calling' /\ Writing' /\ Compacting'
    BY <2>1, <2>2 DEF Calling, Writing, Compacting, WritePcs
  <2>6. Settled'
    <3>1. Fresh' = {}
      BY <2>2 DEF Fresh
    <3> QED
      BY <1>4, <3>1 DEF Settled, Clean
  <2>7. Room'
    <3>1. items'[pgRes'] = <<>>
      BY <1>1, <1>2, <1>8, <2>1
    <3> QED
      BY <2>1, <2>2, <3>1 DEF Room
  <2>8. Unmarked'
    BY <1>1, <2>1, <2>2 DEF Safe, Unmarked
  <2>9. FirstStart'
    BY <1>1, <1>2, <2>1, <2>2 DEF Safe, FirstStart, Erased, InUse, WritePcs, CompactPcs, ScanPcs
  <2>10. Headers'
    BY <2>2, <2>4, <2>5, <2>6, <2>7, <2>8, <2>9, HeadersHold
  <2>11. Walk'
    BY <2>1 DEF Walk
  <2> QED
    BY <2>3, <2>4, <2>5, <2>6, <2>7, <2>8, <2>9, <2>10, <2>11 DEF Safe
<1> QED
  BY <1>6, <1>7, <1>8 DEF Resume

LEMMA EraseAllSafe ==
  ASSUME Safe, EraseAll
  PROVE  Safe'
<1>1. /\ pc = "eraseAll" /\ items' = [items EXCEPT ![pg] = <<>>]
      /\ pgHdr' = [pgHdr EXCEPT ![pg] = ErasedHdr]
      /\ UNCHANGED <<pgRes, op, offset, findDups, newPg, oldPg, stat, resets>>
  BY DEF EraseAll, erasePage
<1>2. /\ Shape /\ items \in [Pages -> Seq(Item)] /\ Fits /\ pgHdr \in [Pages -> PageHdr]
      /\ pgRes = NULL /\ newPg = NULL /\ oldPg = NULL /\ ~ findDups /\ offset = 0
      /\ pg \in Pages /\ pg \in Nat /\ \A p \in Pages : p < pg => items[p] = <<>> /\ Erased(p)
      /\ resets # 0
  BY <1>1, Numbers DEF Safe, Shape, Walk, FirstStart, ScanPcs
<1>3. /\ items' \in [Pages -> Seq(Item)] /\ Fits'
      /\ items'[pg] = <<>> /\ \A q \in Pages : q # pg => items'[q] = items[q]
  BY <1>1, <1>2, EraseAt
<1>4. /\ pgHdr' \in [Pages -> PageHdr]
      /\ \A p \in Pages : p # pg => pgHdr'[p] = pgHdr[p]
      /\ pgHdr'[pg] = ErasedHdr
  BY <1>1, <1>2 DEF PageHdr, ErasedHdr
<1>5. \A p \in Pages : p < pg \/ p = pg => items'[p] = <<>> /\ Erased(p)'
  BY <1>2, <1>3, <1>4 DEF Erased, ErasedHdr
<1>6. CASE pg < PageCnt
  <2>1. pg' = pg + 1 /\ UNCHANGED <<pc, expect>> /\ pg' \in Pages
    BY <1>2, <1>6, Numbers DEF EraseAll, Pages
  <2>2. Shape'
    BY <1>1, <1>2, <1>3, <1>4, <2>1 DEF Shape
  <2>3. Readable' /\ Headers'
    BY <1>1, <1>2, <2>1 DEF Readable, Headers
  <2>4. \A p \in Pages : p < pg' => items'[p] = <<>> /\ Erased(p)'
    <3>1. \A p \in Pages : p < pg + 1 => p < pg \/ p = pg
      BY <1>2, Numbers
    <3> QED
      BY <1>5, <2>1, <3>1
  <2>5. Walk'
    BY <1>1, <1>2, <2>1, <2>4 DEF Walk
  <2> QED
    BY <1>1, <1>2, <2>1, <2>2, <2>3, <2>5, WalkGoesOn
<1>7. CASE ~ (pg < PageCnt)
  <2>1. pg' = 1 /\ pc' = "initPage" /\ expect' = [i \in Ids |-> {Absent}] /\ pg = PageCnt
    BY <1>2, <1>7, Numbers DEF EraseAll
  <2>2. \A p \in Pages : items'[p] = <<>> /\ Erased(p)'
    <3>1. \A p \in Pages : p < pg \/ p = pg
      BY <1>2, <2>1, Numbers
    <3> QED
      BY <1>5, <3>1
  <2>3. Used' = {}
    BY <2>2 DEF Used, Slots
  <2>4. Shape'
    BY <1>1, <1>2, <1>3, <1>4, <2>1, Numbers DEF Shape, ScanPcs
  <2>5. Readable'
    BY <2>1, <2>3 DEF Readable
  <2>6. Headers'
    BY <2>2 DEF Headers, Erased
  <2>7. Walk'
    BY <1>1, <1>2, <2>1, <2>3, Numbers DEF Walk
  <2> QED
    BY <1>1, <1>2, <2>1, <2>4, <2>5, <2>6, <2>7, WalkGoesOn
<1> QED
  BY <1>6, <1>7

(* A reset: what initNV relies on holds at every step of the first run.    *)
LEMMA Twins ==
  ASSUME NEW f, items \in [Pages -> Seq(Item)], Clean(Used \ {f}),
         f \in Used /\ Valid(ItemAt(f)) =>
           \A y \in Used \ {f} : ItemAt(y).id = ItemAt(f).id => ItemAt(y).old /\ ~ ItemAt(f).old
  PROVE  \A x, y \in Used : x # y /\ ItemAt(x).id = ItemAt(y).id /\ Valid(ItemAt(x)) /\ Valid(ItemAt(y))
           => ItemAt(x).old # ItemAt(y).old
<1> SUFFICES ASSUME NEW x \in Used, NEW y \in Used, x # y, ItemAt(x).id = ItemAt(y).id,
                    Valid(ItemAt(x)), Valid(ItemAt(y)), ItemAt(x).old = ItemAt(y).old
             PROVE  FALSE
  OBVIOUS
<1>1. CASE x = f
  BY <1>1
<1>2. CASE y = f
  BY <1>2
<1>3. CASE x # f /\ y # f
  BY <1>3 DEF Clean
<1> QED
  BY <1>1, <1>2, <1>3

LEMMA ResetKeeps ==
  ASSUME Safe, resets = 0
  PROVE  /\ \A x, y \in Used : x # y /\ ItemAt(x).id = ItemAt(y).id /\ Valid(ItemAt(x)) /\ Valid(ItemAt(y))
              => ItemAt(x).old # ItemAt(y).old
         /\ \A x \in Used : ItemAt(x).old => Valid(ItemAt(x))
<1>1. Shape /\ items \in [Pages -> Seq(Item)]
  BY DEF Safe, Shape
<1>2. CASE pc \in ScanPcs
  <2>1. \A p \in Pages : items[p] = <<>>
    BY <1>2 DEF Safe, FirstStart
  <2>2. Used = {}
    BY <2>1 DEF Used, Slots
  <2> QED
    BY <2>2
<1>3. CASE pc \in WritePcs
  <2>1. /\ NewItem \in Used /\ ~ ItemAt(NewItem).old
        /\ \A x \in Used \ {NewItem} : Valid(ItemAt(x))
        /\ \A x, y \in Used \ {NewItem} : ItemAt(x).id = ItemAt(y).id => y = x
        /\ ItemAt(NewItem).id = op.id
        /\ IF op.src[1] = NULL
           THEN \A x \in Used \ {NewItem} : ItemAt(x).id # op.id
           ELSE op.src \in Used /\ op.src # NewItem /\ ItemAt(op.src).id = op.id
    BY <1>3, WriteKnows
  <2>2. PICK f : f = NewItem
    OBVIOUS
  <2>3. ItemAt(f) = ItemAt(NewItem)
    BY <2>2
  <2>4. Clean(Used \ {f})
    BY <2>1, <2>2 DEF Clean
  <2>5. ASSUME Valid(ItemAt(f)), NEW y \in Used \ {f}, ItemAt(y).id = ItemAt(f).id
        PROVE  ItemAt(y).old /\ ~ ItemAt(f).old
    <3>1. pc = "zero"
      <4>1. ItemAt(f).chk # Blank
        BY <2>5 DEF Valid
      <4> QED
        BY <1>3, <2>3, <4>1 DEF Safe, Writing
    <3>2. op.src[1] # NULL /\ ItemAt(op.src).old
      BY <3>1 DEF Safe, Writing, WritePcs
    <3>3. y = op.src
      BY <2>1, <2>2, <2>3, <2>5, <3>2
    <3> QED
      BY <2>1, <2>3, <3>2, <3>3
  <2>6. \A x \in Used : ItemAt(x).old => Valid(ItemAt(x))
    BY <2>1
  <2> QED
    BY <1>1, <2>4, <2>5, <2>6, Twins
<1>4. CASE pc \in CopyPcs
  <2>1. /\ Here \in Used /\ Copy \in Used /\ Here # Copy
        /\ ItemAt(Here).old /\ Valid(ItemAt(Here))
        /\ ItemAt(Copy).id = ItemAt(Here).id
    BY <1>4, CopyKnows
  <2>2. Clean(Used \ {Copy})
    <3>1. Fresh = {Copy} /\ pc \notin {"initPage", "eraseAll"}
      BY <1>4 DEF Fresh, CopyPcs, WritePcs
    <3> QED
      BY <3>1 DEF Safe, Settled, Clean
  <2>3. \A x \in Used : ItemAt(x).old => x = Here
    BY <1>4 DEF Safe, Unmarked, CopyPcs
  <2>4. PICK f, h : f = Copy /\ h = Here
    OBVIOUS
  <2>5. ItemAt(f) = ItemAt(Copy) /\ ItemAt(h) = ItemAt(Here)
    BY <2>4
  <2>6. ASSUME NEW y \in Used \ {f}, ItemAt(y).id = ItemAt(f).id
        PROVE  ItemAt(y).old /\ ~ ItemAt(f).old
    <3>1. h \in Used \ {f} /\ ItemAt(h).id = ItemAt(f).id /\ ItemAt(h).old
      BY <2>1, <2>4, <2>5
    <3>2. y = h
      BY <2>2, <2>4, <2>6, <3>1 DEF Clean
    <3>3. ~ ItemAt(f).old
      BY <2>1, <2>3, <2>4, <2>5
    <3> QED
      BY <3>1, <3>2, <3>3
  <2>7. \A x \in Used : ItemAt(x).old => Valid(ItemAt(x))
    BY <2>1, <2>3
  <2>8. Clean(Used \ {f})
    BY <2>2, <2>4
  <2> QED
    BY <1>1, <2>6, <2>7, <2>8, Twins
<1>5. CASE pc \notin ScanPcs \union WritePcs \union CopyPcs
  <2>1. Fresh = {} /\ pc \notin {"initPage", "eraseAll"}
    BY <1>5 DEF Fresh, ScanPcs
  <2> QED
    BY <2>1 DEF Safe, Settled, Clean
<1> QED
  BY <1>2, <1>3, <1>4, <1>5

LEMMA ResetSafe ==
  ASSUME Safe, Reset, resets = 0
  PROVE  Safe'
<1>1. /\ UNCHANGED <<pgHdr, items, expect>> /\ resets' = 1
      /\ pgRes' = NULL /\ pc' = "initPage" /\ op' = NoOp /\ stat' = FALSE
      /\ pg' = 1 /\ offset' = 0 /\ findDups' = FALSE /\ newPg' = NULL /\ oldPg' = NULL
      /\ Slots' = Slots /\ Used' = Used /\ \A y : ItemAt(y)' = ItemAt(y)
  BY SameFlash DEF Reset, flash
<1>2. Shape'
  BY <1>1, Numbers DEF Safe, Shape, Fits, ScanPcs
<1>3. pc # "eraseAll"
  BY DEF Safe, FirstStart, ScanPcs
<1>4. Readable'
  <2>1. \A x : Current(x)' <=> Current(x)
    BY <1>1 DEF Current, Valid
  <2> QED
    BY <1>1, <1>3, <2>1 DEF Safe, Readable, Valid
<1>5. Headers'
  <2>1. \A p \in Pages : Bad(p)' = Bad(p)
    BY <1>1 DEF Bad, Valid
  <2> QED
    BY <1>1, <2>1 DEF Safe, Headers, AtMostOne
<1>6. Walk'
  <2>1. \A x \in Used : ~ Passed(x)'
    <3> SUFFICES ASSUME NEW x \in Used
                 PROVE  ~ (x[1] < 1 \/ (x[1] = 1 /\ x[2] < 0))
      BY <1>1 DEF Passed
    <3>1. x[1] \in Nat /\ x[1] > 0 /\ x[2] \in Nat
      BY SlotParts, Numbers DEF Used
    <3> QED
      BY <3>1
  <2>2. /\ \A x, y \in Used' : x # y /\ ItemAt(x)'.id = ItemAt(y)'.id /\ Valid(ItemAt(x))' /\ Valid(ItemAt(y))'
             => ItemAt(x)'.old # ItemAt(y)'.old
        /\ \A x \in Used' : ItemAt(x)'.old => Valid(ItemAt(x))'
    BY <1>1, ResetKeeps DEF Valid
  <2> QED
    BY <1>1, <2>1, <2>2, Numbers DEF Walk
<1> QED
  BY <1>1, <1>2, <1>4, <1>5, <1>6, WalkGoesOn

-----------------------------------------------------------------------------
LEMMA InitSafe ==
  ASSUME Init
  PROVE  Safe
<1>1. \A p \in Pages : items[p] = <<>> /\ Erased(p) /\ ~ pgHdr[p].active /\ ~ pgHdr[p].xfer
  BY DEF Init, Erased, ErasedHdr
<1>2. Used = {}
  BY <1>1 DEF Used, Slots
<1>3. Shape
  <2>1. pgHdr \in [Pages -> PageHdr] /\ items \in [Pages -> Seq(Item)] /\ Fits
    BY Numbers DEF Init, PageHdr, ErasedHdr, Fits
  <2>2. expect \in [Ids -> SUBSET (Vals \union {Absent})]
    BY DEF Init
  <2> QED
    BY <2>1, <2>2, Numbers DEF Init, Shape, ScanPcs
<1>4. Calling /\ Writing /\ Compacting /\ Settled /\ Room
  BY DEF Init, Calling, Writing, Compacting, Settled, Room, WritePcs, CompactPcs
<1>5. Readable
  BY <1>2 DEF Init, Readable
<1>6. Headers
  BY <1>1 DEF Headers
<1>7. Unmarked
  BY <1>2 DEF Init, Unmarked, CompactPcs
<1>8. FirstStart
  <2>1. pc = "initPage" /\ pc \notin CompactPcs /\ pc \notin WritePcs
        /\ pg = 1 /\ offset = 0 /\ pgRes = NULL /\ newPg = NULL
    BY DEF Init, CompactPcs, WritePcs
  <2>2. \A p \in Pages : ~ (p < 1 \/ (p = 1 /\ 0 > 0))
    BY Numbers
  <2>3. ~ (pg > 1 \/ offset > 0)
    BY <2>1
  <2> QED
    BY <1>1, <2>1, <2>2, <2>3 DEF FirstStart
<1>9. Walk
  BY <1>2, Numbers DEF Init, Walk
<1> QED
  BY <1>3, <1>4, <1>5, <1>6, <1>7, <1>8, <1>9 DEF Safe

-----------------------------------------------------------------------------
(* What is there after any reset, spelled out for the states of the call.  *)
LEMMA SafePlaced ==
  ASSUME Safe
  PROVE  Placed
<1>1. Shape /\ Calling /\ Writing /\ Compacting
  BY DEF Safe
<1>2. Whole
  BY DEF Safe, Settled, Clean, Whole
<1>3. Emptied
  BY DEF Safe, Room, Emptied
<1>4. Rewalk
  <2>1. Walk /\ Headers
    BY DEF Safe
  <2> QED
    BY <2>1 DEF Walk, Headers, Rewalk
<1> QED
  BY <1>1, <1>2, <1>3, <1>4 DEF Placed

LEMMA WritePlaced ==
  ASSUME Placed, pc \in WritePcs
  PROVE  /\ Shape /\ items \in [Pages -> Seq(Item)] /\ Fits /\ pgRes \in Pages
         /\ op.id \in Ids /\ op.val \in Vals /\ op.val \in expect[op.id]
         /\ op.comPg \in Pages \ {pgRes} /\ op.dstPg \in {pgRes, op.comPg}
         /\ NewItem \in Slots /\ NewItem \in Used /\ NewItem[1] = op.dstPg
         /\ ItemAt(NewItem).id = op.id /\ ~ ItemAt(NewItem).old
         /\ IF op.src[1] = NULL
            THEN \A x \in Used \ {NewItem} : ItemAt(x).id # op.id
            ELSE op.src \in Used /\ op.src # NewItem /\ ItemAt(op.src).id = op.id
         /\ Used \subseteq Slots
         /\ Fresh = {NewItem}
         /\ \A x \in Used \ {NewItem} : Valid(ItemAt(x))
         /\ IF op.dstPg = pgRes THEN Len(items[pgRes]) = 1 ELSE items[pgRes] = <<>>
<1>1. Shape /\ items \in [Pages -> Seq(Item)] /\ Fits /\ pgRes \in Pages
  BY DEF Placed, Shape, ScanPcs, WritePcs
<1>2. /\ op.id \in Ids /\ op.val \in Vals /\ op.val \in expect[op.id]
      /\ op.comPg \in Pages \ {pgRes} /\ op.dstPg \in {pgRes, op.comPg}
  BY DEF Placed, Calling
<1>3. /\ NewItem \in Slots /\ ItemAt(NewItem).id = op.id /\ ~ ItemAt(NewItem).old
      /\ IF op.src[1] = NULL
         THEN \A x \in Used \ {NewItem} : ItemAt(x).id # op.id
         ELSE op.src \in Used /\ op.src # NewItem /\ ItemAt(op.src).id = op.id
  BY DEF Placed, Writing
<1>4. NewItem \in Used /\ Used \subseteq Slots
  BY <1>2, <1>3, Numbers DEF Used
<1>5. Fresh = {NewItem}
  BY DEF Fresh
<1>6. \A x \in Used \ {NewItem} : Valid(ItemAt(x))
  BY <1>5 DEF Placed, Whole, WritePcs
<1>7. NewItem[1] = op.dstPg
  BY DEF NewItem
<1>8. IF op.dstPg = pgRes THEN Len(items[pgRes]) = 1 ELSE items[pgRes] = <<>>
  BY DEF Placed, Emptied
<1> QED
  BY <1>1, <1>2, <1>3, <1>4, <1>5, <1>6, <1>7, <1>8

LEMMA CompactPlaced ==
  ASSUME Placed, pc \in CompactPcs
  PROVE  /\ Shape /\ items \in [Pages -> Seq(Item)] /\ Fits
         /\ pgRes \in Pages /\ pg \in Pages /\ pg # pgRes
         /\ Used \subseteq Slots
         /\ IF pc \in CopyPcs THEN Fresh = {Copy} ELSE Fresh = {}
         /\ \A x \in Used \ Fresh : Valid(ItemAt(x))
<1>1. Shape /\ items \in [Pages -> Seq(Item)] /\ Fits /\ pgRes \in Pages
  BY DEF Placed, Shape, ScanPcs, CompactPcs
<1>2. pg \in Pages /\ pg # pgRes
  BY DEF Placed, Compacting
<1>3. Used \subseteq Slots
  BY DEF Used
<1>4. \A x \in Used \ Fresh : Valid(ItemAt(x))
  BY DEF Placed, Whole, CompactPcs
<1>5. IF pc \in CopyPcs THEN Fresh = {Copy} ELSE Fresh = {}
  BY DEF Fresh, CompactPcs, WritePcs
<1> QED
  BY <1>1, <1>2, <1>3, <1>4, <1>5

LEMMA CopyPlaced ==
  ASSUME Placed, pc \in CopyPcs
  PROVE  /\ Here \in Used /\ Here \in Slots /\ Copy \in Used /\ Copy \in Slots
         /\ Here[1] = pg /\ Here[2] = offset /\ Copy[1] = pgRes /\ Here # Copy
         /\ ItemAt(Here).old /\ Valid(ItemAt(Here))
         /\ offset \in Nat /\ offset > 0 /\ \A x \in Used : x[1] = pg => x[2] >= offset
         /\ ItemAt(Copy).id = ItemAt(Here).id /\ ItemAt(Copy).chk = ItemAt(Here).chk
         /\ ItemAt(Copy).data = IF pc = "copyData" THEN Blank ELSE ItemAt(Here).data
         /\ \A x \in Used \ {Copy} : Valid(ItemAt(x))
<1>1. pc \in CompactPcs /\ pc \notin {"mark", "erase", "finish"}
      /\ pc \in {"copyHdr", "copyData", "copyZero"}
  BY DEF CopyPcs, CompactPcs
<1>2. /\ Shape /\ pgRes \in Pages /\ pg \in Pages /\ pg # pgRes /\ Used \subseteq Slots
      /\ Fresh = {Copy} /\ \A x \in Used \ {Copy} : Valid(ItemAt(x))
  BY <1>1, CompactPlaced
<1>3. /\ Here \in Used /\ ItemAt(Here).old /\ Valid(ItemAt(Here))
      /\ offset > 0 /\ \A x \in Used : x[1] = pg => x[2] >= offset
      /\ Copy \in Slots /\ ItemAt(Copy).id = ItemAt(Here).id /\ ItemAt(Copy).chk = ItemAt(Here).chk
      /\ ItemAt(Copy).data = IF pc = "copyData" THEN Blank ELSE ItemAt(Here).data
  BY <1>1 DEF Placed, Compacting
<1>4. Here[1] = pg /\ Here[2] = offset /\ Copy[1] = pgRes
  BY DEF Here, Copy
<1>5. Here # Copy /\ Copy \in Used
  BY <1>2, <1>3, <1>4 DEF Used
<1>6. offset \in Nat
  BY <1>2 DEF Shape
<1> QED
  BY <1>2, <1>3, <1>4, <1>5, <1>6

LEMMA WalkPlaced ==
  ASSUME Placed, pc = "initPage"
  PROVE  /\ Shape /\ items \in [Pages -> Seq(Item)] /\ Fits /\ pgHdr \in [Pages -> PageHdr]
         /\ pg \in Pages /\ pg \in Nat /\ offset \in Nat /\ findDups \in BOOLEAN
         /\ pgRes \in Pages \union {NULL}
         /\ newPg \in Pages \union {NULL} /\ oldPg \in Pages \union {NULL}
         /\ Used \subseteq Slots /\ Fresh = {}
         /\ pgRes # NULL => items[pgRes] = <<>> /\ ~ pgHdr[pgRes].xfer
         /\ oldPg # NULL => pgHdr[oldPg].inUse /\ pgHdr[oldPg].xfer
         /\ newPg # NULL => pgHdr[newPg].active /\ ~ pgHdr[newPg].inUse
         /\ \A p \in Pages : ~ pgHdr[p].active => items[p] = <<>> /\ ~ pgHdr[p].xfer
         /\ \A x \in Used : Passed(x) => Valid(ItemAt(x))
<1>1. /\ Shape /\ items \in [Pages -> Seq(Item)] /\ Fits /\ pgHdr \in [Pages -> PageHdr]
      /\ offset \in Nat /\ findDups \in BOOLEAN
      /\ pgRes \in Pages \union {NULL}
      /\ newPg \in Pages \union {NULL} /\ oldPg \in Pages \union {NULL}
  BY DEF Placed, Shape
<1>2. pg \in Pages /\ pg \in Nat
  BY Numbers DEF Placed, Rewalk
<1>3. Used \subseteq Slots /\ Fresh = {}
  BY DEF Used, Fresh, WritePcs, CopyPcs
<1>4. /\ pgRes # NULL => items[pgRes] = <<>> /\ ~ pgHdr[pgRes].xfer
      /\ oldPg # NULL => pgHdr[oldPg].inUse /\ pgHdr[oldPg].xfer
      /\ newPg # NULL => pgHdr[newPg].active /\ ~ pgHdr[newPg].inUse
      /\ \A p \in Pages : ~ pgHdr[p].active => items[p] = <<>> /\ ~ pgHdr[p].xfer
      /\ \A x \in Used : Passed(x) => Valid(ItemAt(x))
  BY DEF Placed, Rewalk
<1> QED
  BY <1>1, <1>2, <1>3, <1>4

-----------------------------------------------------------------------------
(* The counts.                                                             *)
LEMMA GoneCounts ==
  items \in [Pages -> Seq(Item)] /\ Fits =>
    \A p \in Pages :
      /\ IsFiniteSet(Gone(p)) /\ LostIn(p) = Cardinality(Gone(p))
      /\ LostIn(p) \in Nat /\ LostIn(p) <= Len(items[p]) /\ LostIn(p) <= PageItems
      /\ Len(items[p]) \in Nat /\ Len(items[p]) <= PageItems
<1> SUFFICES ASSUME items \in [Pages -> Seq(Item)], Fits, NEW p \in Pages
             PROVE  /\ IsFiniteSet(Gone(p)) /\ LostIn(p) = Cardinality(Gone(p))
                    /\ LostIn(p) \in Nat /\ LostIn(p) <= Len(items[p]) /\ LostIn(p) <= PageItems
                    /\ Len(items[p]) \in Nat /\ Len(items[p]) <= PageItems
  OBVIOUS
<1>1. PICK n \in Nat : n = Len(items[p]) /\ DOMAIN items[p] = 1 .. n /\ n <= PageItems
  BY Lengths DEF Fits
<1>2. IsFiniteSet(1 .. n) /\ Cardinality(1 .. n) = n
  <2>1. /\ IsFiniteSet(1 .. n)
        /\ Cardinality(1 .. n) = IF 1 > n THEN 0 ELSE n - 1 + 1
    BY FS_Interval
  <2> QED
    BY <2>1
<1>3. Gone(p) \in SUBSET (1 .. n)
  BY <1>1 DEF Gone
<1>4. IsFiniteSet(Gone(p)) /\ Cardinality(Gone(p)) <= n
  BY <1>2, <1>3, FS_Subset
<1>5. Cardinality(Gone(p)) \in Nat
  BY <1>4, FS_CardinalityType
<1>6. LostIn(p) = Cardinality(Gone(p))
  BY DEF LostIn, Gone
<1> QED
  BY <1>1, <1>4, <1>5, <1>6, Numbers

LEMMA GoneAt ==
  items \in [Pages -> Seq(Item)] /\ Fits =>
    \A p \in Pages : Gone(p) = {j \in Nat : <<p, j>> \in Slots /\ ItemAt(<<p, j>>).id = Zeroed}
<1> SUFFICES ASSUME items \in [Pages -> Seq(Item)], Fits, NEW p \in Pages
             PROVE  Gone(p) = {j \in Nat : <<p, j>> \in Slots /\ ItemAt(<<p, j>>).id = Zeroed}
  OBVIOUS
<1>1. \A j \in DOMAIN items[p] : <<p, j>> \in Slots /\ ItemAt(<<p, j>>) = items[p][j] /\ j \in Nat
  BY PlaceIsSlot
<1>2. \A j : <<p, j>> \in Slots => j \in DOMAIN items[p]
  BY DEF Slots
<1> QED
  BY <1>1, <1>2 DEF Gone

(* The same after a step.                                                  *)
LEMMA GoneNext ==
  items' \in [Pages -> Seq(Item)] /\ Fits' =>
    \A p \in Pages :
      /\ IsFiniteSet(Gone(p)') /\ LostIn(p)' = Cardinality(Gone(p)')
      /\ LostIn(p)' \in Nat /\ LostIn(p)' <= Len(items'[p]) /\ LostIn(p)' <= PageItems
      /\ Gone(p)' = {j \in Nat : <<p, j>> \in Slots' /\ ItemAt(<<p, j>>)'.id = Zeroed}
<1>1. (items \in [Pages -> Seq(Item)] /\ Fits =>
        \A p \in Pages :
          /\ IsFiniteSet(Gone(p)) /\ LostIn(p) = Cardinality(Gone(p))
          /\ LostIn(p) \in Nat /\ LostIn(p) <= Len(items[p]) /\ LostIn(p) <= PageItems
          /\ Len(items[p]) \in Nat /\ Len(items[p]) <= PageItems)'
  BY GoneCounts, PTL
<1>2. (items \in [Pages -> Seq(Item)] /\ Fits =>
        \A p \in Pages : Gone(p) = {j \in Nat : <<p, j>> \in Slots /\ ItemAt(<<p, j>>).id = Zeroed})'
  BY GoneAt, PTL
<1> QED
  BY <1>1, <1>2

(* A step that zeroes nothing.                                             *)
LEMMA SameGone ==
  ASSUME items \in [Pages -> Seq(Item)], Fits, NEW x \in Slots, NEW it \in Item,
         items' = With(x, it), it.id = ItemAt(x).id
  PROVE  /\ items' \in [Pages -> Seq(Item)] /\ Fits'
         /\ \A p \in Pages : LostIn(p)' = LostIn(p) /\ Len(items'[p]) = Len(items[p])
<1>1. /\ items' \in [Pages -> Seq(Item)] /\ Fits' /\ Slots' = Slots
      /\ \A p \in Pages : Len(items'[p]) = Len(items[p])
      /\ \A y \in Slots : ItemAt(y)' = IF y = x THEN it ELSE ItemAt(y)
  BY WriteAt
<1>2. ASSUME NEW p \in Pages
      PROVE  LostIn(p)' = LostIn(p)
  <2>1. Gone(p)' = {j \in Nat : <<p, j>> \in Slots' /\ ItemAt(<<p, j>>)'.id = Zeroed}
    BY <1>1, GoneNext
  <2>2. Gone(p) = {j \in Nat : <<p, j>> \in Slots /\ ItemAt(<<p, j>>).id = Zeroed}
    BY GoneAt
  <2>3. \A y \in Slots : ItemAt(y)'.id = ItemAt(y).id
    BY <1>1
  <2>4. Gone(p)' = Gone(p)
    BY <1>1, <2>1, <2>2, <2>3
  <2> QED
    BY <1>1, <2>4, GoneCounts, GoneNext
<1> QED
  BY <1>1, <1>2

(* Zeroing an item loses one place in its page, and only there.            *)
LEMMA OneMoreGone ==
  ASSUME items \in [Pages -> Seq(Item)], Fits, NEW x \in Used, items' = With(x, ZeroedItem)
  PROVE  /\ items' \in [Pages -> Seq(Item)] /\ Fits'
         /\ \A p \in Pages : /\ Gone(p)' = IF p = x[1] THEN Gone(p) \union {x[2]} ELSE Gone(p)
                             /\ LostIn(p)' = IF p = x[1] THEN LostIn(p) + 1 ELSE LostIn(p)
                             /\ Len(items'[p]) = Len(items[p])
         /\ x[2] \notin Gone(x[1])
<1>0. /\ x \in Slots /\ ItemAt(x).id # Zeroed
      /\ x[1] \in Pages /\ x = <<x[1], x[2]>> /\ x[2] \in Nat
  BY SlotParts, Numbers DEF Used
<1>1. /\ items' \in [Pages -> Seq(Item)] /\ Fits' /\ Slots' = Slots
      /\ \A p \in Pages : Len(items'[p]) = Len(items[p])
      /\ \A y \in Slots : ItemAt(y)' = IF y = x THEN ZeroedItem ELSE ItemAt(y)
  BY <1>0, NewItems, WriteAt
<1>2. x[2] \notin Gone(x[1])
  BY <1>0, GoneAt
<1>3. ASSUME NEW p \in Pages
      PROVE  Gone(p)' = IF p = x[1] THEN Gone(p) \union {x[2]} ELSE Gone(p)
  <2>1. Gone(p)' = {j \in Nat : <<p, j>> \in Slots' /\ ItemAt(<<p, j>>)'.id = Zeroed}
    BY <1>1, GoneNext
  <2>2. Gone(p) = {j \in Nat : <<p, j>> \in Slots /\ ItemAt(<<p, j>>).id = Zeroed}
    BY GoneAt
  <2>3. \A j : <<p, j>> = x <=> p = x[1] /\ j = x[2]
    BY <1>0
  <2>4. \A j \in Nat : j \in Gone(p)' <=> j \in Gone(p) \/ (p = x[1] /\ j = x[2])
    BY <1>0, <1>1, <2>1, <2>2, <2>3, NewItems
  <2>5. Gone(p)' \subseteq Nat /\ Gone(p) \subseteq Nat
    BY <2>1, <2>2
  <2> QED
    BY <1>0, <2>4, <2>5
<1>4. ASSUME NEW p \in Pages
      PROVE  LostIn(p)' = IF p = x[1] THEN LostIn(p) + 1 ELSE LostIn(p)
  <2>1. LostIn(p) = Cardinality(Gone(p)) /\ IsFiniteSet(Gone(p))
    BY GoneCounts
  <2>2. LostIn(p)' = Cardinality(Gone(p)')
    BY <1>1, GoneNext
  <2> QED
    BY <1>2, <1>3, <2>1, <2>2, FS_AddElement
<1> QED
  BY <1>1, <1>2, <1>3, <1>4

(* A new item loses none.                                                  *)
LEMMA AppendGone ==
  ASSUME items \in [Pages -> Seq(Item)], Fits, NEW q \in Pages, NEW it \in Item,
         Len(items[q]) < PageItems, it.id # Zeroed,
         items' = [items EXCEPT ![q] = Append(@, it)]
  PROVE  /\ items' \in [Pages -> Seq(Item)] /\ Fits'
         /\ \A p \in Pages : /\ LostIn(p)' = LostIn(p)
                             /\ Len(items'[p]) = IF p = q THEN Len(items[q]) + 1 ELSE Len(items[p])
<1>0. PICK n : n = <<q, Len(items[q]) + 1>>
  OBVIOUS
<1>1. /\ items' \in [Pages -> Seq(Item)]
      /\ \A p \in Pages : Len(items'[p]) = IF p = q THEN Len(items[q]) + 1 ELSE Len(items[p])
      /\ Fits'
      /\ n \notin Slots /\ Slots' = Slots \union {n}
      /\ \A y \in Slots : ItemAt(y)' = ItemAt(y)
      /\ ItemAt(n)' = it
  BY <1>0, AppendAt
<1>2. ASSUME NEW p \in Pages
      PROVE  LostIn(p)' = LostIn(p)
  <2>1. Gone(p)' = {j \in Nat : <<p, j>> \in Slots' /\ ItemAt(<<p, j>>)'.id = Zeroed}
    BY <1>1, GoneNext
  <2>2. Gone(p) = {j \in Nat : <<p, j>> \in Slots /\ ItemAt(<<p, j>>).id = Zeroed}
    BY GoneAt
  <2>3. \A y : (y \in Slots' /\ ItemAt(y)'.id = Zeroed) <=> (y \in Slots /\ ItemAt(y).id = Zeroed)
    BY <1>1
  <2>4. Gone(p)' = Gone(p)
    BY <2>1, <2>2, <2>3
  <2> QED
    BY <1>1, <2>4, GoneCounts, GoneNext
<1> QED
  BY <1>1, <1>2

(* An erased page has lost none.                                           *)
LEMMA EraseGone ==
  ASSUME items \in [Pages -> Seq(Item)], Fits, NEW q \in Pages, items' = [items EXCEPT ![q] = <<>>]
  PROVE  /\ items' \in [Pages -> Seq(Item)] /\ Fits'
         /\ \A p \in Pages : p # q => LostIn(p)' = LostIn(p)
<1>1. /\ items' \in [Pages -> Seq(Item)] /\ Fits' /\ \A p \in Pages : p # q => items'[p] = items[p]
  BY EraseAt
<1> QED
  BY <1>1 DEF LostIn

(* A count that the walk takes anew is right.                              *)
LEMMA RewalkedTallies ==
  ASSUME items \in [Pages -> Seq(Item)], Fits,
         pgLost \in [Pages -> Nat], \A p \in Pages : pgLost[p] <= LostIn(p), NEW found
  PROVE  Rewalked(found) \in [Pages -> Nat] /\ \A p \in Pages : Rewalked(found)[p] <= LostIn(p)
<1>1. \A p \in Pages : LostIn(p) \in Nat
  BY GoneCounts
<1>2. \A p \in Pages : Rewalked(found)[p] \in {LostIn(p), pgLost[p]}
  BY DEF Rewalked
<1>3. Rewalked(found) = [p \in Pages |-> Rewalked(found)[p]]
  BY DEF Rewalked
<1> HIDE DEF Rewalked
<1>4. \A p \in Pages : Rewalked(found)[p] \in Nat /\ Rewalked(found)[p] <= LostIn(p)
  BY <1>1, <1>2
<1> QED
  BY <1>3, <1>4

(* A step of a call.                                                       *)
LEMMA TallyKept ==
  ASSUME Tally, pc # "initPage", pc' # "initPage",
         pgLost' \in [Pages -> Nat], \A p \in Pages : pgLost'[p] <= LostIn(p)',
         op' \in Ops, offset' <= PageItems + 1, lost' \in {0, lost}
  PROVE  Tally'
BY DEF Tally

(* Links for the counts.                                                   *)
LEMMA LostLinks ==
  /\ \A y : y = pg' => LostIn(pg)' = LostIn(y)'
  /\ \A y : y = op'.comPg => LostIn(op.comPg)' = LostIn(y)'
  /\ \A y : y = pg' => Passing' = {o \in Gone(y)' : o < offset'}
BY DEF LostIn, Passing, Gone

LEMMA SameLost ==
  ASSUME UNCHANGED items
  PROVE  \A p : LostIn(p)' = LostIn(p) /\ Gone(p)' = Gone(p)
BY DEF LostIn, Gone

LEMMA NoOpIsOp == NoOp \in Ops
BY Numbers DEF NoOp, Ops

LEMMA TallyKnows ==
  ASSUME Placed, Tally
  PROVE  /\ Shape /\ items \in [Pages -> Seq(Item)] /\ Fits /\ offset \in Nat
         /\ \A p \in Pages : /\ LostIn(p) \in Nat /\ LostIn(p) <= Len(items[p])
                             /\ Len(items[p]) \in Nat /\ Len(items[p]) <= PageItems
         /\ pgLost \in [Pages -> Nat] /\ \A p \in Pages : pgLost[p] <= LostIn(p)
         /\ op \in Ops /\ lost \in Nat /\ offset <= PageItems + 1
         /\ PageItems \in Nat
<1>1. Shape /\ items \in [Pages -> Seq(Item)] /\ Fits /\ offset \in Nat
  BY DEF Placed, Shape
<1> QED
  BY <1>1, GoneCounts, Numbers DEF Tally

LEMMA CallTallies ==
  ASSUME Placed, Tally, Call
  PROVE  Tally' /\ Balance'
<1>1. /\ Shape /\ items \in [Pages -> Seq(Item)] /\ Fits /\ offset \in Nat
      /\ \A p \in Pages : /\ LostIn(p) \in Nat
                          /\ Len(items[p]) \in Nat
      /\ pgLost \in [Pages -> Nat] /\ \A p \in Pages : pgLost[p] <= LostIn(p)
      /\ op \in Ops /\ lost \in Nat /\ offset <= PageItems + 1 /\ PageItems \in Nat
  BY TallyKnows
<1>2. pc = "idle" /\ pgRes \in Pages
  BY <1>1 DEF Call, Lookup, osal_nv_item_init, osal_nv_write, Shape, ScanPcs
<1>3. \A found : Rewalked(found) \in [Pages -> Nat] /\ \A p \in Pages : Rewalked(found)[p] <= LostIn(p)
  BY <1>1, RewalkedTallies
<1>4. ASSUME NEW found, pgLost' = Rewalked(found), UNCHANGED <<items, pc, op, offset, lost>>
      PROVE  Tally' /\ Balance'
  <2>1. Tally'
    BY <1>1, <1>2, <1>3, <1>4, SameLost, TallyKept
  <2>2. Balance'
    BY <1>2, <1>4 DEF Balance, WritePcs, CompactPcs
  <2> QED
    BY <2>1, <2>2
<1>5. ASSUME NEW id \in Ids, NEW val \in Vals, NEW src, NEW found,
             src \in (Pages \union {NULL}) \X (0 .. PageItems),
             initItem(id, val, src, Rewalked(found))
      PROVE  Tally' /\ Balance'
  <2>1. /\ UNCHANGED <<items, pgRes, offset, lost>> /\ pgLost' = Rewalked(found)
    BY <1>5 DEF initItem, flash, scan
  <2>2. CASE Roomy(Rewalked(found)) = {}
    <3>1. UNCHANGED <<pc, op>>
      BY <1>5, <2>2 DEF initItem
    <3> QED
      BY <1>4, <2>1, <3>1
  <2>3. CASE Roomy(Rewalked(found)) # {}
    <3>1. PICK com : com = ChosenPage(Rewalked(found))
      OBVIOUS
    <3>2. /\ com \in Pages /\ com # pgRes
          /\ Len(items[com]) + 1 - Rewalked(found)[com] <= PageItems
      <4>1. com \in Roomy(Rewalked(found))
        BY <1>2, <2>3, <3>1, ChosenIsRoomy
      <4> QED
        BY <4>1 DEF Roomy
    <3>3. /\ op' = [id |-> id, val |-> val, src |-> src, dstPg |-> Destination(com), comPg |-> com]
          /\ pc' \in {"activate", "header"}
      BY <1>5, <2>3, <3>1 DEF initItem
    <3>4. op' \in Ops
      <4>1. Destination(com) \in Pages
        BY <1>2, <3>2 DEF Destination
      <4> QED
        BY <1>5, <3>2, <3>3, <4>1 DEF Ops
    <3>5. pc' # "initPage" /\ pc # "initPage" /\ lost' \in {0, lost} /\ offset' <= PageItems + 1
      BY <1>1, <1>2, <2>1, <3>3
    <3>6. pgLost' \in [Pages -> Nat] /\ \A p \in Pages : pgLost'[p] <= LostIn(p)'
      BY <1>3, <2>1, SameLost
    <3>7. Tally'
      BY <3>4, <3>5, <3>6, TallyKept
    <3>8. Balance'
      <4>1. Len(items[com]) < PageItems + LostIn(com)
        <5>1. /\ Len(items[com]) \in Nat /\ LostIn(com) \in Nat
              /\ Rewalked(found)[com] \in Nat /\ Rewalked(found)[com] <= LostIn(com)
          BY <1>1, <1>3, <3>2
        <5> QED
          BY <1>1, <3>2, <5>1
      <4>2. LostIn(op.comPg)' = LostIn(com) /\ items'[op'.comPg] = items[com]
        BY <2>1, <3>3, SameLost, LostLinks
      <4> QED
        BY <3>3, <4>1, <4>2 DEF Balance, CompactPcs
    <3> QED
      BY <3>7, <3>8
  <2> QED
    BY <2>2, <2>3
<1>6. ASSUME NEW i \in Ids, Lookup(i)
      PROVE  Tally' /\ Balance'
  BY <1>4, <1>6 DEF Lookup, flash, scan
<1>7. ASSUME NEW i \in Ids, NEW val \in Vals, osal_nv_item_init(i, val)
      PROVE  Tally' /\ Balance'
  <2>1. <<NULL, 0>> \in (Pages \union {NULL}) \X (0 .. PageItems)
    BY <1>1
  <2> QED
    BY <1>5, <1>7, <2>1 DEF osal_nv_item_init
<1>8. ASSUME NEW i \in Ids, NEW val \in Vals, osal_nv_write(i, val)
      PROVE  Tally' /\ Balance'
  <2>1. findItem(i) \in Slots
    BY <1>1, <1>8, FindItem DEF osal_nv_write, Used
  <2>2. findItem(i) \in (Pages \union {NULL}) \X (0 .. PageItems)
    BY <1>1, <2>1 DEF Slots
  <2>3. initItem(i, val, findItem(i), Rewalked(Copies(i, FALSE)))
    BY <1>8 DEF osal_nv_write
  <2> QED
    BY <1>5, <2>2, <2>3
<1> QED
  BY <1>6, <1>7, <1>8 DEF Call

(* The end of a write, or the start of the compaction that it needs.       *)
LEMMA EndTallies ==
  ASSUME Placed, Tally, pc \in WritePcs, EndOrCompact, UNCHANGED pgRes,
         items' \in [Pages -> Seq(Item)], Fits',
         \A p \in Pages : LostIn(p)' >= LostIn(p) /\ Len(items'[p]) = Len(items[p]),
         pgLost' \in [Pages -> Nat], \A p \in Pages : pgLost'[p] <= LostIn(p)'
  PROVE  Tally' /\ (Balance => Balance')
<1>1. /\ offset \in Nat /\ op \in Ops /\ lost \in Nat /\ offset <= PageItems + 1 /\ PageItems \in Nat
      /\ \A p \in Pages : LostIn(p) \in Nat /\ Len(items[p]) \in Nat
      /\ \A p \in Pages : LostIn(p)' \in Nat
  BY TallyKnows, GoneNext
<1>2. pc # "initPage"
  BY DEF WritePcs
<1>3. CASE op.dstPg = pgRes
  <2>1. pc' = "mark" /\ pg' = op.comPg /\ UNCHANGED <<op, offset, lost>>
    BY <1>3 DEF EndOrCompact
  <2>2. Tally'
    BY <1>1, <1>2, <2>1, TallyKept
  <2>3. ASSUME Balance
        PROVE  Balance'
    <3>1. PICK c : c = op.comPg
      OBVIOUS
    <3>2. c \in Pages /\ pgRes \in Pages /\ c # pgRes /\ Len(items[pgRes]) = 1
      BY <1>3, <3>1, WritePlaced
    <3>3. Len(items[c]) < PageItems + LostIn(c)
      BY <1>3, <2>3, <3>1 DEF Balance
    <3>4. Len(items'[c]) + Len(items'[pgRes]) <= PageItems + LostIn(c)'
      <4>1. /\ Len(items[c]) \in Nat /\ LostIn(c) \in Nat /\ LostIn(c)' \in Nat
            /\ LostIn(c)' >= LostIn(c)
            /\ Len(items'[c]) = Len(items[c]) /\ Len(items'[pgRes]) = 1
        BY <1>1, <3>2
      <4> QED
        BY <1>1, <3>3, <4>1
    <3>5. LostIn(pg)' = LostIn(c)' /\ pg' = c
      BY <2>1, <3>1, LostLinks
    <3>6. Len(items'[pg']) + Len(items'[pgRes']) <= PageItems + LostIn(pg)' + 0
      BY <1>1, <3>2, <3>4, <3>5
    <3> QED
      BY <2>1, <3>6 DEF Balance, WritePcs, CopyPcs
  <2> QED
    BY <2>2, <2>3
<1>4. CASE op.dstPg # pgRes
  <2>1. pc' = "idle" /\ op' = NoOp /\ offset' = 0 /\ lost' = 0
    BY <1>4 DEF EndOrCompact, Idle, NoScan
  <2>2. Tally'
    BY <1>1, <1>2, <2>1, NoOpIsOp, TallyKept
  <2> QED
    BY <2>1, <2>2 DEF Balance, WritePcs, CompactPcs
<1> QED
  BY <1>3, <1>4

LEMMA WriteTallies ==
  ASSUME Placed, Tally, Write
  PROVE  Tally' /\ (Balance => Balance')
<1>1. /\ Shape /\ items \in [Pages -> Seq(Item)] /\ Fits /\ offset \in Nat
      /\ \A p \in Pages : LostIn(p) \in Nat /\ Len(items[p]) \in Nat
      /\ pgLost \in [Pages -> Nat] /\ \A p \in Pages : pgLost[p] <= LostIn(p)
      /\ op \in Ops /\ lost \in Nat /\ offset <= PageItems + 1 /\ PageItems \in Nat
  BY TallyKnows
<1>2. PICK c : c = op.comPg
  OBVIOUS
<1>3. ASSUME UNCHANGED <<pgRes, pgLost, op, offset, lost>>,
             pc \in {"activate", "header"} \union WritePcs,
             pc' \in {"activate", "header"} \union WritePcs,
             \A p \in Pages : LostIn(p)' = LostIn(p),
             op.dstPg = pgRes => Len(items'[c]) = Len(items[c])
      PROVE  Tally' /\ (Balance => Balance')
  <2>1. pc # "initPage" /\ pc' # "initPage"
    BY <1>3 DEF WritePcs
  <2>2. Tally'
    BY <1>1, <1>3, <2>1, TallyKept
  <2>3. pc' \notin CompactPcs /\ c \in Pages
    BY <1>2, <1>3 DEF WritePcs, CompactPcs, Placed, Calling
  <2>4. LostIn(op.comPg)' = LostIn(c)
    BY <1>2, <1>3, <2>3, LostLinks
  <2> QED
    BY <1>2, <1>3, <2>2, <2>3, <2>4 DEF Balance
<1>4. CASE Activate
  <2>1. /\ UNCHANGED <<items, pgRes, pgLost, op, offset, lost>>
        /\ pc = "activate" /\ pc' = "header"
    BY <1>4 DEF Activate, ram, scan
  <2> QED
    BY <1>3, <2>1, SameLost
<1>5. CASE Header
  <2> DEFINE it == [id |-> op.id, data |-> Blank, chk |-> Blank, old |-> FALSE]
  <2>1. /\ pc = "header" /\ pc' \in {"data", "markOld"}
        /\ items' = [items EXCEPT ![op.dstPg] = Append(@, it)]
        /\ UNCHANGED <<pgRes, pgLost, op, offset, lost>>
    BY <1>5 DEF Header, ram, scan
  <2>2. /\ op.dstPg \in Pages /\ Len(items[op.dstPg]) < PageItems /\ op.id \in Ids
        /\ c \in Pages /\ (op.dstPg = pgRes => c # op.dstPg)
    BY <1>2, <2>1 DEF Placed, Shape, Calling, ScanPcs
  <2>3. it \in Item /\ it.id # Zeroed
    BY <2>2, Numbers DEF Item
  <2> HIDE DEF it
  <2>4. \A p \in Pages : /\ LostIn(p)' = LostIn(p)
                         /\ Len(items'[p]) = IF p = op.dstPg THEN Len(items[op.dstPg]) + 1 ELSE Len(items[p])
    <3>1. items' = [items EXCEPT ![op.dstPg] = Append(@, it)]
      BY <2>1
    <3> QED
      BY <1>1, <2>2, <2>3, <3>1, AppendGone
  <2>5. pc \in {"activate", "header"} \union WritePcs /\ pc' \in {"activate", "header"} \union WritePcs
    BY <2>1 DEF WritePcs
  <2> QED
    BY <1>3, <2>1, <2>2, <2>4, <2>5
<1>6. ASSUME pc \in WritePcs, NEW x \in Used, NEW it \in Item, it.id = ItemAt(x).id,
             items' = With(x, it)
      PROVE  /\ items' \in [Pages -> Seq(Item)] /\ Fits'
             /\ \A p \in Pages : LostIn(p)' = LostIn(p) /\ Len(items'[p]) = Len(items[p])
  BY <1>1, <1>6, SameGone DEF Used
<1>7. CASE MarkOld
  <2>1. /\ pc = "markOld" /\ pc' = "data" /\ pc \in WritePcs /\ pc' \in WritePcs
        /\ items' = With(op.src, [ItemAt(op.src) EXCEPT !.old = TRUE])
        /\ UNCHANGED <<pgRes, pgLost, op, offset, lost>>
    BY <1>7 DEF MarkOld, ram, scan, WritePcs
  <2>2. op.src \in Used
    BY <2>1, WritePlaced DEF Placed, Writing
  <2>3. ItemAt(op.src) \in Item
    BY <1>1, <2>2, ItemsAreItems DEF Used
  <2>4. \A p \in Pages : LostIn(p)' = LostIn(p) /\ Len(items'[p]) = Len(items[p])
    <3> DEFINE it == [ItemAt(op.src) EXCEPT !.old = TRUE]
    <3>1. it \in Item /\ it.id = ItemAt(op.src).id
      BY <2>3 DEF Item
    <3>2. items' = With(op.src, it)
      BY <2>1
    <3> HIDE DEF it
    <3>3. pc \in WritePcs
      BY <2>1
    <3> QED
      BY <1>6, <2>2, <3>1, <3>2, <3>3
  <2>5. c \in Pages
    BY <1>2, <2>1, WritePlaced
  <2> QED
    BY <1>3, <2>1, <2>4, <2>5
<1>8. ASSUME pc \in WritePcs
      PROVE  /\ NewItem \in Used /\ c \in Pages
             /\ \A v \in Vals : LET it == [ItemAt(NewItem) EXCEPT !.data = v]
                                IN  it \in Item /\ it.id = ItemAt(NewItem).id
             /\ LET it == [ItemAt(NewItem) EXCEPT !.chk = ItemAt(NewItem).data]
                IN  it \in Item /\ it.id = ItemAt(NewItem).id
  <2>1. NewItem \in Used /\ c \in Pages /\ NewItem \in Slots
    BY <1>2, <1>8, WritePlaced
  <2>2. ItemAt(NewItem) \in Item
    BY <1>1, <2>1, ItemsAreItems
  <2> QED
    BY <2>1, <2>2 DEF Item
<1>9. CASE Data
  <2>1. /\ pc = "data" /\ pc' = "chk" /\ pc \in WritePcs /\ pc' \in WritePcs
        /\ items' = With(NewItem, [ItemAt(NewItem) EXCEPT !.data = op.val])
        /\ UNCHANGED <<pgRes, pgLost, op, offset, lost>>
    BY <1>9 DEF Data, ram, scan, WritePcs
  <2>2. \A p \in Pages : LostIn(p)' = LostIn(p) /\ Len(items'[p]) = Len(items[p])
    BY <1>6, <1>8, <2>1, WritePlaced
  <2> QED
    BY <1>3, <1>8, <2>1, <2>2
<1>10. CASE Checksum
  <2>1. /\ pc = "chk" /\ pc \in WritePcs
        /\ items' = With(NewItem, [ItemAt(NewItem) EXCEPT !.chk = ItemAt(NewItem).data])
        /\ UNCHANGED <<pgRes, pgLost>>
    BY <1>10 DEF Checksum, ram, WritePcs
  <2>2. /\ items' \in [Pages -> Seq(Item)] /\ Fits'
        /\ \A p \in Pages : LostIn(p)' = LostIn(p) /\ Len(items'[p]) = Len(items[p])
    BY <1>6, <1>8, <2>1
  <2>3. CASE op.src[1] = NULL
    <3>1. EndOrCompact
      BY <1>10, <2>3 DEF Checksum
    <3>2. \A p \in Pages : LostIn(p)' >= LostIn(p) /\ pgLost'[p] <= LostIn(p)'
      <4> SUFFICES ASSUME NEW p \in Pages
                   PROVE  LostIn(p)' >= LostIn(p) /\ pgLost'[p] <= LostIn(p)'
        OBVIOUS
      <4>1. LostIn(p)' = LostIn(p) /\ LostIn(p) \in Nat /\ pgLost'[p] = pgLost[p] /\ pgLost[p] <= LostIn(p)
        BY <1>1, <2>1, <2>2
      <4> QED
        BY <4>1
    <3>3. pgLost' \in [Pages -> Nat]
      BY <1>1, <2>1
    <3> QED
      BY <2>1, <2>2, <3>1, <3>2, <3>3, EndTallies
  <2>4. CASE op.src[1] # NULL
    <3>1. pc' = "zero" /\ UNCHANGED <<op, offset, lost>> /\ pc' \in WritePcs
      BY <1>10, <2>4 DEF Checksum, scan, WritePcs
    <3> QED
      BY <1>3, <1>8, <2>1, <2>2, <3>1
  <2> QED
    BY <2>3, <2>4
<1>11. CASE Zero
  <2>1. /\ pc = "zero" /\ pc \in WritePcs /\ EndOrCompact
        /\ items' = With(op.src, ZeroedItem)
        /\ pgLost' = [pgLost EXCEPT ![op.src[1]] = @ + 1]
        /\ UNCHANGED pgRes
    BY <1>11 DEF Zero, WritePcs
  <2>2. PICK s : s = op.src
    OBVIOUS
  <2>3. s \in Used /\ s[1] \in Pages
    BY <2>1, <2>2, WritePlaced, SlotParts DEF Placed, Writing, Used
  <2>4. /\ items' \in [Pages -> Seq(Item)] /\ Fits'
        /\ \A p \in Pages : /\ LostIn(p)' = IF p = s[1] THEN LostIn(p) + 1 ELSE LostIn(p)
                            /\ Len(items'[p]) = Len(items[p])
    BY <1>1, <2>1, <2>2, <2>3, OneMoreGone
  <2>5. /\ pgLost' \in [Pages -> Nat]
        /\ \A p \in Pages : pgLost'[p] = IF p = s[1] THEN pgLost[p] + 1 ELSE pgLost[p]
    BY <1>1, <2>1, <2>2, <2>3
  <2>6. \A p \in Pages : pgLost'[p] <= LostIn(p)' /\ LostIn(p)' >= LostIn(p)
    BY <1>1, <2>4, <2>5
  <2> QED
    BY <2>1, <2>4, <2>5, <2>6, EndTallies
<1> QED
  BY <1>4, <1>5, <1>7, <1>9, <1>10, <1>11 DEF Write

(* The reserve has room for what has not been copied yet.                  *)
LEMMA BalanceHasRoom ==
  ASSUME Safe, Tally, Balance, pc = "copyHdr"
  PROVE  Len(items[pgRes]) < PageItems
<1>1. /\ items \in [Pages -> Seq(Item)] /\ Fits /\ offset \in Nat /\ PageItems \in Nat
      /\ pc \in CompactPcs /\ pc \notin CopyPcs
      /\ pg \in Pages /\ pgRes \in Pages
      /\ Here \in Used
  BY SafePlaced, TallyKnows, CompactKnows DEF Safe, Compacting, CompactPcs, CopyPcs
<1>2. PICK n \in Nat, k \in Nat, r \in Nat :
        n = Len(items[pg]) /\ k = LostIn(pg) /\ r = Len(items[pgRes])
  BY <1>1, SafePlaced, TallyKnows
<1>3. n + r <= PageItems + k
  BY <1>1, <1>2 DEF Balance
<1>4. k < n
  <2>1. Here \in Slots /\ ItemAt(Here).id # Zeroed /\ Here = <<pg, offset>>
    BY <1>1 DEF Used, Here
  <2>2. offset \notin Gone(pg) /\ offset \in DOMAIN items[pg]
    BY <2>1, SlotParts DEF Gone, ItemAt
  <2>3. DOMAIN items[pg] = 1 .. n
    BY <1>1, <1>2, Lengths
  <2>4. Gone(pg) \in SUBSET ((1 .. n) \ {offset})
    BY <2>2, <2>3 DEF Gone
  <2>5. IsFiniteSet(1 .. n) /\ Cardinality(1 .. n) = n
    <3>1. /\ IsFiniteSet(1 .. n)
          /\ Cardinality(1 .. n) = IF 1 > n THEN 0 ELSE n - 1 + 1
      BY FS_Interval
    <3> QED
      BY <3>1
  <2>6. IsFiniteSet((1 .. n) \ {offset}) /\ Cardinality((1 .. n) \ {offset}) = n - 1
    BY <2>2, <2>3, <2>5, FS_RemoveElement
  <2>7. Cardinality(Gone(pg)) <= n - 1
    BY <2>4, <2>6, FS_Subset
  <2>8. k = Cardinality(Gone(pg))
    BY <1>1, <1>2, GoneCounts
  <2> QED
    BY <2>7, <2>8
<1> QED
  BY <1>1, <1>2, <1>3, <1>4

LEMMA CompactTallies ==
  ASSUME Placed, Tally, Compact, pc = "copyHdr" => Len(items[pgRes]) < PageItems
  PROVE  Tally' /\ (Balance => Balance')
<1>1. /\ Shape /\ items \in [Pages -> Seq(Item)] /\ Fits /\ offset \in Nat
      /\ \A p \in Pages : LostIn(p) \in Nat /\ Len(items[p]) \in Nat /\ Len(items[p]) <= PageItems
      /\ pgLost \in [Pages -> Nat] /\ \A p \in Pages : pgLost[p] <= LostIn(p)
      /\ op \in Ops /\ lost \in Nat /\ offset <= PageItems + 1 /\ PageItems \in Nat
  BY TallyKnows
<1>2. pc \in CompactPcs /\ pc # "initPage"
  BY DEF Compact, Mark, CompactItem, CopyHdr, CopyData, CopyZero, Erase, Finish, CompactPcs
<1>3. pg \in Pages /\ pgRes \in Pages /\ pg # pgRes
  BY <1>2, CompactPlaced
<1>4. PICK q, r : q = pg /\ r = pgRes
  OBVIOUS
(* A step that stays in the compaction of the page.                        *)
<1>5. ASSUME UNCHANGED <<pg, pgRes, pgLost, op, lost>>, offset' <= PageItems + 1,
             pc' \in CompactPcs, pc' \notin {"erase", "finish"}, pc \notin {"erase", "finish"},
             \A p \in Pages : LostIn(p)' = LostIn(p),
             Len(items'[q]) = Len(items[q]),
             IF pc' \in CopyPcs /\ pc \notin CopyPcs
             THEN Len(items'[r]) <= Len(items[r]) + 1 /\ Len(items'[r]) \in Nat
             ELSE Len(items'[r]) = Len(items[r]) /\ (pc \in CopyPcs => pc' \in CopyPcs)
      PROVE  Tally' /\ (Balance => Balance')
  <2>1. pc' # "initPage"
    BY <1>5 DEF CompactPcs
  <2>2. Tally'
    BY <1>1, <1>2, <1>5, <2>1, TallyKept
  <2>3. ASSUME Balance
        PROVE  Balance'
    <3>1. PICK n \in Nat, k \in Nat, m \in Nat, s \in Nat :
            /\ n = Len(items[q]) /\ k = LostIn(q) /\ m = Len(items[r]) /\ s = Len(items'[r])
      BY <1>1, <1>3, <1>4, <1>5
    <3>2. n + m <= PageItems + k + (IF pc \in CopyPcs THEN 1 ELSE 0)
      BY <1>2, <1>4, <1>5, <2>3, <3>1 DEF Balance
    <3>3. n + s <= PageItems + k + (IF pc' \in CopyPcs THEN 1 ELSE 0)
      <4>1. CASE pc' \in CopyPcs /\ pc \notin CopyPcs
        <5>1. s <= m + 1 /\ n + m <= PageItems + k + 0
          BY <1>5, <3>1, <3>2, <4>1
        <5>2. n + s <= PageItems + k + 1
          <6>1. PICK b \in Nat : b = PageItems
            BY <1>1
          <6>2. s <= m + 1 /\ n + m <= b + k
            BY <5>1, <6>1
          <6>3. n + s <= b + k + 1
            BY <6>2
          <6> QED
            BY <6>1, <6>3
        <5> QED
          BY <4>1, <5>2
      <4>2. CASE pc' \in CopyPcs /\ pc \in CopyPcs
        <5>1. s = m /\ n + m <= PageItems + k + 1
          BY <1>5, <3>1, <3>2, <4>2
        <5> QED
          BY <4>2, <5>1
      <4>3. CASE pc' \notin CopyPcs
        <5>1. s = m /\ n + m <= PageItems + k + 0
          BY <1>5, <3>1, <3>2, <4>3
        <5> QED
          BY <4>3, <5>1
      <4> QED
        BY <4>1, <4>2, <4>3
    <3>4. LostIn(pg)' = k /\ Len(items'[pg']) = n /\ Len(items'[pgRes']) = s
      BY <1>3, <1>4, <1>5, <3>1, LostLinks
    <3>5. pc' \notin {"activate", "header"} \union WritePcs
      BY <1>5 DEF CompactPcs, WritePcs
    <3> QED
      BY <3>3, <3>4, <3>5 DEF Balance
  <2> QED
    BY <2>2, <2>3
<1>6. CASE Mark
  <2>1. /\ pc = "mark" /\ pc' = "compact" /\ offset' = 1
        /\ UNCHANGED <<items, pg, pgRes, pgLost, op, lost>>
    BY <1>6 DEF Mark, ram
  <2>2. offset' <= PageItems + 1
    BY <1>1, <2>1
  <2>3. pc' \in CompactPcs /\ pc \notin CopyPcs /\ pc' \notin CopyPcs
    BY <2>1 DEF CompactPcs, CopyPcs
  <2> QED
    BY <1>5, <2>1, <2>2, <2>3, SameLost
<1>7. ASSUME NEW x \in Slots, NEW it \in Item, it.id = ItemAt(x).id, items' = With(x, it)
      PROVE  \A p \in Pages : LostIn(p)' = LostIn(p) /\ Len(items'[p]) = Len(items[p])
  BY <1>1, <1>7, SameGone
<1>8. CASE CompactItem
  <2>1. pc = "compact" /\ UNCHANGED <<pg, pgRes, op, lost>> /\ pc \notin CopyPcs
    BY <1>8 DEF CompactItem, CopyPcs
  <2>2. CASE pc' = "erase" /\ UNCHANGED <<items, pgLost, offset>>
    <3>1. Tally'
      BY <1>1, <1>2, <2>1, <2>2, SameLost, TallyKept
    <3> QED
      BY <2>2, <3>1 DEF Balance, WritePcs
  <2>3. CASE /\ offset <= Len(items[pg]) /\ offset' = offset + 1
             /\ UNCHANGED <<items, pgLost, pc>>
    <3>1. offset' <= PageItems + 1
      <4>1. Len(items[pg]) \in Nat /\ Len(items[pg]) <= PageItems
        BY <1>1, <1>3
      <4> QED
        BY <1>1, <2>3, <4>1
    <3> QED
      BY <1>2, <1>5, <2>1, <2>3, <3>1, SameLost
  <2>4. CASE pc' = "copyZero" /\ UNCHANGED <<items, pgLost, offset>>
    <3>1. pc' \in CompactPcs /\ pc' \in CopyPcs /\ Len(items[r]) \in Nat
      BY <1>1, <1>3, <1>4, <2>4 DEF CompactPcs, CopyPcs
    <3>2. Len(items[r]) <= Len(items[r]) + 1
      BY <3>1
    <3> QED
      BY <1>1, <1>5, <2>1, <2>4, <3>1, <3>2, SameLost
  <2>5. CASE /\ offset <= Len(items[pg])
             /\ items' = With(Here, [ItemAt(Here) EXCEPT !.old = TRUE])
             /\ pc' = "copyHdr" /\ UNCHANGED <<pgLost, offset>>
    <3>1. Here \in Slots
      <4>1. offset \in DOMAIN items[pg]
        <5>1. offset > 0
          BY <1>2, <2>1 DEF Placed, Compacting
        <5>2. DOMAIN items[pg] = 1 .. Len(items[pg]) /\ Len(items[pg]) \in Nat
          BY <1>1, <1>3, Lengths
        <5> QED
          BY <1>1, <2>5, <5>1, <5>2
      <4> QED
        BY <1>1, <1>3, <4>1, PlaceIsSlot DEF Here
    <3>2. \A p \in Pages : LostIn(p)' = LostIn(p) /\ Len(items'[p]) = Len(items[p])
      <4> DEFINE it == [ItemAt(Here) EXCEPT !.old = TRUE]
      <4>1. ItemAt(Here) \in Item
        BY <1>1, <3>1, ItemsAreItems
      <4>2. it \in Item /\ it.id = ItemAt(Here).id
        BY <4>1 DEF Item
      <4>3. items' = With(Here, it)
        BY <2>5
      <4> HIDE DEF it
      <4> QED
        BY <1>7, <3>1, <4>2, <4>3
    <3>3. pc' \in CompactPcs /\ pc' \notin CopyPcs
      BY <2>5 DEF CompactPcs, CopyPcs
    <3> QED
      BY <1>1, <1>3, <1>4, <1>5, <2>1, <2>5, <3>2, <3>3
  <2> QED
    BY <1>8, <2>2, <2>3, <2>4, <2>5 DEF CompactItem
<1>9. CASE CopyHdr
  <2> DEFINE it == [ItemAt(Here) EXCEPT !.data = Blank, !.old = stat]
  <2>1. /\ pc = "copyHdr" /\ pc' = "copyData"
        /\ items' = [items EXCEPT ![pgRes] = Append(@, it)]
        /\ UNCHANGED <<pg, pgRes, pgLost, op, lost, offset>>
    BY <1>9 DEF CopyHdr, ram, scan
  <2>2. Here \in Used /\ Here \in Slots
    BY <2>1 DEF Placed, Compacting, CompactPcs, Used
  <2>3. it \in Item /\ it.id # Zeroed
    <3>1. ItemAt(Here) \in Item /\ stat \in BOOLEAN
      BY <1>1, <2>2, ItemsAreItems DEF Shape
    <3>2. ItemAt(Here).id # Zeroed
      BY <2>2 DEF Used
    <3> QED
      BY <3>1, <3>2 DEF Item
  <2> HIDE DEF it
  <2>4. \A p \in Pages : /\ LostIn(p)' = LostIn(p)
                         /\ Len(items'[p]) = IF p = pgRes THEN Len(items[pgRes]) + 1 ELSE Len(items[p])
    <3>1. items' = [items EXCEPT ![pgRes] = Append(@, it)]
      BY <2>1
    <3> QED
      BY <1>1, <1>3, <2>1, <2>3, <3>1, AppendGone
  <2>5. pc' \in CompactPcs /\ pc' \in CopyPcs /\ pc \notin CopyPcs
    BY <2>1 DEF CompactPcs, CopyPcs
  <2>6. Len(items'[r]) <= Len(items[r]) + 1 /\ Len(items'[r]) \in Nat
    <3>1. Len(items[r]) \in Nat /\ Len(items'[r]) = Len(items[r]) + 1
      BY <1>1, <1>3, <1>4, <2>4
    <3> QED
      BY <3>1
  <2>7. Len(items'[q]) = Len(items[q])
    BY <1>3, <1>4, <2>4
  <2> QED
    BY <1>1, <1>5, <2>1, <2>4, <2>5, <2>6, <2>7
<1>10. CASE CopyData
  <2> DEFINE it == [ItemAt(Copy) EXCEPT !.data = ItemAt(Here).data]
  <2>1. /\ pc = "copyData" /\ pc' = "copyZero" /\ items' = With(Copy, it)
        /\ UNCHANGED <<pg, pgRes, pgLost, op, lost, offset>>
    BY <1>10 DEF CopyData, ram, scan, Copy
  <2>2. pc \in CopyPcs /\ pc' \in CopyPcs /\ pc' \in CompactPcs
    BY <2>1 DEF CompactPcs, CopyPcs
  <2>3. Copy \in Slots /\ Here \in Slots
    BY <2>2, CopyPlaced
  <2>4. it \in Item /\ it.id = ItemAt(Copy).id
    <3>1. ItemAt(Copy) \in Item /\ ItemAt(Here) \in Item
      BY <1>1, <2>3, ItemsAreItems
    <3> QED
      BY <3>1 DEF Item
  <2> HIDE DEF it
  <2>5. \A p \in Pages : LostIn(p)' = LostIn(p) /\ Len(items'[p]) = Len(items[p])
    BY <1>7, <2>1, <2>3, <2>4
  <2> QED
    BY <1>1, <1>3, <1>4, <1>5, <2>1, <2>2, <2>5
<1>11. CASE CopyZero
  <2>1. /\ pc = "copyZero" /\ pc' = "compact" /\ offset' = offset + 1
        /\ items' = With(Here, ZeroedItem)
        /\ pgLost' = [pgLost EXCEPT ![pg] = @ + 1]
        /\ UNCHANGED <<pg, pgRes, op, lost>>
    BY <1>11 DEF CopyZero
  <2>2. pc \in CopyPcs /\ pc' \notin CopyPcs
    BY <2>1 DEF CopyPcs
  <2>3. PICK h : h = Here
    OBVIOUS
  <2>4. h \in Used /\ h \in Slots /\ h[1] = q /\ h[2] = offset
    BY <1>4, <2>2, <2>3, CopyPlaced
  <2>5. /\ items' \in [Pages -> Seq(Item)] /\ Fits'
        /\ \A p \in Pages : /\ LostIn(p)' = IF p = q THEN LostIn(p) + 1 ELSE LostIn(p)
                            /\ Len(items'[p]) = Len(items[p])
    BY <1>1, <2>1, <2>3, <2>4, OneMoreGone
  <2>6. /\ pgLost' \in [Pages -> Nat]
        /\ \A p \in Pages : pgLost'[p] = IF p = q THEN pgLost[p] + 1 ELSE pgLost[p]
    BY <1>1, <1>3, <1>4, <2>1
  <2>7. \A p \in Pages : pgLost'[p] <= LostIn(p)'
    <3> SUFFICES ASSUME NEW p \in Pages
                 PROVE  pgLost'[p] <= LostIn(p)'
      OBVIOUS
    <3>1. pgLost[p] \in Nat /\ LostIn(p) \in Nat /\ pgLost[p] <= LostIn(p)
      BY <1>1
    <3> QED
      BY <2>5, <2>6, <3>1
  <2>8. offset' <= PageItems + 1
    <3>1. offset \in 1 .. PageItems
      BY <2>4, SlotParts
    <3> QED
      BY <1>1, <2>1, <3>1
  <2>9. Tally'
    BY <1>1, <1>2, <2>1, <2>6, <2>7, <2>8, TallyKept
  <2>10. ASSUME Balance
         PROVE  Balance'
    <3>1. PICK n \in Nat, k \in Nat, m \in Nat :
            n = Len(items[q]) /\ k = LostIn(q) /\ m = Len(items[r])
      BY <1>1, <1>3, <1>4
    <3>2. n + m <= PageItems + k + 1
      BY <1>2, <1>4, <2>1, <2>2, <2>10, <3>1 DEF Balance
    <3>3. LostIn(pg)' = k + 1 /\ Len(items'[pg']) = n /\ Len(items'[pgRes']) = m
      BY <1>3, <1>4, <2>1, <2>5, <3>1, LostLinks
    <3>4. n + m <= PageItems + (k + 1) + 0
      BY <1>1, <3>2
    <3>5. pc' \notin {"activate", "header"} \union WritePcs
      BY <2>1 DEF WritePcs
    <3> QED
      BY <2>2, <3>3, <3>4, <3>5 DEF Balance
  <2> QED
    BY <2>9, <2>10
<1>12. CASE Erase
  <2>1. /\ pc' = "finish" /\ items' = [items EXCEPT ![pg] = <<>>]
        /\ pgLost' = [pgLost EXCEPT ![pg] = 0]
        /\ UNCHANGED <<op, offset, lost>>
    BY <1>12 DEF Erase, erasePage, scan
  <2>2. /\ items' \in [Pages -> Seq(Item)] /\ Fits'
        /\ \A p \in Pages : p # pg => LostIn(p)' = LostIn(p)
    BY <1>1, <1>3, <2>1, EraseGone
  <2>3. \A p \in Pages : LostIn(p)' \in Nat
    BY <2>2, GoneNext
  <2>4. pgLost' \in [Pages -> Nat] /\ \A p \in Pages : pgLost'[p] = IF p = pg THEN 0 ELSE pgLost[p]
    BY <1>1, <1>3, <2>1
  <2>5. \A p \in Pages : pgLost'[p] <= LostIn(p)'
    <3> SUFFICES ASSUME NEW p \in Pages
                 PROVE  pgLost'[p] <= LostIn(p)'
      OBVIOUS
    <3>1. CASE p = pg
      <4>1. pgLost'[p] = 0 /\ LostIn(p)' \in Nat
        BY <2>3, <2>4, <3>1
      <4> QED
        BY <4>1
    <3>2. CASE p # pg
      BY <1>1, <2>2, <2>4, <3>2
    <3> QED
      BY <3>1, <3>2
  <2>6. Tally'
    BY <1>1, <1>2, <2>1, <2>4, <2>5, TallyKept
  <2> QED
    BY <2>1, <2>6 DEF Balance, WritePcs
<1>13. CASE Finish
  <2>1. /\ pc' = "idle" /\ op' = NoOp /\ offset' = 0 /\ lost' = 0 /\ UNCHANGED <<items, pgLost>>
    BY <1>13 DEF Finish, Idle, NoScan
  <2>2. Tally'
    BY <1>1, <1>2, <2>1, SameLost, NoOpIsOp, TallyKept
  <2> QED
    BY <2>1, <2>2 DEF Balance, WritePcs, CompactPcs
<1> QED
  BY <1>6, <1>8, <1>9, <1>10, <1>11, <1>12, <1>13 DEF Compact

(* What the walk has counted in a page is zeroed.                          *)
LEMMA PassingCounts ==
  items \in [Pages -> Seq(Item)] /\ Fits /\ pg \in Pages =>
    /\ IsFiniteSet(Passing) /\ Cardinality(Passing) \in Nat
    /\ Cardinality(Passing) <= LostIn(pg)
<1> SUFFICES ASSUME items \in [Pages -> Seq(Item)], Fits, pg \in Pages
             PROVE  /\ IsFiniteSet(Passing) /\ Cardinality(Passing) \in Nat
                    /\ Cardinality(Passing) <= LostIn(pg)
  OBVIOUS
<1>1. IsFiniteSet(Gone(pg)) /\ LostIn(pg) = Cardinality(Gone(pg))
  BY GoneCounts
<1>2. Passing \in SUBSET Gone(pg)
  BY DEF Passing
<1>3. IsFiniteSet(Passing) /\ Cardinality(Passing) <= Cardinality(Gone(pg))
  BY <1>1, <1>2, FS_Subset
<1> QED
  BY <1>1, <1>3, FS_CardinalityType

LEMMA PassingNext ==
  items' \in [Pages -> Seq(Item)] /\ Fits' /\ pg' \in Pages =>
    IsFiniteSet(Passing') /\ Cardinality(Passing') \in Nat
<1>1. (items \in [Pages -> Seq(Item)] /\ Fits /\ pg \in Pages =>
         /\ IsFiniteSet(Passing) /\ Cardinality(Passing) \in Nat
         /\ Cardinality(Passing) <= LostIn(pg))'
  BY PassingCounts, PTL
<1> QED
  BY <1>1

(* The old copy that FirstOf finds in the walk is there.                   *)
LEMMA OneDup ==
  ASSUME NEW id \in Ids, Copies(id, TRUE) # {}
  PROVE  /\ FirstOf(Copies(id, TRUE)) \in Used
         /\ ItemAt(FirstOf(Copies(id, TRUE))).id = id /\ ItemAt(FirstOf(Copies(id, TRUE))).old
<1>1. Copies(id, TRUE) = {x \in Used : ItemAt(x).id = id /\ ItemAt(x).old = TRUE}
  BY CopiesAre
<1>2. FirstOf(Copies(id, TRUE)) \in Copies(id, TRUE)
  BY <1>1, FirstOfIn DEF Used
<1> QED
  BY <1>1, <1>2

LEMMA ScanTallies ==
  ASSUME Placed, Tally, ScanItem
  PROVE  Tally'
<1>0. PICK h, q : h = Here /\ q = pg
  OBVIOUS
<1>1. /\ Shape /\ items \in [Pages -> Seq(Item)] /\ Fits /\ offset \in Nat
      /\ \A p \in Pages : LostIn(p) \in Nat /\ Len(items[p]) \in Nat /\ Len(items[p]) <= PageItems
      /\ pgLost \in [Pages -> Nat] /\ \A p \in Pages : pgLost[p] <= LostIn(p)
      /\ op \in Ops /\ lost \in Nat /\ offset <= PageItems + 1 /\ PageItems \in Nat
  BY TallyKnows
<1>2. /\ pc = "initPage" /\ pc' = "initPage" /\ offset \in DOMAIN items[pg] /\ UNCHANGED op
  BY DEF ScanItem
<1>3. pg \in Pages /\ q \in Pages
  BY <1>0, <1>2, WalkPlaced
<1>4. h \in Slots /\ h[1] = q /\ h[2] = offset /\ offset <= PageItems
  <2>1. offset <= Len(items[pg])
    BY <1>1, <1>2, <1>3, PlaceIsSlot
  <2>2. Len(items[pg]) \in Nat /\ Len(items[pg]) <= PageItems
    BY <1>1, <1>3
  <2> QED
    BY <1>0, <1>1, <1>2, <1>3, <2>1, <2>2, PlaceIsSlot DEF Here
<1>5. /\ IsFiniteSet(Passing) /\ Cardinality(Passing) \in Nat
      /\ lost <= Cardinality(Passing)
      /\ Passing = {o \in Gone(q) : o < offset}
  BY <1>0, <1>1, <1>2, <1>3, PassingCounts DEF Tally, Passing
<1>6. offset + 1 <= PageItems + 1 /\ offset \notin Passing
  BY <1>1, <1>4, <1>5
(* The walk goes on with the next item.                                    *)
<1>7. ASSUME offset' = offset + 1, UNCHANGED pg,
             items' \in [Pages -> Seq(Item)], Fits', \A p \in Pages : Gone(p) \subseteq Gone(p)',
             lost' = lost \/ (lost' = lost + 1 /\ offset \in Gone(q)'),
             pgLost' \in [Pages -> Nat], \A p \in Pages : pgLost'[p] <= LostIn(p)'
      PROVE  Tally'
  <2>1. Passing' = {o \in Gone(q)' : o < offset'} /\ pg' \in Pages
    BY <1>0, <1>3, <1>7, LostLinks
  <2>2. IsFiniteSet(Passing') /\ Cardinality(Passing') \in Nat
    BY <1>7, <2>1, PassingNext
  <2>3. \A o \in Gone(q) : o \in Nat
    BY <1>1, <1>3, GoneAt
  <2>4. Passing \in SUBSET Passing'
    BY <1>1, <1>3, <1>5, <1>7, <2>1, <2>3
  <2>5. Cardinality(Passing) <= Cardinality(Passing')
    BY <2>2, <2>4, FS_Subset
  <2>6. lost' \in Nat /\ lost' <= Cardinality(Passing')
    <3>1. CASE lost' = lost
      BY <1>1, <1>5, <2>2, <2>5, <3>1
    <3>2. CASE lost' = lost + 1 /\ offset \in Gone(q)'
      <4>1. Passing \union {offset} \in SUBSET Passing'
        <5>1. offset < offset'
          BY <1>1, <1>7
        <5> QED
          BY <2>1, <2>4, <3>2, <5>1
      <4>2. Cardinality(Passing \union {offset}) = Cardinality(Passing) + 1
        BY <1>5, <1>6, FS_AddElement
      <4>3. Cardinality(Passing \union {offset}) <= Cardinality(Passing')
        BY <2>2, <4>1, FS_Subset
      <4> QED
        BY <1>1, <1>5, <2>2, <3>2, <4>2, <4>3
    <3> QED
      BY <1>7, <3>1, <3>2
  <2> QED
    BY <1>1, <1>2, <1>6, <1>7, <2>6 DEF Tally
<1>8. ASSUME UNCHANGED items
      PROVE  /\ items' \in [Pages -> Seq(Item)] /\ Fits'
             /\ \A p \in Pages : Gone(p)' = Gone(p) /\ LostIn(p)' = LostIn(p)
  BY <1>1, <1>8, SameLost DEF Fits
<1>9. ASSUME NEW z \in Used, items' = With(z, ZeroedItem)
      PROVE  /\ items' \in [Pages -> Seq(Item)] /\ Fits'
             /\ \A p \in Pages : /\ Gone(p)' = IF p = z[1] THEN Gone(p) \union {z[2]} ELSE Gone(p)
                                 /\ LostIn(p)' = IF p = z[1] THEN LostIn(p) + 1 ELSE LostIn(p)
  BY <1>1, <1>9, OneMoreGone
<1>10. CASE /\ ItemAt(h).id = Zeroed /\ offset' = offset + 1 /\ lost' = lost + 1
            /\ UNCHANGED <<items, pgLost, pg>>
  <2>1. offset \in Gone(q)
    BY <1>0, <1>2, <1>10 DEF Gone, ItemAt, Here
  <2> QED
    BY <1>1, <1>3, <1>7, <1>8, <1>10, <2>1
<1>11. CASE /\ ItemAt(h).id # Zeroed /\ items' = With(h, ZeroedItem)
            /\ offset' = offset + 1 /\ lost' = lost + 1 /\ UNCHANGED <<pgLost, pg>>
  <2>1. h \in Used
    BY <1>4, <1>11 DEF Used
  <2>2. /\ items' \in [Pages -> Seq(Item)] /\ Fits'
        /\ \A p \in Pages : /\ Gone(p)' = IF p = q THEN Gone(p) \union {offset} ELSE Gone(p)
                            /\ LostIn(p)' = IF p = q THEN LostIn(p) + 1 ELSE LostIn(p)
    BY <1>4, <1>9, <1>11, <2>1
  <2>3. offset \in Gone(q)' /\ \A p \in Pages : Gone(p) \subseteq Gone(p)'
    BY <1>3, <2>2
  <2>4. \A p \in Pages : pgLost'[p] <= LostIn(p)'
    <3> SUFFICES ASSUME NEW p \in Pages
                 PROVE  pgLost'[p] <= LostIn(p)'
      OBVIOUS
    <3>1. pgLost[p] \in Nat /\ LostIn(p) \in Nat /\ pgLost[p] <= LostIn(p)
      BY <1>1
    <3> QED
      BY <1>11, <2>2, <3>1
  <2> QED
    BY <1>1, <1>7, <1>11, <2>2, <2>3, <2>4
<1> DEFINE dups == Copies(ItemAt(h).id, TRUE)
<1>12. CASE /\ ItemAt(h).id # Zeroed
            /\ IF dups = {}
               THEN items' = items /\ pgLost' = Rewalked(dups)
               ELSE /\ items' = With(FirstOf(dups), ZeroedItem)
                    /\ pgLost' = [Rewalked(dups) EXCEPT ![FirstOf(dups)[1]] = @ + 1]
            /\ offset' = offset + 1 /\ UNCHANGED <<pg, lost>>
  <2>1. ItemAt(h).id \in Ids
    BY <1>1, <1>4, <1>12, ItemsAreItems
  <2>2. dups # {} => FirstOf(dups) \in Used
    BY <2>1, OneDup
  <2> HIDE DEF dups
  <2>3. Rewalked(dups) \in [Pages -> Nat] /\ \A p \in Pages : Rewalked(dups)[p] <= LostIn(p)
    BY <1>1, RewalkedTallies
  <2>4. CASE dups = {}
    BY <1>7, <1>8, <1>12, <2>3, <2>4
  <2>5. CASE dups # {}
    <3>1. PICK z : z = FirstOf(dups)
      OBVIOUS
    <3>2. z \in Used /\ items' = With(z, ZeroedItem) /\ z[1] \in Pages
      BY <1>12, <2>2, <2>5, <3>1, SlotParts DEF Used
    <3>3. /\ items' \in [Pages -> Seq(Item)] /\ Fits'
          /\ \A p \in Pages : /\ Gone(p)' = IF p = z[1] THEN Gone(p) \union {z[2]} ELSE Gone(p)
                              /\ LostIn(p)' = IF p = z[1] THEN LostIn(p) + 1 ELSE LostIn(p)
      BY <1>9, <3>2
    <3>4. PICK f \in [Pages -> Nat] : f = Rewalked(dups)
      BY <2>3
    <3>5. pgLost' = [f EXCEPT ![z[1]] = f[z[1]] + 1]
      BY <1>12, <2>5, <3>1, <3>4
    <3>6. pgLost' \in [Pages -> Nat] /\ \A p \in Pages : pgLost'[p] = IF p = z[1] THEN f[p] + 1 ELSE f[p]
      BY <3>2, <3>5
    <3>7. \A p \in Pages : pgLost'[p] <= LostIn(p)'
      <4> SUFFICES ASSUME NEW p \in Pages
                   PROVE  pgLost'[p] <= LostIn(p)'
        OBVIOUS
      <4>1. PICK a \in Nat, k \in Nat : a = f[p] /\ k = LostIn(p) /\ a <= k
        <5>1. f[p] \in Nat /\ f[p] <= LostIn(p)
          BY <2>3, <3>4
        <5>2. LostIn(p) \in Nat
          BY <1>1
        <5> QED
          BY <5>1, <5>2
      <4>2. pgLost'[p] = IF p = z[1] THEN a + 1 ELSE a
        BY <3>6, <4>1
      <4>3. LostIn(p)' = IF p = z[1] THEN k + 1 ELSE k
        BY <3>3, <4>1
      <4> QED
        BY <4>1, <4>2, <4>3
    <3>8. \A p \in Pages : Gone(p) \subseteq Gone(p)'
      BY <3>3
    <3> QED
      BY <1>7, <1>12, <3>3, <3>6, <3>7, <3>8
  <2> QED
    BY <2>4, <2>5
<1>13. CASE /\ pg' = 1 /\ offset' = 0 /\ lost' = 0 /\ UNCHANGED <<items, pgLost>>
  <2>1. Cardinality(Passing') \in Nat
    BY <1>8, <1>13, Numbers, PassingNext
  <2>2. 0 <= PageItems + 1
    BY <1>1
  <2> QED
    BY <1>1, <1>2, <1>8, <1>13, <2>1, <2>2 DEF Tally
<1>14. CASE offset' = offset + 1 /\ UNCHANGED <<items, pgLost, pg, lost>>
  BY <1>1, <1>7, <1>8, <1>14
<1> QED
  <2>1. h = Here
    BY <1>0
  <2> QED
    BY <1>10, <1>11, <1>12, <1>13, <1>14, <2>1 DEF ScanItem

LEMMA InitNVTallies ==
  ASSUME Placed, Tally, initNV
  PROVE  Tally' /\ (resets = 0 /\ FirstStart => Balance')
<1>1. /\ Shape /\ items \in [Pages -> Seq(Item)] /\ Fits /\ offset \in Nat
      /\ \A p \in Pages : LostIn(p) \in Nat
      /\ pgLost \in [Pages -> Nat] /\ \A p \in Pages : pgLost[p] <= LostIn(p)
      /\ op \in Ops /\ lost \in Nat /\ offset <= PageItems + 1 /\ PageItems \in Nat
  BY TallyKnows
<1>2. pc' \in {"initPage", "resume", "eraseAll", "idle", "mark"} /\ (pc' = "mark" => ~ (resets = 0 /\ FirstStart))
  <2>1. Resume => pc' \in {"eraseAll", "idle", "mark"} /\ (pc' = "mark" => ~ (resets = 0 /\ FirstStart))
    BY DEF Resume, Idle, FirstStart, ScanPcs
  <2> QED
    BY <2>1 DEF initNV, ScanHeader, ScanItem, ScanEnd, EraseAll
<1>3. resets = 0 /\ FirstStart => Balance'
  BY <1>2 DEF Balance, WritePcs, CompactPcs
<1>4. CASE ScanHeader
  <2>1. /\ pc = "initPage" /\ pc' = "initPage" /\ offset = 0 /\ offset' = 1
        /\ UNCHANGED <<items, pgLost, op, pg, lost>>
    BY <1>4 DEF ScanHeader
  <2>2. pg \in Pages /\ pg' \in Pages
    BY <2>1, WalkPlaced
  <2>3. items' \in [Pages -> Seq(Item)] /\ Fits'
    BY <1>1, <2>1 DEF Fits
  <2>4. Cardinality(Passing') \in Nat
    BY <2>2, <2>3, PassingNext
  <2>5. lost = 0
    <3>1. \A o \in Gone(pg) : o \in Nat
      BY <1>1, <2>2, GoneAt
    <3>2. Passing = {}
      BY <2>1, <3>1 DEF Passing
    <3>3. lost <= 0
      BY <2>1, <3>2, FS_EmptySet DEF Tally
    <3> QED
      BY <1>1, <3>3
  <2>6. offset' <= PageItems + 1
    BY <1>1, <2>1
  <2>7. lost' <= Cardinality(Passing')
    BY <2>1, <2>4, <2>5
  <2>8. Tally'
    BY <1>1, <2>1, <2>6, <2>7, SameLost DEF Tally
  <2> QED
    BY <1>3, <2>8
<1>5. CASE ScanItem
  BY <1>3, <1>5, ScanTallies
<1>6. CASE ScanEnd
  <2>1. /\ pc = "initPage" /\ pc' \in {"initPage", "resume"} /\ offset' = 0 /\ lost' = 0
        /\ pgLost' = [pgLost EXCEPT ![pg] = lost]
        /\ UNCHANGED <<items, op>>
    BY <1>6 DEF ScanEnd, flash
  <2>2. pg \in Pages /\ (pc' = "initPage" => pg' \in Pages)
    <3>1. pg \in Pages
      BY <2>1, WalkPlaced
    <3> QED
      BY <1>6, <3>1, Numbers DEF ScanEnd, Pages
  <2>3. items' \in [Pages -> Seq(Item)] /\ Fits'
    BY <1>1, <2>1 DEF Fits
  <2>4. pc' = "initPage" => Cardinality(Passing') \in Nat
    BY <2>2, <2>3, PassingNext
  <2>5. lost <= LostIn(pg)
    <3>1. lost <= Cardinality(Passing) /\ Cardinality(Passing) <= LostIn(pg) /\ Cardinality(Passing) \in Nat
      BY <1>1, <2>1, <2>2, PassingCounts DEF Tally
    <3>2. LostIn(pg) \in Nat
      BY <1>1, <2>2
    <3> QED
      BY <1>1, <3>1, <3>2
  <2>6. pgLost' \in [Pages -> Nat] /\ \A p \in Pages : pgLost'[p] <= LostIn(p)'
    <3>1. pgLost' \in [Pages -> Nat] /\ \A p \in Pages : pgLost'[p] = IF p = pg THEN lost ELSE pgLost[p]
      BY <1>1, <2>1, <2>2
    <3>2. \A p \in Pages : LostIn(p)' = LostIn(p)
      BY <2>1, SameLost
    <3> QED
      BY <1>1, <2>5, <3>1, <3>2
  <2>7. offset' <= PageItems + 1
    BY <1>1, <2>1
  <2>8. lost' \in Nat /\ IF pc' = "initPage" THEN lost' <= Cardinality(Passing') ELSE lost' = 0
    BY <2>1, <2>4
  <2>9. Tally'
    BY <1>1, <2>1, <2>6, <2>7, <2>8 DEF Tally
  <2> QED
    BY <1>3, <2>9
<1>7. CASE Resume
  <2>1. /\ pc = "resume" /\ pc' \in {"eraseAll", "idle", "mark"} /\ UNCHANGED <<items, pgLost>>
        /\ op' \in {op, NoOp} /\ offset' \in {0, offset} /\ lost' \in {0, lost}
    BY <1>7 DEF Resume, Idle, NoScan
  <2>2. pgLost' \in [Pages -> Nat] /\ \A p \in Pages : pgLost'[p] <= LostIn(p)'
    BY <1>1, <2>1, SameLost
  <2>3. offset' <= PageItems + 1 /\ op' \in Ops /\ pc # "initPage" /\ pc' # "initPage"
    BY <1>1, <2>1, NoOpIsOp
  <2>4. Tally'
    BY <2>1, <2>2, <2>3, TallyKept
  <2> QED
    BY <1>3, <2>4
<1>8. CASE EraseAll
  <2>1. /\ pc = "eraseAll" /\ pc' \in {"initPage", "eraseAll"} /\ (pc' = "initPage" => pg' = 1)
        /\ items' = [items EXCEPT ![pg] = <<>>]
        /\ pgLost' = [pgLost EXCEPT ![pg] = 0]
        /\ UNCHANGED <<op, offset, lost>>
    BY <1>8 DEF EraseAll, erasePage
  <2>2. pg \in Pages /\ lost = 0
    BY <2>1 DEF Placed, Rewalk, Tally
  <2>3. /\ items' \in [Pages -> Seq(Item)] /\ Fits'
        /\ \A p \in Pages : p # pg => LostIn(p)' = LostIn(p)
    BY <1>1, <2>1, <2>2, EraseGone
  <2>4. \A p \in Pages : LostIn(p)' \in Nat
    BY <2>3, GoneNext
  <2>5. pgLost' \in [Pages -> Nat] /\ \A p \in Pages : pgLost'[p] = IF p = pg THEN 0 ELSE pgLost[p]
    BY <1>1, <2>1, <2>2
  <2>6. ASSUME NEW p \in Pages
        PROVE  pgLost'[p] <= LostIn(p)'
    <3>1. CASE p = pg
      <4>1. pgLost'[p] = 0 /\ LostIn(p)' \in Nat
        BY <2>4, <2>5, <3>1
      <4> QED
        BY <4>1
    <3>2. CASE p # pg
      BY <1>1, <2>3, <2>5, <3>2
    <3> QED
      BY <3>1, <3>2
  <2>7. pc' = "initPage" => Cardinality(Passing') \in Nat
    BY <2>1, <2>3, Numbers, PassingNext
  <2>8. lost' \in Nat /\ IF pc' = "initPage" THEN lost' <= Cardinality(Passing') ELSE lost' = 0
    BY <2>1, <2>2, <2>7
  <2>9. Tally'
    BY <1>1, <2>1, <2>5, <2>6, <2>8 DEF Tally
  <2> QED
    BY <1>3, <2>9
<1> QED
  BY <1>4, <1>5, <1>6, <1>7, <1>8 DEF initNV

LEMMA ResetTallies ==
  ASSUME Placed, Tally, Reset
  PROVE  Tally'
<1>1. /\ Shape /\ items \in [Pages -> Seq(Item)] /\ Fits
      /\ \A p \in Pages : LostIn(p) \in Nat
      /\ PageItems \in Nat
  BY TallyKnows
<1>2. /\ UNCHANGED items /\ pgLost' = [p \in Pages |-> 0]
      /\ pc' = "initPage" /\ op' = NoOp /\ pg' = 1 /\ offset' = 0 /\ lost' = 0
  BY DEF Reset, flash
<1>3. items' \in [Pages -> Seq(Item)] /\ Fits' /\ pg' \in Pages
  BY <1>1, <1>2, Numbers DEF Fits
<1>4. Cardinality(Passing') \in Nat
  BY <1>3, PassingNext
<1>5. \A p \in Pages : pgLost'[p] = 0 /\ LostIn(p)' \in Nat
  BY <1>2, <1>3, GoneNext
<1>6. pgLost' \in [Pages -> Nat] /\ \A p \in Pages : pgLost'[p] <= LostIn(p)'
  BY <1>2, <1>5
<1>7. offset' <= PageItems + 1
  BY <1>1, <1>2
<1> QED
  BY <1>2, <1>4, <1>6, <1>7, NoOpIsOp DEF Tally

-----------------------------------------------------------------------------
LEMMA InitTallies ==
  ASSUME Init
  PROVE  Tally /\ Balance
<1>1. /\ items \in [Pages -> Seq(Item)] /\ Fits /\ pg \in Pages
      /\ pc = "initPage" /\ lost = 0 /\ offset = 0 /\ op = NoOp
  BY Numbers DEF Init, Fits
<1>2. Cardinality(Passing) \in Nat /\ \A p \in Pages : LostIn(p) \in Nat
  BY <1>1, PassingCounts, GoneCounts
<1>3. pgLost \in [Pages -> Nat] /\ \A p \in Pages : pgLost[p] <= LostIn(p)
  BY <1>2 DEF Init
<1>4. Tally
  BY <1>1, <1>2, <1>3, NoOpIsOp, Numbers DEF Tally
<1>5. Balance
  BY <1>1 DEF Balance, WritePcs, CompactPcs
<1> QED
  BY <1>4, <1>5

LEMMA NothingTallied ==
  ASSUME UNCHANGED vars
  PROVE  (Tally => Tally') /\ (Balance => Balance')
<1>1. Tally => Tally'
  BY SameLost DEF Tally, Passing, Gone, vars, flash, ram, scan
<1>2. Balance => Balance'
  BY DEF Balance, LostIn, vars, flash, ram, scan
<1> QED
  BY <1>1, <1>2

(* Every step but a reset.                                                 *)
LEMMA StepKeeps ==
  ASSUME Safe, Tally, Step \/ Call \/ UNCHANGED vars,
         pc = "copyHdr" => Len(items[pgRes]) < PageItems
  PROVE  Safe' /\ Tally' /\ UNCHANGED resets /\ (resets = 0 /\ Balance => Balance')
<1>0. Placed
  BY SafePlaced
<1>1. CASE Call
  <2>1. UNCHANGED resets
    BY <1>1 DEF Call, Lookup, osal_nv_item_init, osal_nv_write, initItem
  <2> QED
    BY <1>0, <1>1, <2>1, CallSafe, CallTallies
<1>2. CASE Write
  <2>1. UNCHANGED resets
    BY <1>2 DEF Write, Activate, Header, MarkOld, Data, Checksum, Zero
  <2>2. Safe'
    BY <1>2, ActivateSafe, HeaderSafe, MarkOldSafe, DataSafe, ChecksumSafe, ZeroSafe DEF Write
  <2> QED
    BY <1>0, <1>2, <2>1, <2>2, WriteTallies
<1>3. CASE Compact
  <2>1. UNCHANGED resets
    BY <1>3 DEF Compact, Mark, CompactItem, CopyHdr, CopyData, CopyZero, Erase, Finish
  <2>2. CASE CopyHdr
    <3>1. pc = "copyHdr"
      BY <2>2 DEF CopyHdr
    <3> QED
      BY <1>0, <1>3, <2>1, <2>2, <3>1, CopyHdrSafe, CompactTallies
  <2>3. CASE ~ CopyHdr
    <3>1. Safe'
      BY <1>3, <2>3, MarkSafe, CompactItemSafe, CopyDataSafe, CopyZeroSafe, EraseSafe, FinishSafe DEF Compact
    <3> QED
      BY <1>0, <1>3, <2>1, <2>3, <3>1, CompactTallies
  <2> QED
    BY <2>2, <2>3
<1>4. CASE initNV
  <2>1. UNCHANGED resets
    BY <1>4 DEF initNV, ScanHeader, ScanItem, ScanEnd, Resume, EraseAll
  <2>2. Safe'
    BY <1>4, ScanHeaderSafe, ScanItemSafe, ScanEndSafe, ResumeSafe, EraseAllSafe DEF initNV
  <2> QED
    BY <1>0, <1>4, <2>1, <2>2, InitNVTallies DEF Safe
<1>5. CASE UNCHANGED vars
  <2>1. UNCHANGED <<flash, pgRes, pc, op, scan, stat, resets, expect>>
    BY <1>5 DEF vars, ram
  <2> QED
    BY <1>5, <2>1, NothingNew, NothingTallied
<1> QED
  BY <1>1, <1>2, <1>3, <1>4, <1>5 DEF Step

(* With room for every item, up to the second reset.                       *)
LEMMA StepInvariant ==
  ASSUME RoomForAll, IInv, [Next]_vars
  PROVE  IInv'
<1>1. resets \in Nat /\ (resets <= 1 => Safe /\ Tally)
  BY DEF IInv
<1>2. CASE Reset
  <2>1. resets' = resets + 1 /\ resets' \in Nat
    BY <1>1, <1>2 DEF Reset
  <2>2. resets' <= 1 => resets = 0
    BY <1>1, <2>1
  <2> QED
    BY <1>1, <1>2, <2>1, <2>2, ResetSafe, SafePlaced, ResetTallies DEF IInv
<1>3. CASE ~ Reset
  <2>1. Step \/ Call \/ UNCHANGED vars
    BY <1>3 DEF Next
  <2>2. UNCHANGED resets
    BY <2>1 DEF Step, Call, Lookup, osal_nv_item_init, osal_nv_write, initItem,
                Write, Activate, Header, MarkOld, Data, Checksum, Zero,
                Compact, Mark, CompactItem, CopyHdr, CopyData, CopyZero, Erase, Finish,
                initNV, ScanHeader, ScanItem, ScanEnd, Resume, EraseAll, vars
  <2>3. Safe /\ pc = "copyHdr" => Len(items[pgRes]) < PageItems
    <3> SUFFICES ASSUME Safe, pc = "copyHdr"
                 PROVE  Len(items[pgRes]) < PageItems
      OBVIOUS
    <3>1. pc \in CompactPcs /\ pc \notin CopyPcs
      BY DEF CompactPcs, CopyPcs
    <3>2. Here \in Used /\ Here[1] # pgRes
      BY <3>1, CompactKnows DEF Safe, Compacting, Here
    <3> QED
      BY <3>1, <3>2, CompactKnows, RoomToCopy
  <2>4. resets <= 1 => Safe' /\ Tally'
    BY <1>1, <2>1, <2>3, StepKeeps
  <2> QED
    BY <1>1, <2>2, <2>4 DEF IInv
<1> QED
  BY <1>2, <1>3

(* With pages of any size, up to the first reset.                          *)
LEMMA StepWithoutReset ==
  ASSUME Unreset, [Next]_vars
  PROVE  Unreset'
<1>1. resets \in Nat /\ (resets = 0 => Safe /\ Tally /\ Balance)
  BY DEF Unreset
<1>2. CASE Reset
  <2>1. resets' = resets + 1 /\ resets' \in Nat /\ resets' # 0
    BY <1>1, <1>2 DEF Reset
  <2> QED
    BY <2>1 DEF Unreset
<1>3. CASE ~ Reset
  <2>1. Step \/ Call \/ UNCHANGED vars
    BY <1>3 DEF Next
  <2>2. UNCHANGED resets
    BY <2>1 DEF Step, Call, Lookup, osal_nv_item_init, osal_nv_write, initItem,
                Write, Activate, Header, MarkOld, Data, Checksum, Zero,
                Compact, Mark, CompactItem, CopyHdr, CopyData, CopyZero, Erase, Finish,
                initNV, ScanHeader, ScanItem, ScanEnd, Resume, EraseAll, vars
  <2>3. resets = 0 => Safe' /\ Tally' /\ Balance'
    BY <1>1, <2>1, BalanceHasRoom, StepKeeps
  <2> QED
    BY <1>1, <2>2, <2>3 DEF Unreset
<1> QED
  BY <1>2, <1>3

(* The state stays as IInv says, whatever the calls, and wherever the one  *)
(* reset comes, also during the first initNV or a compaction.              *)
THEOREM Inductive ==
  ASSUME RoomForAll
  PROVE  Spec => []IInv
<1>1. Init => IInv
  <2>1. Init => resets \in Nat
    BY DEF Init
  <2> QED
    BY <2>1, InitSafe, InitTallies DEF IInv
<1>2. IInv /\ [Next]_vars => IInv'
  BY StepInvariant
<1> QED
  BY <1>1, <1>2, PTL DEF Spec

(* The same for pages of any size, with Balance, until the first reset.    *)
THEOREM InductiveWithoutReset == Spec => []Unreset
<1>1. Init => Unreset
  <2>1. Init => resets \in Nat
    BY DEF Init
  <2> QED
    BY <2>1, InitSafe, InitTallies DEF Unreset
<1>2. Unreset /\ [Next]_vars => Unreset'
  BY StepWithoutReset
<1> QED
  BY <1>1, <1>2, PTL DEF Spec

(* Between calls every reader gets what is expected.                       *)
LEMMA SafeReads ==
  ASSUME Safe, pc = "idle"
  PROVE  \A i \in Ids : osal_nv_read(i) \in expect[i]
<1> SUFFICES ASSUME NEW i \in Ids
             PROVE  osal_nv_read(i) \in expect[i]
  OBVIOUS
<1>1. Clean(Used)
  <2>1. Fresh = {}
    BY DEF Fresh, WritePcs, CopyPcs
  <2> QED
    BY <2>1 DEF Safe, Settled, Clean
<1>2. Shape
  BY DEF Safe
<1>3. /\ \A x \in Used : ItemAt(x).data \in expect[ItemAt(x).id]
      /\ (\A x \in Used : ItemAt(x).id # i) => Absent \in expect[i]
  BY <1>1, CleanReads
<1>4. CASE \E x \in Used : ItemAt(x).id = i
  <2>1. PICK x \in Used : ItemAt(x).id = i
    BY <1>4
  <2> QED
    BY <1>1, <1>2, <1>3, <2>1, ReadIs
<1>5. CASE \A x \in Used : ItemAt(x).id # i
  BY <1>1, <1>2, <1>3, <1>5, ReadIs
<1> QED
  BY <1>4, <1>5

(* TypeOK, with the bounds of the counts.                                  *)
LEMMA PlacedTypes ==
  ASSUME Placed, Tally, resets <= MaxResets, resets \in Nat
  PROVE  TypeOK
<1>1. /\ Shape /\ items \in [Pages -> Seq(Item)] /\ Fits /\ offset \in Nat
      /\ \A p \in Pages : /\ LostIn(p) \in Nat /\ LostIn(p) <= Len(items[p])
                          /\ Len(items[p]) \in Nat /\ Len(items[p]) <= PageItems
      /\ pgLost \in [Pages -> Nat] /\ \A p \in Pages : pgLost[p] <= LostIn(p)
      /\ op \in Ops /\ lost \in Nat /\ offset <= PageItems + 1 /\ PageItems \in Nat
  BY TallyKnows
<1>2. pgLost \in [Pages -> 0 .. PageItems]
  <2>1. \A p \in Pages : pgLost[p] \in 0 .. PageItems
    <3> SUFFICES ASSUME NEW p \in Pages
                 PROVE  pgLost[p] \in 0 .. PageItems
      OBVIOUS
    <3>1. /\ pgLost[p] \in Nat /\ LostIn(p) \in Nat /\ Len(items[p]) \in Nat
          /\ pgLost[p] <= LostIn(p) /\ LostIn(p) <= Len(items[p]) /\ Len(items[p]) <= PageItems
      BY <1>1
    <3> QED
      BY <1>1, <3>1
  <2> QED
    BY <1>1, <2>1
<1>3. lost \in 0 .. PageItems
  <2>1. CASE pc = "initPage"
    <3>1. pg \in Pages
      BY <2>1, WalkPlaced
    <3>2. PICK k \in Nat, n \in Nat, c \in Nat :
            k = LostIn(pg) /\ n = Len(items[pg]) /\ c = Cardinality(Passing)
      BY <1>1, <3>1, PassingCounts
    <3>3. lost <= c /\ c <= k /\ k <= n /\ n <= PageItems
      BY <1>1, <2>1, <3>1, <3>2, PassingCounts DEF Tally
    <3> QED
      BY <1>1, <3>3
  <2>2. CASE pc # "initPage"
    BY <1>1, <2>2 DEF Tally
  <2> QED
    BY <2>1, <2>2
<1>4. offset \in 0 .. PageItems + 1
  BY <1>1
<1>5. resets \in 0 .. MaxResets
  BY NvAssumption
<1>6. pc \in {"idle", "activate", "header", "markOld", "data", "chk", "zero",
              "mark", "compact", "copyHdr", "copyData", "copyZero", "erase", "finish",
              "initPage", "resume", "eraseAll"}
  BY <1>1 DEF Shape, WritePcs, CompactPcs, ScanPcs
<1>7. op \in [id : Ids \union {Zeroed}, val : Vals \union {Blank},
              src : (Pages \union {NULL}) \X (0 .. PageItems),
              dstPg : Pages \union {NULL}, comPg : Pages \union {NULL}]
  BY <1>1 DEF Ops
<1>8. \A p \in Pages : Len(items[p]) <= PageItems
  BY <1>1
<1> QED
  BY <1>1, <1>2, <1>3, <1>4, <1>5, <1>6, <1>7, <1>8 DEF Shape, TypeOK

(* The bound on the resets holds.                                          *)
LEMMA ResetsBounded == Spec => [](resets \in Nat /\ resets <= MaxResets)
<1>1. Init => resets \in Nat /\ resets <= MaxResets
  BY NvAssumption DEF Init
<1>2. (resets \in Nat /\ resets <= MaxResets) /\ [Next]_vars => (resets \in Nat /\ resets <= MaxResets)'
  <2> SUFFICES ASSUME resets \in Nat, resets <= MaxResets, [Next]_vars
               PROVE  (resets \in Nat /\ resets <= MaxResets)'
    OBVIOUS
  <2>1. CASE Reset
    <3>1. resets < MaxResets /\ resets' = resets + 1
      BY <2>1 DEF Reset
    <3> QED
      BY <3>1, NvAssumption
  <2>2. CASE ~ Reset
    <3>1. UNCHANGED resets
      BY <2>2 DEF Next, Step, Call, Lookup, osal_nv_item_init, osal_nv_write, initItem,
                  Write, Activate, Header, MarkOld, Data, Checksum, Zero,
                  Compact, Mark, CompactItem, CopyHdr, CopyData, CopyZero, Erase, Finish,
                  initNV, ScanHeader, ScanItem, ScanEnd, Resume, EraseAll, vars
    <3> QED
      BY <3>1
  <2> QED
    BY <2>1, <2>2
<1> QED
  BY <1>1, <1>2, PTL DEF Spec

(* With room for all items and one more in a page, whatever the calls and  *)
(* wherever the first reset comes: between calls a reader of an item gets  *)
(* the last value whose write was completed, or, when the reset came into  *)
(* the middle of a write, the one before, initNV settling which.           *)
THEOREM ReadersGetTheLastWritten ==
  ASSUME RoomForAll
  PROVE  Spec => []LastWritten
<1>1. IInv => LastWritten
  BY SafeReads DEF IInv, LastWritten
<1> QED
  BY <1>1, Inductive, PTL

(* With the same room, up to the second reset: no page is written past its *)
(* end, the flash holds items only, and pgLost never promises more room    *)
(* than a compaction wins back.                                            *)
THEOREM TypesUpToTheSecondReset ==
  ASSUME RoomForAll
  PROVE  Spec => [](resets <= 1 => TypeOK)
<1>1. IInv /\ (resets \in Nat /\ resets <= MaxResets) => (resets <= 1 => TypeOK)
  BY SafePlaced, PlacedTypes DEF IInv
<1> QED
  BY <1>1, Inductive, ResetsBounded, PTL

(* However many items there are, and whatever a page holds: as long as no  *)
(* reset comes, no page is written past its end, the compaction of a page  *)
(* always fits in the reserve (pgLost counts what it wins back), and a     *)
(* reader of an item gets the last value that was written.                 *)
THEOREM WithoutResetNothingIsLost == Spec => [](resets = 0 => TypeOK /\ LastWritten)
<1>1. Unreset /\ (resets \in Nat /\ resets <= MaxResets) => (resets = 0 => TypeOK /\ LastWritten)
  BY SafePlaced, PlacedTypes, SafeReads DEF Unreset, LastWritten
<1> QED
  BY <1>1, InductiveWithoutReset, ResetsBounded, PTL

-----------------------------------------------------------------------------
(* What a step of the walk does with an item: nothing, or it zeroes it, or *)
(* the old copy of it.                                                     *)
LEMMA ScanItemDoes ==
  ASSUME Placed, ScanItem, NEW h, h = Here
  PROVE  /\ h \in Slots /\ h[1] = pg /\ h[2] = offset
         /\ \/ /\ pg' = pg /\ offset' = offset + 1 /\ findDups' = findDups
               /\ \/ UNCHANGED items /\ (h \in Used => Valid(ItemAt(h)))
                  \/ \E z \in Used :
                       /\ items' = With(z, ZeroedItem)
                       /\ \/ z = h /\ ~ Valid(ItemAt(h))
                          \/ /\ h \in Used /\ z # h /\ ItemAt(z).id = ItemAt(h).id
                             /\ ItemAt(z).old /\ Valid(ItemAt(h)) /\ ~ ItemAt(h).old
            \/ pg' = 1 /\ offset' = 0 /\ findDups' /\ UNCHANGED items
<1>1. pc = "initPage" /\ offset \in DOMAIN items[pg]
  BY DEF ScanItem
<1>2. Shape /\ items \in [Pages -> Seq(Item)] /\ Fits /\ pg \in Pages /\ offset \in Nat
  BY <1>1, WalkPlaced
<1>3. h \in Slots /\ h[1] = pg /\ h[2] = offset
  BY <1>1, <1>2, PlaceIsSlot DEF Here
<1>4. h \in Used <=> ItemAt(h).id # Zeroed
  BY <1>3 DEF Used
<1> DEFINE dups == Copies(ItemAt(h).id, TRUE)
           Goes == pg' = pg /\ offset' = offset + 1 /\ findDups' = findDups
           Keeps == UNCHANGED items /\ (h \in Used => Valid(ItemAt(h)))
           Zeroes == \E z \in Used :
                       /\ items' = With(z, ZeroedItem)
                       /\ \/ z = h /\ ~ Valid(ItemAt(h))
                          \/ /\ h \in Used /\ z # h /\ ItemAt(z).id = ItemAt(h).id
                             /\ ItemAt(z).old /\ Valid(ItemAt(h)) /\ ~ ItemAt(h).old
           Restarts == pg' = 1 /\ offset' = 0 /\ findDups' /\ UNCHANGED items
<1>5. (Goes /\ (Keeps \/ Zeroes)) \/ Restarts
  <2>1. CASE /\ ItemAt(h).id = Zeroed /\ offset' = offset + 1 /\ UNCHANGED <<items, pg, findDups>>
    BY <1>4, <2>1
  <2>2. CASE /\ ItemAt(h).id # Zeroed /\ ~ Valid(ItemAt(h))
             /\ items' = With(h, ZeroedItem) /\ offset' = offset + 1 /\ UNCHANGED <<pg, findDups>>
    BY <1>4, <2>2
  <2>3. CASE /\ ItemAt(h).id # Zeroed /\ Valid(ItemAt(h)) /\ ~ ItemAt(h).old /\ findDups
             /\ IF dups = {} THEN items' = items
                             ELSE items' = With(FirstOf(dups), ZeroedItem)
             /\ offset' = offset + 1 /\ UNCHANGED <<pg, findDups>>
    <3>1. ItemAt(h).id \in Ids
      BY <1>2, <1>3, <2>3, ItemsAreItems
    <3>2. dups # {} => /\ FirstOf(dups) \in Used /\ ItemAt(FirstOf(dups)).id = ItemAt(h).id
                       /\ ItemAt(FirstOf(dups)).old
      BY <3>1, OneDup
    <3> HIDE DEF dups
    <3> QED
      BY <1>4, <2>3, <3>2
  <2>4. CASE /\ findDups' = TRUE /\ pg' = 1 /\ offset' = 0 /\ UNCHANGED items
    BY <2>4
  <2>5. CASE /\ ItemAt(h).id # Zeroed /\ Valid(ItemAt(h))
             /\ offset' = offset + 1 /\ UNCHANGED <<items, pg, findDups>>
    BY <1>4, <2>5
  <2> HIDE DEF Goes, Keeps, Zeroes, Restarts
  <2> QED
    <3>1. h = Here
      OBVIOUS
    <3> QED
      BY <2>1, <2>2, <2>3, <2>4, <2>5, <3>1 DEF ScanItem
<1> QED
  BY <1>3, <1>5

-----------------------------------------------------------------------------
(* The headers up to the second reset.                                     *)

(* A step of a call, or of a compaction, that leaves the headers alone.    *)
LEMMA PagesSame ==
  ASSUME PagesKept, UNCHANGED <<pgHdr, pgRes, resets>>, pc \notin ScanPcs, pc' \notin ScanPcs,
         pc # "finish", pc' # "finish",
         \A p \in Pages : ~ pgHdr[p].active => items'[p] = <<>>,
         resets = 0 => Marked',
         pc' \in CompactPcs \/ (pc' \in {"header"} \union WritePcs /\ op'.dstPg = pgRes) =>
           pgHdr[pgRes].active
  PROVE  PagesKept'
<1>1. \A p \in Pages : ~ pgHdr'[p].active => items'[p] = <<>> /\ ~ pgHdr'[p].xfer
  BY DEF PagesKept
<1>2. pc' \notin {"initPage", "resume"}
  BY DEF ScanPcs
<1>3. \A p \in Pages \ {pgRes'} : InUse(p)'
  BY DEF PagesKept, InUse
<1> QED
  BY <1>1, <1>2, <1>3 DEF PagesKept

(* What the headers are in a call or a compaction.                         *)
LEMMA PagesOfCalls ==
  ASSUME Safe, PagesKept, pc \notin ScanPcs
  PROVE  /\ pgHdr \in [Pages -> PageHdr] /\ items \in [Pages -> Seq(Item)] /\ Fits /\ pgRes \in Pages
         /\ \A p \in Pages : ~ pgHdr[p].active => items[p] = <<>> /\ ~ pgHdr[p].xfer
         /\ pc # "finish" => \A p \in Pages \ {pgRes} : InUse(p)
         /\ pc \in CompactPcs \/ (pc \in {"header"} \union WritePcs /\ op.dstPg = pgRes) =>
              pgHdr[pgRes].active
         /\ resets = 0 => Marked
BY DEF Safe, Shape, PagesKept

(* One lemma per kind of step: it keeps PagesKept.                         *)
LEMMA CallPages ==
  ASSUME Safe, PagesKept, Call
  PROVE  PagesKept'
<1>1. pc = "idle" /\ UNCHANGED <<flash, pgRes, scan, resets>> /\ pc' \in {"idle", "activate", "header"}
  BY DEF Call, Lookup, osal_nv_item_init, osal_nv_write, initItem
<1>2. pc' = "header" => op'.dstPg # pgRes
  <2>1. ASSUME NEW id, NEW val, NEW src, NEW lst, initItem(id, val, src, lst), pc' = "header"
        PROVE  op'.dstPg # pgRes
    <3>1. PICK com : com = ChosenPage(lst)
      OBVIOUS
    <3>2. /\ op' = [id |-> id, val |-> val, src |-> src, dstPg |-> Destination(com), comPg |-> com]
          /\ pc' = IF Destination(com) = pgRes THEN "activate" ELSE "header"
      BY <1>1, <2>1, <3>1 DEF initItem
    <3> QED
      BY <2>1, <3>2
  <2> QED
    BY <1>1, <2>1 DEF Call, Lookup, osal_nv_item_init, osal_nv_write
<1>3. pc \notin ScanPcs
  BY <1>1 DEF ScanPcs
<1>4. resets = 0 => Marked'
  BY <1>1, <1>3, PagesOfCalls DEF Marked, CompactPcs, flash
<1>5. pc' \notin ScanPcs /\ pc' \notin CompactPcs /\ pc' \notin WritePcs
  BY <1>1 DEF ScanPcs, CompactPcs, WritePcs
<1> QED
  BY <1>1, <1>2, <1>3, <1>4, <1>5, PagesOfCalls, PagesSame DEF flash

LEMMA WritePages ==
  ASSUME Safe, PagesKept, Write
  PROVE  PagesKept'
<1>1. Shape /\ pc \notin ScanPcs /\ pc \notin CompactPcs /\ pc # "finish"
  BY DEF Safe, Write, Activate, Header, MarkOld, Data, Checksum, Zero, ScanPcs, CompactPcs
<1>2. /\ pgHdr \in [Pages -> PageHdr] /\ items \in [Pages -> Seq(Item)] /\ Fits /\ pgRes \in Pages
      /\ \A p \in Pages : ~ pgHdr[p].active => items[p] = <<>> /\ ~ pgHdr[p].xfer
      /\ \A p \in Pages \ {pgRes} : InUse(p)
      /\ pc \in {"header"} \union WritePcs /\ op.dstPg = pgRes => pgHdr[pgRes].active
      /\ resets = 0 => Marked
  BY <1>1, PagesOfCalls
<1>3. resets = 0 => \A p \in Pages : ~ pgHdr[p].xfer
  BY <1>1, <1>2 DEF Marked
<1>4. CASE Activate
  <2>1. /\ pc = "activate" /\ pc' = "header" /\ UNCHANGED <<items, pgRes, op, resets>>
        /\ pgHdr' = [pgHdr EXCEPT ![op.dstPg].active = TRUE]
    BY <1>4 DEF Activate, ram
  <2>2. op.dstPg = pgRes
    BY <2>1 DEF Safe, Calling
  <2>3. \A p \in Pages : /\ pgHdr'[p].active = (p = pgRes \/ pgHdr[p].active)
                         /\ pgHdr'[p].inUse = pgHdr[p].inUse /\ pgHdr'[p].xfer = pgHdr[p].xfer
    BY <1>2, <2>1, <2>2 DEF PageHdr
  <2>4. \A p \in Pages : ~ pgHdr'[p].active => items'[p] = <<>> /\ ~ pgHdr'[p].xfer
    BY <1>2, <2>1, <2>3
  <2>5. resets = 0 => Marked'
    BY <1>3, <2>3 DEF Marked
  <2>6. \A p \in Pages \ {pgRes'} : InUse(p)'
    BY <1>2, <2>1, <2>3 DEF InUse
  <2>7. pgHdr'[pgRes'].active
    BY <1>2, <2>1, <2>3
  <2> QED
    BY <2>1, <2>4, <2>5, <2>6, <2>7 DEF PagesKept, ScanPcs
<1>5. ASSUME UNCHANGED <<pgHdr, pgRes, resets>>, pc \in {"header"} \union WritePcs,
             pc' \in {"idle", "mark"} \union WritePcs,
             pc' # "idle" => op'.dstPg = op.dstPg,
             pc' = "mark" => op.dstPg = pgRes,
             \A p \in Pages : ~ pgHdr[p].active => items'[p] = <<>>
      PROVE  PagesKept'
  <2>1. pc' \notin ScanPcs /\ pc' # "finish"
    BY <1>5 DEF ScanPcs, WritePcs
  <2>2. resets = 0 => Marked'
    BY <1>3, <1>5 DEF Marked
  <2>3. pc' \in CompactPcs \/ (pc' \in {"header"} \union WritePcs /\ op'.dstPg = pgRes) =>
          pgHdr[pgRes].active
    BY <1>2, <1>5 DEF CompactPcs, WritePcs
  <2> QED
    BY <1>1, <1>5, <2>1, <2>2, <2>3, PagesSame
<1>6. CASE Header
  <2>1. /\ pc = "header" /\ pc' \in {"data", "markOld"} /\ UNCHANGED <<pgHdr, pgRes, resets, op>>
        /\ items' = [items EXCEPT ![op.dstPg] =
             Append(@, [id |-> op.id, data |-> Blank, chk |-> Blank, old |-> FALSE])]
    BY <1>6 DEF Header, ram
  <2>2. op.dstPg \in Pages /\ pgHdr[op.dstPg].active
    <3>1. op.dstPg \in {pgRes, op.comPg} /\ op.comPg \in Pages \ {pgRes}
      BY <2>1 DEF Safe, Calling
    <3> QED
      BY <1>2, <2>1, <3>1 DEF InUse
  <2>3. \A p \in Pages : ~ pgHdr[p].active => items'[p] = <<>>
    BY <1>2, <2>1, <2>2
  <2> QED
    BY <1>5, <2>1, <2>3 DEF WritePcs
<1>7. ASSUME NEW x \in Slots, NEW it, items' = With(x, it)
      PROVE  \A p \in Pages : ~ pgHdr[p].active => items'[p] = <<>>
  <2>1. \A p \in Pages : p # x[1] => items'[p] = items[p]
    BY <1>2, <1>7 DEF With
  <2> QED
    BY <1>2, <2>1, NoItems
<1>8. /\ pc \in WritePcs => NewItem \in Slots
      /\ pc \in {"markOld", "zero"} => op.src \in Slots
  BY WriteKnows DEF Safe, Writing, Used, WritePcs
<1>9. EndOrCompact => pc' \in {"idle", "mark"} /\ (pc' = "mark" => op.dstPg = pgRes /\ UNCHANGED op)
  BY DEF EndOrCompact, Idle
<1>10. CASE MarkOld
  <2>1. /\ pc = "markOld" /\ pc' = "data" /\ UNCHANGED <<pgHdr, pgRes, resets, op>>
        /\ items' = With(op.src, [ItemAt(op.src) EXCEPT !.old = TRUE])
    BY <1>10 DEF MarkOld, ram
  <2> QED
    BY <1>5, <1>7, <1>8, <2>1 DEF WritePcs
<1>11. CASE Data
  <2>1. /\ pc = "data" /\ pc' = "chk" /\ UNCHANGED <<pgHdr, pgRes, resets, op>>
        /\ items' = With(NewItem, [ItemAt(NewItem) EXCEPT !.data = op.val])
    BY <1>11 DEF Data, ram
  <2> QED
    BY <1>5, <1>7, <1>8, <2>1 DEF WritePcs
<1>12. CASE Checksum
  <2>1. /\ pc = "chk" /\ UNCHANGED <<pgHdr, pgRes, resets>>
        /\ items' = With(NewItem, [ItemAt(NewItem) EXCEPT !.chk = ItemAt(NewItem).data])
        /\ EndOrCompact \/ (pc' = "zero" /\ UNCHANGED op)
    BY <1>12 DEF Checksum, ram
  <2> QED
    BY <1>5, <1>7, <1>8, <1>9, <2>1 DEF WritePcs
<1>13. CASE Zero
  <2>1. /\ pc = "zero" /\ UNCHANGED <<pgHdr, pgRes, resets>> /\ EndOrCompact
        /\ items' = With(op.src, ZeroedItem)
    BY <1>13 DEF Zero
  <2> QED
    BY <1>5, <1>7, <1>8, <1>9, <2>1 DEF WritePcs
<1> QED
  BY <1>4, <1>6, <1>10, <1>11, <1>12, <1>13 DEF Write

LEMMA CompactPages ==
  ASSUME Safe, PagesKept, Compact
  PROVE  PagesKept'
<1>1. pc \in CompactPcs /\ pc \notin ScanPcs
  BY DEF Compact, Mark, CompactItem, CopyHdr, CopyData, CopyZero, Erase, Finish, ScanPcs, CompactPcs
<1>2. /\ pgHdr \in [Pages -> PageHdr] /\ items \in [Pages -> Seq(Item)] /\ Fits /\ pgRes \in Pages
      /\ \A p \in Pages : ~ pgHdr[p].active => items[p] = <<>> /\ ~ pgHdr[p].xfer
      /\ pc # "finish" => \A p \in Pages \ {pgRes} : InUse(p)
      /\ pgHdr[pgRes].active
      /\ resets = 0 => Marked
  BY <1>1, PagesOfCalls
<1>3. pg \in Pages /\ pg # pgRes
  BY <1>1, CompactKnows
<1>4. CASE Mark
  <2>1. /\ pc = "mark" /\ pc' = "compact" /\ UNCHANGED <<items, pgRes, pg, resets>>
        /\ pgHdr' = [pgHdr EXCEPT ![pg].xfer = TRUE]
    BY <1>4 DEF Mark, ram
  <2>2. \A p \in Pages : /\ pgHdr'[p].active = pgHdr[p].active /\ pgHdr'[p].inUse = pgHdr[p].inUse
                         /\ pgHdr'[p].xfer = (p = pg \/ pgHdr[p].xfer)
    BY <1>2, <1>3, <2>1 DEF PageHdr
  <2>3. pgHdr[pg].active
    BY <1>2, <1>3, <2>1 DEF InUse
  <2>4. \A p \in Pages : ~ pgHdr'[p].active => items'[p] = <<>> /\ ~ pgHdr'[p].xfer
    BY <1>2, <2>1, <2>2, <2>3
  <2>5. resets' = 0 => Marked'
    BY <1>2, <2>1, <2>2 DEF Marked, CompactPcs
  <2>6. \A p \in Pages \ {pgRes'} : InUse(p)'
    BY <1>2, <2>1, <2>2 DEF InUse
  <2>7. pgHdr'[pgRes'].active
    BY <1>2, <2>1, <2>2
  <2> QED
    BY <2>1, <2>4, <2>5, <2>6, <2>7 DEF PagesKept, ScanPcs
<1>5. ASSUME UNCHANGED <<pgHdr, pgRes, resets, pg>>,
             pc \notin {"mark", "finish"}, pc' \in CompactPcs \ {"mark", "finish"},
             NEW q \in {pg, pgRes}, \A p \in Pages \ {q} : items'[p] = items[p]
      PROVE  PagesKept'
  <2>1. pc' \notin ScanPcs
    BY <1>5 DEF ScanPcs, CompactPcs
  <2>2. resets = 0 => Marked'
    BY <1>2, <1>5 DEF Marked
  <2>3. pgHdr[q].active
    BY <1>2, <1>3, <1>5 DEF InUse
  <2> QED
    BY <1>1, <1>2, <1>5, <2>1, <2>2, <2>3, PagesSame
<1>6. \A x, it : \A p \in Pages \ {x[1]} : items' = With(x, it) => items'[p] = items[p]
  BY <1>2 DEF With
<1>7. CASE CompactItem
  <2>1. /\ pc = "compact" /\ pc' \in {"compact", "erase", "copyZero", "copyHdr"}
        /\ UNCHANGED <<pgHdr, pgRes, pg, resets>>
        /\ UNCHANGED items \/ \E it : items' = With(Here, it)
    BY <1>7 DEF CompactItem
  <2>2. \A p \in Pages \ {pg} : items'[p] = items[p]
    BY <1>6, <2>1 DEF Here
  <2> QED
    BY <1>5, <2>1, <2>2 DEF CompactPcs
<1>8. CASE CopyHdr
  <2>1. /\ pc = "copyHdr" /\ pc' = "copyData" /\ UNCHANGED <<pgHdr, pgRes, pg, resets>>
        /\ items' = [items EXCEPT ![pgRes] =
             Append(@, [ItemAt(Here) EXCEPT !.data = Blank, !.old = stat])]
    BY <1>8 DEF CopyHdr, ram, scan
  <2>2. \A p \in Pages \ {pgRes} : items'[p] = items[p]
    BY <1>2, <2>1
  <2> QED
    BY <1>5, <2>1, <2>2 DEF CompactPcs
<1>9. CASE CopyData
  <2>1. /\ pc = "copyData" /\ pc' = "copyZero" /\ UNCHANGED <<pgHdr, pgRes, pg, resets>>
        /\ items' = With(Copy, [ItemAt(Copy) EXCEPT !.data = ItemAt(Here).data])
    BY <1>9 DEF CopyData, Copy, ram, scan
  <2>2. \A p \in Pages \ {pgRes} : items'[p] = items[p]
    BY <1>6, <2>1 DEF Copy
  <2> QED
    BY <1>5, <2>1, <2>2 DEF CompactPcs
<1>10. CASE CopyZero
  <2>1. /\ pc = "copyZero" /\ pc' = "compact" /\ UNCHANGED <<pgHdr, pgRes, pg, resets>>
        /\ items' = With(Here, ZeroedItem)
    BY <1>10 DEF CopyZero
  <2>2. \A p \in Pages \ {pg} : items'[p] = items[p]
    BY <1>6, <2>1 DEF Here
  <2> QED
    BY <1>5, <2>1, <2>2 DEF CompactPcs
<1>11. CASE Erase
  <2>1. /\ pc = "erase" /\ pc' = "finish" /\ UNCHANGED <<pgRes, pg, resets>>
        /\ pgHdr' = [pgHdr EXCEPT ![pg] = ErasedHdr] /\ items' = [items EXCEPT ![pg] = <<>>]
    BY <1>11 DEF Erase, erasePage, scan
  <2>2. \A p \in Pages : /\ pgHdr'[p] = IF p = pg THEN ErasedHdr ELSE pgHdr[p]
                         /\ items'[p] = IF p = pg THEN <<>> ELSE items[p]
    BY <1>2, <1>3, <2>1
  <2>3. ~ ErasedHdr.active /\ ~ ErasedHdr.inUse /\ ~ ErasedHdr.xfer
    BY DEF ErasedHdr
  <2>4. \A p \in Pages : ~ pgHdr'[p].active => items'[p] = <<>> /\ ~ pgHdr'[p].xfer
    BY <1>2, <2>2, <2>3
  <2>5. resets' = 0 => Marked'
    BY <1>2, <2>1, <2>2, <2>3 DEF Marked
  <2>6. \A p \in Pages \ {pgRes'} : InUse(p)' \/ (p = pg' /\ Erased(p)')
    BY <1>2, <2>1, <2>2, <2>3 DEF InUse, Erased
  <2>7. pgHdr'[pgRes'].active
    BY <1>2, <1>3, <2>1, <2>2
  <2> QED
    BY <2>1, <2>4, <2>5, <2>6, <2>7 DEF PagesKept, ScanPcs
<1>12. CASE Finish
  <2>1. /\ pc = "finish" /\ pc' = "idle" /\ pgRes' = pg /\ UNCHANGED <<items, resets>>
        /\ pgHdr' = [pgHdr EXCEPT ![pgRes].active = TRUE, ![pgRes].inUse = TRUE]
    BY <1>12 DEF Finish, Idle
  <2>2. \A p \in Pages : /\ pgHdr'[p].active = (p = pgRes \/ pgHdr[p].active)
                         /\ pgHdr'[p].inUse = (p = pgRes \/ pgHdr[p].inUse)
                         /\ pgHdr'[p].xfer = pgHdr[p].xfer
    BY <1>2, <2>1 DEF PageHdr
  <2>3. \A p \in Pages : ~ pgHdr'[p].active => items'[p] = <<>> /\ ~ pgHdr'[p].xfer
    BY <1>2, <2>1, <2>2
  <2>4. resets' = 0 => Marked'
    BY <1>2, <2>1, <2>2 DEF Marked
  <2>5. \A p \in Pages \ {pgRes'} : InUse(p)'
    <3>1. \A p \in Pages \ {pgRes} : InUse(p) \/ p = pg
      BY <1>1, <2>1 DEF PagesKept
    <3> QED
      BY <2>1, <2>2, <3>1 DEF InUse
  <2> QED
    BY <2>1, <2>3, <2>4, <2>5 DEF PagesKept, ScanPcs, CompactPcs, WritePcs
<1> QED
  BY <1>4, <1>7, <1>8, <1>9, <1>10, <1>11, <1>12 DEF Compact

LEMMA ScanHeaderPages ==
  ASSUME Safe, PagesKept, ScanHeader
  PROVE  PagesKept'
<1>1. /\ pc = "initPage" /\ pc' = "initPage" /\ offset = 0 /\ offset' = 1
      /\ UNCHANGED <<items, pg, resets>>
  BY DEF ScanHeader
<1>2. /\ pgHdr \in [Pages -> PageHdr] /\ pg \in Pages /\ pgRes \in Pages \union {NULL}
      /\ newPg \in Pages \union {NULL}
      /\ newPg # NULL => Unused(newPg)
  BY <1>1, WalkKnows DEF Unused
<1>3. /\ \A p \in Pages : ~ pgHdr[p].active => items[p] = <<>> /\ ~ pgHdr[p].xfer
      /\ resets = 0 => \A p \in Pages : ~ pgHdr[p].xfer
      /\ \A p, q \in Pages : Unused(p) /\ Unused(q) => p = q
      /\ \A p \in Pages \ {pgRes} : p < pg => InUse(p) \/ newPg = p
      /\ (\E p \in Pages : pgHdr[p].xfer) => pgRes = NULL /\ \A p \in Pages : pgHdr[p].active
  BY <1>1 DEF PagesKept, Marked, ScanPcs, CompactPcs, AtMostOne, Seen
<1>4. \A p \in Pages : p \in Nat
  BY Numbers
<1>5. \A p \in Pages : Seen(p)' => p < pg \/ p = pg
  BY <1>1 DEF Seen
<1>6. ASSUME \A p \in Pages : pgHdr'[p].xfer = pgHdr[p].xfer,
             \A p \in Pages : pgHdr[p].active => pgHdr'[p].active,
             \A p \in Pages : Unused(p)' => Unused(p),
             \A p \in Pages \ {pgRes'} : p < pg \/ p = pg => InUse(p)' \/ newPg' = p,
             pgRes' # pgRes => ~ pgHdr[pg].active
      PROVE  PagesKept'
  <2>1. \A p \in Pages : ~ pgHdr'[p].active => items'[p] = <<>> /\ ~ pgHdr'[p].xfer
    BY <1>1, <1>3, <1>6
  <2>2. resets' = 0 => Marked'
    BY <1>1, <1>3, <1>6 DEF Marked
  <2>3. AtMostOne({p \in Pages : Unused(p)'})
    BY <1>3, <1>6 DEF AtMostOne
  <2>4. \A p \in Pages \ {pgRes'} : Seen(p)' => InUse(p)' \/ newPg' = p
    BY <1>5, <1>6
  <2>5. (\E p \in Pages : pgHdr'[p].xfer) => pgRes' = NULL /\ \A p \in Pages : pgHdr'[p].active
    BY <1>2, <1>3, <1>6
  <2>6. AtMostOne({p \in Pages : Unused(p)})'
    BY <2>3 DEF AtMostOne
  <2> QED
    BY <1>1, <2>1, <2>2, <2>4, <2>5, <2>6 DEF PagesKept, ScanPcs, CompactPcs, WritePcs
<1>7. CASE ~ pgHdr[pg].active /\ pgRes = NULL
  <2>1. pgRes' = pg /\ pgHdr' = pgHdr /\ newPg' = newPg
    BY <1>7 DEF ScanHeader
  <2>2. \A p \in Pages : p # NULL
    BY Numbers
  <2> QED
    BY <1>2, <1>3, <1>6, <1>7, <2>1, <2>2 DEF Unused, InUse
<1>8. CASE ~ pgHdr[pg].active /\ pgRes # NULL
  <2>1. /\ pgRes' = pgRes /\ newPg' = newPg
        /\ pgHdr' = [pgHdr EXCEPT ![pg].active = TRUE, ![pg].inUse = TRUE]
    BY <1>8 DEF ScanHeader
  <2>2. \A p \in Pages : /\ pgHdr'[p].active = (p = pg \/ pgHdr[p].active)
                         /\ pgHdr'[p].inUse = (p = pg \/ pgHdr[p].inUse)
                         /\ pgHdr'[p].xfer = pgHdr[p].xfer
    BY <1>2, <2>1 DEF PageHdr
  <2>3. \A p \in Pages : Unused(p)' => Unused(p)
    BY <2>2 DEF Unused
  <2>4. \A p \in Pages \ {pgRes'} : p < pg \/ p = pg => InUse(p)' \/ newPg' = p
    BY <1>3, <2>1, <2>2 DEF InUse
  <2> QED
    BY <1>6, <2>1, <2>2, <2>3, <2>4
<1>9. CASE pgHdr[pg].active
  <2>1. /\ pgRes' = pgRes /\ pgHdr' = pgHdr
        /\ newPg' = IF ~ pgHdr[pg].inUse THEN pg ELSE newPg
    BY <1>9 DEF ScanHeader
  <2>2. newPg # NULL /\ ~ pgHdr[pg].inUse => newPg = pg
    BY <1>2, <1>3, <1>9 DEF Unused
  <2>3. \A p \in Pages \ {pgRes'} : p < pg \/ p = pg => InUse(p)' \/ newPg' = p
    <3>1. \A p \in Pages : p # NULL
      BY Numbers
    <3> QED
      BY <1>2, <1>3, <1>9, <2>1, <2>2, <3>1 DEF InUse
  <2> QED
    BY <1>6, <2>1, <2>3 DEF Unused
<1> QED
  BY <1>7, <1>8, <1>9

LEMMA ScanItemPages ==
  ASSUME Safe, PagesKept, ScanItem
  PROVE  PagesKept'
<1>1. /\ pc = "initPage" /\ pc' = "initPage" /\ UNCHANGED <<pgHdr, pgRes, newPg, resets>>
  BY DEF ScanItem
<1>2. /\ items \in [Pages -> Seq(Item)] /\ pg \in Pages /\ pg \in Nat /\ offset \in Nat
      /\ Used \subseteq Slots /\ Fits
  BY <1>1, WalkKnows
<1>3. /\ \A p \in Pages : ~ pgHdr[p].active => items[p] = <<>> /\ ~ pgHdr[p].xfer
      /\ resets = 0 => \A p \in Pages : ~ pgHdr[p].xfer
      /\ AtMostOne({p \in Pages : Unused(p)})
      /\ \A p \in Pages \ {pgRes} : Seen(p) => InUse(p) \/ newPg = p
      /\ (\E p \in Pages : pgHdr[p].xfer) => pgRes = NULL /\ \A p \in Pages : pgHdr[p].active
  BY <1>1 DEF PagesKept, Marked, ScanPcs, CompactPcs
<1>4. PICK h : h = Here
  OBVIOUS
<1>5. /\ h \in Slots /\ h[2] = offset
      /\ (pg' = pg /\ offset' = offset + 1) \/ (pg' = 1 /\ offset' = 0)
      /\ UNCHANGED items \/ \E x \in Slots : items' = With(x, ZeroedItem)
  <2>1. Placed
    BY SafePlaced
  <2>2. h \in Slots /\ h[2] = offset
    BY <1>4, <2>1, ScanItemDoes
  <2>3. (pg' = pg /\ offset' = offset + 1) \/ (pg' = 1 /\ offset' = 0)
    BY <1>4, <2>1, ScanItemDoes
  <2>4. UNCHANGED items \/ \E x \in Used : items' = With(x, ZeroedItem)
    BY <1>4, <2>1, ScanItemDoes
  <2> QED
    BY <1>2, <2>2, <2>3, <2>4
<1>6. \A p \in Pages : items[p] = <<>> => items'[p] = <<>>
  <2>1. ASSUME NEW x \in Slots, items' = With(x, ZeroedItem), NEW p \in Pages, items[p] = <<>>
        PROVE  items'[p] = <<>>
    <3>1. p # x[1]
      BY <2>1, NoItems
    <3> QED
      BY <1>2, <2>1, <3>1 DEF With
  <2> QED
    BY <1>5, <2>1
<1>7. \A p \in Pages : Seen(p)' => Seen(p)
  <2>1. offset # 0
    BY <1>5, SlotParts
  <2>2. \A p \in Pages : p \in Nat /\ p > 0
    BY Numbers
  <2>3. CASE pg' = pg /\ offset' = offset + 1
    BY <1>2, <2>1, <2>3 DEF Seen
  <2>4. CASE pg' = 1 /\ offset' = 0
    BY <2>2, <2>4 DEF Seen
  <2> QED
    BY <1>5, <2>3, <2>4
<1>8. \A p \in Pages : (InUse(p)' <=> InUse(p)) /\ (Unused(p)' <=> Unused(p))
  BY <1>1 DEF InUse, Unused
<1>9. AtMostOne({p \in Pages : Unused(p)})'
  BY <1>3, <1>8 DEF AtMostOne
<1>10. \A p \in Pages \ {pgRes'} : Seen(p)' => InUse(p)' \/ newPg' = p
  BY <1>1, <1>3, <1>7, <1>8
<1>11. resets' = 0 => Marked'
  BY <1>1, <1>3 DEF Marked
<1> QED
  BY <1>1, <1>3, <1>6, <1>9, <1>10, <1>11 DEF PagesKept, ScanPcs, CompactPcs, WritePcs

LEMMA ScanEndPages ==
  ASSUME Safe, PagesKept, ScanEnd
  PROVE  PagesKept'
<1>1. /\ pc = "initPage" /\ UNCHANGED <<pgHdr, items, pgRes, newPg, resets>>
      /\ offset > Len(items[pg])
      /\ \/ pg < PageCnt /\ pc' = "initPage" /\ pg' = pg + 1 /\ offset' = 0
         \/ ~ pg < PageCnt /\ pc' = "resume"
  BY DEF ScanEnd, flash
<1>2. /\ items \in [Pages -> Seq(Item)] /\ pg \in Pages /\ pg \in Nat /\ offset \in Nat
  BY <1>1, WalkKnows
<1>3. /\ \A p \in Pages : ~ pgHdr[p].active => items[p] = <<>> /\ ~ pgHdr[p].xfer
      /\ resets = 0 => \A p \in Pages : ~ pgHdr[p].xfer
      /\ AtMostOne({p \in Pages : Unused(p)})
      /\ \A p \in Pages \ {pgRes} : Seen(p) => InUse(p) \/ newPg = p
      /\ (\E p \in Pages : pgHdr[p].xfer) => pgRes = NULL /\ \A p \in Pages : pgHdr[p].active
  BY <1>1 DEF PagesKept, Marked, ScanPcs, CompactPcs
<1>4. offset > 0
  <2>1. Len(items[pg]) \in Nat
    BY <1>2, Lengths
  <2> QED
    BY <1>1, <1>2, <2>1
<1>5. \A p \in Pages : p \in Nat /\ p <= PageCnt /\ PageCnt \in Nat
  BY Numbers
<1>6. \A p \in Pages : (InUse(p)' <=> InUse(p)) /\ (Unused(p)' <=> Unused(p))
  BY <1>1 DEF InUse, Unused
<1>7. AtMostOne({p \in Pages : Unused(p)})'
  BY <1>3, <1>6 DEF AtMostOne
<1>8. resets' = 0 => Marked'
  BY <1>1, <1>3 DEF Marked
<1>9. CASE pg < PageCnt /\ pc' = "initPage" /\ pg' = pg + 1 /\ offset' = 0
  <2>1. \A p \in Pages : Seen(p)' => Seen(p)
    BY <1>2, <1>4, <1>5, <1>9 DEF Seen
  <2>2. \A p \in Pages \ {pgRes'} : Seen(p)' => InUse(p)' \/ newPg' = p
    BY <1>1, <1>3, <1>6, <2>1
  <2> QED
    BY <1>1, <1>3, <1>7, <1>8, <1>9, <2>2 DEF PagesKept, ScanPcs, CompactPcs, WritePcs
<1>10. CASE ~ pg < PageCnt /\ pc' = "resume"
  <2>1. \A p \in Pages : Seen(p)
    BY <1>2, <1>4, <1>5, <1>10 DEF Seen
  <2>2. \A p \in Pages \ {pgRes'} : InUse(p)' \/ newPg' = p
    BY <1>1, <1>3, <1>6, <2>1
  <2> QED
    BY <1>1, <1>3, <1>7, <1>8, <1>10, <2>2 DEF PagesKept, ScanPcs, CompactPcs, WritePcs
<1> QED
  BY <1>1, <1>9, <1>10

LEMMA ResumePages ==
  ASSUME Safe, PagesKept, Resume
  PROVE  PagesKept'
<1>1. /\ pc = "resume" /\ UNCHANGED <<items, resets>>
      /\ pgRes' = IF pgRes = NULL /\ newPg # NULL /\ oldPg # NULL THEN newPg ELSE pgRes
      /\ pgHdr' = IF pgRes # NULL /\ newPg # NULL THEN [pgHdr EXCEPT ![newPg].inUse = TRUE] ELSE pgHdr
  BY DEF Resume
<1>2. /\ pgHdr \in [Pages -> PageHdr] /\ pgRes \in Pages \union {NULL}
      /\ newPg \in Pages \union {NULL} /\ oldPg \in Pages \union {NULL}
      /\ newPg # NULL => pgHdr[newPg].active /\ ~ pgHdr[newPg].inUse
      /\ oldPg # NULL => pgHdr[oldPg].xfer
  BY <1>1 DEF Safe, Shape, Walk
<1>3. /\ \A p \in Pages : ~ pgHdr[p].active => items[p] = <<>> /\ ~ pgHdr[p].xfer
      /\ resets = 0 => \A p \in Pages : ~ pgHdr[p].xfer
      /\ AtMostOne({p \in Pages : Unused(p)})
      /\ \A p \in Pages \ {pgRes} : InUse(p) \/ newPg = p
      /\ (\E p \in Pages : pgHdr[p].xfer) => pgRes = NULL /\ \A p \in Pages : pgHdr[p].active
  BY <1>1 DEF PagesKept, Marked, ScanPcs, CompactPcs
<1>4. NULL \notin Pages
  BY Numbers
<1>5. CASE newPg # NULL /\ oldPg # NULL
  <2>1. pgRes = NULL
    BY <1>2, <1>3, <1>5
  <2>2. pgHdr' = pgHdr /\ pgRes' = newPg /\ pc' = "mark"
    BY <1>5, <2>1 DEF Resume, Idle
  <2>3. \A p \in Pages \ {pgRes'} : InUse(p)'
    BY <1>3, <1>4, <2>1, <2>2 DEF InUse
  <2>4. resets' = 0 => Marked'
    BY <1>1, <1>3, <2>2 DEF Marked
  <2> QED
    BY <1>1, <1>2, <1>3, <1>5, <2>2, <2>3, <2>4 DEF PagesKept, ScanPcs
<1>6. CASE (newPg = NULL \/ oldPg = NULL) /\ pgRes = NULL
  <2>1. pgHdr' = pgHdr /\ pgRes' = NULL /\ pc' = "eraseAll"
    BY <1>1, <1>6 DEF Resume
  <2>2. AtMostOne({p \in Pages : Unused(p)})'
    BY <1>3, <2>1 DEF Unused, AtMostOne
  <2>3. resets' = 0 => Marked'
    BY <1>1, <1>3, <2>1 DEF Marked
  <2> QED
    BY <1>1, <1>3, <2>1, <2>2, <2>3 DEF PagesKept, ScanPcs, CompactPcs, WritePcs
<1>7. CASE (newPg = NULL \/ oldPg = NULL) /\ pgRes # NULL
  <2>1. pgRes' = pgRes /\ pc' = "idle"
    BY <1>1, <1>7 DEF Resume, Idle
  <2>2. \A p \in Pages : /\ pgHdr'[p].active = pgHdr[p].active
                         /\ pgHdr'[p].inUse = (p = newPg \/ pgHdr[p].inUse)
                         /\ pgHdr'[p].xfer = pgHdr[p].xfer
    <3>1. CASE newPg = NULL
      BY <1>1, <1>2, <1>4, <3>1 DEF PageHdr
    <3>2. CASE newPg # NULL
      BY <1>1, <1>2, <1>7, <3>2 DEF PageHdr
    <3> QED
      BY <3>1, <3>2
  <2>3. \A p \in Pages : ~ pgHdr'[p].active => items'[p] = <<>> /\ ~ pgHdr'[p].xfer
    BY <1>1, <1>3, <2>2
  <2>4. resets' = 0 => Marked'
    BY <1>1, <1>3, <2>2 DEF Marked
  <2>5. \A p \in Pages \ {pgRes'} : InUse(p)'
    BY <1>2, <1>3, <1>4, <2>1, <2>2 DEF InUse
  <2> QED
    BY <2>1, <2>3, <2>4, <2>5 DEF PagesKept, ScanPcs, CompactPcs, WritePcs
<1> QED
  BY <1>5, <1>6, <1>7

LEMMA EraseAllPages ==
  ASSUME Safe, PagesKept, EraseAll
  PROVE  PagesKept'
<1>1. /\ pc = "eraseAll" /\ UNCHANGED <<pgRes, offset, resets>>
      /\ pgHdr' = [pgHdr EXCEPT ![pg] = ErasedHdr] /\ items' = [items EXCEPT ![pg] = <<>>]
      /\ IF pg < PageCnt THEN pc' = "eraseAll" ELSE pc' = "initPage" /\ pg' = 1
  BY DEF EraseAll, erasePage
<1>2. /\ pgHdr \in [Pages -> PageHdr] /\ items \in [Pages -> Seq(Item)] /\ pg \in Pages /\ offset = 0
      /\ \A p \in Pages : p < pg => Erased(p)
  BY <1>1 DEF Safe, Shape, Walk
<1>3. /\ \A p \in Pages : ~ pgHdr[p].active => items[p] = <<>> /\ ~ pgHdr[p].xfer
      /\ resets = 0 => \A p \in Pages : ~ pgHdr[p].xfer
      /\ AtMostOne({p \in Pages : Unused(p)})
  BY <1>1 DEF PagesKept, Marked, ScanPcs, CompactPcs
<1>4. \A p \in Pages : /\ pgHdr'[p] = IF p = pg THEN ErasedHdr ELSE pgHdr[p]
                       /\ items'[p] = IF p = pg THEN <<>> ELSE items[p]
  BY <1>1, <1>2
<1>5. ~ ErasedHdr.active /\ ~ ErasedHdr.inUse /\ ~ ErasedHdr.xfer
  BY DEF ErasedHdr
<1>6. \A p \in Pages : ~ pgHdr'[p].active => items'[p] = <<>> /\ ~ pgHdr'[p].xfer
  BY <1>3, <1>4, <1>5
<1>7. resets' = 0 => Marked'
  BY <1>1, <1>3, <1>4, <1>5 DEF Marked
<1>8. AtMostOne({p \in Pages : Unused(p)})'
  <2>1. \A p \in Pages : Unused(p)' => Unused(p)
    BY <1>4, <1>5 DEF Unused
  <2> QED
    BY <1>3, <2>1 DEF AtMostOne
<1>9. pc' = "initPage" => (\A p \in Pages : ~ Seen(p)') /\ (\A p \in Pages : ~ pgHdr'[p].xfer)
  <2> SUFFICES ASSUME pc' = "initPage", NEW p \in Pages
               PROVE  ~ Seen(p)' /\ ~ pgHdr'[p].xfer
    OBVIOUS
  <2>1. p \in Nat /\ p > 0 /\ p <= PageCnt /\ PageCnt \in Nat /\ pg \in Nat
    BY <1>2, Numbers
  <2>2. ~ (pg < PageCnt) /\ pg' = 1 /\ offset' = 0
    BY <1>1, <1>2
  <2>3. p < pg \/ p = pg
    BY <2>1, <2>2
  <2>4. ~ pgHdr'[p].xfer
    BY <1>2, <1>4, <1>5, <2>3 DEF Erased
  <2> QED
    BY <2>1, <2>2, <2>4 DEF Seen
<1> QED
  BY <1>1, <1>6, <1>7, <1>8, <1>9 DEF PagesKept, ScanPcs, CompactPcs, WritePcs

(* The pages that initNV may take for one not in use, after a reset.       *)
LEMMA ResetFinds ==
  ASSUME Safe, PagesKept
  PROVE  /\ AtMostOne({p \in Pages : Unused(p)})
         /\ pc \notin ScanPcs => \A p \in Pages : Unused(p) => p = pgRes
<1>1. CASE pc \in ScanPcs
  BY <1>1 DEF PagesKept
<1>2. CASE pc \notin ScanPcs
  <2>1. \A p \in Pages \ {pgRes} : InUse(p) \/ Erased(p)
    BY <1>2 DEF PagesKept
  <2>2. \A p \in Pages : Unused(p) => p = pgRes
    BY <2>1 DEF InUse, Erased, Unused
  <2> QED
    BY <1>2, <2>2 DEF AtMostOne
<1> QED
  BY <1>1, <1>2

LEMMA ResetPages ==
  ASSUME Safe, PagesKept, Reset, resets = 0
  PROVE  PagesKept'
<1>1. /\ UNCHANGED <<pgHdr, items>> /\ pgRes' = NULL /\ pc' = "initPage" /\ pg' = 1 /\ offset' = 0
      /\ resets' # 0
  BY DEF Reset, flash
<1>2. \A p \in Pages : ~ pgHdr[p].active => items[p] = <<>> /\ ~ pgHdr[p].xfer
  BY DEF PagesKept
<1>3. AtMostOne({p \in Pages : Unused(p)})'
  BY <1>1, ResetFinds DEF Unused, AtMostOne
<1>4. \A p \in Pages : ~ Seen(p)'
  <2>1. \A p \in Pages : p \in Nat /\ p > 0
    BY Numbers
  <2> QED
    BY <1>1, <2>1 DEF Seen
<1>5. (\E p \in Pages : pgHdr[p].xfer) => \A p \in Pages : pgHdr[p].active
  <2> SUFFICES ASSUME NEW q \in Pages, pgHdr[q].xfer, NEW p \in Pages
               PROVE  pgHdr[p].active
    OBVIOUS
  <2>1. pc \in CompactPcs /\ pc # "finish" /\ pc \notin ScanPcs
    BY DEF PagesKept, Marked, CompactPcs, ScanPcs
  <2>2. pgHdr[pgRes].active /\ \A r \in Pages \ {pgRes} : InUse(r)
    BY <2>1 DEF PagesKept
  <2> QED
    BY <2>2 DEF InUse
<1> QED
  BY <1>1, <1>2, <1>3, <1>4, <1>5 DEF PagesKept, ScanPcs, CompactPcs, WritePcs

LEMMA InitPages ==
  ASSUME Init
  PROVE  PagesKept /\ Erasing
<1>1. /\ pgHdr = [p \in Pages |-> ErasedHdr] /\ items = [p \in Pages |-> <<>>] /\ pgRes = NULL
      /\ pc = "initPage" /\ pg = 1 /\ offset = 0
  BY DEF Init
<1>2. \A p \in Pages : ~ pgHdr[p].active /\ ~ pgHdr[p].xfer /\ items[p] = <<>>
  BY <1>1 DEF ErasedHdr
<1>3. AtMostOne({p \in Pages : Unused(p)}) /\ Marked
  BY <1>2 DEF Unused, AtMostOne, Marked
<1>4. \A p \in Pages : ~ Seen(p)
  <2>1. \A p \in Pages : p \in Nat /\ p > 0
    BY Numbers
  <2> QED
    BY <1>1, <2>1 DEF Seen
<1> QED
  BY <1>1, <1>2, <1>3, <1>4 DEF PagesKept, Erasing, ScanPcs, CompactPcs, WritePcs

(* Only initNV comes to the erasing of the pages, and only erases.         *)
LEMMA StepErases ==
  ASSUME Safe, Erasing, Step \/ Call
  PROVE  Erasing'
<1>1. CASE Resume
  <2>1. pc = "resume" /\ UNCHANGED items /\ (pc' = "eraseAll" => UNCHANGED expect)
    BY <1>1 DEF Resume, Idle
  <2>2. Clean(Used)
    <3>1. Fresh = {}
      BY <2>1 DEF Fresh, WritePcs, CopyPcs
    <3> QED
      BY <2>1, <3>1 DEF Safe, Settled, Clean
  <2>3. \A x \in Used : ItemAt(x).data \in expect[ItemAt(x).id]
    BY <2>1, <2>2, CleanReads
  <2>4. Used' = Used /\ \A y : ItemAt(y)' = ItemAt(y)
    BY <2>1, SameFlash
  <2> QED
    BY <2>1, <2>2, <2>3, <2>4 DEF Erasing, Clean, Valid
<1>2. CASE EraseAll
  <2>1. /\ pc = "eraseAll" /\ items' = [items EXCEPT ![pg] = <<>>]
        /\ pc' = "eraseAll" => UNCHANGED expect
    BY <1>2 DEF EraseAll, erasePage
  <2>2. items \in [Pages -> Seq(Item)] /\ Fits /\ pg \in Pages
    BY <2>1 DEF Safe, Shape, Walk
  <2>3. Slots' = {x \in Slots : x[1] # pg} /\ \A y \in Slots' : ItemAt(y)' = ItemAt(y)
    BY <2>1, <2>2, EraseAt
  <2>4. Used' \subseteq Used /\ \A y \in Used' : ItemAt(y)' = ItemAt(y)
    BY <2>3 DEF Used
  <2> QED
    BY <2>1, <2>4 DEF Erasing, Clean, Valid
<1>3. CASE ~ Resume /\ ~ EraseAll
  <2>1. pc' # "eraseAll"
    <3>1. ASSUME Call
          PROVE  pc' # "eraseAll"
      BY <3>1 DEF Call, Lookup, osal_nv_item_init, osal_nv_write, initItem
    <3>2. ASSUME Write
          PROVE  pc' # "eraseAll"
      BY <3>2 DEF Write, Activate, Header, MarkOld, Data, Checksum, Zero, EndOrCompact, Idle
    <3>3. ASSUME Compact
          PROVE  pc' # "eraseAll"
      BY <3>3 DEF Compact, Mark, CompactItem, CopyHdr, CopyData, CopyZero, Erase, Finish, Idle
    <3>4. ASSUME initNV
          PROVE  pc' # "eraseAll"
      BY <1>3, <3>4 DEF initNV, ScanHeader, ScanItem, ScanEnd
    <3> QED
      BY <3>1, <3>2, <3>3, <3>4 DEF Step
  <2> QED
    BY <2>1 DEF Erasing
<1> QED
  BY <1>1, <1>2, <1>3

(* All steps but the reset.                                                *)
LEMMA StepPages ==
  ASSUME Safe, PagesKept, Step \/ Call
  PROVE  PagesKept'
BY CallPages, WritePages, CompactPages, ScanHeaderPages, ScanItemPages, ScanEndPages, ResumePages,
   EraseAllPages DEF Step, initNV

-----------------------------------------------------------------------------
(* The second reset.  A step that makes no copy of an item valid anew and  *)
(* leaves its new copy leaves what a reader of it can be given.            *)
LEMMA KnownStays ==
  ASSUME NEW i, Known(i), expect[i] \subseteq expect'[i],
         \A x \in Used' : Valid(ItemAt(x))' /\ ItemAt(x)'.id = i =>
           /\ x \in Used /\ Valid(ItemAt(x)) /\ ItemAt(x).id = i
           /\ ItemAt(x)'.data = ItemAt(x).data /\ (ItemAt(x).old => ItemAt(x)'.old),
         \A y \in Used : Valid(ItemAt(y)) /\ ~ ItemAt(y).old /\ ItemAt(y).id = i =>
           y \in Used' /\ Valid(ItemAt(y))' /\ ItemAt(y)'.id = i /\ ~ ItemAt(y)'.old
  PROVE  Known(i)'
<1>1. ASSUME NEW x, Current(x)', ItemAt(x)'.id = i
      PROVE  x \in Used /\ Current(x) /\ ItemAt(x).id = i /\ ItemAt(x)'.data = ItemAt(x).data
  <2>1. /\ x \in Used' /\ Valid(ItemAt(x))'
        /\ x \in Used /\ Valid(ItemAt(x)) /\ ItemAt(x).id = i
        /\ ItemAt(x)'.data = ItemAt(x).data /\ (ItemAt(x).old => ItemAt(x)'.old)
    BY <1>1 DEF Current
  <2>2. ASSUME ItemAt(x).old, NEW y \in Used, ItemAt(y).id = i, Valid(ItemAt(y)), ~ ItemAt(y).old
        PROVE  FALSE
    <3>1. y \in Used' /\ Valid(ItemAt(y))' /\ ItemAt(y)'.id = i /\ ~ ItemAt(y)'.old
      BY <2>2
    <3> QED
      BY <1>1, <2>1, <2>2, <3>1 DEF Current
  <2> QED
    BY <2>1, <2>2 DEF Current
<1>2. \A x : Current(x) => x \in Used
  BY DEF Current
<1> QED
  BY <1>1, <1>2 DEF Known

(* The same of all items but those of D.                                   *)
LEMMA NoNews ==
  ASSUME OneNew, NEW D, \A i \in Ids : expect[i] \subseteq expect'[i],
         \A x \in Used' : Valid(ItemAt(x))' =>
           /\ x \in Used /\ Valid(ItemAt(x)) /\ ItemAt(x)'.id = ItemAt(x).id
           /\ ItemAt(x)'.data = ItemAt(x).data /\ (ItemAt(x).old => ItemAt(x)'.old),
         \A y \in Used : Valid(ItemAt(y)) /\ ~ ItemAt(y).old /\ ItemAt(y).id \notin D =>
           /\ y \in Used' /\ Valid(ItemAt(y))' /\ ItemAt(y)'.id = ItemAt(y).id /\ ~ ItemAt(y)'.old
  PROVE  OneNew' /\ \A i \in Ids \ D : Known(i) => Known(i)'
<1>1. OneNew'
  BY DEF OneNew
<1>2. ASSUME NEW i \in Ids \ D, Known(i)
      PROVE  Known(i)'
  BY <1>2, KnownStays
<1> QED
  BY <1>1, <1>2

(* A step that touches no item.                                            *)
LEMMA SameKnown ==
  ASSUME UNCHANGED items, OneNew, \A i \in Ids : expect[i] \subseteq expect'[i]
  PROVE  OneNew' /\ \A i \in Ids : Known(i) => Known(i)'
<1>1. Used' = Used /\ \A y : ItemAt(y)' = ItemAt(y)
  BY SameFlash
<1>2. \A y : Valid(ItemAt(y))' <=> Valid(ItemAt(y))
  BY <1>1 DEF Valid
<1>3. OneNew'
  BY <1>1, <1>2 DEF OneNew
<1>4. \A x : Current(x)' <=> Current(x)
  BY <1>1, <1>2 DEF Current
<1> QED
  BY <1>1, <1>3, <1>4 DEF Known

LEMMA SoundSame ==
  ASSUME Sound, UNCHANGED <<flash, pgRes, pc, op, scan, stat, resets, expect>>
  PROVE  Sound'
<1> USE DEF flash, scan
<1>1. Shape'
  BY DEF Sound, Placed, Shape, Fits
<1>2. Calling'
  BY DEF Sound, Placed, Calling, Used, Slots, ItemAt
<1>3. Writing'
  BY DEF Sound, Placed, Writing, Used, Slots, ItemAt, NewItem
<1>4. Compacting'
  BY DEF Sound, Placed, Compacting, Used, Slots, ItemAt, Here, Copy, Valid
<1>5. Whole'
  BY DEF Sound, Placed, Whole, Used, Slots, ItemAt, Fresh, NewItem, Copy, Valid
<1>6. Emptied'
  BY DEF Sound, Placed, Emptied
<1>7. Rewalk'
  BY DEF Sound, Placed, Rewalk, Used, Slots, ItemAt, Valid, Passed, Erased
<1>8. OneNew' /\ \A i \in Ids : Known(i) => Known(i)'
  BY SameKnown DEF Sound
<1>9. Replacing'
  BY DEF Sound, Replacing, Used, Slots, ItemAt, Fresh, NewItem, Copy
<1>10. (Moving' <=> Moving) /\ \A i : Busy(i)' <=> Busy(i)
  BY DEF Moving, Busy, ItemAt, Copy, Here
<1>11. Copying'
  BY <1>10 DEF Sound, Copying, Used, Slots, ItemAt, Fresh, NewItem, Copy, Here
<1>12. Fitting'
  BY <1>8, <1>10 DEF Sound, Fitting
<1> QED
  BY <1>1, <1>2, <1>3, <1>4, <1>5, <1>6, <1>7, <1>8, <1>9, <1>11, <1>12 DEF Sound, Placed

(* One lemma per action: it keeps Sound.                                   *)
LEMMA InitItemSound ==
  ASSUME Sound, pc = "idle", NEW id \in Ids, NEW val \in Vals, NEW src, NEW lst,
         initItem(id, val, src, lst),
         IF src[1] = NULL
         THEN \A x \in Used : ItemAt(x).id # id
         ELSE /\ src \in Used /\ ItemAt(src).id = id
              /\ ItemAt(src).old => \A x \in Used : ItemAt(x).id = id => ItemAt(x).old
  PROVE  Sound'
<1>1. /\ UNCHANGED <<pgHdr, items, pgRes, pg, offset, lost, findDups, newPg, oldPg, stat, resets>>
      /\ Slots' = Slots /\ Used' = Used /\ \A y : ItemAt(y)' = ItemAt(y)
  BY SameFlash DEF initItem, flash, scan
<1>2. CASE Roomy(lst) = {}
  BY <1>1, <1>2, SoundSame DEF initItem, flash, scan
<1>3. CASE Roomy(lst) # {}
  <2> DEFINE com == ChosenPage(lst)
             dst == Destination(com)
  <2>1. pgRes \in Pages /\ items \in [Pages -> Seq(Item)] /\ Fits
    BY DEF Sound, Placed, Shape, ScanPcs
  <2>2. com \in Pages \ {pgRes}
    BY <1>3, <2>1, ChosenIsRoomy DEF Roomy
  <2>3. /\ op'.id = id /\ op'.val = val /\ op'.src = src /\ op'.dstPg = dst /\ op'.comPg = com
        /\ pc' = IF dst = pgRes THEN "activate" ELSE "header"
        /\ expect' = [expect EXCEPT ![id] = @ \union {val}]
    BY <1>3 DEF initItem
  <2>4. dst \in {pgRes, com} /\ Len(items[dst]) < PageItems
    <3>1. Len(items[com]) \in Nat /\ Len(items[pgRes]) \in Nat
      BY <2>1, <2>2, Lengths
    <3>2. Len(items[pgRes]) = 0
      BY DEF Sound, Placed, Emptied
    <3> QED
      BY <3>1, <3>2, Numbers DEF Destination
  <2> HIDE DEF com, dst
  <2>5. expect \in [Ids -> SUBSET (Vals \union {Absent})]
    BY DEF Sound, Placed, Shape
  <2>6. Shape'
    BY <1>1, <2>1, <2>3, <2>5 DEF Sound, Placed, Shape, Fits, ScanPcs
  <2>7. Calling'
    <3>1. val \in expect'[id]
      BY <2>3, <2>5
    <3>2. op'.src = src /\ ItemAt(op.src)' = ItemAt(src)
      BY <1>1, <2>3, Links
    <3> QED
      BY <1>1, <2>1, <2>2, <2>3, <2>4, <3>1, <3>2 DEF Calling, WritePcs
  <2>8. Writing' /\ Compacting' /\ Rewalk' /\ Copying' /\ Fresh' = {} /\ Fresh = {}
    BY <2>3 DEF Writing, Compacting, Rewalk, Copying, Moving, Fresh, WritePcs, CopyPcs, CompactPcs
  <2>9. Whole'
    BY <1>1, <2>8 DEF Sound, Placed, Whole, Valid
  <2>10. Emptied'
    BY <1>1, <2>3 DEF Sound, Placed, Emptied, WritePcs
  <2>11. OneNew' /\ \A i \in Ids : Known(i) => Known(i)'
    BY <1>1, <2>3, <2>5, SameKnown DEF Sound
  <2>12. Replacing'
    <3>1. \A x \in Used : Valid(ItemAt(x))
      BY <2>8 DEF Sound, Placed, Whole
    <3>2. src[1] # NULL => \A x \in Used \ {src} : ItemAt(x).id = id => ItemAt(x).old
      BY <3>1 DEF Sound, OneNew
    <3> QED
      BY <1>1, <2>3, <2>8, <3>2 DEF Replacing
  <2>13. Fitting'
    BY <2>11 DEF Sound, Fitting, Busy, Moving
  <2> QED
    BY <2>6, <2>7, <2>8, <2>9, <2>10, <2>11, <2>12, <2>13 DEF Sound, Placed
<1> QED
  BY <1>2, <1>3

LEMMA CallSound ==
  ASSUME Sound, Call
  PROVE  Sound'
<1>1. Shape /\ pc = "idle"
  BY DEF Sound, Placed, Call, Lookup, osal_nv_item_init, osal_nv_write
<1>2. ASSUME NEW i \in Ids, Lookup(i)
      PROVE  Sound'
  BY <1>2, SoundSame DEF Lookup
<1>3. ASSUME NEW i \in Ids, NEW val \in Vals, osal_nv_item_init(i, val)
      PROVE  Sound'
  <2>1. \A x \in Used : ItemAt(x).id # i
    BY <1>1, <1>3, FindItem DEF osal_nv_item_init
  <2>2. initItem(i, val, <<NULL, 0>>, Rewalked({}))
    BY <1>3 DEF osal_nv_item_init
  <2> QED
    BY <1>1, <2>1, <2>2, InitItemSound
<1>4. ASSUME NEW i \in Ids, NEW val \in Vals, osal_nv_write(i, val)
      PROVE  Sound'
  <2>1. /\ findItem(i) \in Used /\ ItemAt(findItem(i)).id = i
        /\ ItemAt(findItem(i)).old => \A x \in Used : ItemAt(x).id = i => ItemAt(x).old
    BY <1>1, <1>4, FindItem DEF osal_nv_write
  <2>2. findItem(i)[1] # NULL
    BY <2>1, SlotParts, Numbers DEF Used
  <2>3. initItem(i, val, findItem(i), Rewalked(Copies(i, FALSE)))
    BY <1>4 DEF osal_nv_write
  <2> QED
    BY <1>1, <2>1, <2>2, <2>3, InitItemSound
<1> QED
  BY <1>2, <1>3, <1>4 DEF Call

LEMMA ActivateSound ==
  ASSUME Sound, Activate
  PROVE  Sound'
<1>1. /\ pc = "activate" /\ pc' = "header"
      /\ pgHdr' = [pgHdr EXCEPT ![op.dstPg].active = TRUE]
      /\ UNCHANGED <<items, pgRes, op, pg, offset, lost, findDups, newPg, oldPg, stat, resets, expect>>
      /\ Slots' = Slots /\ Used' = Used /\ \A y : ItemAt(y)' = ItemAt(y)
  BY SameFlash DEF Activate, ram, scan
<1>2. pgRes \in Pages /\ pgHdr \in [Pages -> PageHdr] /\ op.dstPg = pgRes
  BY <1>1 DEF Sound, Placed, Shape, Calling, ScanPcs
<1>3. pgHdr' \in [Pages -> PageHdr]
  BY <1>1, <1>2 DEF PageHdr
<1>4. Shape'
  BY <1>1, <1>3 DEF Sound, Placed, Shape, Fits, ScanPcs
<1>5. Calling'
  <2>1. ItemAt(op.src)' = ItemAt(op.src)
    BY <1>1, Links
  <2> QED
    BY <1>1, <2>1 DEF Sound, Placed, Calling, WritePcs
<1>6. Writing' /\ Compacting' /\ Rewalk' /\ Copying' /\ Fresh' = {} /\ Fresh = {}
  BY <1>1 DEF Writing, Compacting, Rewalk, Copying, Moving, Fresh, WritePcs, CopyPcs, CompactPcs
<1>7. Whole'
  BY <1>1, <1>6 DEF Sound, Placed, Whole, Valid
<1>8. Emptied'
  BY <1>1 DEF Sound, Placed, Emptied, WritePcs
<1>9. OneNew' /\ \A i \in Ids : Known(i) => Known(i)'
  BY <1>1, SameKnown DEF Sound
<1>10. Replacing'
  BY <1>1, <1>6 DEF Sound, Replacing
<1>11. Fitting'
  BY <1>1, <1>9 DEF Sound, Fitting, Busy, Moving
<1> QED
  BY <1>4, <1>5, <1>6, <1>7, <1>8, <1>9, <1>10, <1>11 DEF Sound, Placed

LEMMA HeaderSound ==
  ASSUME Sound, Header
  PROVE  Sound'
<1> DEFINE it == [id |-> op.id, data |-> Blank, chk |-> Blank, old |-> FALSE]
<1>0. PICK n : n = <<op.dstPg, Len(items[op.dstPg]) + 1>>
  OBVIOUS
<1>1. /\ pc = "header" /\ pc' = IF op.src[1] = NULL THEN "data" ELSE "markOld"
      /\ items' = [items EXCEPT ![op.dstPg] = Append(@, it)]
      /\ UNCHANGED <<pgHdr, pgRes, op, pg, offset, lost, findDups, newPg, oldPg, stat, resets, expect>>
  BY DEF Header, ram, scan
<1>2. /\ Shape /\ pgRes \in Pages /\ op.dstPg \in Pages /\ Len(items[op.dstPg]) < PageItems
      /\ op.id \in Ids /\ op.val \in Vals /\ op.val \in expect[op.id]
      /\ op.comPg \in Pages \ {pgRes} /\ op.dstPg \in {pgRes, op.comPg}
      /\ IF op.src[1] = NULL
         THEN \A x \in Used : ItemAt(x).id # op.id
         ELSE op.src \in Used /\ ItemAt(op.src).id = op.id
  BY <1>1 DEF Sound, Placed, Shape, Calling, ScanPcs
<1>3. it \in Item /\ it.id = op.id /\ it.data = Blank /\ it.chk = Blank /\ ~ it.old /\ ~ Valid(it)
  BY <1>2 DEF Item, Valid
<1> HIDE DEF it
<1>4. /\ items' \in [Pages -> Seq(Item)] /\ Fits'
      /\ \A q \in Pages : Len(items'[q]) = IF q = op.dstPg THEN Len(items[op.dstPg]) + 1 ELSE Len(items[q])
      /\ \A q \in Pages : q # op.dstPg => items'[q] = items[q]
      /\ n = <<op.dstPg, Len(items'[op.dstPg])>>
      /\ n \notin Slots /\ Slots' = Slots \union {n}
      /\ \A y \in Slots : ItemAt(y)' = ItemAt(y)
      /\ ItemAt(n)' = it
  <2>1. items \in [Pages -> Seq(Item)] /\ Fits
    BY <1>2 DEF Shape
  <2>2. items' = [items EXCEPT ![op.dstPg] = Append(@, it)]
    BY <1>1
  <2> QED
    BY <1>0, <1>2, <1>3, <2>1, <2>2, AppendAt
<1>5. NewItem' = n
  BY <1>1, <1>4 DEF NewItem
<1>6. Used' = Used \union {n} /\ n \notin Used /\ Used \subseteq Slots
  BY <1>2, <1>3, <1>4, Numbers DEF Used
<1>7. Fresh' = {n} /\ Fresh = {} /\ pc' \in WritePcs
  BY <1>1, <1>5 DEF Fresh, WritePcs, CopyPcs
<1>8. ItemAt(NewItem)' = it
  BY <1>4, <1>5, Links
<1>9. Shape'
  BY <1>1, <1>2, <1>4 DEF Shape, ScanPcs, WritePcs
<1>10. Calling'
  BY <1>1, <1>2 DEF Calling, WritePcs
<1>11. Writing'
  <2>1. op.src[1] # NULL => ItemAt(op.src)' = ItemAt(op.src)
    BY <1>1, <1>2, <1>4, <1>6, Links
  <2>2. NewItem' \in Slots'
    BY <1>4, <1>5
  <2>3. op.src[1] = NULL => \A x \in Used' \ {n} : ItemAt(x)'.id # op.id
    BY <1>2, <1>4, <1>6
  <2>4. op.src[1] # NULL => op.src \in Used' \ {n} /\ ItemAt(op.src)'.id = op.id
    BY <1>2, <1>6, <2>1
  <2>5. ItemAt(NewItem)'.id = op.id /\ ~ ItemAt(NewItem)'.old
        /\ ItemAt(NewItem)'.data = Blank /\ ItemAt(NewItem)'.chk = Blank
    BY <1>3, <1>8
  <2>6. op' = op /\ NewItem' = n
    BY <1>1, <1>5
  <2> QED
    BY <1>1, <2>2, <2>3, <2>4, <2>5, <2>6 DEF Writing, WritePcs
<1>12. Compacting' /\ Rewalk' /\ Copying'
  BY <1>1 DEF Compacting, Rewalk, Copying, Moving, CompactPcs
<1>13. \A x \in Used : Valid(ItemAt(x)) /\ Valid(ItemAt(x))'
  <2>1. \A x \in Used : Valid(ItemAt(x))
    BY <1>1, <1>7 DEF Sound, Placed, Whole
  <2> QED
    BY <1>4, <1>6, <2>1 DEF Valid
<1>14. Whole'
  BY <1>6, <1>7, <1>13 DEF Whole
<1>15. Emptied'
  <2>1. items[pgRes] = <<>>
    BY <1>1 DEF Sound, Placed, Emptied
  <2>2. Len(items[pgRes]) = 0
    BY <2>1
  <2> QED
    BY <1>1, <1>2, <1>4, <1>7, <2>1, <2>2 DEF Emptied, WritePcs
<1>16. OneNew' /\ \A i \in Ids : Known(i) => Known(i)'
  <2>1. ~ Valid(ItemAt(n))'
    BY <1>3, <1>4 DEF Valid
  <2>2. \A y \in Used : y \in Used' /\ Valid(ItemAt(y))' /\ ItemAt(y)' = ItemAt(y)
    BY <1>4, <1>6, <1>13
  <2>3. \A x \in Used' : Valid(ItemAt(x))' => x \in Used /\ Valid(ItemAt(x)) /\ ItemAt(x)' = ItemAt(x)
    BY <1>6, <1>13, <2>1, <2>2
  <2>4. \A i \in Ids : expect[i] \subseteq expect'[i]
    BY <1>1
  <2>5. OneNew' /\ \A i \in Ids \ {} : Known(i) => Known(i)'
    BY <2>2, <2>3, <2>4, NoNews DEF Sound
  <2> QED
    BY <2>5
<1>17. Replacing'
  <2>1. op.src[1] # NULL => \A x \in Used \ {op.src} : ItemAt(x).id = op.id => ItemAt(x).old
    BY <1>1, <1>7 DEF Sound, Replacing
  <2> QED
    BY <1>1, <1>4, <1>6, <1>7, <2>1 DEF Replacing
<1>18. Fitting'
  BY <1>1, <1>16 DEF Sound, Fitting, Busy, Moving
<1> QED
  BY <1>9, <1>10, <1>11, <1>12, <1>14, <1>15, <1>16, <1>17, <1>18 DEF Sound, Placed

LEMMA MarkOldSound ==
  ASSUME Sound, MarkOld
  PROVE  Sound'
<1> DEFINE it == [ItemAt(op.src) EXCEPT !.old = TRUE]
<1>1. /\ pc = "markOld" /\ pc' = "data" /\ pc \in WritePcs /\ pc' \in WritePcs
      /\ items' = With(op.src, it)
      /\ UNCHANGED <<pgHdr, pgRes, op, pg, offset, lost, findDups, newPg, oldPg, stat, resets, expect>>
  BY DEF MarkOld, ram, scan, WritePcs
<1>2. Placed /\ op.src[1] # NULL /\ ItemAt(NewItem).data = Blank /\ ItemAt(NewItem).chk = Blank
  BY <1>1 DEF Sound, Placed, Writing
<1>3. /\ Shape /\ pgRes \in Pages
      /\ op.id \in Ids /\ op.val \in Vals /\ op.val \in expect[op.id]
      /\ op.comPg \in Pages \ {pgRes} /\ op.dstPg \in {pgRes, op.comPg}
      /\ NewItem \in Slots /\ NewItem \in Used
      /\ ItemAt(NewItem).id = op.id /\ ~ ItemAt(NewItem).old
      /\ op.src \in Used /\ op.src # NewItem /\ ItemAt(op.src).id = op.id
      /\ Used \subseteq Slots
      /\ Fresh = {NewItem}
      /\ \A x \in Used \ {NewItem} : Valid(ItemAt(x))
      /\ IF op.dstPg = pgRes THEN Len(items[pgRes]) = 1 ELSE items[pgRes] = <<>>
  BY <1>1, <1>2, WritePlaced
<1>4. /\ it \in Item /\ it.id = ItemAt(op.src).id /\ it.data = ItemAt(op.src).data
      /\ it.chk = ItemAt(op.src).chk /\ it.old /\ (Valid(it) <=> Valid(ItemAt(op.src)))
  BY <1>3, ItemsAreItems, NewItems DEF Shape
<1> HIDE DEF it
<1>5. /\ items' \in [Pages -> Seq(Item)] /\ Fits'
      /\ \A p \in Pages : Len(items'[p]) = Len(items[p])
      /\ \A p \in Pages : items[p] = <<>> => items'[p] = <<>>
      /\ Slots' = Slots
      /\ \A y \in Slots : ItemAt(y)' = IF y = op.src THEN it ELSE ItemAt(y)
  BY <1>1, <1>3, <1>4, WriteAt DEF Shape
<1>6. Used' = Used /\ NewItem' = NewItem /\ Fresh' = Fresh
  <2>1. NewItem' = NewItem
    BY <1>1, <1>3, <1>5 DEF NewItem
  <2> QED
    BY <1>1, <1>3, <1>4, <1>5, <2>1 DEF Used, Fresh
<1>7. \A x \in Slots : /\ (Valid(ItemAt(x))' <=> Valid(ItemAt(x))) /\ ItemAt(x)'.id = ItemAt(x).id
                       /\ ItemAt(x)'.data = ItemAt(x).data /\ (ItemAt(x).old => ItemAt(x)'.old)
                       /\ (x # op.src => ItemAt(x)' = ItemAt(x))
  BY <1>4, <1>5 DEF Valid
<1>8. ItemAt(NewItem)' = ItemAt(NewItem) /\ ItemAt(op.src)' = it
  BY <1>1, <1>3, <1>5, <1>6, Links
<1>9. Shape'
  BY <1>1, <1>3, <1>5 DEF Shape, ScanPcs
<1>10. Calling'
  BY <1>1, <1>3 DEF Calling, WritePcs
<1>11. Writing'
  BY <1>1, <1>2, <1>3, <1>4, <1>6, <1>8, <1>5 DEF Writing, WritePcs
<1>12. Compacting' /\ Rewalk' /\ Copying'
  BY <1>1 DEF Compacting, Rewalk, Copying, Moving, CompactPcs
<1>13. Whole'
  BY <1>3, <1>6, <1>7 DEF Whole
<1>14. Emptied'
  BY <1>1, <1>3, <1>5 DEF Emptied, WritePcs
<1>15. OneNew' /\ \A i \in Ids \ {op.id} : Known(i) => Known(i)'
  <2>1. \A i \in Ids : expect[i] \subseteq expect'[i]
    BY <1>1
  <2>2. \A y \in Used : ItemAt(y).id \notin {op.id} => y # op.src
    BY <1>3
  <2>3. \A y \in Used : ItemAt(y).id \notin {op.id} =>
          y \in Used' /\ (Valid(ItemAt(y))' <=> Valid(ItemAt(y))) /\ ItemAt(y)' = ItemAt(y)
    BY <1>3, <1>6, <1>7, <2>2
  <2>4. \A x \in Used' : Valid(ItemAt(x))' =>
          /\ x \in Used /\ Valid(ItemAt(x)) /\ ItemAt(x)'.id = ItemAt(x).id
          /\ ItemAt(x)'.data = ItemAt(x).data /\ (ItemAt(x).old => ItemAt(x)'.old)
    BY <1>3, <1>6, <1>7
  <2> QED
    BY <2>1, <2>3, <2>4, NoNews DEF Sound
<1>16. Replacing'
  <2>1. \A x \in Used \ (Fresh \union {op.src}) : ItemAt(x).id = op.id => ItemAt(x).old
    BY <1>1, <1>2 DEF Sound, Replacing
  <2> QED
    BY <1>1, <1>3, <1>6, <1>7, <2>1 DEF Replacing
<1>17. Fitting'
  BY <1>1, <1>15 DEF Sound, Fitting, Busy, Moving
<1> QED
  BY <1>9, <1>10, <1>11, <1>12, <1>13, <1>14, <1>15, <1>16, <1>17 DEF Sound, Placed

LEMMA DataSound ==
  ASSUME Sound, Data
  PROVE  Sound'
<1> DEFINE it == [ItemAt(NewItem) EXCEPT !.data = op.val]
<1>1. /\ pc = "data" /\ pc' = "chk" /\ pc \in WritePcs /\ pc' \in WritePcs
      /\ items' = With(NewItem, it)
      /\ UNCHANGED <<pgHdr, pgRes, op, pg, offset, lost, findDups, newPg, oldPg, stat, resets, expect>>
  BY DEF Data, ram, scan, WritePcs
<1>2. Placed /\ ItemAt(NewItem).data = Blank /\ ItemAt(NewItem).chk = Blank
  BY <1>1 DEF Sound, Placed, Writing
<1>3. /\ Shape /\ pgRes \in Pages
      /\ op.id \in Ids /\ op.val \in Vals /\ op.val \in expect[op.id]
      /\ op.comPg \in Pages \ {pgRes} /\ op.dstPg \in {pgRes, op.comPg}
      /\ NewItem \in Slots /\ NewItem \in Used
      /\ ItemAt(NewItem).id = op.id /\ ~ ItemAt(NewItem).old
      /\ IF op.src[1] = NULL
         THEN \A x \in Used \ {NewItem} : ItemAt(x).id # op.id
         ELSE op.src \in Used /\ op.src # NewItem /\ ItemAt(op.src).id = op.id
      /\ Used \subseteq Slots
      /\ Fresh = {NewItem}
      /\ \A x \in Used \ {NewItem} : Valid(ItemAt(x))
      /\ IF op.dstPg = pgRes THEN Len(items[pgRes]) = 1 ELSE items[pgRes] = <<>>
  BY <1>1, <1>2, WritePlaced
<1>4. /\ it \in Item /\ it.id = op.id /\ it.data = op.val /\ it.chk = Blank /\ ~ it.old
      /\ ~ Valid(it) /\ ~ Valid(ItemAt(NewItem))
  <2>1. ItemAt(NewItem) \in Item
    BY <1>3, ItemsAreItems DEF Shape
  <2> QED
    BY <1>2, <1>3, <2>1 DEF Item, Valid
<1> HIDE DEF it
<1>5. /\ items' \in [Pages -> Seq(Item)] /\ Fits'
      /\ \A p \in Pages : Len(items'[p]) = Len(items[p])
      /\ \A p \in Pages : items[p] = <<>> => items'[p] = <<>>
      /\ Slots' = Slots
      /\ \A y \in Slots : ItemAt(y)' = IF y = NewItem THEN it ELSE ItemAt(y)
  BY <1>1, <1>3, <1>4, WriteAt DEF Shape
<1>6. Used' = Used /\ NewItem' = NewItem /\ Fresh' = Fresh
  <2>1. NewItem' = NewItem
    BY <1>1, <1>3, <1>5 DEF NewItem
  <2> QED
    BY <1>1, <1>3, <1>4, <1>5, <2>1 DEF Used, Fresh
<1>7. PICK n : n = NewItem
  OBVIOUS
<1>8. \A x \in Used : x # n => (Valid(ItemAt(x)) /\ Valid(ItemAt(x))' /\ ItemAt(x)' = ItemAt(x))
  <2>1. \A x \in Used : x # n => (Valid(ItemAt(x)) /\ ItemAt(x)' = ItemAt(x))
    BY <1>3, <1>5, <1>7
  <2> QED
    BY <2>1 DEF Valid
<1>9. n \in Used /\ ItemAt(n)' = it /\ ~ Valid(ItemAt(n))' /\ ~ Valid(ItemAt(n))
  <2>1. n \in Used /\ ItemAt(n)' = it /\ ~ Valid(ItemAt(n))
    BY <1>3, <1>4, <1>5, <1>7
  <2> QED
    BY <1>4, <2>1 DEF Valid
<1>10. ItemAt(NewItem)' = it /\ (op.src[1] # NULL => ItemAt(op.src)' = ItemAt(op.src))
  BY <1>1, <1>3, <1>6, <1>7, <1>8, <1>9, Links
<1>11. Shape'
  BY <1>1, <1>3, <1>5 DEF Shape, ScanPcs
<1>12. Calling'
  BY <1>1, <1>3 DEF Calling, WritePcs
<1>13. Writing'
  <2>1. op.src[1] # NULL => ItemAt(op.src).old
    BY <1>1, <1>2 DEF Placed, Writing
  <2> QED
    BY <1>1, <1>3, <1>4, <1>5, <1>6, <1>7, <1>8, <1>10, <2>1 DEF Writing, WritePcs
<1>14. Compacting' /\ Rewalk' /\ Copying'
  BY <1>1 DEF Compacting, Rewalk, Copying, Moving, CompactPcs
<1>15. Whole'
  BY <1>3, <1>6, <1>7, <1>8 DEF Whole
<1>16. Emptied'
  BY <1>1, <1>3, <1>5 DEF Emptied, WritePcs
<1>17. OneNew' /\ \A i \in Ids \ {} : Known(i) => Known(i)'
  BY <1>1, <1>6, <1>8, <1>9, NoNews DEF Sound
<1>18. Replacing'
  <2>1. op.src[1] # NULL => \A x \in Used \ (Fresh \union {op.src}) : ItemAt(x).id = op.id => ItemAt(x).old
    BY <1>1 DEF Sound, Replacing
  <2> QED
    BY <1>1, <1>3, <1>6, <1>7, <1>8, <2>1 DEF Replacing
<1>19. Fitting'
  BY <1>1, <1>17 DEF Sound, Fitting, Busy, Moving
<1> QED
  BY <1>11, <1>12, <1>13, <1>14, <1>15, <1>16, <1>17, <1>18, <1>19 DEF Sound, Placed

(* The write is over, or goes on as a compaction.                          *)
LEMMA EndsSound ==
  ASSUME Placed, pc \in WritePcs, EndOrCompact, UNCHANGED <<pgHdr, pgRes, stat, resets>>,
         items' \in [Pages -> Seq(Item)], Fits', expect' \in [Ids -> SUBSET (Vals \union {Absent})],
         \A x \in Used' : Valid(ItemAt(x))', OneNew', \A i \in Ids : Known(i)',
         op.dstPg # pgRes => items'[pgRes] = <<>>
  PROVE  Sound'
<1>1. /\ pgRes \in Pages /\ op.comPg \in Pages \ {pgRes} /\ Shape
  BY WritePlaced
<1>2. \/ /\ op.dstPg = pgRes /\ pc' = "mark" /\ pg' = op.comPg
         /\ UNCHANGED <<op, offset, lost, findDups, newPg, oldPg>>
      \/ /\ op.dstPg # pgRes /\ pc' = "idle"
         /\ pg' = NULL /\ offset' = 0 /\ findDups' = FALSE /\ newPg' = NULL /\ oldPg' = NULL
  BY DEF EndOrCompact, Idle, NoScan
<1>3. pc' \in {"mark", "idle"} /\ pc' \notin WritePcs /\ pc' \notin CopyPcs /\ pc' \notin ScanPcs
      /\ Fresh' = {}
  BY <1>2 DEF WritePcs, CopyPcs, ScanPcs, Fresh
<1>4. Shape'
  <2>1. /\ pg' \in {op.comPg, NULL} /\ offset' \in {offset, 0} /\ findDups' \in {findDups, FALSE}
        /\ newPg' \in {newPg, NULL} /\ oldPg' \in {oldPg, NULL}
    BY <1>2
  <2>2. op.comPg \in Pages /\ offset \in Nat /\ findDups \in BOOLEAN
        /\ newPg \in Pages \union {NULL} /\ oldPg \in Pages \union {NULL}
    BY <1>1 DEF Shape
  <2>3. findDups' \in BOOLEAN
    BY <2>1, <2>2, Zenon
  <2>4. pgHdr' \in [Pages -> PageHdr] /\ stat' \in BOOLEAN /\ resets' \in Nat /\ pgRes' \in Pages
    BY <1>1 DEF Shape
  <2> QED
    BY <1>3, <2>1, <2>2, <2>3, <2>4 DEF Shape, CompactPcs
<1>5. Calling' /\ Writing' /\ Rewalk' /\ Replacing' /\ Copying'
  BY <1>3 DEF Calling, Writing, Rewalk, Replacing, Copying, Moving, WritePcs
<1>6. Compacting'
  BY <1>1, <1>2 DEF Compacting, CompactPcs, CopyPcs
<1>7. Whole' /\ Fitting'
  BY DEF Whole, Fitting
<1>8. Emptied'
  BY <1>2 DEF Emptied, WritePcs
<1> QED
  BY <1>4, <1>5, <1>6, <1>7, <1>8 DEF Sound, Placed

LEMMA ChecksumSound ==
  ASSUME Sound, Checksum
  PROVE  Sound'
<1> DEFINE it == [ItemAt(NewItem) EXCEPT !.chk = ItemAt(NewItem).data]
<1>1. /\ pc = "chk" /\ pc \in WritePcs
      /\ items' = With(NewItem, it)
      /\ expect' = [expect EXCEPT ![op.id] = {op.val}]
      /\ IF op.src[1] = NULL THEN EndOrCompact ELSE pc' = "zero" /\ UNCHANGED <<op, scan>>
      /\ UNCHANGED <<pgHdr, pgRes, stat, resets>>
  BY DEF Checksum, ram, WritePcs
<1>2. Placed /\ ItemAt(NewItem).data = op.val /\ ItemAt(NewItem).chk = Blank
  BY <1>1 DEF Sound, Placed, Writing
<1>3. /\ Shape /\ pgRes \in Pages
      /\ op.id \in Ids /\ op.val \in Vals /\ op.val \in expect[op.id]
      /\ op.comPg \in Pages \ {pgRes} /\ op.dstPg \in {pgRes, op.comPg}
      /\ NewItem \in Slots /\ NewItem \in Used /\ NewItem[1] = op.dstPg
      /\ ItemAt(NewItem).id = op.id /\ ~ ItemAt(NewItem).old
      /\ IF op.src[1] = NULL
         THEN \A x \in Used \ {NewItem} : ItemAt(x).id # op.id
         ELSE op.src \in Used /\ op.src # NewItem /\ ItemAt(op.src).id = op.id
      /\ Used \subseteq Slots
      /\ Fresh = {NewItem}
      /\ \A x \in Used \ {NewItem} : Valid(ItemAt(x))
      /\ IF op.dstPg = pgRes THEN Len(items[pgRes]) = 1 ELSE items[pgRes] = <<>>
  BY <1>1, <1>2, WritePlaced
<1>4. /\ it \in Item /\ it.id = op.id /\ it.data = op.val /\ it.chk = op.val /\ ~ it.old
      /\ Valid(it) /\ ~ Valid(ItemAt(NewItem))
  <2>1. ItemAt(NewItem) \in Item
    BY <1>3, ItemsAreItems DEF Shape
  <2> QED
    BY <1>2, <1>3, <2>1, Numbers DEF Item, Valid
<1> HIDE DEF it
<1>5. /\ items' \in [Pages -> Seq(Item)] /\ Fits'
      /\ \A p \in Pages : Len(items'[p]) = Len(items[p])
      /\ \A p \in Pages : items[p] = <<>> => items'[p] = <<>>
      /\ Slots' = Slots
      /\ \A y \in Slots : ItemAt(y)' = IF y = NewItem THEN it ELSE ItemAt(y)
  BY <1>1, <1>3, <1>4, WriteAt DEF Shape
<1>6. PICK n : n = NewItem
  OBVIOUS
<1>7. ItemAt(n)' = it /\ \A x \in Slots : x # n => ItemAt(x)' = ItemAt(x)
  BY <1>3, <1>5, <1>6
<1>8. Used' = Used /\ n \in Used
  BY <1>3, <1>4, <1>5, <1>6, <1>7, Numbers DEF Used
<1>9. Valid(ItemAt(n))' /\ \A x \in Used : x # n => (Valid(ItemAt(x)) /\ Valid(ItemAt(x))' /\ ItemAt(x)' = ItemAt(x))
  <2>1. Valid(ItemAt(n))'
    BY <1>4, <1>7 DEF Valid
  <2>2. \A x \in Used : x # n => (Valid(ItemAt(x)) /\ ItemAt(x)' = ItemAt(x))
    BY <1>3, <1>6, <1>7
  <2> QED
    BY <2>1, <2>2 DEF Valid
<1>10. expect' \in [Ids -> SUBSET (Vals \union {Absent})]
  BY <1>1, <1>3 DEF Shape
<1>11. \A x \in Used : x # n /\ ItemAt(x).id = op.id => ItemAt(x).old
  <2>1. op.src[1] # NULL => ItemAt(op.src).old
    BY <1>1, <1>2 DEF Placed, Writing
  <2>2. op.src[1] # NULL => \A x \in Used \ {n, op.src} : ItemAt(x).id = op.id => ItemAt(x).old
    BY <1>1, <1>3, <1>6 DEF Sound, Replacing
  <2> QED
    BY <1>3, <1>6, <2>1, <2>2
<1>12. OneNew'
  <2> SUFFICES ASSUME NEW x \in Used, NEW y \in Used, ItemAt(x)'.id = ItemAt(y)'.id,
                      ~ ItemAt(x)'.old, ~ ItemAt(y)'.old
               PROVE  x = y
    BY <1>8 DEF OneNew
  <2>1. CASE x # n /\ y # n
    BY <1>9, <2>1 DEF Sound, OneNew
  <2>2. CASE x = n \/ y = n
    BY <1>4, <1>7, <1>9, <1>11, <2>2
  <2> QED
    BY <2>1, <2>2
<1>13. ASSUME NEW i \in Ids
       PROVE  Known(i)'
  <2>1. CASE i = op.id
    <3>1. expect'[i] = {op.val}
      BY <1>1, <1>3, <2>1 DEF Shape
    <3>2. ASSUME NEW x \in Used', Current(x)', ItemAt(x)'.id = i, x # n
          PROVE  FALSE
      <4>1. ItemAt(x)'.old
        BY <1>8, <1>9, <1>11, <2>1, <3>2
      <4> QED
        BY <1>4, <1>7, <1>8, <1>9, <2>1, <3>2, <4>1 DEF Current
    <3> QED
      BY <1>4, <1>7, <1>8, <3>1, <3>2 DEF Known
  <2>2. CASE i # op.id
    <3>1. expect'[i] = expect[i]
      BY <1>1, <1>3, <2>2 DEF Shape
    <3>2. Known(i)
      BY <1>1, <2>2 DEF Sound, Fitting, Busy, Moving
    <3>3. \A x \in Used : ItemAt(x)'.id = i \/ ItemAt(x).id = i => x # n
      BY <1>3, <1>4, <1>6, <1>7, <2>2
    <3> QED
      BY <1>8, <1>9, <3>1, <3>2, <3>3, KnownStays
  <2> QED
    BY <2>1, <2>2
<1>14. CASE op.src[1] = NULL
  <2>1. \A x \in Used' : Valid(ItemAt(x))'
    BY <1>8, <1>9
  <2>2. op.dstPg # pgRes => items'[pgRes] = <<>>
    BY <1>3, <1>5
  <2> QED
    BY <1>1, <1>2, <1>5, <1>10, <1>12, <1>13, <1>14, <2>1, <2>2, EndsSound
<1>15. CASE op.src[1] # NULL
  <2>1. /\ pc' = "zero" /\ pc' \in WritePcs
        /\ UNCHANGED <<op, pg, offset, findDups, newPg, oldPg>>
    BY <1>1, <1>15 DEF WritePcs, scan
  <2>2. NewItem' = n /\ Fresh' = {n}
    BY <1>3, <1>5, <1>6, <2>1 DEF NewItem, Fresh
  <2>3. ItemAt(NewItem)' = it /\ ItemAt(op.src)' = ItemAt(op.src)
    BY <1>3, <1>6, <1>7, <1>15, <2>1, <2>2, Links
  <2>4. Shape'
    BY <1>1, <1>3, <1>5, <1>10, <2>1 DEF Shape, ScanPcs
  <2>5. Calling'
    <3>1. op.val \in expect'[op.id]
      BY <1>1, <1>3 DEF Shape
    <3> QED
      BY <1>1, <1>3, <2>1, <3>1 DEF Calling, WritePcs
  <2>6. Writing'
    <3>1. ItemAt(op.src).old
      BY <1>1, <1>2, <1>15 DEF Placed, Writing
    <3> QED
      BY <1>3, <1>4, <1>5, <1>6, <1>8, <1>15, <2>1, <2>2, <2>3, <3>1 DEF Writing, WritePcs
  <2>7. Compacting' /\ Rewalk' /\ Copying'
    BY <2>1 DEF Compacting, Rewalk, Copying, Moving, CompactPcs
  <2>8. Whole'
    BY <1>8, <1>9 DEF Whole
  <2>9. Emptied'
    BY <1>1, <1>3, <1>5, <2>1 DEF Emptied, WritePcs
  <2>10. Replacing'
    BY <1>8, <1>9, <1>11, <2>1, <2>2 DEF Replacing
  <2>11. Fitting'
    BY <1>13 DEF Fitting
  <2> QED
    BY <1>12, <2>4, <2>5, <2>6, <2>7, <2>8, <2>9, <2>10, <2>11 DEF Sound, Placed
<1> QED
  BY <1>14, <1>15

LEMMA ZeroSound ==
  ASSUME Sound, Zero
  PROVE  Sound'
<1>1. /\ pc = "zero" /\ pc \in WritePcs
      /\ items' = With(op.src, ZeroedItem)
      /\ EndOrCompact
      /\ UNCHANGED <<pgHdr, pgRes, stat, resets, expect>>
  BY DEF Zero, WritePcs
<1>2. Placed /\ op.src[1] # NULL /\ ItemAt(NewItem).data = op.val /\ ItemAt(NewItem).chk = op.val
      /\ ItemAt(op.src).old
  BY <1>1 DEF Sound, Placed, Writing
<1>3. /\ Shape /\ pgRes \in Pages
      /\ op.id \in Ids /\ op.val \in Vals
      /\ op.dstPg \in {pgRes, op.comPg}
      /\ NewItem \in Slots /\ NewItem \in Used /\ NewItem[1] = op.dstPg
      /\ op.src \in Used /\ op.src # NewItem /\ ItemAt(op.src).id = op.id
      /\ Used \subseteq Slots
      /\ \A x \in Used \ {NewItem} : Valid(ItemAt(x))
      /\ IF op.dstPg = pgRes THEN Len(items[pgRes]) = 1 ELSE items[pgRes] = <<>>
  BY <1>1, <1>2, WritePlaced
<1>4. PICK n, s : n = NewItem /\ s = op.src
  OBVIOUS
<1>5. /\ items' \in [Pages -> Seq(Item)] /\ Fits'
      /\ \A p \in Pages : items[p] = <<>> => items'[p] = <<>>
      /\ Slots' = Slots
      /\ \A y \in Slots : ItemAt(y)' = IF y = op.src THEN ZeroedItem ELSE ItemAt(y)
  BY <1>1, <1>3, NewItems, WriteAt DEF Shape
<1>6. Used' = Used \ {s}
  BY <1>3, <1>4, <1>5, NewItems DEF Used
<1>7. \A x \in Used' : ItemAt(x)' = ItemAt(x)
  BY <1>3, <1>4, <1>5, <1>6
<1>8. Valid(ItemAt(n)) /\ n \in Used'
  BY <1>2, <1>3, <1>4, <1>6, Numbers DEF Valid
<1>9. \A x \in Used' : Valid(ItemAt(x))' /\ Valid(ItemAt(x))
  <2>1. \A x \in Used' : Valid(ItemAt(x))
    BY <1>3, <1>4, <1>6, <1>8
  <2> QED
    BY <1>7, <2>1 DEF Valid
<1>10. OneNew' /\ \A i \in Ids \ {} : Known(i) => Known(i)'
  <2>1. \A y \in Used : ~ ItemAt(y).old => y \in Used'
    BY <1>2, <1>4, <1>6
  <2>2. Used' \subseteq Used
    BY <1>6
  <2> QED
    BY <1>1, <1>7, <1>9, <2>1, <2>2, NoNews DEF Sound
<1>11. \A i \in Ids : Known(i)'
  BY <1>1, <1>10 DEF Sound, Fitting, Busy, Moving
<1>12. op.dstPg # pgRes => items'[pgRes] = <<>>
  BY <1>3, <1>5
<1>13. expect' \in [Ids -> SUBSET (Vals \union {Absent})]
  BY <1>1, <1>3 DEF Shape
<1> QED
  BY <1>1, <1>2, <1>5, <1>9, <1>10, <1>11, <1>12, <1>13, EndsSound

LEMMA MarkSound ==
  ASSUME Sound, Mark
  PROVE  Sound'
<1>1. /\ pc = "mark" /\ pc' = "compact" /\ offset' = 1
      /\ pgHdr' = [pgHdr EXCEPT ![pg].xfer = TRUE]
      /\ UNCHANGED <<items, pgRes, op, pg, findDups, newPg, oldPg, stat, resets, expect>>
      /\ Slots' = Slots /\ Used' = Used /\ \A y : ItemAt(y)' = ItemAt(y)
  BY SameFlash DEF Mark, ram
<1>2. /\ Shape /\ pgRes \in Pages /\ pg \in Pages /\ pg # pgRes
      /\ Used \subseteq Slots /\ \A x \in Used : Valid(ItemAt(x))
  BY <1>1, CompactPlaced DEF Sound, CompactPcs, CopyPcs
<1>3. pgHdr' \in [Pages -> PageHdr]
  BY <1>1, <1>2 DEF Shape, PageHdr
<1>4. Shape'
  BY <1>1, <1>2, <1>3 DEF Shape, Fits, ScanPcs, CompactPcs
<1>5. Calling' /\ Writing' /\ Emptied' /\ Rewalk' /\ Replacing' /\ Copying'
  BY <1>1 DEF Calling, Writing, Emptied, Rewalk, Replacing, Copying, Moving, WritePcs
<1>6. Compacting'
  <2>1. \A x \in Used' : x[2] >= 1
    BY <1>1, <1>2, SlotParts, Numbers
  <2> QED
    BY <1>1, <1>2, <2>1 DEF Compacting, CompactPcs, CopyPcs
<1>7. Whole'
  BY <1>1, <1>2 DEF Whole, Valid
<1>8. OneNew' /\ \A i \in Ids : Known(i) => Known(i)'
  BY <1>1, SameKnown DEF Sound
<1>9. Fitting'
  BY <1>1, <1>8 DEF Sound, Fitting, Busy, Moving
<1> QED
  BY <1>4, <1>5, <1>6, <1>7, <1>8, <1>9 DEF Sound, Placed

LEMMA CompactItemSound ==
  ASSUME Sound, CompactItem
  PROVE  Sound'
<1>0. PICK h : h = Here
  OBVIOUS
<1>1. /\ pc = "compact" /\ pc \in CompactPcs /\ pc \notin CopyPcs
      /\ UNCHANGED <<pgHdr, pgRes, op, pg, lost, findDups, newPg, oldPg, resets, expect>>
  BY DEF CompactItem, CompactPcs, CopyPcs
<1>2. /\ Placed /\ Shape /\ items \in [Pages -> Seq(Item)] /\ Fits
      /\ pgRes \in Pages /\ pg \in Pages /\ pg # pgRes
      /\ Used \subseteq Slots /\ Fresh = {} /\ \A x \in Used : Valid(ItemAt(x))
  BY <1>1, CompactPlaced DEF Sound
<1>3. /\ offset \in Nat /\ offset > 0 /\ \A x \in Used : x[1] = pg => x[2] >= offset
  BY <1>1, <1>2 DEF Placed, Compacting, Shape
<1>4. Len(items[pg]) \in Nat /\ DOMAIN items[pg] = 1 .. Len(items[pg])
  BY <1>2, Lengths
<1>5. offset <= Len(items[pg]) => h \in Slots
  <2> SUFFICES ASSUME offset <= Len(items[pg])
               PROVE  h \in Slots
    OBVIOUS
  <2>1. offset \in DOMAIN items[pg]
    BY <1>3, <1>4
  <2> QED
    BY <1>0, <1>2, <2>1, PlaceIsSlot DEF Here
<1>6. \A i \in Ids : Known(i)
  BY <1>1 DEF Sound, Fitting, Busy, Moving
<1>7. CASE /\ UNCHANGED items /\ pc' \in {"compact", "erase"} /\ offset' \in Nat /\ offset' > 0
           /\ \A x \in Used : x[1] = pg => x[2] >= offset' /\ pc' = "compact"
           /\ UNCHANGED stat
  <2>1. Slots' = Slots /\ Used' = Used /\ \A y : ItemAt(y)' = ItemAt(y)
    BY <1>7, SameFlash
  <2>2. Shape'
    BY <1>1, <1>2, <1>7 DEF Shape, Fits, ScanPcs, CompactPcs
  <2>3. Calling' /\ Writing' /\ Emptied' /\ Rewalk' /\ Replacing' /\ Copying'
    BY <1>7 DEF Calling, Writing, Emptied, Rewalk, Replacing, Copying, Moving, WritePcs
  <2>4. Compacting'
    BY <1>1, <1>2, <1>7, <2>1 DEF Compacting, CompactPcs, CopyPcs
  <2>5. Whole'
    BY <1>2, <2>1 DEF Whole, Valid
  <2>6. OneNew' /\ \A i \in Ids : Known(i)'
    BY <1>1, <1>6, <1>7, SameKnown DEF Sound
  <2> QED
    BY <2>2, <2>3, <2>4, <2>5, <2>6 DEF Sound, Placed, Fitting
<1>8. CASE /\ offset > Len(items[pg]) /\ pc' = "erase" /\ UNCHANGED <<items, offset, stat>>
  <2>1. \A x \in Used : x[1] # pg
    BY <1>2, <1>3, <1>4, <1>8, SlotParts
  <2> QED
    BY <1>3, <1>7, <1>8, <2>1
<1>9. CASE /\ offset <= Len(items[pg]) /\ ItemAt(h).id = Zeroed
           /\ offset' = offset + 1 /\ UNCHANGED <<items, pc, stat>>
  <2>1. ASSUME NEW x \in Used, x[1] = pg
        PROVE  x[2] >= offset + 1
    <3>1. x[2] \in Nat /\ x = <<pg, x[2]>> /\ x[2] >= offset
      BY <1>2, <1>3, <2>1, SlotParts
    <3>2. x[2] # offset
      BY <1>0, <1>9, <3>1 DEF Here, Used
    <3> QED
      BY <1>3, <3>1, <3>2
  <2> QED
    BY <1>1, <1>3, <1>7, <1>9, <2>1
<1>10. CASE /\ offset <= Len(items[pg]) /\ ItemAt(h).id # Zeroed
            /\ stat' = ItemAt(h).old
            /\ items' = With(h, [ItemAt(h) EXCEPT !.old = TRUE])
            /\ pc' = "copyHdr" /\ UNCHANGED offset
  <2> DEFINE it == [ItemAt(h) EXCEPT !.old = TRUE]
  <2>1. h \in Slots /\ h \in Used /\ Valid(ItemAt(h)) /\ h[1] = pg
    BY <1>0, <1>2, <1>5, <1>10 DEF Used, Here
  <2>2. ItemAt(h) \in Item /\ ItemAt(h).old \in BOOLEAN /\ ItemAt(h).id \in Ids
    BY <1>2, <2>1, ItemsAreItems DEF Used
  <2>3. /\ it \in Item /\ it.id = ItemAt(h).id /\ it.data = ItemAt(h).data
        /\ it.chk = ItemAt(h).chk /\ it.old /\ (Valid(it) <=> Valid(ItemAt(h)))
    BY <2>2 DEF Item, Valid
  <2> HIDE DEF it
  <2>4. /\ items' \in [Pages -> Seq(Item)] /\ Fits'
        /\ Slots' = Slots
        /\ \A y \in Slots : ItemAt(y)' = IF y = h THEN it ELSE ItemAt(y)
    BY <1>2, <1>10, <2>1, <2>3, WriteAt DEF it
  <2>5. \A x \in Slots : /\ (Valid(ItemAt(x))' <=> Valid(ItemAt(x))) /\ ItemAt(x)'.id = ItemAt(x).id
                         /\ ItemAt(x)'.data = ItemAt(x).data /\ (x # h => ItemAt(x)' = ItemAt(x))
                         /\ (ItemAt(x).old => ItemAt(x)'.old)
    BY <2>3, <2>4 DEF Valid
  <2>6. Used' = Used
    BY <2>4, <2>5 DEF Used
  <2>7. Here' = h /\ ItemAt(Here)' = it
    <3>1. Here' = h
      BY <1>0, <1>1, <1>10 DEF Here
    <3> QED
      BY <2>1, <2>4, <3>1, Links
  <2>8. Shape'
    <3>1. stat' \in BOOLEAN
      BY <1>10, <2>2, Zenon
    <3> QED
      BY <1>1, <1>2, <1>10, <2>4, <3>1 DEF Shape, ScanPcs, CompactPcs
  <2>9. Calling' /\ Writing' /\ Emptied' /\ Rewalk' /\ Replacing' /\ Fresh' = {}
    BY <1>10 DEF Calling, Writing, Emptied, Rewalk, Replacing, Fresh, WritePcs, CopyPcs
  <2>10. Compacting'
    <3>1. Here' \in Used' /\ ItemAt(Here)'.old /\ Valid(ItemAt(Here))'
      BY <2>1, <2>3, <2>6, <2>7 DEF Valid
    <3> QED
      BY <1>1, <1>2, <1>3, <1>10, <2>6, <3>1 DEF Compacting, CompactPcs, CopyPcs
  <2>11. Whole'
    BY <1>2, <2>5, <2>6 DEF Whole
  <2>12. Moving' <=> ~ ItemAt(h).old
    BY <1>10 DEF Moving
  <2>13. ~ ItemAt(h).old => \A x \in Used : x # h /\ ItemAt(x).id = ItemAt(h).id => ItemAt(x).old
    BY <1>2, <2>1 DEF Sound, OneNew
  <2>14. Copying'
    <3>1. ~ ItemAt(h).old => ItemAt(h).data \in expect[ItemAt(h).id]
      BY <1>6, <2>1, <2>2 DEF Known, Current
    <3>2. ItemAt(Here)'.id = ItemAt(h).id /\ ItemAt(Here)'.data = ItemAt(h).data
      BY <2>3, <2>7
    <3>3. ~ ItemAt(h).old => \A x \in Used : ItemAt(x)'.id = ItemAt(h).id => ItemAt(x)'.old
      BY <1>2, <2>1, <2>3, <2>4, <2>5, <2>13
    <3> QED
      BY <1>1, <2>6, <2>12, <3>1, <3>2, <3>3 DEF Copying
  <2> DEFINE D == {i \in Ids : ~ ItemAt(h).old /\ i = ItemAt(h).id}
  <2>15. OneNew' /\ \A i \in Ids \ D : Known(i) => Known(i)'
    <3>1. ASSUME NEW y \in Used, ~ ItemAt(y).old, ItemAt(y).id \notin D
          PROVE  y \in Used' /\ ItemAt(y)'.id = ItemAt(y).id /\ ~ ItemAt(y)'.old
      <4>1. y # h
        BY <2>2, <3>1
      <4> QED
        BY <1>2, <2>5, <2>6, <3>1, <4>1
    <3>2. \A i \in Ids : expect[i] \subseteq expect'[i]
      BY <1>1
    <3> HIDE DEF D
    <3> QED
      BY <1>2, <2>5, <2>6, <3>1, <3>2, NoNews DEF Sound
  <2>16. Fitting'
    <3>1. ItemAt(Here)'.id = ItemAt(h).id
      BY <2>3, <2>7
    <3>2. \A i \in D : Busy(i)'
      BY <2>12, <3>1 DEF Busy
    <3> QED
      BY <1>6, <2>15, <3>2 DEF Fitting
  <2> QED
    BY <2>8, <2>9, <2>10, <2>11, <2>14, <2>15, <2>16 DEF Sound, Placed
<1>11. CASE offset <= Len(items[pg]) /\ ItemAt(h).id # Zeroed /\ ~ Valid(ItemAt(h))
  BY <1>2, <1>5, <1>11 DEF Used
<1> QED
  BY <1>0, <1>7, <1>8, <1>9, <1>10, <1>11 DEF CompactItem

LEMMA CopyHdrSound ==
  ASSUME Sound, CopyHdr, Len(items[pgRes]) < PageItems
  PROVE  Sound'
<1> DEFINE it == [ItemAt(Here) EXCEPT !.data = Blank, !.old = stat]
<1>0. PICK n, h : n = <<pgRes, Len(items[pgRes]) + 1>> /\ h = Here
  OBVIOUS
<1>1. /\ pc = "copyHdr" /\ pc' = "copyData" /\ stat' = FALSE
      /\ items' = [items EXCEPT ![pgRes] = Append(@, it)]
      /\ UNCHANGED <<pgHdr, pgRes, op, pg, offset, findDups, newPg, oldPg, resets, expect>>
  BY DEF CopyHdr, ram, scan
<1>2. pc \in CompactPcs /\ pc \notin CopyPcs /\ pc' \in CopyPcs /\ pc' \in CompactPcs
  BY <1>1 DEF CompactPcs, CopyPcs
<1>3. /\ Placed /\ Shape /\ items \in [Pages -> Seq(Item)] /\ Fits
      /\ pgRes \in Pages /\ pg \in Pages /\ pg # pgRes
      /\ Used \subseteq Slots /\ Fresh = {} /\ \A x \in Used : Valid(ItemAt(x))
  BY <1>2, CompactPlaced DEF Sound
<1>4. /\ h \in Used /\ ItemAt(h).old /\ Valid(ItemAt(h)) /\ h[1] = pg
      /\ offset > 0 /\ \A x \in Used : x[1] = pg => x[2] >= offset
  BY <1>0, <1>1, <1>3 DEF Placed, Compacting, CompactPcs, Here
<1>5. /\ it \in Item /\ it.id = ItemAt(h).id /\ it.data = Blank /\ it.chk = ItemAt(h).chk
      /\ it.old = stat /\ ~ Valid(it) /\ it.id # Zeroed
  <2>1. ItemAt(h) \in Item
    BY <1>3, <1>4, ItemsAreItems
  <2>2. stat \in BOOLEAN
    BY <1>3 DEF Shape
  <2>3. ItemAt(h).id # Zeroed
    BY <1>4 DEF Used
  <2>4. it = [ItemAt(h) EXCEPT !.data = Blank, !.old = stat]
    BY <1>0
  <2> HIDE DEF it
  <2> QED
    BY <1>4, <2>1, <2>2, <2>3, <2>4 DEF Item, Valid
<1> HIDE DEF it
<1>6. Len(items[pgRes]) < PageItems
  OBVIOUS
<1>7. /\ items' \in [Pages -> Seq(Item)] /\ Fits'
      /\ n = <<pgRes, Len(items'[pgRes])>>
      /\ n \notin Slots /\ Slots' = Slots \union {n}
      /\ \A y \in Slots : ItemAt(y)' = ItemAt(y)
      /\ ItemAt(n)' = it
  <2>1. items' = [items EXCEPT ![pgRes] = Append(@, it)]
    BY <1>1
  <2> QED
    BY <1>0, <1>3, <1>5, <1>6, <2>1, AppendAt
<1>8. Copy' = n /\ Here' = h
  BY <1>0, <1>1, <1>7 DEF Copy, Here
<1>9. ItemAt(Copy)' = it /\ ItemAt(Here)' = ItemAt(h)
  <2>1. ItemAt(h)' = ItemAt(h)
    BY <1>3, <1>4, <1>7
  <2>2. ItemAt(Here)' = ItemAt(h)' /\ ItemAt(Copy)' = ItemAt(n)'
    BY <1>8, Links
  <2> QED
    BY <1>7, <2>1, <2>2
<1>10. Used' = Used \union {n} /\ n \notin Used /\ n[1] = pgRes
  <2>1. n \notin Used /\ n[1] = pgRes
    BY <1>0, <1>3, <1>7
  <2>2. ASSUME NEW x \in Used' PROVE x \in Used \union {n}
    BY <1>7, <2>2 DEF Used
  <2>3. ASSUME NEW x \in Used PROVE x \in Used'
    BY <1>7, <2>3 DEF Used
  <2>4. n \in Used'
    BY <1>5, <1>7 DEF Used
  <2> QED
    BY <2>1, <2>2, <2>3, <2>4
<1>11. Fresh' = {n}
  BY <1>1, <1>8 DEF Fresh, WritePcs, CopyPcs
<1>12. Shape'
  BY <1>1, <1>3, <1>7 DEF Shape, ScanPcs, CompactPcs, CopyPcs
<1>13. Calling' /\ Writing' /\ Emptied' /\ Rewalk' /\ Replacing'
  BY <1>1 DEF Calling, Writing, Emptied, Rewalk, Replacing, WritePcs
<1>14. \A x \in Used : Valid(ItemAt(x)) /\ Valid(ItemAt(x))' /\ ItemAt(x)' = ItemAt(x)
  <2>1. \A x \in Used : Valid(ItemAt(x)) /\ ItemAt(x)' = ItemAt(x)
    BY <1>3, <1>7
  <2> QED
    BY <2>1 DEF Valid
<1>15. Compacting'
  <2>1. Valid(ItemAt(Here))'
    BY <1>4, <1>9 DEF Valid
  <2>2. Copy' \in Slots' /\ ItemAt(Copy)'.id = ItemAt(Here)'.id
        /\ ItemAt(Copy)'.chk = ItemAt(Here)'.chk /\ ItemAt(Copy)'.data = Blank
    BY <1>5, <1>7, <1>8, <1>9
  <2>3. Here' \in Used' /\ ItemAt(Here)'.old
    BY <1>4, <1>8, <1>9, <1>10
  <2>4. \A x \in Used' : x[1] = pg => x[2] >= offset
    BY <1>3, <1>4, <1>10
  <2> QED
    BY <1>1, <1>3, <1>4, <2>1, <2>2, <2>3, <2>4 DEF Compacting, CompactPcs, CopyPcs
<1>16. Whole'
  BY <1>10, <1>11, <1>14 DEF Whole
<1>17. OneNew' /\ \A i \in Ids \ {} : Known(i) => Known(i)'
  <2>1. ~ Valid(ItemAt(n))'
    BY <1>5, <1>7 DEF Valid
  <2> QED
    BY <1>1, <1>10, <1>14, <2>1, NoNews DEF Sound
<1>18. (Moving' <=> Moving) /\ \A i : Busy(i)' <=> Busy(i)
  <2>1. Moving' <=> ~ it.old
    BY <1>1, <1>9 DEF Moving
  <2>2. Moving <=> ~ stat
    BY <1>1 DEF Moving
  <2>3. it.old <=> stat
    BY <1>5
  <2>4. Moving' <=> Moving
    BY <2>1, <2>2, <2>3
  <2> QED
    BY <1>0, <1>1, <1>9, <2>4 DEF Busy
<1>19. Copying'
  <2>1. Moving => /\ ItemAt(h).data \in expect[ItemAt(h).id]
                  /\ \A x \in Used : ItemAt(x).id = ItemAt(h).id => ItemAt(x).old
    BY <1>0, <1>3 DEF Sound, Copying
  <2> QED
    BY <1>1, <1>9, <1>10, <1>11, <1>14, <1>18, <2>1 DEF Copying
<1>20. Fitting'
  BY <1>1, <1>17, <1>18 DEF Sound, Fitting
<1> QED
  BY <1>12, <1>13, <1>15, <1>16, <1>17, <1>19, <1>20 DEF Sound, Placed

LEMMA CopyDataSound ==
  ASSUME Sound, CopyData
  PROVE  Sound'
<1> DEFINE it == [ItemAt(Copy) EXCEPT !.data = ItemAt(Here).data]
<1>0. PICK n, h : n = Copy /\ h = Here
  OBVIOUS
<1>1. /\ pc = "copyData" /\ pc' = "copyZero" /\ items' = With(Copy, it)
      /\ UNCHANGED <<pgHdr, pgRes, op, pg, offset, findDups, newPg, oldPg, stat, resets, expect>>
  BY DEF CopyData, Copy, ram, scan
<1>2. pc \in CompactPcs /\ pc \in CopyPcs /\ pc' \in CopyPcs /\ pc' \in CompactPcs
  BY <1>1 DEF CompactPcs, CopyPcs
<1>3. /\ Placed /\ Shape /\ items \in [Pages -> Seq(Item)] /\ Fits
      /\ pgRes \in Pages /\ pg \in Pages /\ pg # pgRes
      /\ Used \subseteq Slots /\ Fresh = {n}
  BY <1>0, <1>2, CompactPlaced DEF Sound
<1>4. /\ h \in Used /\ h \in Slots /\ n \in Used /\ n \in Slots
      /\ h # n
      /\ ItemAt(h).old /\ Valid(ItemAt(h))
      /\ offset \in Nat /\ offset > 0 /\ \A x \in Used : x[1] = pg => x[2] >= offset
      /\ ItemAt(n).id = ItemAt(h).id /\ ItemAt(n).chk = ItemAt(h).chk /\ ItemAt(n).data = Blank
      /\ \A x \in Used \ {n} : Valid(ItemAt(x))
  BY <1>0, <1>1, <1>2, <1>3, CopyPlaced
<1>5. /\ it \in Item /\ it.id = ItemAt(h).id /\ it.data = ItemAt(h).data /\ it.chk = ItemAt(h).chk
      /\ it.old = ItemAt(n).old /\ Valid(it) /\ ~ Valid(ItemAt(n)) /\ ItemAt(h).id \in Ids
  <2>1. ItemAt(h) \in Item /\ ItemAt(n) \in Item /\ ItemAt(h).id \in Ids
    BY <1>3, <1>4, ItemsAreItems DEF Used
  <2>2. it = [ItemAt(n) EXCEPT !.data = ItemAt(h).data]
    BY <1>0
  <2> HIDE DEF it
  <2> QED
    BY <1>4, <2>1, <2>2 DEF Item, Valid
<1> HIDE DEF it
<1>6. /\ items' \in [Pages -> Seq(Item)] /\ Fits'
      /\ \A p \in Pages : Len(items'[p]) = Len(items[p])
      /\ Slots' = Slots
      /\ \A y \in Slots : ItemAt(y)' = IF y = n THEN it ELSE ItemAt(y)
  <2>1. items' = With(n, it)
    BY <1>0, <1>1
  <2> QED
    BY <1>3, <1>4, <1>5, <2>1, WriteAt
<1>7. ItemAt(n)' = it /\ \A x \in Slots : x # n => ItemAt(x)' = ItemAt(x)
  BY <1>4, <1>6
<1>8. Copy' = n /\ Here' = h
  BY <1>0, <1>1, <1>3, <1>6 DEF Copy, Here
<1>9. ItemAt(Copy)' = it /\ ItemAt(Here)' = ItemAt(h)
  <2>1. ItemAt(Copy)' = ItemAt(n)' /\ ItemAt(Here)' = ItemAt(h)'
    BY <1>8, Links
  <2> QED
    BY <1>4, <1>7, <2>1
<1>10. \A x \in Slots : ItemAt(x)'.id = ItemAt(x).id /\ ItemAt(x)'.old = ItemAt(x).old
  BY <1>4, <1>5, <1>6
<1>11. Used' = Used
  BY <1>6, <1>10 DEF Used
<1>12. Fresh' = {n}
  BY <1>1, <1>8 DEF Fresh, WritePcs, CopyPcs
<1>13. Shape'
  BY <1>1, <1>3, <1>6 DEF Shape, ScanPcs, CompactPcs, CopyPcs
<1>14. Calling' /\ Writing' /\ Emptied' /\ Rewalk' /\ Replacing' /\ Copying' /\ ~ Moving'
  BY <1>1 DEF Calling, Writing, Emptied, Rewalk, Replacing, Copying, Moving, WritePcs
<1>15. Compacting'
  <2>1. Valid(ItemAt(Here))'
    BY <1>4, <1>9 DEF Valid
  <2>2. Copy' \in Slots' /\ ItemAt(Copy)'.id = ItemAt(Here)'.id
        /\ ItemAt(Copy)'.chk = ItemAt(Here)'.chk /\ ItemAt(Copy)'.data = ItemAt(Here)'.data
    BY <1>4, <1>5, <1>6, <1>8, <1>9
  <2>3. Here' \in Used' /\ ItemAt(Here)'.old
    BY <1>4, <1>8, <1>9, <1>11
  <2> QED
    BY <1>1, <1>3, <1>4, <1>11, <2>1, <2>2, <2>3 DEF Compacting, CompactPcs, CopyPcs
<1>16. Valid(ItemAt(n))' /\ \A x \in Used \ {n} : Valid(ItemAt(x)) /\ Valid(ItemAt(x))' /\ ItemAt(x)' = ItemAt(x)
  <2>1. \A x \in Used \ {n} : Valid(ItemAt(x)) /\ ItemAt(x)' = ItemAt(x)
    BY <1>3, <1>4, <1>7
  <2> QED
    BY <1>5, <1>7, <2>1 DEF Valid
<1>17. Whole'
  BY <1>11, <1>16 DEF Whole
<1>18. ~ it.old => /\ ItemAt(h).data \in expect[ItemAt(h).id]
                   /\ \A x \in Used \ {n} : ItemAt(x).id = ItemAt(h).id => ItemAt(x).old
  <2>1. Moving <=> ~ ItemAt(n).old
    BY <1>0, <1>1 DEF Moving
  <2>2. it.old <=> ItemAt(n).old
    BY <1>5
  <2> QED
    BY <1>0, <1>3, <2>1, <2>2 DEF Sound, Copying
<1>19. OneNew'
  <2> SUFFICES ASSUME NEW x \in Used, NEW y \in Used, ItemAt(x)'.id = ItemAt(y)'.id,
                      ~ ItemAt(x)'.old, ~ ItemAt(y)'.old
               PROVE  x = y
    BY <1>11 DEF OneNew
  <2>1. CASE x # n /\ y # n
    BY <1>16, <2>1 DEF Sound, OneNew
  <2>2. CASE x = n \/ y = n
    BY <1>5, <1>7, <1>16, <1>18, <2>2
  <2> QED
    BY <2>1, <2>2
<1>20. ASSUME NEW i \in Ids
       PROVE  Known(i)'
  <2>1. CASE i # ItemAt(h).id
    <3>1. Known(i)
      BY <1>0, <1>1, <2>1 DEF Sound, Fitting, Busy
    <3>2. \A x \in Used : ItemAt(x)'.id = i \/ ItemAt(x).id = i => x # n
      BY <1>4, <1>5, <1>7, <2>1
    <3> QED
      BY <1>1, <1>11, <1>16, <3>1, <3>2, KnownStays
  <2>2. CASE i = ItemAt(h).id /\ ~ it.old
    <3>1. \A x \in Used' : Current(x)' /\ ItemAt(x)'.id = i => x = n
      <4>1. \A x \in Used \ {n} : ItemAt(x)'.id = i => ItemAt(x)'.old
        BY <1>16, <1>18, <2>2
      <4> QED
        BY <1>4, <1>5, <1>7, <1>11, <1>16, <2>2, <4>1 DEF Current
    <3> QED
      BY <1>1, <1>5, <1>7, <1>18, <2>2, <3>1 DEF Known
  <2>3. CASE i = ItemAt(h).id /\ it.old
    <3>1. Known(i)
      <4>1. ~ Moving
        BY <1>0, <1>1, <1>5, <2>3 DEF Moving
      <4> QED
        BY <1>1, <4>1 DEF Sound, Fitting, Busy
    <3>2. ASSUME NEW x, Current(x)', ItemAt(x)'.id = i
          PROVE  \E y \in Used : Current(y) /\ ItemAt(y).id = i /\ ItemAt(y).data = ItemAt(x)'.data
      <4>1. x \in Used /\ (ItemAt(x)'.old => \A y \in Used : ItemAt(y)'.id = i /\ Valid(ItemAt(y))' => ItemAt(y)'.old)
        BY <1>11, <3>2 DEF Current
      <4>2. ItemAt(x)'.old => \A y \in Used : ItemAt(y).id = i /\ Valid(ItemAt(y)) => ItemAt(y).old
        BY <1>5, <1>16, <4>1
      <4>3. CASE x = n
        <5>1. ItemAt(x)'.old /\ ItemAt(x)'.data = ItemAt(h).data
          BY <1>5, <1>7, <2>3, <4>3
        <5> QED
          BY <1>4, <2>3, <4>2, <5>1 DEF Current
      <4>4. CASE x # n
        <5>1. Valid(ItemAt(x)) /\ ItemAt(x)' = ItemAt(x)
          BY <1>16, <4>1, <4>4
        <5> QED
          BY <3>2, <4>1, <4>2, <5>1 DEF Current
      <4> QED
        BY <4>3, <4>4
    <3> QED
      BY <1>1, <3>1, <3>2 DEF Known
  <2> QED
    BY <2>1, <2>2, <2>3
<1> QED
  BY <1>13, <1>14, <1>15, <1>17, <1>19, <1>20 DEF Sound, Placed, Fitting

LEMMA CopyZeroSound ==
  ASSUME Sound, CopyZero
  PROVE  Sound'
<1>0. PICK n, h : n = Copy /\ h = Here
  OBVIOUS
<1>1. /\ pc = "copyZero" /\ pc' = "compact" /\ items' = With(h, ZeroedItem)
      /\ offset' = offset + 1
      /\ UNCHANGED <<pgHdr, pgRes, op, pg, findDups, newPg, oldPg, stat, resets, expect>>
  BY <1>0 DEF CopyZero
<1>2. pc \in CompactPcs /\ pc \in CopyPcs /\ pc' \notin CopyPcs /\ pc' \in CompactPcs
  BY <1>1 DEF CompactPcs, CopyPcs
<1>3. /\ Placed /\ Shape /\ items \in [Pages -> Seq(Item)] /\ Fits
      /\ pgRes \in Pages /\ pg \in Pages /\ pg # pgRes
      /\ Used \subseteq Slots
  BY <1>0, <1>2, CompactPlaced DEF Sound
<1>4. /\ h \in Used /\ h \in Slots /\ n \in Used /\ h # n /\ h[1] = pg /\ h[2] = offset
      /\ ItemAt(h).old /\ Valid(ItemAt(h))
      /\ offset \in Nat /\ offset > 0 /\ \A x \in Used : x[1] = pg => x[2] >= offset
      /\ ItemAt(n).chk = ItemAt(h).chk /\ ItemAt(n).data = ItemAt(h).data
      /\ \A x \in Used \ {n} : Valid(ItemAt(x))
  BY <1>0, <1>1, <1>2, <1>3, CopyPlaced
<1>5. /\ items' \in [Pages -> Seq(Item)] /\ Fits'
      /\ Slots' = Slots
      /\ \A y \in Slots : ItemAt(y)' = IF y = h THEN ZeroedItem ELSE ItemAt(y)
  BY <1>1, <1>3, <1>4, NewItems, WriteAt
<1>6. Used' = Used \ {h}
  BY <1>4, <1>5, NewItems DEF Used
<1>7. \A x \in Used' : Valid(ItemAt(x)) /\ Valid(ItemAt(x))' /\ ItemAt(x)' = ItemAt(x)
  <2>1. \A x \in Used' : Valid(ItemAt(x)) /\ ItemAt(x)' = ItemAt(x)
    BY <1>3, <1>4, <1>5, <1>6 DEF Valid
  <2> QED
    BY <2>1 DEF Valid
<1>8. Shape'
  BY <1>1, <1>3, <1>4, <1>5 DEF Shape, ScanPcs, CompactPcs
<1>9. Calling' /\ Writing' /\ Emptied' /\ Rewalk' /\ Replacing' /\ Copying'
  BY <1>1 DEF Calling, Writing, Emptied, Rewalk, Replacing, Copying, Moving, WritePcs
<1>10. Compacting'
  <2>1. ASSUME NEW x \in Used', x[1] = pg
        PROVE  x[2] >= offset + 1
    <3>1. x \in Used /\ x # h /\ x \in Slots /\ x[2] >= offset
      BY <1>3, <1>4, <1>6, <2>1
    <3>2. x[2] \in Nat /\ x = <<x[1], x[2]>> /\ h = <<h[1], h[2]>>
      BY <1>4, <3>1, SlotParts
    <3>3. x[2] # offset
      BY <1>4, <2>1, <3>1, <3>2
    <3> QED
      BY <1>4, <3>1, <3>2, <3>3
  <2> QED
    BY <1>1, <1>3, <1>4, <2>1 DEF Compacting, CompactPcs, CopyPcs
<1>11. Whole'
  BY <1>7 DEF Whole
<1>12. OneNew' /\ \A i \in Ids \ {} : Known(i) => Known(i)'
  <2>1. \A y \in Used : ~ ItemAt(y).old => y \in Used'
    BY <1>4, <1>6
  <2>2. Used' \subseteq Used
    BY <1>6
  <2> QED
    BY <1>1, <1>7, <2>1, <2>2, NoNews DEF Sound
<1>13. Fitting'
  BY <1>1, <1>12 DEF Sound, Fitting, Busy, Moving
<1> QED
  BY <1>8, <1>9, <1>10, <1>11, <1>12, <1>13 DEF Sound, Placed

LEMMA EraseSound ==
  ASSUME Sound, Erase
  PROVE  Sound'
<1>1. /\ pc = "erase" /\ pc' = "finish" /\ items' = [items EXCEPT ![pg] = <<>>]
      /\ pgHdr' = [pgHdr EXCEPT ![pg] = ErasedHdr]
      /\ UNCHANGED <<pgRes, op, pg, offset, findDups, newPg, oldPg, stat, resets, expect>>
  BY DEF Erase, erasePage, scan
<1>2. pc \in CompactPcs /\ pc \notin CopyPcs /\ pc' \in CompactPcs /\ pc' \notin CopyPcs
      /\ pc' \notin WritePcs
  BY <1>1 DEF CompactPcs, CopyPcs, WritePcs
<1>3. /\ Placed /\ Shape /\ items \in [Pages -> Seq(Item)] /\ Fits
      /\ pgRes \in Pages /\ pg \in Pages /\ pg # pgRes
      /\ Used \subseteq Slots /\ \A x \in Used : Valid(ItemAt(x))
  BY <1>2, CompactPlaced DEF Sound
<1>4. \A x \in Used : x[1] # pg
  BY <1>1, <1>2, <1>3 DEF Placed, Compacting
<1>5. /\ items' \in [Pages -> Seq(Item)] /\ Fits' /\ items'[pg] = <<>>
      /\ Slots' = {x \in Slots : x[1] # pg}
      /\ \A y \in Slots' : ItemAt(y)' = ItemAt(y)
  BY <1>1, <1>3, EraseAt
<1>6. Used' = Used /\ \A x \in Used : ItemAt(x)' = ItemAt(x)
  BY <1>3, <1>4, <1>5 DEF Used
<1>7. \A x \in Used : Valid(ItemAt(x))'
  BY <1>3, <1>6 DEF Valid
<1>8. pgHdr' \in [Pages -> PageHdr]
  BY <1>1, <1>3 DEF Shape, PageHdr, ErasedHdr
<1>9. Shape'
  BY <1>1, <1>3, <1>5, <1>8 DEF Shape, ScanPcs, CompactPcs
<1>10. Calling' /\ Writing' /\ Emptied' /\ Rewalk' /\ Replacing' /\ Copying'
  BY <1>1 DEF Calling, Writing, Emptied, Rewalk, Replacing, Copying, Moving, WritePcs
<1>11. Compacting'
  BY <1>1, <1>3, <1>4, <1>5, <1>6 DEF Compacting, CompactPcs, CopyPcs
<1>12. Whole'
  BY <1>6, <1>7 DEF Whole
<1>13. OneNew' /\ \A i \in Ids \ {} : Known(i) => Known(i)'
  BY <1>1, <1>3, <1>6, <1>7, NoNews DEF Sound
<1>14. Fitting'
  BY <1>1, <1>13 DEF Sound, Fitting, Busy, Moving
<1> QED
  BY <1>9, <1>10, <1>11, <1>12, <1>13, <1>14 DEF Sound, Placed

(* Between calls a reader gets what every current copy holds.              *)
LEMMA KnownReads ==
  ASSUME Sound, \A x \in Used : Valid(ItemAt(x)), NEW i \in Ids, Known(i)
  PROVE  IF Exists(i)
         THEN /\ osal_nv_read(i) \in expect[i]
              /\ \A x \in Used : Current(x) /\ ItemAt(x).id = i => ItemAt(x).data = osal_nv_read(i)
         ELSE osal_nv_read(i) = Absent /\ \A x \in Used : ItemAt(x).id # i
<1>1. Shape
  BY DEF Sound, Placed
<1>2. CASE Exists(i)
  <2>1. /\ findItem(i) \in Used /\ ItemAt(findItem(i)).id = i
        /\ ItemAt(findItem(i)).old => \A x \in Used : ItemAt(x).id = i => ItemAt(x).old
    BY <1>1, <1>2, FindItem
  <2>2. osal_nv_read(i) = ItemAt(findItem(i)).data
    BY <1>2 DEF osal_nv_read, ItemAt
  <2>3. Current(findItem(i))
    BY <2>1 DEF Current
  <2> QED
    BY <1>2, <2>1, <2>2, <2>3 DEF Known
<1>3. CASE ~ Exists(i)
  BY <1>1, <1>3, FindItem DEF osal_nv_read
<1> QED
  BY <1>2, <1>3

(* What initNV finds is all that counts then, and a reader knows it.       *)
LEMMA FoundKnown ==
  ASSUME Sound, \A x \in Used : Valid(ItemAt(x)), \A i \in Ids : Known(i),
         UNCHANGED items, expect' = Found
  PROVE  /\ OneNew' /\ \A i \in Ids : Known(i)'
         /\ expect' \in [Ids -> SUBSET (Vals \union {Absent})]
<1>1. Used' = Used /\ \A y : ItemAt(y)' = ItemAt(y)
  BY SameFlash
<1>2. \A x : (Valid(ItemAt(x))' <=> Valid(ItemAt(x))) /\ (Current(x)' <=> Current(x))
  BY <1>1 DEF Valid, Current
<1>3. OneNew'
  BY <1>1, <1>2 DEF Sound, OneNew
<1>4. ASSUME NEW i \in Ids
      PROVE  Known(i)'
  <2>1. expect'[i] = expect[i] \intersect {osal_nv_read(i)}
    BY <1>4 DEF Found
  <2>2. Known(i)
    BY <1>4
  <2>3. \A x \in Used : Current(x) /\ ItemAt(x).id = i =>
          ItemAt(x).data = osal_nv_read(i) /\ osal_nv_read(i) \in expect[i]
    BY <2>2, <1>4, KnownReads
  <2> QED
    BY <1>1, <1>2, <2>1, <2>3 DEF Known
<1>5. expect' \in [Ids -> SUBSET (Vals \union {Absent})]
  <2>1. expect \in [Ids -> SUBSET (Vals \union {Absent})]
    BY DEF Sound, Placed, Shape
  <2> QED
    BY <2>1 DEF Found
<1> QED
  BY <1>3, <1>4, <1>5

LEMMA FinishSound ==
  ASSUME Sound, Finish
  PROVE  Sound'
<1>1. /\ pc = "finish" /\ pc' = "idle" /\ pgRes' = pg
      /\ pgHdr' = [pgHdr EXCEPT ![pgRes].active = TRUE, ![pgRes].inUse = TRUE]
      /\ expect' = IF op = NoOp THEN Found ELSE expect
      /\ pg' = NULL /\ offset' = 0 /\ findDups' = FALSE /\ newPg' = NULL /\ oldPg' = NULL
      /\ UNCHANGED <<items, stat, resets>>
      /\ Slots' = Slots /\ Used' = Used /\ \A y : ItemAt(y)' = ItemAt(y)
  BY SameFlash DEF Finish, Idle, NoScan
<1>2. pc \in CompactPcs /\ pc \notin CopyPcs
  BY <1>1 DEF CompactPcs, CopyPcs
<1>3. /\ Shape /\ pgRes \in Pages /\ pg \in Pages /\ pg # pgRes
      /\ \A x \in Used : Valid(ItemAt(x))
  BY <1>2, CompactPlaced DEF Sound
<1>4. items[pg] = <<>>
  BY <1>1, <1>2 DEF Sound, Placed, Compacting
<1>5. pgHdr' \in [Pages -> PageHdr]
  BY <1>1, <1>3 DEF Shape, PageHdr
<1>6. \A i \in Ids : Known(i)
  BY <1>1 DEF Sound, Fitting, Busy, Moving
<1>7. /\ OneNew' /\ \A i \in Ids : Known(i)'
      /\ expect' \in [Ids -> SUBSET (Vals \union {Absent})]
  <2>1. CASE op = NoOp
    BY <1>1, <1>3, <1>6, <2>1, FoundKnown
  <2>2. CASE op # NoOp
    BY <1>1, <1>3, <1>6, <2>2, SameKnown DEF Sound, Shape
  <2> QED
    BY <2>1, <2>2
<1>8. Shape'
  BY <1>1, <1>3, <1>5, <1>7, Numbers DEF Shape, Fits, ScanPcs
<1>9. /\ Calling' /\ Writing' /\ Compacting' /\ Rewalk' /\ Replacing' /\ Copying'
  BY <1>1 DEF Calling, Writing, Compacting, Rewalk, Replacing, Copying, Moving, WritePcs, CompactPcs
<1>10. Emptied'
  BY <1>1, <1>4 DEF Emptied, WritePcs
<1>11. Whole' /\ Fitting'
  BY <1>1, <1>3, <1>7 DEF Whole, Valid, Fitting
<1> QED
  BY <1>7, <1>8, <1>9, <1>10, <1>11 DEF Sound, Placed

LEMMA ScanHeaderSound ==
  ASSUME Sound, ScanHeader
  PROVE  Sound'
<1>1. /\ pc = "initPage" /\ pc' = "initPage" /\ offset = 0 /\ offset' = 1
      /\ pgRes' = (IF ~ pgHdr[pg].active /\ pgRes = NULL THEN pg ELSE pgRes)
      /\ pgHdr' = (IF ~ pgHdr[pg].active /\ pgRes # NULL
                   THEN [pgHdr EXCEPT ![pg].active = TRUE, ![pg].inUse = TRUE] ELSE pgHdr)
      /\ newPg' = (IF pgHdr[pg].active /\ ~ pgHdr[pg].inUse THEN pg ELSE newPg)
      /\ oldPg' = (IF pgHdr[pg].active /\ pgHdr[pg].inUse /\ pgHdr[pg].xfer THEN pg ELSE oldPg)
      /\ UNCHANGED <<items, op, pg, findDups, stat, resets, expect>>
      /\ Slots' = Slots /\ Used' = Used /\ \A y : ItemAt(y)' = ItemAt(y)
  BY SameFlash DEF ScanHeader
<1>2. /\ Shape /\ pgHdr \in [Pages -> PageHdr]
      /\ pg \in Pages /\ pg \in Nat /\ pgRes \in Pages \union {NULL}
      /\ newPg \in Pages \union {NULL} /\ oldPg \in Pages \union {NULL}
      /\ Used \subseteq Slots
      /\ pgRes # NULL => items[pgRes] = <<>> /\ ~ pgHdr[pgRes].xfer
      /\ oldPg # NULL => pgHdr[oldPg].inUse /\ pgHdr[oldPg].xfer
      /\ newPg # NULL => pgHdr[newPg].active /\ ~ pgHdr[newPg].inUse
      /\ \A p \in Pages : ~ pgHdr[p].active => items[p] = <<>> /\ ~ pgHdr[p].xfer
      /\ \A x \in Used : Passed(x) => Valid(ItemAt(x))
  BY <1>1, WalkPlaced DEF Sound
<1>3. /\ pgHdr' \in [Pages -> PageHdr]
      /\ \A p \in Pages : p # pg \/ pgHdr[p].active => pgHdr'[p] = pgHdr[p]
      /\ \A p \in Pages : pgHdr'[p].xfer = pgHdr[p].xfer
      /\ \A p \in Pages : pgHdr[p].active => pgHdr'[p].active
  <2>1. CASE ~ pgHdr[pg].active /\ pgRes # NULL
    BY <1>1, <1>2, <2>1 DEF PageHdr
  <2>2. CASE ~ (~ pgHdr[pg].active /\ pgRes # NULL)
    BY <1>1, <1>2, <2>2
  <2> QED
    BY <2>1, <2>2
<1>4. pgRes' \in Pages \union {NULL} /\ newPg' \in Pages \union {NULL} /\ oldPg' \in Pages \union {NULL}
  BY <1>1, <1>2
<1>5. Shape'
  BY <1>1, <1>2, <1>3, <1>4 DEF Shape, Fits, ScanPcs
<1>6. Calling' /\ Writing' /\ Compacting' /\ Whole' /\ Emptied' /\ Replacing' /\ Copying'
  BY <1>1 DEF Calling, Writing, Compacting, Whole, Emptied, Replacing, Copying, Moving, WritePcs, CompactPcs
<1>7. Rewalk'
  <2>1. pgRes' # NULL => items[pgRes'] = <<>> /\ ~ pgHdr'[pgRes'].xfer
    BY <1>1, <1>2, <1>3
  <2>2. oldPg' # NULL => pgHdr'[oldPg'].inUse /\ pgHdr'[oldPg'].xfer
    BY <1>1, <1>2, <1>3
  <2>3. newPg' # NULL => pgHdr'[newPg'].active /\ ~ pgHdr'[newPg'].inUse
    BY <1>1, <1>2, <1>3
  <2>4. \A p \in Pages : ~ pgHdr'[p].active => items[p] = <<>> /\ ~ pgHdr'[p].xfer
    BY <1>2, <1>3
  <2>5. \A x \in Used : Passed(x)' => Valid(ItemAt(x))'
    <3>1. \A x \in Used : x[2] \in Nat /\ x[2] > 0
      BY <1>2, SlotParts, Numbers
    <3>2. \A x \in Used : Passed(x)' => Passed(x)
      BY <1>1, <3>1 DEF Passed
    <3> QED
      BY <1>1, <1>2, <3>2 DEF Valid
  <2> QED
    BY <1>1, <1>2, <2>1, <2>2, <2>3, <2>4, <2>5 DEF Rewalk
<1>8. OneNew' /\ \A i \in Ids : Known(i) => Known(i)'
  BY <1>1, SameKnown DEF Sound
<1>9. Fitting'
  BY <1>1, <1>8 DEF Sound, Fitting, Busy, Moving
<1> QED
  BY <1>5, <1>6, <1>7, <1>8, <1>9 DEF Sound, Placed

LEMMA ScanItemSound ==
  ASSUME Sound, ScanItem
  PROVE  Sound'
<1>0. PICK h : h = Here
  OBVIOUS
<1>1. /\ pc = "initPage" /\ pc' = "initPage"
      /\ UNCHANGED <<pgHdr, pgRes, op, newPg, oldPg, stat, resets, expect>>
  BY DEF ScanItem
<1>2. /\ Placed /\ Shape /\ items \in [Pages -> Seq(Item)] /\ Fits /\ pgHdr \in [Pages -> PageHdr]
      /\ pg \in Pages /\ pg \in Nat /\ offset \in Nat /\ findDups \in BOOLEAN
      /\ pgRes \in Pages \union {NULL}
      /\ Used \subseteq Slots
      /\ pgRes # NULL => items[pgRes] = <<>> /\ ~ pgHdr[pgRes].xfer
      /\ oldPg # NULL => pgHdr[oldPg].inUse /\ pgHdr[oldPg].xfer
      /\ newPg # NULL => pgHdr[newPg].active /\ ~ pgHdr[newPg].inUse
      /\ \A p \in Pages : ~ pgHdr[p].active => items[p] = <<>> /\ ~ pgHdr[p].xfer
      /\ \A x \in Used : Passed(x) => Valid(ItemAt(x))
  BY <1>1, WalkPlaced DEF Sound
<1>3. /\ h \in Slots /\ h[1] = pg /\ h[2] = offset
      /\ \/ /\ pg' = pg /\ offset' = offset + 1 /\ findDups' = findDups
            /\ \/ UNCHANGED items /\ (h \in Used => Valid(ItemAt(h)))
               \/ \E z \in Used :
                    /\ items' = With(z, ZeroedItem)
                    /\ \/ z = h /\ ~ Valid(ItemAt(h))
                       \/ /\ h \in Used /\ z # h /\ ItemAt(z).id = ItemAt(h).id
                          /\ ItemAt(z).old /\ Valid(ItemAt(h)) /\ ~ ItemAt(h).old
         \/ pg' = 1 /\ offset' = 0 /\ findDups' /\ UNCHANGED items
  BY <1>0, <1>2, ScanItemDoes
<1>4. pg' \in Pages /\ offset' \in Nat
  BY <1>2, <1>3, Numbers
<1>5. findDups' \in BOOLEAN
  BY <1>2 DEF ScanItem
<1>6. Calling' /\ Writing' /\ Compacting' /\ Whole' /\ Emptied' /\ Replacing' /\ Copying'
  BY <1>1 DEF Calling, Writing, Compacting, Whole, Emptied, Replacing, Copying, Moving, WritePcs, CompactPcs
<1> DEFINE Walked ==
          /\ items' \in [Pages -> Seq(Item)] /\ Fits'
          /\ \A p \in Pages : items[p] = <<>> => items'[p] = <<>>
          /\ Used' \subseteq Used
          /\ \A x \in Used' : ItemAt(x)' = ItemAt(x)
          /\ \A x \in Used : x \notin Used' => ~ Valid(ItemAt(x)) \/ ItemAt(x).old
          /\ \A x \in Used' : Passed(x)' => Valid(ItemAt(x))
<1>7. Walked
  <2>1. CASE UNCHANGED items
    <3>1. Used' = Used /\ \A y : ItemAt(y)' = ItemAt(y)
      BY <2>1, SameFlash
    <3>2. ASSUME NEW x \in Used, Passed(x)'
          PROVE  Valid(ItemAt(x))
      <4>1. x \in Slots /\ x[1] \in Nat /\ x[1] > 0 /\ x[2] \in Nat /\ x[2] > 0 /\ x = <<x[1], x[2]>>
        BY <1>2, SlotParts, Numbers
      <4>2. CASE pg' = pg /\ offset' = offset + 1 /\ (h \in Used => Valid(ItemAt(h)))
        <5>1. Passed(x) \/ (x[1] = pg /\ x[2] = offset)
          BY <1>2, <3>2, <4>1, <4>2 DEF Passed
        <5>2. h = <<pg, offset>>
          BY <1>0 DEF Here
        <5>3. Passed(x) \/ x = h
          BY <4>1, <5>1, <5>2
        <5> QED
          BY <1>2, <4>2, <5>3
      <4>3. CASE pg' = 1 /\ offset' = 0
        BY <3>2, <4>1, <4>3 DEF Passed
      <4>4. items' = items
        BY <2>1
      <4>5. ASSUME NEW z \in Used, items' = With(z, ZeroedItem) PROVE FALSE
        <5>1. ItemAt(z)' = ZeroedItem
          BY <1>2, <4>5, NewItems, WriteAt
        <5> QED
          BY <3>1, <5>1, NewItems DEF Used
      <4> QED
        BY <1>3, <4>2, <4>3, <4>5
    <3>3. Fits'
      BY <1>2, <2>1 DEF Fits
    <3> QED
      BY <1>2, <2>1, <3>1, <3>2, <3>3
  <2>2. ASSUME NEW z \in Used, items' = With(z, ZeroedItem),
               \/ z = h /\ ~ Valid(ItemAt(h))
               \/ /\ h \in Used /\ z # h /\ ItemAt(z).id = ItemAt(h).id
                  /\ ItemAt(z).old /\ Valid(ItemAt(h)) /\ ~ ItemAt(h).old,
               pg' = pg, offset' = offset + 1
        PROVE  Walked
    <3>1. /\ items' \in [Pages -> Seq(Item)] /\ Fits'
          /\ \A p \in Pages : items[p] = <<>> => items'[p] = <<>>
          /\ Slots' = Slots
          /\ \A y \in Slots : ItemAt(y)' = IF y = z THEN ZeroedItem ELSE ItemAt(y)
      BY <1>2, <2>2, NewItems, WriteAt
    <3>2. Used' = Used \ {z} /\ \A x \in Used' : ItemAt(x)' = ItemAt(x)
      BY <1>2, <3>1, NewItems DEF Used
    <3>3. ASSUME NEW x \in Used', Passed(x)'
          PROVE  Valid(ItemAt(x))
      <4>1. x \in Used /\ x # z /\ x[1] \in Nat /\ x[2] \in Nat /\ x = <<x[1], x[2]>>
        BY <1>2, <3>2, SlotParts, Numbers
      <4>2. Passed(x) \/ (x[1] = pg /\ x[2] = offset)
        BY <1>2, <2>2, <3>3, <4>1 DEF Passed
      <4>3. h = <<pg, offset>>
        BY <1>0 DEF Here
      <4>4. Passed(x) \/ x = h
        BY <4>1, <4>2, <4>3
      <4> QED
        BY <1>2, <2>2, <4>1, <4>4
    <3> QED
      BY <2>2, <3>1, <3>2, <3>3
  <2> QED
    BY <1>3, <2>1, <2>2
<1>8. Shape'
  BY <1>1, <1>2, <1>4, <1>5, <1>7 DEF Shape, ScanPcs
<1>9. Rewalk'
  <2>1. \A x \in Used' : Passed(x)' => Valid(ItemAt(x))'
    BY <1>7 DEF Valid
  <2> QED
    BY <1>1, <1>2, <1>4, <1>7, <2>1 DEF Rewalk
<1>10. OneNew' /\ \A i \in Ids \ {} : Known(i) => Known(i)'
  <2>1. \A x \in Used' : Valid(ItemAt(x))' <=> Valid(ItemAt(x))
    BY <1>7 DEF Valid
  <2>2. \A y \in Used : Valid(ItemAt(y)) /\ ~ ItemAt(y).old => y \in Used'
    BY <1>7
  <2> QED
    BY <1>1, <1>7, <2>1, <2>2, NoNews DEF Sound
<1>11. Fitting'
  BY <1>1, <1>10 DEF Sound, Fitting, Busy, Moving
<1> QED
  BY <1>6, <1>8, <1>9, <1>10, <1>11 DEF Sound, Placed

LEMMA ScanEndSound ==
  ASSUME Sound, ScanEnd
  PROVE  Sound'
<1>1. /\ pc = "initPage" /\ offset > Len(items[pg]) /\ offset' = 0
      /\ \/ pg < PageCnt /\ pg' = pg + 1 /\ pc' = pc /\ findDups' = findDups
         \/ pg >= PageCnt /\ pg' = NULL /\ findDups' = FALSE /\ pc' = "resume"
      /\ UNCHANGED <<pgHdr, items, pgRes, op, newPg, oldPg, stat, resets, expect>>
      /\ Slots' = Slots /\ Used' = Used /\ \A y : ItemAt(y)' = ItemAt(y)
  <2>1. /\ pc = "initPage" /\ offset > Len(items[pg]) /\ offset' = 0
        /\ UNCHANGED <<pgHdr, items, pgRes, op, newPg, oldPg, stat, resets, expect>>
        /\ Slots' = Slots /\ Used' = Used /\ \A y : ItemAt(y)' = ItemAt(y)
    BY SameFlash DEF ScanEnd, flash
  <2>2. pg \in Nat /\ PageCnt \in Nat
    BY <2>1, WalkPlaced, Numbers DEF Sound
  <2>3. CASE pg < PageCnt
    BY <2>1, <2>3 DEF ScanEnd
  <2>4. CASE pg >= PageCnt
    <3>1. ~ (pg < PageCnt)
      BY <2>2, <2>4
    <3> QED
      BY <2>1, <2>4, <3>1 DEF ScanEnd
  <2>5. pg < PageCnt \/ pg >= PageCnt
    BY <2>2
  <2> QED
    BY <2>3, <2>4, <2>5, Zenon
<1>2. /\ Shape /\ items \in [Pages -> Seq(Item)] /\ pgHdr \in [Pages -> PageHdr]
      /\ pg \in Pages /\ pg \in Nat /\ offset \in Nat /\ findDups \in BOOLEAN
      /\ pgRes \in Pages \union {NULL}
      /\ Used \subseteq Slots
      /\ pgRes # NULL => items[pgRes] = <<>> /\ ~ pgHdr[pgRes].xfer
      /\ oldPg # NULL => pgHdr[oldPg].inUse /\ pgHdr[oldPg].xfer
      /\ newPg # NULL => pgHdr[newPg].active /\ ~ pgHdr[newPg].inUse
      /\ \A p \in Pages : ~ pgHdr[p].active => items[p] = <<>> /\ ~ pgHdr[p].xfer
      /\ \A x \in Used : Passed(x) => Valid(ItemAt(x))
  BY <1>1, WalkPlaced DEF Sound
<1>3. \A x \in Used : x[1] <= pg => Valid(ItemAt(x))
  <2> SUFFICES ASSUME NEW x \in Used, x[1] <= pg
               PROVE  Passed(x)
    BY <1>2
  <2>1. x[1] \in Pages /\ x[1] \in Nat /\ x[2] \in DOMAIN items[x[1]]
    BY <1>2, SlotParts, Numbers
  <2>2. CASE x[1] = pg
    <3>1. Len(items[pg]) \in Nat /\ DOMAIN items[pg] = 1 .. Len(items[pg])
      BY <1>2, Lengths
    <3>2. x[2] \in Nat /\ x[2] <= Len(items[pg])
      BY <2>1, <2>2, <3>1
    <3> QED
      BY <1>1, <1>2, <2>2, <3>1, <3>2 DEF Passed
  <2>3. CASE x[1] # pg
    BY <1>2, <2>1, <2>3 DEF Passed
  <2> QED
    BY <2>2, <2>3
<1>4. pg < PageCnt => pg + 1 \in Pages
  BY <1>2, Numbers DEF Pages
<1>5. pg' \in Pages \union {NULL} /\ offset' \in Nat /\ pc' \in {"initPage", "resume"}
  BY <1>1, <1>4
<1>6. findDups' \in BOOLEAN
  BY <1>1, <1>2
<1>7. Shape'
  BY <1>1, <1>2, <1>5, <1>6 DEF Shape, Fits, ScanPcs
<1>8. Calling' /\ Writing' /\ Compacting' /\ Emptied' /\ Replacing' /\ Copying'
  BY <1>5 DEF Calling, Writing, Compacting, Emptied, Replacing, Copying, Moving, WritePcs, CompactPcs
<1>9. Whole'
  <2>1. pc' = "resume" => \A x \in Used : Valid(ItemAt(x))
    <3>1. pc' = "resume" => \A x \in Used : x[1] <= pg
      BY <1>1, <1>2, SlotParts, Numbers
    <3> QED
      BY <1>3, <3>1
  <2> QED
    BY <1>1, <1>5, <2>1 DEF Whole, Valid
<1>10. Rewalk'
  <2>1. pc' = "initPage" => pg' \in Pages /\ \A x \in Used : Passed(x)' => Valid(ItemAt(x))'
    <3>1. ASSUME pc' = "initPage", NEW x \in Used, Passed(x)'
          PROVE  x[1] <= pg
      <4>1. x[1] \in Nat /\ x[2] \in Nat /\ x[2] > 0
        BY <1>2, SlotParts, Numbers
      <4>2. pg' = pg + 1 /\ offset' = 0
        BY <1>1, <3>1
      <4>3. x[1] < pg + 1
        BY <3>1, <4>1, <4>2 DEF Passed
      <4> QED
        BY <1>2, <4>1, <4>3
    <3>2. \A x \in Used : Valid(ItemAt(x))' <=> Valid(ItemAt(x))
      BY <1>1 DEF Valid
    <3> QED
      BY <1>1, <1>3, <1>4, <3>1, <3>2
  <2>2. pc' = "resume" => offset' = 0 /\ ~ findDups'
    BY <1>1
  <2> QED
    BY <1>1, <1>2, <1>5, <2>1, <2>2 DEF Rewalk
<1>11. OneNew' /\ \A i \in Ids : Known(i) => Known(i)'
  BY <1>1, SameKnown DEF Sound
<1>12. Fitting'
  BY <1>1, <1>5, <1>11 DEF Sound, Fitting, Busy, Moving
<1> QED
  BY <1>7, <1>8, <1>9, <1>10, <1>11, <1>12 DEF Sound, Placed

LEMMA ResumeSound ==
  ASSUME Sound, Resume
  PROVE  Sound'
<1>1. /\ pc = "resume"
      /\ pgRes' = (IF pgRes = NULL /\ newPg # NULL /\ oldPg # NULL THEN newPg ELSE pgRes)
      /\ pgHdr' = (IF pgRes # NULL /\ newPg # NULL THEN [pgHdr EXCEPT ![newPg].inUse = TRUE] ELSE pgHdr)
      /\ UNCHANGED <<items, stat, resets>>
      /\ Slots' = Slots /\ Used' = Used /\ \A y : ItemAt(y)' = ItemAt(y)
  BY SameFlash DEF Resume
<1>2. /\ Shape /\ pgRes \in Pages \union {NULL} /\ newPg \in Pages \union {NULL}
      /\ oldPg \in Pages \union {NULL} /\ offset = 0 /\ ~ findDups
      /\ expect \in [Ids -> SUBSET (Vals \union {Absent})]
      /\ pgRes # NULL => items[pgRes] = <<>> /\ ~ pgHdr[pgRes].xfer
      /\ oldPg # NULL => pgHdr[oldPg].inUse /\ pgHdr[oldPg].xfer
      /\ newPg # NULL => pgHdr[newPg].active /\ ~ pgHdr[newPg].inUse
  BY <1>1 DEF Sound, Placed, Shape, Rewalk
<1>3. pgHdr' \in [Pages -> PageHdr]
  BY <1>1, <1>2 DEF Shape, PageHdr
<1>4. \A x \in Used : Valid(ItemAt(x)) /\ Valid(ItemAt(x))'
  <2>1. \A x \in Used : Valid(ItemAt(x))
    BY <1>1 DEF Sound, Placed, Whole, Fresh, WritePcs, CopyPcs
  <2> QED
    BY <1>1, <2>1 DEF Valid
<1>5. \A i \in Ids : Known(i)
  BY <1>1 DEF Sound, Fitting, Busy, Moving
<1>6. Whole'
  BY <1>1, <1>4 DEF Whole
<1>7. CASE /\ newPg # NULL /\ oldPg # NULL /\ pc' = "mark" /\ pg' = oldPg
           /\ newPg' = NULL /\ oldPg' = NULL /\ UNCHANGED <<op, offset, lost, findDups, expect>>
  <2>1. pgRes' \in Pages /\ pg' \in Pages \ {pgRes'}
    BY <1>1, <1>2, <1>7
  <2>2. Shape'
    BY <1>1, <1>2, <1>3, <1>7, <2>1 DEF Shape, Fits, ScanPcs, CompactPcs
  <2>3. Compacting'
    BY <1>7, <2>1 DEF Compacting, CompactPcs, CopyPcs
  <2>4. Calling' /\ Writing' /\ Emptied' /\ Rewalk' /\ Replacing' /\ Copying'
    BY <1>7 DEF Calling, Writing, Emptied, Rewalk, Replacing, Copying, Moving, WritePcs
  <2>5. OneNew' /\ \A i \in Ids : Known(i)'
    BY <1>1, <1>5, <1>7, SameKnown DEF Sound
  <2> QED
    BY <1>6, <2>2, <2>3, <2>4, <2>5 DEF Sound, Placed, Fitting
<1>8. CASE /\ newPg = NULL \/ oldPg = NULL
           /\ pgRes = NULL /\ pc' = "eraseAll" /\ pg' = 1
           /\ newPg' = NULL /\ oldPg' = NULL /\ UNCHANGED <<op, offset, lost, findDups, expect>>
  <2>1. Shape'
    BY <1>1, <1>2, <1>3, <1>8, Numbers DEF Shape, Fits, ScanPcs
  <2>2. /\ Calling' /\ Writing' /\ Compacting' /\ Emptied' /\ Replacing' /\ Copying' /\ Fitting'
    BY <1>8 DEF Calling, Writing, Compacting, Emptied, Replacing, Copying, Moving, Fitting, WritePcs, CompactPcs
  <2>3. Rewalk'
    <3>1. \A p \in Pages : ~ (p < 1)
      BY Numbers
    <3> QED
      BY <1>1, <1>2, <1>8, <3>1, Numbers DEF Rewalk
  <2>4. OneNew'
    BY <1>1, <1>8, SameKnown DEF Sound
  <2> QED
    BY <1>6, <2>1, <2>2, <2>3, <2>4 DEF Sound, Placed
<1>9. CASE (newPg = NULL \/ oldPg = NULL) /\ pgRes # NULL /\ Idle /\ expect' = Found
  <2>1. /\ pc' = "idle" /\ pgRes' = pgRes /\ pgRes \in Pages
        /\ pg' = NULL /\ offset' = 0 /\ findDups' = FALSE /\ newPg' = NULL /\ oldPg' = NULL
    BY <1>1, <1>2, <1>9 DEF Idle, NoScan
  <2>2. /\ OneNew' /\ \A i \in Ids : Known(i)'
        /\ expect' \in [Ids -> SUBSET (Vals \union {Absent})]
    BY <1>1, <1>4, <1>5, <1>9, FoundKnown
  <2>3. Shape'
    BY <1>1, <1>2, <1>3, <2>1, <2>2, Numbers DEF Shape, Fits, ScanPcs
  <2>4. /\ Calling' /\ Writing' /\ Compacting' /\ Rewalk' /\ Replacing' /\ Copying'
    BY <2>1 DEF Calling, Writing, Compacting, Rewalk, Replacing, Copying, Moving, WritePcs, CompactPcs
  <2>5. Emptied'
    BY <1>1, <1>2, <1>9, <2>1 DEF Emptied, WritePcs
  <2> QED
    BY <1>6, <2>2, <2>3, <2>4, <2>5 DEF Sound, Placed, Fitting
<1> QED
  BY <1>7, <1>8, <1>9 DEF Resume

LEMMA EraseAllSound ==
  ASSUME Sound, EraseAll
  PROVE  Sound'
<1>1. /\ pc = "eraseAll" /\ items' = [items EXCEPT ![pg] = <<>>]
      /\ pgHdr' = [pgHdr EXCEPT ![pg] = ErasedHdr]
      /\ UNCHANGED <<pgRes, op, offset, findDups, newPg, oldPg, stat, resets>>
      /\ \/ pg < PageCnt /\ pg' = pg + 1 /\ UNCHANGED <<pc, expect>>
         \/ ~ (pg < PageCnt) /\ pg' = 1 /\ pc' = "initPage" /\ expect' = [i \in Ids |-> {Absent}]
  BY DEF EraseAll, erasePage
<1>2. /\ Shape /\ items \in [Pages -> Seq(Item)] /\ Fits
      /\ pgRes = NULL /\ newPg = NULL /\ oldPg = NULL /\ ~ findDups /\ offset = 0
      /\ pg \in Pages /\ \A p \in Pages : p < pg => items[p] = <<>> /\ Erased(p)
  BY <1>1 DEF Sound, Placed, Shape, Rewalk
<1>3. /\ items' \in [Pages -> Seq(Item)] /\ Fits'
      /\ items'[pg] = <<>> /\ \A q \in Pages : q # pg => items'[q] = items[q]
      /\ Slots' = {x \in Slots : x[1] # pg}
      /\ \A y \in Slots' : ItemAt(y)' = ItemAt(y)
  BY <1>1, <1>2, EraseAt
<1>4. Used' \subseteq Used /\ \A x \in Used' : ItemAt(x)' = ItemAt(x)
  BY <1>3 DEF Used
<1>5. /\ pgHdr' \in [Pages -> PageHdr]
      /\ \A p \in Pages : p # pg => pgHdr'[p] = pgHdr[p]
      /\ pgHdr'[pg] = ErasedHdr
  BY <1>1, <1>2 DEF Shape, PageHdr, ErasedHdr
<1>6. \A p \in Pages : p <= pg => items'[p] = <<>> /\ Erased(p)'
  <2>1. \A p \in Pages : p <= pg => p < pg \/ p = pg
    BY <1>2, Numbers
  <2>2. \A p \in Pages : p = pg => items'[p] = <<>> /\ Erased(p)'
    BY <1>3, <1>5 DEF Erased, ErasedHdr
  <2>3. \A p \in Pages : p < pg /\ p # pg => items'[p] = <<>> /\ Erased(p)'
    BY <1>2, <1>3, <1>5 DEF Erased
  <2> QED
    BY <2>1, <2>2, <2>3
<1>7. OneNew'
  BY <1>4 DEF Sound, OneNew, Valid
<1>8. pg < PageCnt => pg + 1 \in Pages
  BY <1>2, Numbers DEF Pages
<1>9. pc' \in {"eraseAll", "initPage"} /\ pg' \in Pages
  BY <1>1, <1>8, Numbers
<1>10. expect' \in [Ids -> SUBSET (Vals \union {Absent})]
  <2>1. expect \in [Ids -> SUBSET (Vals \union {Absent})]
    BY <1>2 DEF Shape
  <2> QED
    BY <1>1, <2>1
<1>11. Shape'
  BY <1>1, <1>2, <1>3, <1>5, <1>9, <1>10 DEF Shape, ScanPcs
<1>12. /\ Calling' /\ Writing' /\ Compacting' /\ Whole' /\ Emptied' /\ Replacing' /\ Copying'
  BY <1>9 DEF Calling, Writing, Compacting, Whole, Emptied, Replacing, Copying, Moving, WritePcs, CompactPcs
<1>13. pc' = "initPage" => \A p \in Pages : items'[p] = <<>> /\ Erased(p)'
  <2>1. pc' = "initPage" => \A p \in Pages : p <= pg
    BY <1>1, <1>2, Numbers
  <2> QED
    BY <1>6, <2>1
<1>14. pc' = "initPage" => Used' = {}
  BY <1>13 DEF Used, Slots
<1>15. Rewalk'
  <2>1. pc' = "eraseAll" => \A p \in Pages : p < pg' => p <= pg
    BY <1>1, <1>2, Numbers
  <2> QED
    BY <1>1, <1>2, <1>6, <1>9, <1>13, <1>14, <2>1 DEF Rewalk, Erased
<1>16. Fitting'
  BY <1>9, <1>14 DEF Fitting, Known
<1> QED
  BY <1>7, <1>11, <1>12, <1>15, <1>16 DEF Sound, Placed

(* All steps but the reset.                                                *)
LEMMA StepSound ==
  ASSUME Sound, Step \/ Call, CopyHdr => Len(items[pgRes]) < PageItems
  PROVE  Sound'
<1>1. CASE Call
  BY <1>1, CallSound
<1>2. CASE Write
  BY <1>2, ActivateSound, HeaderSound, MarkOldSound, DataSound, ChecksumSound, ZeroSound DEF Write
<1>3. CASE Compact
  BY <1>3, MarkSound, CompactItemSound, CopyHdrSound, CopyDataSound, CopyZeroSound, EraseSound,
     FinishSound DEF Compact
<1>4. CASE initNV
  BY <1>4, ScanHeaderSound, ScanItemSound, ScanEndSound, ResumeSound, EraseAllSound DEF initNV
<1> QED
  BY <1>1, <1>2, <1>3, <1>4 DEF Step
(* Before the reset the copies of an item are one, but for the one being   *)
(* written, and a reader can tell which to take.                           *)
Agreed ==
  \A x, y \in Used :
    Current(x) /\ Current(y) /\ ItemAt(x).id = ItemAt(y).id => ItemAt(x).data = ItemAt(y).data

(* The copies are one of an item, but for one place at most.               *)
LEMMA Agreeing ==
  ASSUME NEW f, Clean(Used \ {f}),
         \A y \in Used \ {f} : f \in Used /\ ItemAt(y).id = ItemAt(f).id /\ Valid(ItemAt(f)) =>
           ItemAt(y).old /\ (~ ItemAt(f).old \/ ItemAt(y).data = ItemAt(f).data)
  PROVE  OneNew /\ Agreed
<1>1. \A x, y \in Used : x # f /\ y # f /\ ItemAt(x).id = ItemAt(y).id => x = y
  BY DEF Clean
<1>2. OneNew
  BY <1>1 DEF OneNew
<1>3. Agreed
  BY <1>1 DEF Agreed, Current
<1> QED
  BY <1>2, <1>3

LEMMA ResetAgrees ==
  ASSUME Safe, Erasing
  PROVE  OneNew /\ Agreed
<1>1. CASE pc = "initPage"
  <2>1. \A x, y \in Used : x # y /\ ItemAt(x).id = ItemAt(y).id /\ Valid(ItemAt(x)) /\ Valid(ItemAt(y))
          => ItemAt(x).old # ItemAt(y).old
    BY <1>1 DEF Safe, Walk
  <2>2. \A x \in Used : ItemAt(x).old \in BOOLEAN
    BY ItemsAreItems DEF Safe, Shape, Used, Item
  <2>3. OneNew
    BY <2>1, <2>2 DEF OneNew
  <2>4. Agreed
    BY <2>1, <2>2 DEF Agreed, Current
  <2> QED
    BY <2>3, <2>4
<1>2. CASE pc \in WritePcs
  <2>1. /\ NewItem \in Used /\ ~ ItemAt(NewItem).old
        /\ \A x \in Used \ {NewItem} : Valid(ItemAt(x))
        /\ \A x, y \in Used \ {NewItem} : ItemAt(x).id = ItemAt(y).id => y = x
        /\ ItemAt(NewItem).id = op.id
        /\ IF op.src[1] = NULL
           THEN \A x \in Used \ {NewItem} : ItemAt(x).id # op.id
           ELSE op.src \in Used /\ op.src # NewItem /\ ItemAt(op.src).id = op.id
    BY <1>2, WriteKnows
  <2>2. PICK f : f = NewItem
    OBVIOUS
  <2>3. ItemAt(f) = ItemAt(NewItem)
    BY <2>2
  <2>4. Clean(Used \ {f})
    BY <2>1, <2>2 DEF Clean
  <2>5. ASSUME Valid(ItemAt(f)), NEW y \in Used \ {f}, ItemAt(y).id = ItemAt(f).id
        PROVE  ItemAt(y).old /\ ~ ItemAt(f).old
    <3>1. pc = "zero"
      <4>1. ItemAt(f).chk # Blank
        BY <2>5 DEF Valid
      <4> QED
        BY <1>2, <2>3, <4>1 DEF Safe, Writing
    <3>2. op.src[1] # NULL /\ ItemAt(op.src).old
      BY <3>1 DEF Safe, Writing, WritePcs
    <3>3. y = op.src
      BY <2>1, <2>2, <2>3, <2>5, <3>2
    <3> QED
      BY <2>1, <2>3, <3>2, <3>3
  <2> QED
    BY <2>4, <2>5, Agreeing
<1>3. CASE pc \in CopyPcs
  <2>1. /\ Here \in Used /\ Copy \in Used /\ Here # Copy
        /\ ItemAt(Here).old /\ Valid(ItemAt(Here))
        /\ ItemAt(Copy).id = ItemAt(Here).id
    BY <1>3, CopyKnows
  <2>2. Clean(Used \ {Copy})
    <3>1. Fresh = {Copy} /\ pc \notin {"initPage", "eraseAll"}
      BY <1>3 DEF Fresh, CopyPcs, WritePcs
    <3> QED
      BY <3>1 DEF Safe, Settled, Clean
  <2>3. PICK f, h : f = Copy /\ h = Here
    OBVIOUS
  <2>4. ItemAt(f) = ItemAt(Copy) /\ ItemAt(h) = ItemAt(Here)
    BY <2>3
  <2>5. Clean(Used \ {f})
    BY <2>2, <2>3
  <2>6. ASSUME NEW y \in Used \ {f}, ItemAt(y).id = ItemAt(f).id, Valid(ItemAt(f))
        PROVE  ItemAt(y).old /\ ItemAt(y).data = ItemAt(f).data
    <3>1. h \in Used \ {f} /\ ItemAt(h).id = ItemAt(f).id /\ ItemAt(h).old
      BY <2>1, <2>3, <2>4
    <3>2. y = h
      BY <2>5, <2>6, <3>1 DEF Clean
    <3>3. ItemAt(f).data # Blank
      BY <2>6 DEF Valid
    <3>4. ItemAt(f).data = ItemAt(h).data
      BY <1>3, <2>4, <3>3 DEF Safe, Compacting, CompactPcs, CopyPcs
    <3> QED
      BY <3>1, <3>2, <3>4
  <2> QED
    BY <2>5, <2>6, Agreeing
<1>4. CASE pc \notin {"initPage"} \union WritePcs \union CopyPcs
  <2>1. Clean(Used)
    <3>1. CASE pc = "eraseAll"
      BY <3>1 DEF Erasing
    <3>2. CASE pc # "eraseAll"
      <4>1. Fresh = {} /\ pc \notin {"initPage", "eraseAll"}
        BY <1>4, <3>2 DEF Fresh
      <4> QED
        BY <4>1 DEF Safe, Settled, Clean
    <3> QED
      BY <3>1, <3>2
  <2>2. \A x, y \in Used : ItemAt(x).id = ItemAt(y).id => x = y
    BY <2>1 DEF Clean
  <2> QED
    BY <2>2 DEF OneNew, Agreed
<1> QED
  BY <1>1, <1>2, <1>3, <1>4

(* Whatever a first reset has left, the second one is Sound.               *)
LEMMA ResetSound ==
  ASSUME Safe, PagesKept, Erasing, Reset
  PROVE  Sound'
<1>1. /\ UNCHANGED <<pgHdr, items, expect>> /\ resets' = resets + 1
      /\ pgRes' = NULL /\ pc' = "initPage" /\ op' = NoOp /\ stat' = FALSE
      /\ pg' = 1 /\ offset' = 0 /\ findDups' = FALSE /\ newPg' = NULL /\ oldPg' = NULL
      /\ Slots' = Slots /\ Used' = Used /\ \A y : ItemAt(y)' = ItemAt(y)
  BY SameFlash DEF Reset, flash
<1>2. Shape'
  <2>1. resets' \in Nat
    BY <1>1 DEF Safe, Shape
  <2> QED
    BY <1>1, <2>1, Numbers DEF Safe, Shape, Fits, ScanPcs
<1>3. \A x \in Used : ~ Passed(x)'
  <2> SUFFICES ASSUME NEW x \in Used
               PROVE  ~ (x[1] < 1 \/ (x[1] = 1 /\ x[2] < 0))
    BY <1>1 DEF Passed
  <2>1. x[1] \in Nat /\ x[1] > 0 /\ x[2] \in Nat
    BY SlotParts, Numbers DEF Used
  <2> QED
    BY <2>1
<1>4. Rewalk'
  <2>1. \A p \in Pages : ~ pgHdr[p].active => items[p] = <<>> /\ ~ pgHdr[p].xfer
    BY DEF PagesKept
  <2> QED
    BY <1>1, <1>3, <2>1, Numbers DEF Rewalk
<1>5. OneNew /\ Agreed
  BY ResetAgrees
<1>6. OneNew'
  BY <1>1, <1>5 DEF OneNew, Valid
<1>7. \A x : Current(x)' <=> Current(x)
  BY <1>1 DEF Current, Valid
<1>8. \A i \in Ids : Known(i)
  <2>1. \A i \in Ids : \A x \in Used : Current(x) /\ ItemAt(x).id = i => ItemAt(x).data \in expect[i]
    BY DEF Safe, Readable, Erasing
  <2> QED
    BY <1>5, <2>1 DEF Known, Agreed
<1>9. \A i \in Ids : Known(i)'
  BY <1>1, <1>7, <1>8 DEF Known
<1>10. Placed'
  BY <1>1, <1>2, <1>4 DEF Placed, Calling, Writing, Compacting, Whole, Emptied, WritePcs, CompactPcs
<1>11. Replacing' /\ Copying' /\ Fitting'
  BY <1>1, <1>9 DEF Replacing, Copying, Moving, Fitting, WritePcs
<1> QED
  BY <1>6, <1>10, <1>11 DEF Sound

-----------------------------------------------------------------------------
(* Each reset costs a place.  The places that are lost change with the     *)
(* copies: when the lost copy is zeroed and its twin is not, the twin is.  *)
Swapped(E, F) == F = E \/ \E z \in E : \E n : F = (E \ {z}) \union {n}

(* A step that adds no copy keeps them apart.                              *)
LEMMA StayApart ==
  ASSUME NEW E, Apart(Used \ (E \union Fresh)),
         \A x \in Used' : x \notin E /\ x \notin Fresh' =>
           x \in Used /\ x \notin Fresh /\ ItemAt(x)'.id = ItemAt(x).id
  PROVE  Apart(Used \ (E \union Fresh))'
BY DEF Apart

LEMMA SameSpares ==
  ASSUME NEW E, Spares(E), UNCHANGED <<items, pgRes>>, Fresh = {}, Fresh' = {},
         pc' \in CompactPcs => pc \in CompactPcs,
         pc' \in ScanPcs => pc \in ScanPcs /\ \A p \in Pages : Unused(p)' => Unused(p)
  PROVE  Spares(E)'
<1>1. Slots' = Slots /\ Used' = Used /\ \A y : ItemAt(y)' = ItemAt(y)
  BY SameFlash
<1>2. \A p : Bad(p)' = Bad(p)
  BY <1>1 DEF Bad, Valid
<1>3. Bad(pgRes)' = Bad(pgRes)
  BY <1>1 DEF Bad, Valid
<1>4. Apart(Used \ (E \union Fresh))'
  BY <1>1, StayApart DEF Spares
<1> QED
  BY <1>2, <1>3, <1>4 DEF Spares

(* One lemma per kind of step: as many places are lost after it.           *)
LEMMA CallSpares ==
  ASSUME Placed, NEW E, Spares(E), Call
  PROVE  Spares(E)'
<1>1. /\ pc = "idle" /\ UNCHANGED <<flash, pgRes>> /\ pc' \in {"idle", "activate", "header"}
  BY DEF Call, Lookup, osal_nv_item_init, osal_nv_write, initItem
<1>2. Fresh = {} /\ Fresh' = {} /\ pc' \notin CompactPcs /\ pc' \notin ScanPcs
  BY <1>1 DEF Fresh, WritePcs, CopyPcs, CompactPcs, ScanPcs
<1> QED
  BY <1>1, <1>2, SameSpares DEF flash

LEMMA WriteSpares ==
  ASSUME Placed, NEW E, Spares(E), Activate \/ Header \/ MarkOld \/ Data
  PROVE  Spares(E)'
<1>1. CASE Activate
  <2>1. pc = "activate" /\ pc' = "header" /\ UNCHANGED <<items, pgRes>>
    BY <1>1 DEF Activate, ram
  <2>2. Fresh = {} /\ Fresh' = {} /\ pc' \notin CompactPcs /\ pc' \notin ScanPcs
    BY <2>1 DEF Fresh, WritePcs, CopyPcs, CompactPcs, ScanPcs
  <2> QED
    BY <2>1, <2>2, SameSpares
<1>2. CASE Header
  <2> DEFINE it == [id |-> op.id, data |-> Blank, chk |-> Blank, old |-> FALSE]
  <2>1. /\ pc = "header" /\ pc' \in {"data", "markOld"} /\ UNCHANGED op
        /\ items' = [items EXCEPT ![op.dstPg] = Append(@, it)]
    BY <1>2 DEF Header
  <2>2. Shape /\ op.id \in Ids /\ op.dstPg \in Pages /\ Len(items[op.dstPg]) < PageItems
    <3>1. Shape /\ Calling /\ pc \in {"activate", "header"}
      BY <2>1 DEF Placed
    <3>2. pgRes \in Pages
      BY <2>1, <3>1 DEF Shape, ScanPcs
    <3> QED
      BY <3>1, <3>2 DEF Calling
  <2>3. it \in Item
    BY <2>2 DEF Item
  <2> HIDE DEF it
  <2>4. PICK n : n = <<op.dstPg, Len(items[op.dstPg]) + 1>>
    OBVIOUS
  <2>5. /\ n = <<op.dstPg, Len(items'[op.dstPg])>> /\ n \notin Slots /\ Slots' = Slots \union {n}
        /\ \A y \in Slots : ItemAt(y)' = ItemAt(y)
    BY <2>1, <2>2, <2>3, <2>4, AppendAt DEF Shape
  <2>6. Fresh = {} /\ Fresh' = {n} /\ pc' \notin CompactPcs /\ pc' \notin ScanPcs
    BY <2>1, <2>5 DEF Fresh, NewItem, WritePcs, CopyPcs, CompactPcs, ScanPcs
  <2>7. \A x \in Used' : x # n => x \in Used /\ ItemAt(x)' = ItemAt(x)
    BY <2>5 DEF Used
  <2>8. Apart(Used \ (E \union Fresh))'
    BY <2>6, <2>7, StayApart DEF Spares
  <2> QED
    BY <2>6, <2>8 DEF Spares
<1>3. CASE MarkOld \/ Data
  <2>1. /\ pc \in WritePcs /\ pc' \in WritePcs /\ UNCHANGED op
        /\ \E x \in Used : \E it \in Item : items' = With(x, it) /\ it.id = ItemAt(x).id
    <3>1. pc \in WritePcs /\ pc' \in WritePcs /\ UNCHANGED op
      BY <1>3 DEF MarkOld, Data, WritePcs
    <3>2. Shape /\ op.val \in Vals /\ NewItem \in Used
      BY <3>1, WritePlaced
    <3>3. CASE MarkOld
      <4>1. op.src \in Used
        <5>1. pc = "markOld"
          BY <3>3 DEF MarkOld
        <5>2. op.src[1] # NULL
          BY <3>1, <5>1 DEF Placed, Writing
        <5> QED
          BY <3>1, <5>2, WritePlaced
      <4>2. ItemAt(op.src) \in Item
        BY <3>2, <4>1, ItemsAreItems DEF Shape, Used
      <4>3. PICK it : it = [ItemAt(op.src) EXCEPT !.old = TRUE]
        OBVIOUS
      <4>4. it \in Item /\ it.id = ItemAt(op.src).id
        BY <4>2, <4>3 DEF Item
      <4>5. items' = With(op.src, it)
        BY <3>3, <4>3 DEF MarkOld
      <4> QED
        BY <3>1, <4>1, <4>4, <4>5
    <3>4. CASE Data
      <4>1. ItemAt(NewItem) \in Item
        BY <3>2, ItemsAreItems DEF Shape, Used
      <4>2. [ItemAt(NewItem) EXCEPT !.data = op.val] \in Item /\ [ItemAt(NewItem) EXCEPT !.data = op.val].id = ItemAt(NewItem).id
        BY <3>2, <4>1 DEF Item
      <4> QED
        BY <3>1, <3>2, <3>4, <4>2 DEF Data
    <3> QED
      BY <1>3, <3>3, <3>4
  <2>2. PICK x \in Used : \E it \in Item : items' = With(x, it) /\ it.id = ItemAt(x).id
    BY <2>1
  <2>3. PICK it \in Item : items' = With(x, it) /\ it.id = ItemAt(x).id
    BY <2>2
  <2>4. Shape /\ op.dstPg \in Pages
    BY <2>1, WritePlaced
  <2>5. /\ \A p \in Pages : Len(items'[p]) = Len(items[p])
        /\ Slots' = Slots
        /\ \A y \in Slots : ItemAt(y)' = IF y = x THEN it ELSE ItemAt(y)
    BY <2>3, <2>4, WriteAt DEF Shape, Used
  <2>6. Fresh' = Fresh /\ pc' \notin CompactPcs /\ pc' \notin ScanPcs
    BY <2>1, <2>4, <2>5 DEF Fresh, NewItem, WritePcs, CompactPcs, ScanPcs
  <2>7. \A y \in Used' : y \in Used /\ ItemAt(y)'.id = ItemAt(y).id
    BY <2>3, <2>5 DEF Used
  <2>8. Apart(Used \ (E \union Fresh))'
    BY <2>6, <2>7, StayApart DEF Spares
  <2> QED
    BY <2>6, <2>8 DEF Spares
<1> QED
  BY <1>1, <1>2, <1>3

(* The write is over: the reserve page is empty, or holds the new item.    *)
LEMMA EndsSpares ==
  ASSUME Placed, pc \in WritePcs, EndOrCompact, UNCHANGED pgRes, Slots' = Slots,
         NEW n, n = NewItem, n \in Used', Valid(ItemAt(n))',
         NEW F, Apart(Used \ F)'
  PROVE  Spares(F)'
<1>1. \/ op.dstPg = pgRes /\ pc' = "mark"
      \/ op.dstPg # pgRes /\ pc' = "idle"
  BY DEF EndOrCompact, Idle
<1>2. Fresh' = {} /\ pc' \notin ScanPcs
  BY <1>1 DEF Fresh, WritePcs, CopyPcs, ScanPcs
<1>3. ASSUME op.dstPg = pgRes
      PROVE  Bad(pgRes)' = {}
  <2>1. pgRes \in Pages /\ items \in [Pages -> Seq(Item)] /\ Len(items[pgRes]) = 1 /\ n = <<pgRes, 1>>
    BY <1>3, WritePlaced DEF NewItem
  <2>2. ASSUME NEW x \in Slots, x[1] = pgRes
        PROVE  x = n
    <3>1. x = <<pgRes, x[2]>> /\ x[2] \in DOMAIN items[pgRes]
      BY <2>2, SlotParts
    <3>2. x[2] \in 1 .. 1
      BY <2>1, <3>1, Lengths
    <3> QED
      BY <2>1, <3>1, <3>2
  <2> QED
    BY <2>2 DEF Bad
<1>4. Apart(Used \ (F \union Fresh))'
  BY <1>2 DEF Apart
<1> QED
  BY <1>1, <1>2, <1>3, <1>4 DEF Spares, CompactPcs

LEMMA ChecksumSpares ==
  ASSUME Placed, NEW E, Spares(E), Checksum
  PROVE  Spares(E)'
<1> DEFINE it == [ItemAt(NewItem) EXCEPT !.chk = ItemAt(NewItem).data]
<1>1. /\ pc = "chk" /\ pc \in WritePcs
      /\ items' = With(NewItem, it)
      /\ IF op.src[1] = NULL THEN EndOrCompact ELSE pc' = "zero" /\ UNCHANGED <<op, scan>>
      /\ UNCHANGED <<pgHdr, pgRes, stat, resets>>
  BY DEF Checksum, ram, WritePcs
<1>2. ItemAt(NewItem).data = op.val
  BY <1>1 DEF Placed, Writing
<1>3. /\ Shape /\ op.id \in Ids /\ op.val \in Vals /\ op.dstPg \in Pages
      /\ NewItem \in Slots /\ NewItem \in Used /\ ItemAt(NewItem).id = op.id
      /\ op.src[1] = NULL => \A x \in Used \ {NewItem} : ItemAt(x).id # op.id
      /\ Fresh = {NewItem}
  BY <1>1, WritePlaced
<1>4. it \in Item /\ it.id = op.id /\ Valid(it)
  <2>1. ItemAt(NewItem) \in Item
    BY <1>3, ItemsAreItems DEF Shape
  <2> QED
    BY <1>2, <1>3, <2>1, Numbers DEF Item, Valid
<1> HIDE DEF it
<1>5. PICK n : n = NewItem
  OBVIOUS
<1>6. /\ \A p \in Pages : Len(items'[p]) = Len(items[p])
      /\ Slots' = Slots
      /\ \A y \in Slots : ItemAt(y)' = IF y = n THEN it ELSE ItemAt(y)
  BY <1>1, <1>3, <1>4, <1>5, WriteAt DEF Shape
<1>7. Used' = Used /\ n \in Used' /\ \A x \in Used : ItemAt(x)'.id = ItemAt(x).id
  BY <1>3, <1>4, <1>5, <1>6, Numbers DEF Used
<1>8. Valid(ItemAt(n))'
  BY <1>3, <1>4, <1>5, <1>6 DEF Valid
<1>9. CASE op.src[1] = NULL
  <2>1. Apart(Used \ E)'
    <3>1. \A x \in Used \ {n} : ItemAt(x).id # ItemAt(n).id
      BY <1>3, <1>5, <1>9
    <3>2. Apart(Used \ (E \union {n}))
      BY <1>3, <1>5 DEF Spares
    <3> QED
      BY <1>7, <3>1, <3>2 DEF Apart
  <2> QED
    BY <1>1, <1>5, <1>6, <1>7, <1>8, <1>9, <2>1, EndsSpares
<1>10. CASE op.src[1] # NULL
  <2>1. pc' = "zero" /\ pc' \in WritePcs /\ pc' \notin CompactPcs /\ pc' \notin ScanPcs /\ UNCHANGED op
    BY <1>1, <1>10 DEF WritePcs, CompactPcs, ScanPcs
  <2>2. Fresh' = Fresh
    BY <1>1, <1>3, <1>6, <2>1 DEF Fresh, NewItem
  <2>3. Apart(Used \ (E \union Fresh))'
    BY <1>7, <2>2, StayApart DEF Spares
  <2> QED
    BY <2>1, <2>2, <2>3 DEF Spares
<1> QED
  BY <1>9, <1>10

(* When the old item is zeroed that a reset had cost already, the place    *)
(* of the new one is lost instead.                                         *)
LEMMA ZeroSpares ==
  ASSUME Placed, NEW E, Spares(E), Zero
  PROVE  \E F : Swapped(E, F) /\ Spares(F)'
<1>1. /\ pc = "zero" /\ pc \in WritePcs
      /\ items' = With(op.src, ZeroedItem)
      /\ EndOrCompact /\ UNCHANGED pgRes
  BY DEF Zero, WritePcs
<1>2. ItemAt(NewItem).data = op.val /\ ItemAt(NewItem).chk = op.val /\ op.src[1] # NULL
  BY <1>1 DEF Placed, Writing
<1>3. /\ Shape /\ op.val \in Vals
      /\ NewItem \in Used /\ op.src \in Used /\ op.src # NewItem
      /\ ItemAt(NewItem).id = op.id /\ ItemAt(op.src).id = op.id
      /\ Used \subseteq Slots /\ Fresh = {NewItem}
  BY <1>1, <1>2, WritePlaced
<1>4. PICK n, s : n = NewItem /\ s = op.src
  OBVIOUS
<1>5. Slots' = Slots /\ \A y \in Slots : ItemAt(y)' = IF y = s THEN ZeroedItem ELSE ItemAt(y)
  BY <1>1, <1>3, <1>4, NewItems, WriteAt DEF Shape
<1>6. Used' = Used \ {s} /\ \A x \in Used' : ItemAt(x)' = ItemAt(x)
  BY <1>3, <1>4, <1>5, NewItems DEF Used
<1>7. n \in Used' /\ Valid(ItemAt(n))'
  BY <1>2, <1>3, <1>4, <1>6, Numbers DEF Valid
<1>8. Apart(Used \ (E \union {n})) /\ ItemAt(n).id = ItemAt(s).id
  BY <1>3, <1>4 DEF Spares
<1> DEFINE F == IF s \in E THEN (E \ {s}) \union {n} ELSE E
<1>9. Swapped(E, F)
  BY DEF Swapped
<1>10. Apart(Used \ F)'
  <2> SUFFICES ASSUME NEW x \in Used, NEW y \in Used, x # s, y # s, x \notin F, y \notin F,
                      ItemAt(x).id = ItemAt(y).id
               PROVE  x = y
    BY <1>6 DEF Apart
  <2>1. CASE s \in E
    BY <1>8, <2>1 DEF Apart
  <2>2. CASE s \notin E
    <3>1. \A z \in Used : z # n /\ z \notin E /\ ItemAt(z).id = ItemAt(s).id => z = s
      BY <1>3, <1>4, <1>8, <2>2 DEF Apart
    <3> QED
      BY <1>8, <2>2, <3>1 DEF Apart
  <2> QED
    BY <2>1, <2>2
<1> HIDE DEF F
<1>11. Spares(F)'
  BY <1>1, <1>4, <1>5, <1>7, <1>10, EndsSpares
<1> QED
  BY <1>9, <1>11

LEMMA CompactSpares ==
  ASSUME Placed, NEW E, Spares(E), Mark \/ CompactItem \/ CopyHdr \/ CopyData \/ Erase \/ Finish,
         CopyHdr => Len(items[pgRes]) < PageItems
  PROVE  Spares(E)'
<1>1. CASE Mark
  <2>1. pc = "mark" /\ pc' = "compact" /\ UNCHANGED <<items, pgRes>>
    BY <1>1 DEF Mark, ram
  <2> QED
    BY <2>1, SameSpares DEF Fresh, WritePcs, CopyPcs, CompactPcs, ScanPcs
<1>2. CASE CompactItem
  <2>1. /\ pc = "compact" /\ pc \in CompactPcs /\ pc \notin CopyPcs /\ UNCHANGED pgRes
        /\ Shape /\ Used \subseteq Slots /\ Fresh = {} /\ \A x \in Used : Valid(ItemAt(x))
        /\ pg \in Pages /\ offset \in Nat /\ offset > 0
    <3>1. pc = "compact" /\ UNCHANGED pgRes
      BY <1>2 DEF CompactItem
    <3>2. pc \in CompactPcs /\ pc \notin CopyPcs
      BY <3>1 DEF CompactPcs, CopyPcs
    <3>3. offset \in Nat /\ offset > 0
      BY <3>1, <3>2 DEF Placed, Shape, Compacting
    <3> QED
      BY <3>1, <3>2, <3>3, CompactPlaced
  <2>2. CASE UNCHANGED items /\ pc' \in {"erase", "compact"}
    BY <2>1, <2>2, SameSpares DEF Fresh, WritePcs, CopyPcs, CompactPcs, ScanPcs
  <2>3. CASE /\ offset <= Len(items[pg]) /\ ItemAt(Here).id # Zeroed /\ ~ Valid(ItemAt(Here))
    <3>1. Here \in Slots
      <4>1. offset \in DOMAIN items[pg]
        BY <2>1, <2>3, Lengths DEF Shape
      <4> QED
        BY <2>1, <4>1, PlaceIsSlot DEF Here, Shape
    <3> QED
      BY <2>1, <2>3, <3>1 DEF Used
  <2>4. CASE /\ offset <= Len(items[pg]) /\ ItemAt(Here).id # Zeroed
             /\ items' = With(Here, [ItemAt(Here) EXCEPT !.old = TRUE]) /\ pc' = "copyHdr"
    <3>1. Here \in Slots
      <4>1. offset \in DOMAIN items[pg]
        BY <2>1, <2>4, Lengths DEF Shape
      <4> QED
        BY <2>1, <4>1, PlaceIsSlot DEF Here, Shape
    <3>2. PICK it, h : it = [ItemAt(h) EXCEPT !.old = TRUE] /\ h = Here
      OBVIOUS
    <3>3. ItemAt(h) \in Item
      BY <2>1, <3>1, <3>2, ItemsAreItems DEF Shape
    <3>4. it \in Item /\ it.id = ItemAt(h).id /\ (Valid(it) <=> Valid(ItemAt(h)))
      BY <3>2, <3>3 DEF Item, Valid
    <3>5. Slots' = Slots /\ \A y \in Slots : ItemAt(y)' = IF y = h THEN it ELSE ItemAt(y)
      BY <2>1, <2>4, <3>1, <3>2, <3>4, WriteAt DEF Shape
    <3>6. /\ Used' = Used /\ \A x \in Used : ItemAt(x)'.id = ItemAt(x).id
          /\ \A x \in Slots : Valid(ItemAt(x))' <=> Valid(ItemAt(x))
      BY <3>4, <3>5 DEF Used, Valid
    <3>7. Bad(pgRes)' = Bad(pgRes)
      BY <2>1, <3>5, <3>6 DEF Bad
    <3>8. Fresh' = {} /\ pc' \notin ScanPcs
      BY <2>4 DEF Fresh, WritePcs, CopyPcs, ScanPcs
    <3>9. Apart(Used \ (E \union Fresh))'
      BY <2>1, <3>6, <3>8, StayApart DEF Spares
    <3> QED
      BY <2>1, <3>7, <3>8, <3>9 DEF Spares
  <2> QED
    BY <1>2, <2>1, <2>2, <2>3, <2>4 DEF CompactItem
<1>3. CASE CopyHdr
  <2> DEFINE it == [ItemAt(Here) EXCEPT !.data = Blank, !.old = stat]
  <2>1. /\ pc = "copyHdr" /\ pc \in CompactPcs /\ pc \notin CopyPcs
        /\ pc' = "copyData" /\ pc' \in CopyPcs /\ pc' \notin WritePcs /\ pc' \notin ScanPcs
        /\ items' = [items EXCEPT ![pgRes] = Append(@, it)] /\ UNCHANGED pgRes
    BY <1>3 DEF CopyHdr, CompactPcs, CopyPcs, WritePcs, ScanPcs, ram
  <2>2. Shape /\ pgRes \in Pages /\ Fresh = {} /\ Here \in Slots /\ stat \in BOOLEAN
    BY <2>1, CompactPlaced DEF Placed, Shape, Compacting, Used
  <2>3. it \in Item
    <3>1. ItemAt(Here) \in Item
      BY <2>2, ItemsAreItems DEF Shape
    <3> QED
      BY <2>2, <3>1 DEF Item
  <2> HIDE DEF it
  <2>4. PICK n : n = <<pgRes, Len(items[pgRes]) + 1>>
    OBVIOUS
  <2>5. /\ n = <<pgRes, Len(items'[pgRes])>> /\ n \notin Slots /\ Slots' = Slots \union {n}
        /\ \A y \in Slots : ItemAt(y)' = ItemAt(y)
    BY <1>3, <2>1, <2>2, <2>3, <2>4, AppendAt DEF Shape
  <2>6. Fresh' = {n}
    BY <2>1, <2>5 DEF Fresh, Copy
  <2>7. \A x \in Slots : (x \in Used' <=> x \in Used) /\ (Valid(ItemAt(x))' <=> Valid(ItemAt(x)))
    BY <2>5 DEF Used, Valid
  <2>8. Used' \subseteq Slots'
    BY DEF Used
  <2>9. Apart(Used \ (E \union Fresh))'
    <3>1. \A x \in Used' : x # n => x \in Used /\ ItemAt(x)' = ItemAt(x)
      BY <2>5, <2>7, <2>8
    <3> QED
      BY <2>2, <2>6, <3>1, StayApart DEF Spares
  <2>10. Bad(pgRes)' \subseteq E \union {n}
    <3>1. \A x \in Slots' : x # n => x \in Slots
      BY <2>5
    <3>2. \A x \in Bad(pgRes)' : x # n => x \in Bad(pgRes)
      BY <2>1, <2>7, <3>1 DEF Bad
    <3> QED
      BY <2>1, <2>2, <3>2 DEF Spares
  <2> QED
    BY <2>1, <2>6, <2>9, <2>10 DEF Spares
<1>4. CASE CopyData
  <2> DEFINE it == [ItemAt(Copy) EXCEPT !.data = ItemAt(Here).data]
  <2>1. /\ pc = "copyData" /\ pc \in CompactPcs /\ pc \in CopyPcs
        /\ pc' = "copyZero" /\ pc' \in CopyPcs /\ pc' \notin WritePcs /\ pc' \notin ScanPcs
        /\ items' = With(Copy, it) /\ UNCHANGED pgRes
    BY <1>4 DEF CopyData, Copy, CompactPcs, CopyPcs, WritePcs, ScanPcs, ram
  <2>2. /\ Shape /\ pgRes \in Pages /\ Fresh = {Copy}
        /\ Copy \in Slots /\ Copy \in Used /\ Here \in Slots
    BY <2>1, CompactPlaced, CopyPlaced
  <2>3. it \in Item /\ it.id = ItemAt(Copy).id
    <3>1. ItemAt(Copy) \in Item /\ ItemAt(Here).data \in Vals \union {Blank}
      BY <2>2, ItemsAreItems DEF Shape
    <3> QED
      BY <3>1 DEF Item
  <2> HIDE DEF it
  <2>4. PICK c : c = Copy
    OBVIOUS
  <2>5. /\ \A p \in Pages : Len(items'[p]) = Len(items[p])
        /\ Slots' = Slots
        /\ \A y \in Slots : ItemAt(y)' = IF y = c THEN it ELSE ItemAt(y)
    BY <2>1, <2>2, <2>3, <2>4, WriteAt DEF Shape
  <2>6. Fresh' = {c}
    BY <2>1, <2>2, <2>4, <2>5 DEF Fresh, Copy
  <2>7. Used' = Used /\ \A x \in Used : ItemAt(x)'.id = ItemAt(x).id
    BY <2>2, <2>3, <2>4, <2>5 DEF Used
  <2>8. \A x \in Slots : x # c => (Valid(ItemAt(x))' <=> Valid(ItemAt(x)))
    BY <2>5 DEF Valid
  <2>9. \A x \in Bad(pgRes)' : x # c => x \in Bad(pgRes)
    BY <2>1, <2>5, <2>7, <2>8 DEF Bad
  <2>10. Apart(Used \ (E \union Fresh))'
    BY <2>2, <2>4, <2>6, <2>7, StayApart DEF Spares
  <2> QED
    BY <2>1, <2>2, <2>4, <2>6, <2>9, <2>10 DEF Spares
<1>5. CASE Erase
  <2>1. /\ pc = "erase" /\ pc \in CompactPcs /\ pc \notin CopyPcs
        /\ pc' = "finish" /\ items' = [items EXCEPT ![pg] = <<>>] /\ UNCHANGED pgRes
    BY <1>5 DEF Erase, erasePage, CompactPcs, CopyPcs
  <2>2. Shape /\ pg \in Pages /\ Fresh = {} /\ Fresh' = {} /\ pc' \notin ScanPcs
    BY <2>1, CompactPlaced DEF Fresh, WritePcs, CopyPcs, ScanPcs
  <2>3. Slots' \subseteq Slots /\ \A y \in Slots' : ItemAt(y)' = ItemAt(y)
    BY <2>1, <2>2, EraseAt DEF Shape
  <2>4. \A x \in Slots' : (x \in Used' <=> x \in Used) /\ (Valid(ItemAt(x))' <=> Valid(ItemAt(x)))
    BY <2>3 DEF Used, Valid
  <2>5. Used' \subseteq Slots'
    BY DEF Used
  <2>6. Bad(pgRes)' \subseteq Bad(pgRes)
    BY <2>1, <2>3, <2>4 DEF Bad
  <2>7. Apart(Used \ (E \union Fresh))'
    BY <2>2, <2>3, <2>4, <2>5, StayApart DEF Spares
  <2> QED
    BY <2>1, <2>2, <2>6, <2>7 DEF Spares
<1>6. CASE Finish
  <2>1. pc = "finish" /\ pc' = "idle" /\ UNCHANGED items
    BY <1>6 DEF Finish, Idle
  <2>2. Fresh = {} /\ Fresh' = {} /\ pc' \notin CompactPcs /\ pc' \notin ScanPcs
    BY <2>1 DEF Fresh, WritePcs, CopyPcs, CompactPcs, ScanPcs
  <2>3. Used' = Used /\ \A y : ItemAt(y)' = ItemAt(y)
    BY <2>1, SameFlash
  <2>4. Apart(Used \ (E \union Fresh))'
    BY <2>2, <2>3, StayApart DEF Spares
  <2> QED
    BY <2>2, <2>4 DEF Spares
<1> QED
  BY <1>1, <1>2, <1>3, <1>4, <1>5, <1>6

(* When an old copy is zeroed that a reset had cost already, the place of  *)
(* the new one is lost instead.                                            *)
LEMMA CopyZeroSpares ==
  ASSUME Placed, NEW E, Spares(E), CopyZero
  PROVE  \E F : Swapped(E, F) /\ Spares(F)'
<1>1. /\ pc = "copyZero" /\ pc \in CompactPcs /\ pc \in CopyPcs /\ pc' = "compact"
      /\ items' = With(Here, ZeroedItem) /\ UNCHANGED pgRes
  BY DEF CopyZero, CompactPcs, CopyPcs
<1>2. PICK n, h : n = Copy /\ h = Here
  OBVIOUS
<1>3. /\ Shape /\ pgRes \in Pages /\ pg # pgRes /\ h \in Used /\ n \in Used /\ h # n
      /\ h[1] = pg /\ ItemAt(n).id = ItemAt(h).id
      /\ ItemAt(n).chk = ItemAt(h).chk /\ ItemAt(n).data = ItemAt(h).data /\ Valid(ItemAt(h))
      /\ Used \subseteq Slots /\ Fresh = {n}
  <2>1. ItemAt(n) = ItemAt(Copy) /\ ItemAt(h) = ItemAt(Here)
    BY <1>2
  <2> QED
    BY <1>1, <1>2, <2>1, CompactPlaced, CopyPlaced
<1>4. Slots' = Slots /\ \A y \in Slots : ItemAt(y)' = IF y = h THEN ZeroedItem ELSE ItemAt(y)
  BY <1>1, <1>2, <1>3, NewItems, WriteAt DEF Shape
<1>5. Used' = Used \ {h} /\ \A x \in Used' : ItemAt(x)' = ItemAt(x)
  BY <1>3, <1>4, NewItems DEF Used
<1>6. n \in Used' /\ Valid(ItemAt(n))'
  BY <1>3, <1>5 DEF Valid
<1>7. Apart(Used \ (E \union {n})) /\ Bad(pgRes) \subseteq E \union {n}
  BY <1>1, <1>3 DEF Spares
<1> DEFINE F == IF h \in E THEN (E \ {h}) \union {n} ELSE E
<1>8. Swapped(E, F)
  BY DEF Swapped
<1>9. Apart(Used \ F)'
  <2> SUFFICES ASSUME NEW x \in Used, NEW y \in Used, x # h, y # h, x \notin F, y \notin F,
                      ItemAt(x).id = ItemAt(y).id
               PROVE  x = y
    BY <1>5 DEF Apart
  <2>1. CASE h \in E
    BY <1>7, <2>1 DEF Apart
  <2>2. CASE h \notin E
    <3>1. \A z \in Used : z # n /\ z \notin E /\ ItemAt(z).id = ItemAt(h).id => z = h
      BY <1>3, <1>7, <2>2 DEF Apart
    <3> QED
      BY <1>3, <1>7, <2>2, <3>1 DEF Apart
  <2> QED
    BY <2>1, <2>2
<1>10. Bad(pgRes)' \subseteq F
  <2>1. ASSUME NEW x \in Slots, x[1] = pgRes, ~ (x \in Used' /\ Valid(ItemAt(x))')
        PROVE  x \in Bad(pgRes) /\ x # n /\ x # h
    <3>1. x # n /\ x # h
      BY <1>3, <1>6, <2>1
    <3>2. x \in Used => x \in Used' /\ (Valid(ItemAt(x))' <=> Valid(ItemAt(x)))
      BY <1>5, <3>1 DEF Valid
    <3> QED
      BY <2>1, <3>1, <3>2 DEF Bad
  <2>2. \A x \in Bad(pgRes)' : x \in Bad(pgRes) /\ x # n /\ x # h
    BY <1>1, <1>4, <2>1 DEF Bad
  <2> QED
    BY <1>7, <2>2
<1> HIDE DEF F
<1>11. Fresh' = {} /\ pc' \notin ScanPcs
  BY <1>1 DEF Fresh, WritePcs, CopyPcs, ScanPcs
<1>12. Spares(F)'
  <2>1. Apart(Used \ (F \union Fresh))'
    BY <1>9, <1>11 DEF Apart
  <2> QED
    BY <1>10, <1>11, <2>1 DEF Spares
<1> QED
  BY <1>8, <1>12

LEMMA ScanItemSpares ==
  ASSUME Placed, NEW E, Spares(E), ScanItem
  PROVE  \E F : Swapped(E, F) /\ Spares(F)'
<1>1. PICK h : h = Here
  OBVIOUS
<1>2. /\ pc = "initPage" /\ UNCHANGED <<pgHdr, pgRes, pc>>
      /\ Fresh = {} /\ Fresh' = {} /\ pc \in ScanPcs /\ pc' \notin CompactPcs
  BY DEF ScanItem, Fresh, WritePcs, CopyPcs, CompactPcs, ScanPcs
<1>3. Shape /\ Used \subseteq Slots
  BY <1>2, WalkPlaced
<1>4. \A p : Unused(p)' <=> Unused(p)
  BY <1>2 DEF Unused
<1>5. CASE UNCHANGED items
  <2>1. Spares(E)'
    BY <1>2, <1>4, <1>5, SameSpares
  <2> QED
    BY <2>1 DEF Swapped
<1>6. CASE ~ UNCHANGED items
  <2>1. PICK z \in Used :
          /\ items' = With(z, ZeroedItem)
          /\ \/ z = h /\ ~ Valid(ItemAt(h))
             \/ /\ h \in Used /\ z # h /\ ItemAt(z).id = ItemAt(h).id
                /\ ItemAt(z).old /\ Valid(ItemAt(h)) /\ ~ ItemAt(h).old
    BY <1>1, <1>6, ScanItemDoes
  <2>2. Slots' = Slots /\ \A y \in Slots : ItemAt(y)' = IF y = z THEN ZeroedItem ELSE ItemAt(y)
    BY <1>3, <2>1, NewItems, WriteAt DEF Shape
  <2>3. Used' = Used \ {z} /\ \A x \in Used' : ItemAt(x)' = ItemAt(x)
    BY <1>3, <2>2, NewItems DEF Used
  <2>4. Apart(Used \ E) /\ \A p \in Pages : Unused(p) => Bad(p) \subseteq E
    BY <1>2 DEF Spares, Apart
  <2> DEFINE F == IF z # h /\ z \notin E THEN (E \ {h}) \union {z} ELSE E
  <2>5. Swapped(E, F)
    <3>1. CASE z # h /\ z \notin E
      <4>1. h \in E
        BY <2>1, <2>4, <3>1 DEF Apart
      <4> QED
        BY <4>1 DEF Swapped
    <3>2. CASE ~ (z # h /\ z \notin E)
      BY <3>2 DEF Swapped
    <3> QED
      BY <3>1, <3>2
  <2>6. Apart(Used \ F)'
    <3> SUFFICES ASSUME NEW x \in Used, NEW y \in Used, x # z, y # z, x \notin F, y \notin F,
                        ItemAt(x).id = ItemAt(y).id
                 PROVE  x = y
      BY <2>3 DEF Apart
    <3>1. CASE z # h /\ z \notin E
      <4>1. \A w \in Used : w \notin E /\ ItemAt(w).id = ItemAt(z).id => w = z
        BY <2>4, <3>1 DEF Apart
      <4> QED
        BY <2>1, <2>4, <3>1, <4>1 DEF Apart
    <3>2. CASE ~ (z # h /\ z \notin E)
      BY <2>4, <3>2 DEF Apart
    <3> QED
      BY <3>1, <3>2
  <2>7. ASSUME NEW p \in Pages, Unused(p)
        PROVE  Bad(p)' \subseteq F
    <3>1. Bad(p) \subseteq E
      BY <2>4, <2>7
    <3>2. \A x \in Slots : x # z /\ x \in Used => x \in Used' /\ (Valid(ItemAt(x))' <=> Valid(ItemAt(x)))
      BY <2>3 DEF Valid
    <3>3. \A x \in Bad(p)' : x = z \/ x \in Bad(p)
      BY <2>2, <3>2 DEF Bad
    <3>4. z = h => \A x \in Bad(p)' : x \in Bad(p)
      BY <1>3, <2>1, <2>2, <3>3 DEF Bad
    <3>5. z # h => h \notin Bad(p)
      BY <2>1 DEF Bad
    <3> QED
      BY <3>1, <3>3, <3>4, <3>5
  <2> HIDE DEF F
  <2>8. Spares(F)'
    <3>1. Apart(Used \ (F \union Fresh))'
      BY <1>2, <2>6 DEF Apart
    <3> QED
      BY <1>2, <1>4, <2>7, <3>1 DEF Spares
  <2> QED
    BY <2>5, <2>8
<1> QED
  BY <1>5, <1>6

LEMMA ScanSpares ==
  ASSUME Placed, NEW E, Spares(E), ScanHeader \/ ScanEnd \/ Resume \/ EraseAll
  PROVE  Spares(E)'
<1>1. CASE ScanHeader
  <2>1. /\ pc = "initPage" /\ UNCHANGED <<items, pc>>
        /\ pgHdr' = pgHdr \/ pgHdr' = [pgHdr EXCEPT ![pg].active = TRUE, ![pg].inUse = TRUE]
    BY <1>1 DEF ScanHeader
  <2>2. /\ Fresh = {} /\ Fresh' = {} /\ pc \in ScanPcs /\ pc' \notin CompactPcs
    BY <2>1 DEF Fresh, WritePcs, CopyPcs, CompactPcs, ScanPcs
  <2>3. pgHdr \in [Pages -> PageHdr] /\ pg \in Pages
    BY <2>1, WalkPlaced
  <2>4. \A p \in Pages : Unused(p)' => Unused(p)
    BY <2>1, <2>3 DEF Unused, PageHdr
  <2>5. Used' = Used /\ \A y : ItemAt(y)' = ItemAt(y)
    BY <2>1, SameFlash
  <2>6. \A p : Bad(p)' = Bad(p)
    BY <2>1, <2>5, SameFlash DEF Bad, Valid
  <2>7. Apart(Used \ (E \union Fresh))'
    BY <2>2, <2>5, StayApart DEF Spares
  <2> QED
    BY <2>2, <2>4, <2>6, <2>7 DEF Spares
<1>2. CASE ScanEnd
  <2>1. pc = "initPage" /\ pc' \in {"initPage", "resume"} /\ UNCHANGED <<items, pgHdr, pgRes>>
    BY <1>2 DEF ScanEnd, flash
  <2>2. \A p : Unused(p)' => Unused(p)
    BY <2>1 DEF Unused
  <2> QED
    BY <2>1, <2>2, SameSpares DEF Fresh, WritePcs, CopyPcs, CompactPcs, ScanPcs
<1>3. CASE Resume
  <2>1. pc = "resume" /\ UNCHANGED items
    BY <1>3 DEF Resume
  <2>2. Fresh = {} /\ pc \in ScanPcs
    BY <2>1 DEF Fresh, WritePcs, CopyPcs, ScanPcs
  <2>3. Slots' = Slots /\ Used' = Used /\ \A y : ItemAt(y)' = ItemAt(y)
    BY <2>1, SameFlash
  <2>4. \A p : Bad(p)' = Bad(p)
    BY <2>3 DEF Bad, Valid
  <2>5. CASE pc' = "mark"
    <3>1. newPg # NULL /\ pgRes' = IF pgRes = NULL THEN newPg ELSE pgRes
      BY <1>3, <2>5 DEF Resume, Idle
    <3>2. /\ pgRes \in Pages \union {NULL} /\ newPg \in Pages /\ Unused(newPg)
          /\ pgRes # NULL => items[pgRes] = <<>>
      BY <2>1, <3>1 DEF Placed, Shape, Rewalk, Unused
    <3>3. PICK q : q = pgRes'
      OBVIOUS
    <3>4. Bad(q) \subseteq E
      <4>1. CASE pgRes = NULL
        BY <2>2, <3>1, <3>2, <3>3, <4>1 DEF Spares
      <4>2. CASE pgRes # NULL
        <5>1. q \in Pages /\ items[q] = <<>>
          BY <3>1, <3>2, <3>3, <4>2
        <5> QED
          BY <5>1, NoItems DEF Bad
      <4> QED
        BY <4>1, <4>2
    <3>5. Bad(pgRes)' \subseteq E
      BY <2>3, <3>3, <3>4 DEF Bad, Valid
    <3>6. Fresh' = {} /\ pc' \notin ScanPcs
      BY <2>5 DEF Fresh, WritePcs, CopyPcs, ScanPcs
    <3>7. Apart(Used \ (E \union Fresh))'
      BY <2>2, <2>3, <3>6, StayApart DEF Spares
    <3> QED
      BY <3>5, <3>6, <3>7 DEF Spares
  <2>6. CASE pc' # "mark"
    <3>1. \/ pc' = "eraseAll" /\ UNCHANGED pgHdr
          \/ pc' = "idle"
      BY <1>3, <2>6 DEF Resume, Idle
    <3>2. Fresh' = {} /\ pc' \notin CompactPcs
      BY <3>1 DEF Fresh, WritePcs, CopyPcs, CompactPcs
    <3>3. pc' \in ScanPcs => \A p : Unused(p)' <=> Unused(p)
      BY <3>1 DEF Unused, ScanPcs
    <3>4. Apart(Used \ (E \union Fresh))'
      BY <2>2, <2>3, <3>2, StayApart DEF Spares
    <3> QED
      BY <2>2, <2>4, <3>2, <3>3, <3>4 DEF Spares
  <2> QED
    BY <2>5, <2>6
<1>4. CASE EraseAll
  <2>1. /\ pc = "eraseAll" /\ pc' \in {"initPage", "eraseAll"}
        /\ pgHdr' = [pgHdr EXCEPT ![pg] = ErasedHdr] /\ items' = [items EXCEPT ![pg] = <<>>]
    BY <1>4 DEF EraseAll, erasePage
  <2>2. Shape /\ pg \in Pages
    BY <2>1 DEF Placed, Rewalk
  <2>3. Fresh = {} /\ Fresh' = {} /\ pc \in ScanPcs /\ pc' \notin CompactPcs
    BY <2>1 DEF Fresh, WritePcs, CopyPcs, CompactPcs, ScanPcs
  <2>4. Slots' \subseteq Slots /\ \A y \in Slots' : ItemAt(y)' = ItemAt(y)
    BY <2>1, <2>2, EraseAt DEF Shape
  <2>5. \A x \in Slots' : (x \in Used' <=> x \in Used) /\ (Valid(ItemAt(x))' <=> Valid(ItemAt(x)))
    BY <2>4 DEF Used, Valid
  <2>6. Used' \subseteq Slots'
    BY DEF Used
  <2>7. \A p : Bad(p)' \subseteq Bad(p)
    BY <2>4, <2>5 DEF Bad
  <2>8. \A p \in Pages : Unused(p)' => Unused(p)
    BY <2>1, <2>2 DEF Unused, Shape, ErasedHdr
  <2>9. Apart(Used \ (E \union Fresh))'
    BY <2>3, <2>4, <2>5, <2>6, StayApart DEF Spares
  <2> QED
    BY <2>3, <2>7, <2>8, <2>9 DEF Spares
<1> QED
  BY <1>1, <1>2, <1>3, <1>4

(* A swap does not add to the number of places that are lost.              *)
LEMMA SwappedCounts ==
  ASSUME NEW E, NEW F, IsFiniteSet(E), Swapped(E, F)
  PROVE  IsFiniteSet(F) /\ Cardinality(F) <= Cardinality(E) /\ Cardinality(F) \in Nat
<1>1. Cardinality(E) \in Nat
  BY FS_CardinalityType
<1>2. CASE F = E
  BY <1>1, <1>2
<1>3. CASE \E z \in E : \E n : F = (E \ {z}) \union {n}
  <2>1. PICK z \in E : \E n : F = (E \ {z}) \union {n}
    BY <1>3
  <2>2. PICK n : F = (E \ {z}) \union {n}
    BY <2>1
  <2> DEFINE D == E \ {z}
  <2>3. IsFiniteSet(D) /\ Cardinality(D) = Cardinality(E) - 1
    BY FS_RemoveElement
  <2>4. F = D \union {n}
    BY <2>2
  <2> HIDE DEF D
  <2>5. IsFiniteSet(F) /\ Cardinality(F) <= Cardinality(D) + 1 /\ Cardinality(F) \in Nat
    <3>1. /\ IsFiniteSet(D \union {n})
          /\ Cardinality(D \union {n}) = IF n \in D THEN Cardinality(D) ELSE Cardinality(D) + 1
      BY <2>3, FS_AddElement
    <3>2. Cardinality(D) \in Nat
      BY <2>3, FS_CardinalityType
    <3> QED
      BY <2>4, <3>1, <3>2
  <2> QED
    BY <1>1, <2>3, <2>5
<1> QED
  BY <1>2, <1>3 DEF Swapped

(* All steps but the reset.                                                *)
LEMMA StepSpare ==
  ASSUME Placed, Spare, resets \in Nat, Step \/ Call, UNCHANGED resets,
         CopyHdr => Len(items[pgRes]) < PageItems
  PROVE  Spare'
<1>1. PICK E : IsFiniteSet(E) /\ Cardinality(E) <= resets /\ Spares(E)
  BY DEF Spare
<1>2. \E F : Swapped(E, F) /\ Spares(F)'
  <2>1. Swapped(E, E)
    BY DEF Swapped
  <2>2. CASE Call
    BY <1>1, <2>1, <2>2, CallSpares
  <2>3. CASE Write
    BY <1>1, <2>1, <2>3, WriteSpares, ChecksumSpares, ZeroSpares DEF Write
  <2>4. CASE Compact
    BY <1>1, <2>1, <2>4, CompactSpares, CopyZeroSpares DEF Compact
  <2>5. CASE initNV
    BY <1>1, <2>1, <2>5, ScanSpares, ScanItemSpares DEF initNV
  <2> QED
    BY <2>2, <2>3, <2>4, <2>5 DEF Step
<1>3. PICK F : Swapped(E, F) /\ Spares(F)'
  BY <1>2
<1>4. IsFiniteSet(F) /\ Cardinality(F) <= resets
  <2>1. Cardinality(E) \in Nat
    BY <1>1, FS_CardinalityType
  <2>2. IsFiniteSet(F) /\ Cardinality(F) <= Cardinality(E) /\ Cardinality(F) \in Nat
    BY <1>1, <1>3, SwappedCounts
  <2> QED
    BY <1>1, <2>1, <2>2
<1> QED
  BY <1>3, <1>4 DEF Spare

LEMMA InitSpare ==
  ASSUME Init
  PROVE  Spare
<1>1. Spares({})
  <2>1. Used = {} /\ Slots = {}
    BY DEF Init, Used, Slots
  <2>2. pc \notin CompactPcs /\ \A p : Bad(p) = {}
    BY <2>1 DEF Init, CompactPcs, Bad
  <2> QED
    BY <2>1, <2>2 DEF Spares, Apart
<1>2. IsFiniteSet({}) /\ Cardinality({}) = 0
  BY FS_EmptySet
<1> QED
  BY <1>1, <1>2 DEF Init, Spare

(* The place of the item that the reset tears is lost.                     *)
LEMMA ResetSpare ==
  ASSUME Safe, PagesKept, Spare, Reset
  PROVE  Spare'
<1>1. PICK E : IsFiniteSet(E) /\ Cardinality(E) <= resets /\ Spares(E)
  BY DEF Spare
<1>0. PICK F : F = E \union Fresh
  OBVIOUS
<1>2. /\ UNCHANGED <<pgHdr, items>> /\ resets' = resets + 1 /\ pc' = "initPage"
      /\ Slots' = Slots /\ Used' = Used /\ \A y : ItemAt(y)' = ItemAt(y)
  BY SameFlash DEF Reset, flash
<1>3. Fresh' = {} /\ pc' \notin CompactPcs
  BY <1>2 DEF Fresh, WritePcs, CopyPcs, CompactPcs
<1>4. IsFiniteSet(F) /\ Cardinality(F) <= resets'
  <2>1. Cardinality(E) \in Nat /\ resets \in Nat
    BY <1>1, FS_CardinalityType DEF Safe, Shape
  <2>2. CASE Fresh = {}
    <3>1. F = E
      BY <1>0, <2>2
    <3> QED
      BY <1>1, <1>2, <2>1, <3>1
  <2>3. CASE \E n : Fresh = {n}
    <3>1. PICK n : Fresh = {n}
      BY <2>3
    <3>2. F = E \union {n}
      BY <1>0, <3>1
    <3>3. /\ IsFiniteSet(E \union {n})
          /\ Cardinality(E \union {n}) = IF n \in E THEN Cardinality(E) ELSE Cardinality(E) + 1
      BY <1>1, FS_AddElement
    <3> QED
      BY <1>1, <1>2, <2>1, <3>2, <3>3
  <2> QED
    BY <2>2, <2>3 DEF Fresh
<1>5. ASSUME NEW p \in Pages, Unused(p)
      PROVE  Bad(p) \subseteq F
  <2>1. CASE pc \in ScanPcs
    BY <1>0, <1>1, <1>5, <2>1 DEF Spares
  <2>2. CASE pc \notin ScanPcs
    <3>1. p = pgRes
      BY <1>5, <2>2, ResetFinds
    <3>2. CASE pc \in CompactPcs
      BY <1>0, <1>1, <3>1, <3>2 DEF Spares
    <3>3. CASE pc \in {"idle", "activate", "header"}
      <4>1. items[p] = <<>>
        BY <3>1, <3>3, SafePlaced DEF Placed, Emptied
      <4> QED
        BY <4>1, NoItems DEF Bad
    <3>4. CASE pc \in WritePcs
      <4>1. /\ Fresh = {NewItem} /\ items \in [Pages -> Seq(Item)]
            /\ IF op.dstPg = pgRes THEN Len(items[pgRes]) = 1 ELSE items[pgRes] = <<>>
        BY <3>4, SafePlaced, WritePlaced
      <4>2. CASE op.dstPg # pgRes
        BY <3>1, <4>1, <4>2, NoItems DEF Bad
      <4>3. CASE op.dstPg = pgRes
        <5>1. ASSUME NEW x \in Slots, x[1] = p
              PROVE  x = <<p, 1>>
          <6>1. x = <<p, x[2]>> /\ x[2] \in DOMAIN items[p]
            BY <5>1, SlotParts
          <6>2. x[2] \in 1 .. 1
            BY <3>1, <4>1, <4>3, <6>1, Lengths
          <6> QED
            BY <6>1, <6>2
        <5>2. Fresh = {<<p, 1>>}
          BY <3>1, <4>1, <4>3 DEF NewItem
        <5> QED
          BY <1>0, <5>1, <5>2 DEF Bad
      <4> QED
        BY <4>2, <4>3
    <3> QED
      BY <2>2, <3>2, <3>3, <3>4 DEF Safe, Shape
  <2> QED
    BY <2>1, <2>2
<1>6. Apart(Used \ F)
  BY <1>0, <1>1 DEF Spares
<1>7. Spares(F)'
  <2>1. Apart(Used \ (F \union Fresh))'
    BY <1>2, <1>3, <1>6 DEF Apart
  <2>2. \A p : (Unused(p)' <=> Unused(p)) /\ Bad(p)' = Bad(p)
    BY <1>2 DEF Unused, Bad, Valid
  <2> QED
    BY <1>3, <1>5, <2>1, <2>2 DEF Spares
<1> QED
  BY <1>4, <1>7 DEF Spare

(* The reserve page has a place for the copy: it holds items of other ids, *)
(* one of each, and the places that the two resets have cost; and when the *)
(* item to copy is one of those, one less.                                 *)
LEMMA RoomToCopyTwice ==
  ASSUME RoomForTwo, Placed, Spare, resets \in Nat, resets <= 2, pc = "copyHdr"
  PROVE  Len(items[pgRes]) < PageItems
<1>1. PICK E : IsFiniteSet(E) /\ Cardinality(E) <= resets /\ Spares(E)
  BY DEF Spare
<1>2. pc \in CompactPcs /\ pc \notin CopyPcs
  BY DEF CompactPcs, CopyPcs
<1>3. PICK n, h, r : n = Len(items[pgRes]) /\ h = Here /\ r = pgRes
  OBVIOUS
<1>4. /\ Shape /\ items \in [Pages -> Seq(Item)] /\ Fits /\ r \in Pages
      /\ h \in Used /\ h[1] # r /\ Used \subseteq Slots
      /\ Apart(Used \ E) /\ Bad(r) \subseteq E
  <2>1. Here \in Used
    BY <1>2 DEF Placed, Compacting
  <2>2. Here[1] = pg
    BY DEF Here
  <2>3. Fresh = {}
    BY <1>2, CompactPlaced
  <2>4. Apart(Used \ E)
    BY <1>1, <2>3 DEF Spares, Apart
  <2>5. Bad(pgRes) \subseteq E
    BY <1>1, <1>2, <2>3 DEF Spares
  <2> QED
    BY <1>2, <1>3, <2>1, <2>2, <2>4, <2>5, CompactPlaced
<1>5. n \in Nat /\ DOMAIN items[r] = 1 .. n
  BY <1>3, <1>4, Lengths
<1>6. \A y \in Used : ItemAt(y).id \in Ids
  BY <1>4, ItemsAreItems DEF Used
<1>7. \A j \in 1 .. n : <<r, j>> \in Slots /\ <<r, j>> # h
  BY <1>4, <1>5, PlaceIsSlot
<1> DEFINE A == {j \in 1 .. n : <<r, j>> \in E}
           B == (1 .. n) \ A
           U == IF h \in E THEN E \ {h} ELSE E
           V == IF h \in E THEN Ids ELSE Ids \ {ItemAt(h).id}
           f == [j \in A |-> <<r, j>>]
           g == [j \in B |-> ItemAt(<<r, j>>).id]
<1>8. /\ IsFiniteSet(U) /\ IsFiniteSet(V) /\ Cardinality(U) \in Nat /\ Cardinality(V) \in Nat
      /\ Cardinality(U) + Cardinality(V) <= Cardinality(Ids) + 1
      /\ Cardinality(Ids) \in Nat
  <2>1. /\ IsFiniteSet(Ids) /\ Cardinality(Ids) \in Nat /\ Cardinality(E) \in Nat /\ ItemAt(h).id \in Ids
        /\ Cardinality(E) <= 2
    <3>1. IsFiniteSet(Ids)
      BY DEF RoomForTwo
    <3>2. Cardinality(Ids) \in Nat /\ Cardinality(E) \in Nat
      BY <1>1, <3>1, FS_CardinalityType
    <3> QED
      BY <1>1, <1>4, <1>6, <3>1, <3>2
  <2>2. CASE h \in E
    <3>1. IsFiniteSet(E \ {h}) /\ Cardinality(E \ {h}) = Cardinality(E) - 1
      BY <1>1, <2>2, FS_RemoveElement
    <3>2. U = E \ {h} /\ V = Ids
      BY <2>2
    <3>3. Cardinality(E \ {h}) \in Nat
      BY <3>1, FS_CardinalityType
    <3> QED
      BY <2>1, <3>1, <3>2, <3>3
  <2>3. CASE h \notin E
    <3> DEFINE I == Ids \ {ItemAt(h).id}
    <3>1. IsFiniteSet(I) /\ Cardinality(I) = Cardinality(Ids) - 1
      BY <2>1, FS_RemoveElement
    <3>2. U = E /\ V = I
      BY <2>3
    <3> HIDE DEF I, U, V
    <3>3. Cardinality(I) \in Nat
      BY <3>1, FS_CardinalityType
    <3> QED
      BY <1>1, <2>1, <3>1, <3>2, <3>3
  <2> QED
    BY <2>2, <2>3
<1>9. IsFiniteSet(A) /\ Cardinality(A) <= Cardinality(U)
  <2>1. f \in [A -> U]
    BY <1>7
  <2>2. \A j, k \in A : f[j] = f[k] => j = k
    <3>1. \A j, k \in A : f[j] = f[k] => <<r, j>> = <<r, k>>
      OBVIOUS
    <3> HIDE DEF f, A
    <3> QED
      BY <3>1
  <2> HIDE DEF A, U, f
  <2>3. f \in Injection(A, U)
    BY <2>1, <2>2 DEF Injection, IsInjective
  <2> QED
    BY <1>8, <2>3, FS_Injection
<1>10. IsFiniteSet(B) /\ Cardinality(B) <= Cardinality(V)
  <2>1. \A j \in B : <<r, j>> \in Used \ E
    BY <1>4, <1>7 DEF Bad
  <2>2. \A j \in B : ItemAt(<<r, j>>).id \in Ids /\ (h \notin E => ItemAt(<<r, j>>).id # ItemAt(h).id)
    BY <1>4, <1>6, <1>7, <2>1 DEF Apart
  <2>3. g \in [B -> V]
    BY <2>2
  <2>4. \A j, k \in B : ItemAt(<<r, j>>).id = ItemAt(<<r, k>>).id => j = k
    <3> SUFFICES ASSUME NEW j \in B, NEW k \in B, ItemAt(<<r, j>>).id = ItemAt(<<r, k>>).id
                 PROVE  j = k
      OBVIOUS
    <3>1. <<r, j>> = <<r, k>>
      BY <1>4, <2>1 DEF Apart
    <3> QED
      BY <3>1
  <2>5. \A j, k \in B : g[j] = g[k] => j = k
    BY <2>4
  <2> HIDE DEF B, V, g
  <2>6. g \in Injection(B, V)
    BY <2>3, <2>5 DEF Injection, IsInjective
  <2> QED
    BY <1>8, <2>6, FS_Injection
<1>11. A \union B = 1 .. n
  OBVIOUS
<1>12. A \intersect B = {}
  OBVIOUS
<1> HIDE DEF A, B, U, V
<1>13. Cardinality(A \union B) = Cardinality(A) + Cardinality(B)
  <2>1. Cardinality(A \union B) = Cardinality(A) + Cardinality(B) - Cardinality(A \intersect B)
    BY <1>9, <1>10, FS_Union
  <2>2. Cardinality(A) \in Nat /\ Cardinality(B) \in Nat
    BY <1>9, <1>10, FS_CardinalityType
  <2>3. Cardinality(A \intersect B) = 0
    BY <1>12, FS_EmptySet
  <2> QED
    BY <2>1, <2>2, <2>3
<1>14. Cardinality(1 .. n) = n
  BY <1>5, FS_Interval
<1>15. Cardinality(A) \in Nat /\ Cardinality(B) \in Nat
  BY <1>9, <1>10, FS_CardinalityType
<1>16. n = Cardinality(A) + Cardinality(B)
  BY <1>11, <1>13, <1>14
<1>17. PageItems \in Nat /\ PageItems > Cardinality(Ids) + 1
  BY Numbers DEF RoomForTwo
<1> QED
  BY <1>3, <1>5, <1>8, <1>9, <1>10, <1>15, <1>16, <1>17

(* A stuttering step.                                                      *)
LEMMA PagesNothingNew ==
  ASSUME UNCHANGED vars
  PROVE  (PagesKept => PagesKept') /\ (Erasing => Erasing') /\ (Spare => Spare')
<1>1. /\ UNCHANGED <<pgHdr, items, pgRes, pc, op, pg, offset, newPg, oldPg, resets, expect>>
      /\ Slots' = Slots /\ Used' = Used /\ \A y : ItemAt(y)' = ItemAt(y)
  BY SameFlash DEF vars, flash, ram, scan
<1>2. PagesKept => PagesKept'
  BY <1>1 DEF PagesKept, Marked, Unused, Seen, InUse, Erased, AtMostOne
<1>3. Erasing => Erasing'
  BY <1>1 DEF Erasing, Clean, Valid
<1>4. Fresh' = Fresh /\ (\A p : (Unused(p)' <=> Unused(p)) /\ Bad(p)' = Bad(p)) /\ Bad(pgRes)' = Bad(pgRes)
  BY <1>1 DEF Fresh, NewItem, Copy, Unused, Bad, Valid
<1>5. \A E : Spares(E) => Spares(E)'
  BY <1>1, <1>4 DEF Spares, Apart
<1>6. Spare => Spare'
  BY <1>1, <1>5 DEF Spare
<1> QED
  BY <1>2, <1>3, <1>6

LEMMA StepTallies ==
  ASSUME Placed, Tally, Step \/ Call, pc = "copyHdr" => Len(items[pgRes]) < PageItems
  PROVE  Tally'
BY CallTallies, WriteTallies, CompactTallies, InitNVTallies DEF Step

(* Any step of the specification keeps IInvTwo.                            *)
LEMMA StepInvariantTwo ==
  ASSUME RoomForTwo, RoomForAll, IInvTwo, [Next]_vars
  PROVE  IInvTwo'
<1>1. /\ resets \in Nat
      /\ resets <= 1 => Safe /\ PagesKept /\ Erasing
      /\ resets = 2 => Sound
      /\ resets <= 2 => Spare /\ Tally
  BY DEF IInvTwo
<1>2. resets <= 2 => resets <= 1 \/ resets = 2
  BY <1>1
<1>3. resets <= 2 => Placed
  BY <1>1, <1>2, SafePlaced DEF Sound
<1>4. CASE Reset
  <2>1. resets' = resets + 1 /\ resets' \in Nat
    BY <1>1, <1>4 DEF Reset
  <2>2. resets' <= 1 => resets = 0
    BY <1>1, <2>1
  <2>3. resets' <= 2 => resets <= 1 /\ resets <= 2
    BY <1>1, <2>1
  <2>4. resets = 0 => resets <= 1
    BY <1>1
  <2>5. resets' <= 1 => Safe' /\ PagesKept' /\ Erasing'
    <3>1. pc' = "initPage"
      BY <1>4 DEF Reset
    <3>2. Erasing'
      BY <3>1 DEF Erasing
    <3> QED
      BY <1>1, <1>4, <2>2, <2>4, <3>2, ResetSafe, ResetPages
  <2>6. resets' = 2 => Sound'
    <3>1. resets' = 2 => resets <= 1
      BY <1>1, <2>1
    <3> QED
      BY <1>1, <1>4, <3>1, ResetSound
  <2>7. resets' <= 2 => Spare' /\ Tally'
    BY <1>1, <1>3, <1>4, <2>3, ResetSpare, ResetTallies
  <2> QED
    BY <2>1, <2>5, <2>6, <2>7 DEF IInvTwo
<1>5. CASE Step \/ Call
  <2>1. UNCHANGED resets
    BY <1>5 DEF Step, Call, Lookup, osal_nv_item_init, osal_nv_write, initItem,
                Write, Activate, Header, MarkOld, Data, Checksum, Zero,
                Compact, Mark, CompactItem, CopyHdr, CopyData, CopyZero, Erase, Finish,
                initNV, ScanHeader, ScanItem, ScanEnd, Resume, EraseAll
  <2>2. resets <= 2 /\ pc = "copyHdr" => Len(items[pgRes]) < PageItems
    BY <1>1, <1>3, RoomToCopyTwice
  <2>3. resets <= 2 /\ CopyHdr => Len(items[pgRes]) < PageItems
    BY <2>2 DEF CopyHdr
  <2>4. resets <= 1 => resets <= 2
    BY <1>1
  <2>5. resets = 2 => resets <= 2
    BY <1>1
  <2>6. resets <= 1 => Safe' /\ PagesKept' /\ Erasing'
    BY <1>1, <1>5, <2>2, <2>4, StepKeeps, StepPages, StepErases
  <2>7. resets = 2 => Sound'
    BY <1>1, <1>5, <2>3, <2>5, StepSound
  <2>8. resets <= 2 => Spare' /\ Tally'
    BY <1>1, <1>3, <1>5, <2>1, <2>2, <2>3, StepSpare, StepTallies
  <2> QED
    BY <1>1, <2>1, <2>6, <2>7, <2>8 DEF IInvTwo
<1>6. CASE UNCHANGED vars
  <2>1. UNCHANGED <<flash, pgRes, pc, op, scan, stat, resets, expect>>
    BY <1>6 DEF vars, ram
  <2>2. resets <= 1 => Safe' /\ PagesKept' /\ Erasing'
    BY <1>1, <1>6, <2>1, NothingNew, PagesNothingNew
  <2>3. resets = 2 => Sound'
    BY <1>1, <2>1, SoundSame
  <2>4. resets <= 2 => Spare' /\ Tally'
    BY <1>1, <1>6, PagesNothingNew, NothingTallied
  <2> QED
    BY <1>1, <2>1, <2>2, <2>3, <2>4 DEF IInvTwo
<1> QED
  BY <1>4, <1>5, <1>6 DEF Next

(* More room than the first reset needs.                                   *)
LEMMA TwoIsMore ==
  ASSUME RoomForTwo
  PROVE  RoomForAll
<1>1. Cardinality(Ids) \in Nat
  BY FS_CardinalityType DEF RoomForTwo
<1> QED
  BY <1>1, Numbers DEF RoomForTwo, RoomForAll

(* The state stays as IInvTwo says, whatever the calls and wherever two    *)
(* resets come, the second also during the initNV that follows the first,  *)
(* or during a compaction that is resumed.                                 *)
THEOREM InductiveTwo ==
  ASSUME RoomForTwo
  PROVE  Spec => []IInvTwo
<1>1. Init => IInvTwo
  <2> SUFFICES ASSUME Init
               PROVE  IInvTwo
    OBVIOUS
  <2>1. resets = 0
    BY DEF Init
  <2> QED
    BY <2>1, InitSafe, InitPages, InitSpare, InitTallies DEF IInvTwo
<1>2. IInvTwo /\ [Next]_vars => IInvTwo'
  BY TwoIsMore, StepInvariantTwo
<1> QED
  BY <1>1, <1>2, PTL DEF Spec

(* Between calls no reader gets anything but what is expected, or nothing. *)
LEMMA SoundReads ==
  ASSUME Sound, pc = "idle"
  PROVE  \A i \in Ids : osal_nv_read(i) \in expect[i] \union {Absent}
<1>1. Fresh = {}
  BY DEF Fresh, WritePcs, CopyPcs
<1>2. \A x \in Used : Valid(ItemAt(x))
  BY <1>1 DEF Sound, Placed, Whole
<1>3. \A i \in Ids : Known(i)
  BY DEF Sound, Fitting, Busy, Moving
<1> QED
  BY <1>2, <1>3, KnownReads

(* With room for all items and two more in a page, whatever the calls and  *)
(* wherever two resets come: between calls no reader of an item gets a     *)
(* torn value, or a stale one after a newer one.                           *)
THEOREM NeverStaleInTwoResets ==
  ASSUME RoomForTwo
  PROVE  Spec => [](resets <= 2 => NeverStale)
<1>1. ASSUME IInvTwo, resets <= 2
      PROVE  NeverStale
  <2>1. resets <= 1 \/ resets = 2
    BY <1>1 DEF IInvTwo
  <2> QED
    BY <1>1, <2>1, SafeReads, SoundReads DEF IInvTwo, NeverStale
<1> QED
  BY <1>1, InductiveTwo, PTL

(* The same where two resets are all there are: between calls no reader of *)
(* an item gets a torn value, or a stale one after a newer one.            *)
THEOREM NoReaderIsStale ==
  ASSUME RoomForTwo, MaxResets <= 2
  PROVE  Spec => []NeverStale
<1>1. (resets \in Nat /\ resets <= MaxResets) => resets <= 2
  BY NvAssumption
<1> QED
  BY <1>1, NeverStaleInTwoResets, ResetsBounded, PTL

(* With the same room, up to the third reset: no page is written past its  *)
(* end, the flash holds items only, and pgLost never promises more room    *)
(* than a compaction wins back.                                            *)
THEOREM TypesUpToTheThirdReset ==
  ASSUME RoomForTwo
  PROVE  Spec => [](resets <= 2 => TypeOK)
<1>1. ASSUME IInvTwo, resets <= MaxResets, resets <= 2
      PROVE  TypeOK
  <2>1. resets <= 1 \/ resets = 2
    BY <1>1 DEF IInvTwo
  <2>2. Placed
    BY <1>1, <2>1, SafePlaced DEF IInvTwo, Sound
  <2> QED
    BY <1>1, <2>2, PlacedTypes DEF IInvTwo
<1> QED
  BY <1>1, InductiveTwo, ResetsBounded, PTL
=============================================================================
