--------------------------- MODULE SmartHomeProofs ---------------------------
(***************************************************************************)
(* Proofs about the application and the serial port under it, for buffers  *)
(* and rings of every size, any number of nodes and inputs, and interrupts *)
(* between any two critical sections.                                      *)
(*                                                                         *)
(* HomeIInv, the port: it loses, doubles and overtakes nothing (PortExact).*)
(* Its parts are predicates of the driver's record x and of the history o  *)
(* or n.  PortSizes: buffers and indices stay within their sizes.          *)
(* Counted, the home: a motor's turns, the commands on their way to it and *)
(* the bytes nobody has handled came in as bytes.  HomeSafe is all three.  *)
(***************************************************************************)
EXTENDS SmartHome, SequenceTheorems, FiniteSetTheorems, FunctionTheorems,
        WellFoundedInduction, TLAPS

Fields ==
  {"txBuf", "txSel", "armed", "irq", "sent", "txMT", "txShdwValid", "txAge", "txDMAPending",
   "dbuf", "dbufAge", "rxBuf", "rxHead", "rxTail", "rxDma", "rxTick", "rxAge", "evt", "chunk"}

Filling(x) == x.txBuf[x.txSel]
Draining(x) == x.txBuf[1 - x.txSel]
Sending(x) == x.armed \/ x.irq

TxTypes(x, o) ==
  /\ DOMAIN x = Fields
  /\ x.txBuf \in [0 .. 1 -> Seq(Items)] /\ x.txSel \in 0 .. 1 /\ x.sent \in Nat
  /\ x.armed \in BOOLEAN /\ x.irq \in BOOLEAN
  /\ x.txShdwValid \in BOOLEAN /\ x.txDMAPending \in BOOLEAN
  /\ x.txAge \in 0 .. Wrap - 1
  /\ x.dbuf \in Items \cup {None} /\ x.dbufAge \in 0 .. TxTick
  /\ o \in Seq(Items)

(* The DMA owns the other buffer as long as it holds something; a byte is  *)
(* in the data register while the DMA runs, or no longer than the shadow   *)
(* says; the DMA is asked for only when it is at rest.                     *)
Line(x) ==
  /\ x.armed => ~ x.irq /\ 1 <= x.sent /\ x.sent < Len(Draining(x))
  /\ Sending(x) <=> Draining(x) # <<>>
  /\ x.txShdwValid => ~ Sending(x)
  /\ x.dbuf # None => Sending(x) \/ (x.txShdwValid /\ x.txAge <= x.dbufAge)
  /\ x.txDMAPending => Filling(x) # <<>> /\ Draining(x) = <<>>

(* What is owed ends with the buffer that is being filled.                 *)
Register(x) == IF x.dbuf = None THEN <<>> ELSE <<x.dbuf>>
Unsent(x) == IF x.armed THEN SubSeq(Draining(x), x.sent + 1, Len(Draining(x))) ELSE <<>>

TxOK(x, o) == TxTypes(x, o) /\ Line(x) /\ o = Register(x) \o Unsent(x) \o Filling(x)

RxTypes(x, n) ==
  /\ DOMAIN x = Fields
  /\ x.rxBuf \in [0 .. RxMax - 1 -> Bytes \cup {None}]
  /\ x.rxHead \in 0 .. RxMax - 1 /\ x.rxDma \in 0 .. RxMax - 1
  /\ x.chunk \in Seq(Bytes) /\ n \in Seq(Bytes)

Round(a) == a % RxMax
Slot(h, i) == Round(h + (i - 1))

RxOK(x, n) ==
  /\ RxTypes(x, n)
  /\ x.rxDma = Round(x.rxHead + Len(n))
  /\ Len(n) <= RxMax
  /\ \A i \in 1 .. RxMax : x.rxBuf[Slot(x.rxHead, i)] = IF i <= Len(n) THEN n[i] ELSE None

Writing(x, where, w) ==
  where = "write" => w.item \in Items /\ w.sel = x.txSel /\ w.idx = Len(Filling(x))

UartIInv == TxOK(u, owed) /\ RxOK(u, unread) /\ Writing(u, at, wr)

Messages == [bytes : Seq(Bytes), writes : Seq(Items)]

HomeIInv == UartIInv /\ inbox \in Seq(Messages)

LEMMA UartNumbers ==
  /\ RxMax \in Nat \ {0} /\ TxTick \in Nat \ {0} /\ Wrap \in Nat /\ TxTick + 1 < Wrap
  /\ None \notin Items /\ None \notin Bytes
<1>1. RxMax \in Nat \ {0} /\ TxTick \in Nat \ {0}
  BY UartAssumption
<1>2. Wrap \in Nat /\ TxTick + 1 < Wrap
  BY UartAssumption
<1>3. None \notin Items /\ None \notin Bytes
  BY UartAssumption, Zenon
<1> QED
  BY <1>1, <1>2, <1>3

-----------------------------------------------------------------------------
(* The transmit side.                                                      *)

LEMMA TxNext ==
  ASSUME NEW x, NEW o, u' = x, owed' = o, TxOK(x, o)
  PROVE  TxOK(u, owed)'
BY DEF TxOK, TxTypes, Line, Register, Unsent, Filling, Draining, Sending

LEMMA RxNext ==
  ASSUME NEW x, NEW n, u' = x, unread' = n, RxOK(x, n)
  PROVE  RxOK(u, unread)'
BY DEF RxOK, RxTypes, Slot, Round

LEMMA Parts ==
  ASSUME NEW x, NEW o, TxTypes(x, o), Line(x)
  PROVE  /\ Filling(x) \in Seq(Items) /\ Draining(x) \in Seq(Items)
         /\ Register(x) \in Seq(Items) /\ Unsent(x) \in Seq(Items)
<1>1. Filling(x) \in Seq(Items) /\ Draining(x) \in Seq(Items)
  BY DEF TxTypes, Filling, Draining
<1>2. x.armed => Unsent(x) \in Seq(Items)
  <2> SUFFICES ASSUME x.armed
               PROVE  SubSeq(Draining(x), x.sent + 1, Len(Draining(x))) \in Seq(Items)
    BY DEF Unsent
  <2>1. Len(Draining(x)) \in Nat /\ \A i \in 1 .. Len(Draining(x)) : Draining(x)[i] \in Items
    BY <1>1, LenProperties, ElementOfSeq
  <2>2. x.sent + 1 \in Int /\ \A i \in x.sent + 1 .. Len(Draining(x)) : i \in 1 .. Len(Draining(x))
    BY <2>1 DEF TxTypes
  <2> QED
    BY <2>1, <2>2, SubSeqProperties
<1>3. Unsent(x) \in Seq(Items)
  BY <1>2, EmptySeq DEF Unsent
<1>4. Register(x) \in Seq(Items)
  BY EmptySeq DEF TxTypes, Register
<1> QED
  BY <1>1, <1>3, <1>4

LEMMA TxKept ==
  ASSUME NEW x, NEW o, TxOK(x, o), NEW y, DOMAIN y = Fields,
         y.txBuf = x.txBuf, y.txSel = x.txSel, y.armed = x.armed, y.irq = x.irq,
         y.sent = x.sent, y.dbuf = x.dbuf, y.dbufAge = x.dbufAge,
         y.txDMAPending = x.txDMAPending,
         \/ y.txShdwValid = x.txShdwValid /\ y.txAge = x.txAge
         \/ y.txShdwValid = FALSE /\ y.txAge = 0 /\ (x.dbuf = None \/ Sending(x))
  PROVE  TxOK(y, o)
<1>1. Filling(y) = Filling(x) /\ Draining(y) = Draining(x) /\ (Sending(y) <=> Sending(x))
      /\ Register(y) = Register(x) /\ Unsent(y) = Unsent(x)
  BY DEF Filling, Draining, Sending, Register, Unsent
<1>2. TxTypes(y, o)
  <2>1. x.txAge \in 0 .. Wrap - 1 /\ x.txShdwValid \in BOOLEAN /\ 0 \in 0 .. Wrap - 1
    BY UartNumbers DEF TxOK, TxTypes
  <2>2. y.txAge \in 0 .. Wrap - 1 /\ y.txShdwValid \in BOOLEAN
    BY <2>1, Zenon
  <2> QED
    BY <2>2, Zenon DEF TxOK, TxTypes
<1>3. Line(y)
  BY <1>1 DEF TxOK, TxTypes, Line
<1> QED
  BY <1>1, <1>2, <1>3 DEF TxOK

(* The end of a transmit, by interrupt or by poll.                         *)
LEMMA IsrKeeps ==
  ASSUME NEW x, NEW o, TxOK(x, o), ~ x.armed
  PROVE  TxOK(HalUARTIsrDMA(x), o)
<1> DEFINE pending == x.txDMAPending \/ Filling(x) # <<>>
           y == HalUARTIsrDMA(x)
<1>1. y = [x EXCEPT !.irq = FALSE, !.txBuf[1 - x.txSel] = <<>>, !.txMT = TRUE,
                    !.txShdwValid = TRUE, !.txAge = 0, !.sent = 0, !.txDMAPending = pending]
  BY Zenon DEF HalUARTIsrDMA, Filling
<1>2. pending \in BOOLEAN /\ (pending <=> x.txDMAPending \/ Filling(x) # <<>>)
  OBVIOUS
<1> HIDE DEF pending, y
<1>3. /\ DOMAIN y = Fields /\ y.txSel = x.txSel /\ y.armed = x.armed /\ y.irq = FALSE
      /\ y.sent = 0 /\ y.txShdwValid = TRUE /\ y.txAge = 0 /\ y.txDMAPending = pending
      /\ y.dbuf = x.dbuf /\ y.dbufAge = x.dbufAge
      /\ y.txBuf = [x.txBuf EXCEPT ![1 - x.txSel] = <<>>]
  BY <1>1 DEF TxOK, TxTypes, Fields
<1>4. x.txSel \in 0 .. 1 /\ x.txBuf \in [0 .. 1 -> Seq(Items)] /\ <<>> \in Seq(Items)
  BY EmptySeq DEF TxOK, TxTypes
<1>5. y.txBuf \in [0 .. 1 -> Seq(Items)] /\ Filling(y) = Filling(x) /\ Draining(y) = <<>>
  BY <1>3, <1>4 DEF Filling, Draining
<1>6. TxTypes(y, o)
  <2>1. y.txAge \in 0 .. Wrap - 1 /\ y.sent \in Nat /\ y.txSel \in 0 .. 1
    BY <1>3, <1>4, UartNumbers
  <2>2. y.irq \in BOOLEAN /\ y.txShdwValid \in BOOLEAN /\ y.txDMAPending \in BOOLEAN
    BY <1>2, <1>3
  <2> QED
    BY <1>3, <1>5, <2>1, <2>2, Zenon DEF TxOK, TxTypes
<1>7. Line(y)
  BY <1>2, <1>3, <1>5 DEF TxOK, TxTypes, Line, Sending
<1>8. Register(y) = Register(x) /\ Unsent(y) = Unsent(x)
  BY <1>3 DEF Register, Unsent
<1> QED
  BY <1>5, <1>6, <1>7, <1>8, Zenon DEF TxOK, y

(* The poll starts the DMA on what was written: nothing is on its way.     *)
LEMMA FireKeeps ==
  ASSUME NEW x, NEW o, TxOK(x, o), x.txDMAPending, ~ x.txShdwValid
  PROVE  TxOK(Fire(x), o)
<1> DEFINE q == Filling(x)
           y == Fire(x)
           more == Len(q) > 1
           last == Len(q) = 1
<1>1. q \in Seq(Items) /\ q # <<>> /\ Len(q) \in Nat /\ Len(q) >= 1 /\ Draining(x) = <<>>
      /\ Head(q) \in Items /\ x.txSel \in 0 .. 1 /\ x.txBuf \in [0 .. 1 -> Seq(Items)]
      /\ x.dbuf = None /\ ~ x.armed /\ ~ x.irq
  <2>1. q \in Seq(Items) /\ x.txSel \in 0 .. 1 /\ x.txBuf \in [0 .. 1 -> Seq(Items)]
    BY DEF TxOK, TxTypes, Filling
  <2>2. q # <<>> /\ Draining(x) = <<>> /\ ~ Sending(x) /\ x.dbuf = None
    BY DEF TxOK, Line
  <2>3. Len(q) \in Nat \ {0}
    BY <2>1, <2>2, EmptySeq
  <2>4. Head(q) \in Items
    BY <2>1, <2>2, HeadTailProperties
  <2> QED
    BY <2>1, <2>2, <2>3, <2>4 DEF Sending
<1>2. y = [x EXCEPT !.txDMAPending = FALSE, !.txSel = 1 - x.txSel, !.sent = 1,
                    !.dbuf = Head(q), !.dbufAge = 0, !.armed = more, !.irq = last]
  BY Zenon DEF Fire, Filling
<1>3. more \in BOOLEAN /\ last \in BOOLEAN /\ (more \/ last)
      /\ (more => ~ last /\ 1 <= 1 /\ 1 < Len(q)) /\ (~ more => Len(q) = 1)
  <2>1. \A k \in Nat : k >= 1 =>
          /\ k > 1 \/ k = 1
          /\ k > 1 => k # 1 /\ 1 <= 1 /\ 1 < k
    OBVIOUS
  <2> HIDE DEF q
  <2>2. /\ Len(q) > 1 \/ Len(q) = 1
        /\ Len(q) > 1 => Len(q) # 1 /\ 1 <= 1 /\ 1 < Len(q)
    <3>1. Len(q) \in Nat /\ Len(q) >= 1
      BY <1>1
    <3> QED
      BY <2>1, <3>1
  <2> QED
    BY <2>2
<1> HIDE DEF q, y, more, last
<1>4. /\ DOMAIN y = Fields /\ y.txBuf = x.txBuf /\ y.txSel = 1 - x.txSel
      /\ y.armed = more /\ y.irq = last /\ y.sent = 1 /\ y.txShdwValid = x.txShdwValid
      /\ y.txAge = x.txAge /\ y.txDMAPending = FALSE /\ y.dbuf = Head(q) /\ y.dbufAge = 0
  BY <1>2 DEF TxOK, TxTypes, Fields
<1>5. y.txSel \in 0 .. 1 /\ Draining(y) = q /\ Filling(y) = <<>>
  BY <1>1, <1>4 DEF Draining, Filling, q
<1>6. TxTypes(y, o)
  <2>1. 1 \in Nat /\ 0 \in 0 .. TxTick /\ x.txAge \in 0 .. Wrap - 1 /\ x.txShdwValid \in BOOLEAN
        /\ o \in Seq(Items)
    BY UartNumbers DEF TxOK, TxTypes
  <2> QED
    BY <1>1, <1>3, <1>4, <1>5, <2>1, Zenon DEF TxTypes
<1>7. Line(y)
  <2>2. Sending(y) /\ (y.armed => ~ y.irq /\ 1 <= y.sent /\ y.sent < Len(Draining(y)))
    BY <1>3, <1>4, <1>5, Zenon DEF Sending
  <2> QED
    BY <1>1, <1>4, <1>5, <2>2, Zenon DEF Line
<1>8. o = q
  <2>1. Register(x) = <<>> /\ Unsent(x) = <<>>
    BY <1>1 DEF Register, Unsent
  <2>2. <<>> \o <<>> = <<>> /\ <<>> \o q = q
    BY <1>1, ConcatEmptySeq, EmptySeq
  <2> QED
    BY <2>1, <2>2 DEF TxOK, q
<1>9. Register(y) \o Unsent(y) \o Filling(y) = q
  <2>1. q = SubSeq(q, 1, Len(q)) /\ Head(q) = q[1]
    BY <1>1, SubSeqFull
  <2>2. SubSeq(q, 1, Len(q)) = <<q[1]>> \o SubSeq(q, 2, Len(q))
    <3>1. 1 \in 1 .. Len(q) /\ Len(q) \in 1 .. Len(q) /\ 1 + 1 = 2
      BY <1>1
    <3> QED
      BY <1>1, <3>1, SubSeqRecursiveFirst
  <2>3. Register(y) = <<Head(q)>>
    BY <1>1, <1>4, UartNumbers DEF Register
  <2>4. Unsent(y) = SubSeq(q, 2, Len(q))
    <3>1. CASE more
      BY <1>4, <1>5, <3>1 DEF Unsent
    <3>2. CASE ~ more
      <4>1. Len(q) = 1 /\ Unsent(y) = <<>>
        BY <1>3, <1>4, <3>2 DEF Unsent
      <4>2. SubSeq(q, 2, 1) = <<>>
        BY SubSeqEmpty
      <4> QED
        BY <4>1, <4>2
    <3> QED
      BY <3>1, <3>2
  <2>5. Register(y) \o Unsent(y) = q
    BY <2>1, <2>2, <2>3, <2>4
  <2> QED
    BY <1>1, <1>5, <2>5, ConcatEmptySeq
<1> QED
  BY <1>6, <1>7, <1>8, <1>9, Zenon DEF TxOK, y

(* The DMA moves the next byte into the empty data register.               *)
LEMMA DmaKeeps ==
  ASSUME TxOK(u, owed), DmaNext
  PROVE  TxOK(u, owed)'
<1> DEFINE b == Draining(u)
           n == u.sent + 1
           more == n < Len(b)
           last == n = Len(b)
           y == [u EXCEPT !.dbuf = b[n], !.dbufAge = 0, !.sent = n, !.armed = more, !.irq = last]
<1>1. u.armed /\ u.dbuf = None /\ owed' = owed /\ u' = y
  BY Zenon DEF DmaNext, Draining
<1>2. /\ b \in Seq(Items) /\ b # <<>> /\ Len(b) \in Nat /\ n \in Nat /\ n \in 1 .. Len(b) /\ b[n] \in Items
      /\ u.sent \in Nat /\ 1 <= u.sent /\ ~ u.txShdwValid /\ ~ u.txDMAPending
  <2>1. b \in Seq(Items) /\ u.sent \in Nat
    BY DEF TxOK, TxTypes, Draining
  <2>2. b # <<>> /\ 1 <= u.sent /\ u.sent < Len(b) /\ ~ u.txShdwValid /\ ~ u.txDMAPending
    BY <1>1 DEF TxOK, Line, Sending
  <2>3. Len(b) \in Nat
    BY <2>1, LenProperties
  <2>4. n \in 1 .. Len(b) /\ n \in Nat
    BY <2>1, <2>2, <2>3
  <2>5. b[n] \in Items
    BY <2>1, <2>4, ElementOfSeq
  <2> QED
    BY <2>1, <2>2, <2>3, <2>4, <2>5
<1>3. more \in BOOLEAN /\ last \in BOOLEAN /\ (more \/ last) /\ (more => ~ last /\ 1 <= n /\ n < Len(b))
  BY <1>2
<1>4. /\ DOMAIN y = Fields /\ y.txBuf = u.txBuf /\ y.txSel = u.txSel
      /\ y.armed = more /\ y.irq = last /\ y.sent = n /\ y.txShdwValid = u.txShdwValid
      /\ y.txAge = u.txAge /\ y.txDMAPending = u.txDMAPending /\ y.dbuf = b[n] /\ y.dbufAge = 0
  <2> HIDE DEF b, n, more, last
  <2> QED
    BY DEF TxOK, TxTypes, Fields
<1> HIDE DEF b, y, more, last
<1>5. Draining(y) = b /\ Filling(y) = Filling(u)
  BY <1>4 DEF Draining, Filling, b
<1>6. TxTypes(y, owed)
  <2>1. 0 \in 0 .. TxTick
    BY UartNumbers
  <2> HIDE DEF n
  <2> QED
    BY <1>2, <1>3, <1>4, <2>1, Zenon DEF TxOK, TxTypes
<1>7. Line(y)
  <2> HIDE DEF n
  <2>1. Sending(y) /\ (y.armed => ~ y.irq /\ 1 <= y.sent /\ y.sent < Len(Draining(y)))
    BY <1>3, <1>4, <1>5, Zenon DEF Sending
  <2> QED
    BY <1>2, <1>4, <1>5, <2>1, Zenon DEF Line
<1>8. Register(u) \o Unsent(u) = Register(y) \o Unsent(y)
  <2>1. Register(u) = <<>> /\ Register(y) = <<b[n]>>
    BY <1>1, <1>2, <1>4, UartNumbers DEF Register
  <2>2. Unsent(u) = SubSeq(b, n, Len(b))
    BY <1>1 DEF Unsent, b
  <2>3. Unsent(y) = SubSeq(b, n + 1, Len(b))
    <3>1. CASE more
      BY <1>4, <1>5, <3>1 DEF Unsent
    <3>2. CASE ~ more
      <4>1. n = Len(b) /\ n + 1 \in Int /\ Len(b) \in Int /\ Len(b) < n + 1
        BY <1>2, <3>2 DEF more
      <4> QED
        BY <1>4, <3>2, <4>1, SubSeqEmpty DEF Unsent
    <3> QED
      BY <3>1, <3>2
  <2>4. SubSeq(b, n, Len(b)) = <<b[n]>> \o SubSeq(b, n + 1, Len(b))
    <3>1. n \in 1 .. Len(b) /\ Len(b) \in n .. Len(b)
      BY <1>2
    <3> QED
      BY <1>2, <3>1, SubSeqRecursiveFirst
  <2>5. Unsent(u) \in Seq(Items)
    BY Parts DEF TxOK
  <2> QED
    BY <2>1, <2>2, <2>3, <2>4, <2>5, ConcatEmptySeq
<1>9. TxOK(y, owed)
  BY <1>5, <1>6, <1>7, <1>8, Zenon DEF TxOK
<1> QED
  BY <1>1, <1>9, TxNext

(* The data register is emptied: what is owed longest is on the line.      *)
LEMMA TakeKeeps ==
  ASSUME TxOK(u, owed), UartTakes
  PROVE  TxOK(u, owed)'
<1> DEFINE y == [u EXCEPT !.dbuf = None, !.dbufAge = 0]
           rest == Unsent(u) \o Filling(u)
<1>1. u.dbuf # None /\ u.dbuf \in Items /\ u' = y
      /\ owed' = IF owed # <<>> /\ Head(owed) = u.dbuf THEN Tail(owed) ELSE owed
  BY DEF UartTakes, TxOK, TxTypes
<1>2. /\ DOMAIN y = Fields /\ y.txBuf = u.txBuf /\ y.txSel = u.txSel
      /\ y.armed = u.armed /\ y.irq = u.irq /\ y.sent = u.sent /\ y.txShdwValid = u.txShdwValid
      /\ y.txAge = u.txAge /\ y.txDMAPending = u.txDMAPending /\ y.dbuf = None /\ y.dbufAge = 0
  BY DEF TxOK, TxTypes, Fields
<1> HIDE DEF y
<1>3. rest \in Seq(Items) /\ Unsent(u) \in Seq(Items) /\ Filling(u) \in Seq(Items)
  <2>1. Unsent(u) \in Seq(Items) /\ Filling(u) \in Seq(Items)
    BY Parts DEF TxOK
  <2> QED
    BY <2>1, ConcatProperties
<1>4. owed = <<u.dbuf>> \o rest
  <2>1. owed = <<u.dbuf>> \o Unsent(u) \o Filling(u) /\ <<u.dbuf>> \in Seq(Items)
    BY <1>1 DEF TxOK, Register
  <2> QED
    BY <1>3, <2>1, ConcatAssociative
<1> HIDE DEF rest
<1>5. owed # <<>> /\ Head(owed) = u.dbuf /\ Tail(owed) = rest
  BY <1>1, <1>3, <1>4
<1>6. owed' = rest
  BY <1>1, <1>5
<1>7. /\ Filling(y) = Filling(u) /\ Draining(y) = Draining(u) /\ (Sending(y) <=> Sending(u))
      /\ Unsent(y) = Unsent(u) /\ Register(y) = <<>>
  BY <1>2 DEF Filling, Draining, Sending, Unsent, Register
<1>8. TxTypes(y, rest)
  <2>1. 0 \in 0 .. TxTick
    BY UartNumbers
  <2> QED
    BY <1>2, <1>3, <2>1, Zenon DEF TxOK, TxTypes
<1>9. Line(y)
  BY <1>2, <1>7, Zenon DEF TxOK, Line
<1>10. rest = Register(y) \o Unsent(y) \o Filling(y)
  <2>1. <<>> \o Unsent(u) = Unsent(u)
    BY <1>3, ConcatEmptySeq
  <2> QED
    BY <1>7, <2>1 DEF rest
<1>11. TxOK(y, rest)
  BY <1>8, <1>9, <1>10, Zenon DEF TxOK
<1> QED
  BY <1>1, <1>6, <1>11, TxNext

(* A write: the buffer that is filled grows by the item.                   *)
LEMMA CommitKeeps ==
  ASSUME TxOK(u, owed), Writing(u, at, wr), NEW to, WriteCommit(to)
  PROVE  TxOK(u, owed)'
<1> DEFINE q == Filling(u)
           pending == u.txDMAPending \/ Draining(u) = <<>>
           y == [u EXCEPT !.txBuf[u.txSel] = Append(q, wr.item), !.txDMAPending = pending]
<1>1. q \in Seq(Items) /\ u.txSel \in 0 .. 1 /\ u.txBuf \in [0 .. 1 -> Seq(Items)]
      /\ owed \in Seq(Items) /\ wr.item \in Items
  BY DEF TxOK, TxTypes, Filling, WriteCommit, Writing
<1>2. u' = y /\ owed' = Append(owed, wr.item)
  <2>1. wr.sel = u.txSel /\ wr.idx = Len(q)
    BY DEF WriteCommit, Writing
  <2>2. SubSeq(q, 1, wr.idx) = q
    BY <1>1, <2>1, SubSeqFull
  <2> QED
    BY <2>1, <2>2, Zenon DEF WriteCommit, Filling, Draining
<1>3. pending \in BOOLEAN /\ (pending <=> u.txDMAPending \/ Draining(u) = <<>>)
  OBVIOUS
<1> HIDE DEF q, pending
<1>4. /\ DOMAIN y = Fields /\ y.txSel = u.txSel /\ y.armed = u.armed /\ y.irq = u.irq
      /\ y.sent = u.sent /\ y.txShdwValid = u.txShdwValid /\ y.txAge = u.txAge
      /\ y.txDMAPending = pending /\ y.dbuf = u.dbuf /\ y.dbufAge = u.dbufAge
      /\ y.txBuf = [u.txBuf EXCEPT ![u.txSel] = Append(q, wr.item)]
  BY DEF TxOK, TxTypes, Fields
<1> HIDE DEF y
<1>5. /\ Append(q, wr.item) \in Seq(Items) /\ Append(q, wr.item) # <<>>
      /\ Append(q, wr.item) = q \o <<wr.item>> /\ Append(owed, wr.item) = owed \o <<wr.item>>
      /\ Append(owed, wr.item) \in Seq(Items)
  BY <1>1, AppendProperties, AppendIsConcat
<1>6. y.txBuf \in [0 .. 1 -> Seq(Items)] /\ Filling(y) = Append(q, wr.item) /\ Draining(y) = Draining(u)
  BY <1>1, <1>4, <1>5, SMTT(40) DEF Filling, Draining
<1>7. Sending(y) <=> Sending(u)
  BY <1>4 DEF Sending
<1>8. TxTypes(y, owed')
  BY <1>2, <1>3, <1>4, <1>5, <1>6, Zenon DEF TxOK, TxTypes
<1>9. Line(y)
  <2>1. y.txDMAPending => Draining(y) = <<>>
    BY <1>3, <1>4, <1>6, Zenon DEF TxOK, Line
  <2> QED
    BY <1>4, <1>5, <1>6, <1>7, <2>1, Zenon DEF TxOK, Line
<1>10. owed' = Register(y) \o Unsent(y) \o Filling(y)
  <2>1. Register(u) \in Seq(Items) /\ Unsent(u) \in Seq(Items)
    BY Parts DEF TxOK
  <2>2. Register(u) \o Unsent(u) \in Seq(Items) /\ <<wr.item>> \in Seq(Items)
    BY <1>1, <2>1, ConcatProperties
  <2>3. (Register(u) \o Unsent(u) \o q) \o <<wr.item>> = Register(u) \o Unsent(u) \o (q \o <<wr.item>>)
    <3> DEFINE a == Register(u) \o Unsent(u)
               c == <<wr.item>>
    <3>1. a \in Seq(Items) /\ c \in Seq(Items) /\ q \in Seq(Items)
      BY <1>1, <2>2
    <3> HIDE DEF a, c
    <3>2. (a \o q) \o c = a \o (q \o c)
      BY <3>1, ConcatAssociative
    <3> QED
      BY <3>2 DEF a, c
  <2>4. Register(y) = Register(u) /\ Unsent(y) = Unsent(u)
    BY <1>4, <1>6 DEF Register, Unsent
  <2>5. owed = Register(u) \o Unsent(u) \o q
    BY DEF TxOK, q
  <2> QED
    BY <1>2, <1>5, <1>6, <2>3, <2>4, <2>5, Zenon
<1>11. TxOK(y, owed')
  BY <1>8, <1>9, <1>10, Zenon DEF TxOK
<1> QED
  BY <1>2, <1>11, TxNext

(* Time passes: no byte is in the data register for longer than a          *)
(* character, and the shadow does not wrap around while one is.            *)
LEMMA TickKeeps ==
  ASSUME TxOK(u, owed), Tick
  PROVE  TxOK(u, owed)'
<1> DEFINE age == IF u.txShdwValid THEN (u.txAge + 1) % Wrap ELSE 0
           rx == IF u.rxTick > 0 THEN (u.rxAge + 1) % Wrap ELSE 0
           stay == IF u.dbuf # None THEN u.dbufAge + 1 ELSE 0
           y == [u EXCEPT !.txAge = age, !.rxAge = rx, !.dbufAge = stay]
<1>1. u' = y /\ owed' = owed /\ (u.dbuf # None => u.dbufAge < TxTick)
  BY DEF Tick
<1>2. age \in 0 .. Wrap - 1 /\ stay \in 0 .. TxTick
      /\ (u.dbuf # None /\ u.txShdwValid /\ u.txAge <= u.dbufAge => age <= stay)
  <2>1. /\ u.txAge \in 0 .. Wrap - 1 /\ u.dbufAge \in 0 .. TxTick
        /\ Wrap \in Nat \ {0} /\ TxTick \in Nat /\ TxTick + 1 < Wrap
    BY UartNumbers DEF TxOK, TxTypes
  <2>2. age \in 0 .. Wrap - 1
    <3>1. (u.txAge + 1) % Wrap \in 0 .. Wrap - 1
      BY <2>1
    <3> QED
      BY <2>1, <3>1
  <2>3. u.txAge + 1 < Wrap => (u.txAge + 1) % Wrap = u.txAge + 1
    BY <2>1
  <2> QED
    BY <1>1, <2>1, <2>2, <2>3
<1> HIDE DEF age, rx, stay
<1>3. /\ DOMAIN y = Fields /\ y.txBuf = u.txBuf /\ y.txSel = u.txSel /\ y.armed = u.armed
      /\ y.irq = u.irq /\ y.sent = u.sent /\ y.txShdwValid = u.txShdwValid /\ y.txAge = age
      /\ y.txDMAPending = u.txDMAPending /\ y.dbuf = u.dbuf /\ y.dbufAge = stay
  BY DEF TxOK, TxTypes, Fields
<1> HIDE DEF y
<1>4. Filling(y) = Filling(u) /\ Draining(y) = Draining(u) /\ (Sending(y) <=> Sending(u))
      /\ Register(y) = Register(u) /\ Unsent(y) = Unsent(u)
  BY <1>3 DEF Filling, Draining, Sending, Register, Unsent
<1>5. TxTypes(y, owed)
  BY <1>2, <1>3, Zenon DEF TxOK, TxTypes
<1>6. Line(y)
  BY <1>2, <1>3, <1>4, Zenon DEF TxOK, Line
<1>7. TxOK(y, owed)
  BY <1>4, <1>5, <1>6, Zenon DEF TxOK
<1> QED
  BY <1>1, <1>7, TxNext

-----------------------------------------------------------------------------
(* The receive side.                                                       *)

LEMMA RingSize == RxMax \in Nat \ {0}
BY UartNumbers

LEMMA RoundFacts ==
  ASSUME NEW a \in 0 .. RxMax + RxMax - 1
  PROVE  Round(a) = IF a < RxMax THEN a ELSE a - RxMax
BY RingSize DEF Round

LEMMA RoundBelow ==
  ASSUME NEW a \in Nat, a < RxMax
  PROVE  Round(a) = a
<1>1. a \in 0 .. RxMax + RxMax - 1
  BY RingSize
<1> QED
  BY <1>1, RoundFacts

LEMMA RoundSum ==
  ASSUME NEW h \in 0 .. RxMax - 1, NEW k \in 0 .. RxMax
  PROVE  Round(h + k) = IF h + k < RxMax THEN h + k ELSE h + k - RxMax
<1>1. h + k \in 0 .. RxMax + RxMax - 1
  BY RingSize
<1> QED
  BY <1>1, RingSize, RoundFacts

LEMMA RoundNext ==
  ASSUME NEW h \in 0 .. RxMax - 1
  PROVE  Round(h + 1) = IF h + 1 < RxMax THEN h + 1 ELSE 0
<1>1. 1 \in 0 .. RxMax /\ h \in Nat /\ h <= RxMax - 1 /\ RxMax \in Nat
  BY RingSize
<1>2. Round(h + 1) = IF h + 1 < RxMax THEN h + 1 ELSE h + 1 - RxMax
  BY <1>1, RoundSum
<1> QED
  BY <1>1, <1>2

(* The slots of the ring, counted from the head: one round, each once, and *)
(* the same ones one further on when the head moves.                       *)
LEMMA SlotFacts ==
  ASSUME NEW h \in 0 .. RxMax - 1
  PROVE  /\ \A i \in 1 .. RxMax : Slot(h, i) \in 0 .. RxMax - 1
         /\ \A i, j \in 1 .. RxMax : Slot(h, i) = Slot(h, j) => i = j
         /\ Slot(h, 1) = h
         /\ Slot(h, RxMax + 1) = h
         /\ \A i \in 1 .. RxMax : Slot(Round(h + 1), i) = Slot(h, i + 1)
         /\ Round(h + 1) \in 0 .. RxMax - 1
<1>1. RxMax \in Nat \ {0}
  BY RingSize
<1>3. \A i \in 1 .. RxMax + 1 :
        Slot(h, i) = IF h + (i - 1) < RxMax THEN h + (i - 1) ELSE h + (i - 1) - RxMax
  <2> SUFFICES ASSUME NEW i \in 1 .. RxMax + 1
               PROVE  Slot(h, i) = IF h + (i - 1) < RxMax THEN h + (i - 1) ELSE h + (i - 1) - RxMax
    OBVIOUS
  <2>1. h + (i - 1) \in 0 .. RxMax + RxMax - 1
    BY <1>1
  <2> QED
    BY <1>1, <2>1, RoundFacts DEF Slot
<1>4. Round(h + 1) = (IF h + 1 < RxMax THEN h + 1 ELSE 0)
  BY RoundNext
<1>5. \A i \in 1 .. RxMax : Slot(Round(h + 1), i) = Slot(h, i + 1)
  <2> SUFFICES ASSUME NEW i \in 1 .. RxMax
               PROVE  Slot(Round(h + 1), i) = Slot(h, i + 1)
    OBVIOUS
  <2>1. CASE h + 1 < RxMax
    <3>1. (h + 1) + (i - 1) = h + ((i + 1) - 1)
      BY <1>1
    <3> QED
      BY <1>4, <2>1, <3>1 DEF Slot
  <2>2. CASE ~ (h + 1 < RxMax)
    <3>1. h + 1 = RxMax
      BY <1>1, <2>2
    <3>2. Slot(Round(h + 1), i) = i - 1
      <4>1. Slot(Round(h + 1), i) = Round(0 + (i - 1))
        BY <1>4, <2>2 DEF Slot
      <4>2. 0 + (i - 1) = i - 1 /\ i - 1 \in Nat /\ i - 1 < RxMax
        BY <1>1
      <4> QED
        BY <1>1, <4>1, <4>2, RoundFacts
    <3>3. Slot(h, i + 1) = i - 1
      <4>1. h + ((i + 1) - 1) = RxMax + (i - 1)
        BY <1>1, <3>1
      <4>2. /\ RxMax + (i - 1) \in 0 .. RxMax + RxMax - 1
            /\ ~ (RxMax + (i - 1) < RxMax) /\ RxMax + (i - 1) - RxMax = i - 1
        BY <1>1
      <4>3. Round(RxMax + (i - 1)) = i - 1
        BY <1>1, <4>2, RoundFacts
      <4> QED
        BY <4>1, <4>3 DEF Slot
    <3> QED
      BY <3>2, <3>3
  <2> QED
    BY <2>1, <2>2
<1>6. \A i \in 1 .. RxMax : Slot(h, i) \in 0 .. RxMax - 1
  BY <1>1, <1>3
<1>7. \A i, j \in 1 .. RxMax : Slot(h, i) = Slot(h, j) => i = j
  BY <1>1, <1>3
<1>8. Slot(h, 1) = h /\ Slot(h, RxMax + 1) = h
  BY <1>1, <1>3
<1> QED
  BY <1>1, <1>4, <1>5, <1>6, <1>7, <1>8

LEMMA RxKept ==
  ASSUME RxOK(u, unread), DOMAIN u' = Fields, unread' = unread,
         UNCHANGED <<u.rxBuf, u.rxHead, u.rxDma, u.chunk>>
  PROVE  RxOK(u, unread)'
<1>1. RxOK(u', unread)
  BY Zenon DEF RxOK, RxTypes
<1> QED
  BY <1>1, RxNext

(* A byte comes in, into the first slot that is not in use.                *)
LEMMA ArrivalKeeps ==
  ASSUME RxOK(u, unread), NEW b \in Bytes, ByteArrives(b)
  PROVE  RxOK(u, unread)'
<1> DEFINE y == [u EXCEPT !.rxBuf[u.rxDma] = b, !.rxDma = Round(u.rxDma + 1)]
           h == u.rxHead
           n == Len(unread)
<1>1. u' = y /\ unread' = Append(unread, b) /\ u.rxBuf[u.rxDma] = None
  BY DEF ByteArrives, Round
<1>2. /\ DOMAIN y = Fields /\ y.rxHead = h /\ y.chunk = u.chunk
      /\ y.rxDma = Round(u.rxDma + 1) /\ y.rxBuf = [u.rxBuf EXCEPT ![u.rxDma] = b]
  BY DEF RxOK, RxTypes, Fields
<1> HIDE DEF y
<1>3. /\ RxMax \in Nat \ {0} /\ h \in 0 .. RxMax - 1 /\ u.rxDma \in 0 .. RxMax - 1
      /\ u.rxBuf \in [0 .. RxMax - 1 -> Bytes \cup {None}] /\ unread \in Seq(Bytes) /\ n \in Nat
      /\ n <= RxMax /\ u.rxDma = Round(h + n)
      /\ \A i \in 1 .. RxMax : u.rxBuf[Slot(h, i)] = IF i <= n THEN unread[i] ELSE None
  BY UartNumbers, LenProperties DEF RxOK, RxTypes
<1>4. Append(unread, b) \in Seq(Bytes) /\ Len(Append(unread, b)) = n + 1
      /\ \A i \in 1 .. n + 1 : Append(unread, b)[i] = IF i <= n THEN unread[i] ELSE b
  BY <1>3, AppendProperties
<1> HIDE DEF h, n
<1>s. h \in 0 .. RxMax - 1
  BY <1>3
<1>t. /\ \A i \in 1 .. RxMax : Slot(h, i) \in 0 .. RxMax - 1
      /\ \A i, j \in 1 .. RxMax : Slot(h, i) = Slot(h, j) => i = j
      /\ Slot(h, 1) = h /\ Slot(h, RxMax + 1) = h
      /\ \A i \in 1 .. RxMax : Slot(Round(h + 1), i) = Slot(h, i + 1)
      /\ Round(h + 1) \in 0 .. RxMax - 1
  BY <1>s, SlotFacts
<1>5. u.rxDma = Slot(h, n + 1)
  BY <1>3 DEF Slot
<1>6. n < RxMax
  <2> SUFFICES ASSUME n = RxMax PROVE FALSE
    BY <1>3
  <2>1. u.rxDma = Slot(h, 1)
    BY <1>3, <1>5, <1>t
  <2>2. 1 \in 1 .. RxMax /\ 1 <= n /\ 1 \in 1 .. Len(unread)
    BY <1>3 DEF n
  <2>3. u.rxBuf[Slot(h, 1)] = unread[1] /\ unread[1] \in Bytes
    BY <1>3, <2>2, ElementOfSeq
  <2> QED
    BY <1>1, <2>1, <2>3, UartNumbers
<1>7. \A i \in 1 .. RxMax : y.rxBuf[Slot(h, i)] = IF i <= n + 1 THEN Append(unread, b)[i] ELSE None
  <2> SUFFICES ASSUME NEW i \in 1 .. RxMax
               PROVE  y.rxBuf[Slot(h, i)] = IF i <= n + 1 THEN Append(unread, b)[i] ELSE None
    OBVIOUS
  <2>0. n + 1 \in 1 .. RxMax
    BY <1>3, <1>6
  <2>1. Slot(h, i) \in 0 .. RxMax - 1 /\ (Slot(h, i) = u.rxDma <=> i = n + 1)
    BY <1>5, <1>t, <2>0
  <2>2. CASE i = n + 1
    BY <1>2, <1>3, <1>4, <2>1, <2>2
  <2>3. CASE i # n + 1
    <3>1. y.rxBuf[Slot(h, i)] = u.rxBuf[Slot(h, i)]
      BY <1>2, <1>3, <2>1, <2>3
    <3>2. i <= n + 1 <=> i <= n
      BY <1>3, <2>3
    <3>3. i <= n => Append(unread, b)[i] = unread[i]
      BY <1>3, <1>4
    <3> QED
      BY <1>3, <3>1, <3>2, <3>3
  <2> QED
    BY <2>2, <2>3
<1>8. y.rxDma = Round(h + (n + 1))
  <2>1. u.rxDma = IF h + n < RxMax THEN h + n ELSE h + n - RxMax
    <3>1. h \in 0 .. RxMax - 1 /\ n \in 0 .. RxMax /\ u.rxDma = Round(h + n)
      BY <1>3, <1>6
    <3>2. Round(h + n) = IF h + n < RxMax THEN h + n ELSE h + n - RxMax
      BY <3>1, RoundSum
    <3> QED
      BY <3>1, <3>2
  <2>2. CASE h + n < RxMax
    <3>1. u.rxDma + 1 = h + (n + 1)
      BY <1>3, <2>1, <2>2
    <3> QED
      BY <1>2, <3>1
  <2>3. CASE ~ (h + n < RxMax)
    <3>1. u.rxDma + 1 = h + (n + 1) - RxMax /\ u.rxDma + 1 \in Nat /\ u.rxDma + 1 < RxMax
      BY <1>3, <1>6, <2>1, <2>3
    <3>2. Round(h + (n + 1)) = h + (n + 1) - RxMax
      <4>1. h \in 0 .. RxMax - 1 /\ n + 1 \in 0 .. RxMax /\ ~ (h + (n + 1) < RxMax)
        BY <1>3, <1>6, <2>3
      <4>2. Round(h + (n + 1)) = IF h + (n + 1) < RxMax THEN h + (n + 1)
                                 ELSE h + (n + 1) - RxMax
        BY <4>1, RoundSum
      <4> QED
        BY <4>1, <4>2
    <3>3. Round(u.rxDma + 1) = u.rxDma + 1
      BY <3>1, RoundBelow
    <3> QED
      BY <1>2, <3>1, <3>2, <3>3
  <2> QED
    BY <2>2, <2>3
<1>9. RxTypes(y, Append(unread, b))
  <2>1. y.rxBuf \in [0 .. RxMax - 1 -> Bytes \cup {None}] /\ y.rxDma \in 0 .. RxMax - 1
    <3>1. u.rxDma \in 0 .. RxMax - 1 /\ Round(u.rxDma + 1) \in 0 .. RxMax - 1
      BY <1>3, SlotFacts
    <3> QED
      BY <1>2, <1>3, <3>1
  <2> QED
    BY <1>2, <1>3, <1>4, <2>1, Zenon DEF RxOK, RxTypes
<1>10. RxOK(y, Append(unread, b))
  <2>1. n + 1 <= RxMax
    BY <1>3, <1>6
  <2> QED
    BY <1>2, <1>4, <1>7, <1>8, <1>9, <2>1, Zenon DEF RxOK
<1> QED
  BY <1>1, <1>10, RxNext

(* A byte is read from the head of the ring.                               *)
LEMMA ReadKeeps ==
  ASSUME RxOK(u, unread), CallbackRead
  PROVE  RxOK(u, unread)'
<1> DEFINE h == u.rxHead
           n == Len(unread)
           y == [u EXCEPT !.chunk = Append(u.chunk, u.rxBuf[u.rxHead]),
                          !.rxBuf[u.rxHead] = None, !.rxHead = Round(u.rxHead + 1)]
           rest == SubSeq(unread, 2, n)
<1>1. u' = y /\ unread' = rest /\ u.rxBuf[h] # None
  BY DEF CallbackRead, NewRxByte, Round
<1>2. /\ DOMAIN y = Fields /\ y.rxHead = Round(h + 1) /\ y.rxDma = u.rxDma
      /\ y.chunk = Append(u.chunk, u.rxBuf[h]) /\ y.rxBuf = [u.rxBuf EXCEPT ![h] = None]
  BY DEF RxOK, RxTypes, Fields
<1> HIDE DEF y
<1>3. /\ RxMax \in Nat \ {0} /\ h \in 0 .. RxMax - 1 /\ u.rxDma \in 0 .. RxMax - 1
      /\ u.rxBuf \in [0 .. RxMax - 1 -> Bytes \cup {None}] /\ unread \in Seq(Bytes) /\ n \in Nat
      /\ n <= RxMax /\ u.rxDma = Round(h + n) /\ u.chunk \in Seq(Bytes)
      /\ \A i \in 1 .. RxMax : u.rxBuf[Slot(h, i)] = IF i <= n THEN unread[i] ELSE None
  BY UartNumbers, LenProperties DEF RxOK, RxTypes
<1>s. h \in 0 .. RxMax - 1
  BY <1>3
<1>t. /\ \A i \in 1 .. RxMax : Slot(h, i) \in 0 .. RxMax - 1
      /\ \A i, j \in 1 .. RxMax : Slot(h, i) = Slot(h, j) => i = j
      /\ Slot(h, 1) = h /\ Slot(h, RxMax + 1) = h
      /\ \A i \in 1 .. RxMax : Slot(Round(h + 1), i) = Slot(h, i + 1)
      /\ Round(h + 1) \in 0 .. RxMax - 1
  BY <1>s, SlotFacts
<1>4. n >= 1
  <2>1. 1 \in 1 .. RxMax /\ Slot(h, 1) = h
    BY <1>3, <1>t
  <2>2. 1 <= n
    BY <1>1, <1>3, <2>1
  <2> QED
    BY <1>3, <2>2
<1>5. rest \in Seq(Bytes) /\ Len(rest) = n - 1 /\ \A i \in 1 .. n - 1 : rest[i] = unread[i + 1]
  <2>1. unread # <<>>
    BY <1>3, <1>4, EmptySeq
  <2>2. Tail(unread) = rest
    BY <1>3, <2>1, TailIsSubSeq
  <2> QED
    BY <1>3, <2>1, <2>2, HeadTailProperties
<1> HIDE DEF h, n, rest
<1>6. \A i \in 1 .. RxMax :
        y.rxBuf[Slot(Round(h + 1), i)] = IF i <= n - 1 THEN rest[i] ELSE None
  <2> SUFFICES ASSUME NEW i \in 1 .. RxMax
               PROVE  y.rxBuf[Slot(Round(h + 1), i)] = IF i <= n - 1 THEN rest[i] ELSE None
    OBVIOUS
  <2>1. Slot(Round(h + 1), i) = Slot(h, i + 1)
    BY <1>3, <1>t
  <2>2. CASE i = RxMax
    <3>1. Slot(h, i + 1) = h /\ ~ (i <= n - 1)
      BY <1>3, <2>2, <1>t
    <3> QED
      BY <1>2, <1>3, <2>1, <3>1
  <2>3. CASE i # RxMax
    <3>1. i + 1 \in 1 .. RxMax /\ 1 \in 1 .. RxMax /\ i + 1 # 1 /\ (i <= n - 1 <=> i + 1 <= n)
      BY <1>3, <2>3, SMTT(40)
    <3>2. Slot(h, i + 1) # h /\ Slot(h, i + 1) \in 0 .. RxMax - 1
      BY <1>3, <3>1, <1>t
    <3>3. y.rxBuf[Slot(h, i + 1)] = u.rxBuf[Slot(h, i + 1)]
      BY <1>2, <1>3, <3>2
    <3>4. u.rxBuf[Slot(h, i + 1)] = IF i + 1 <= n THEN unread[i + 1] ELSE None
      BY <1>3, <3>1
    <3>5. i <= n - 1 => rest[i] = unread[i + 1]
      BY <1>3, <1>5
    <3> QED
      BY <2>1, <3>1, <3>3, <3>4, <3>5
  <2> QED
    BY <2>2, <2>3
<1>7. y.rxDma = Round(y.rxHead + (n - 1))
  <2>1. Round(h + 1) = (IF h + 1 < RxMax THEN h + 1 ELSE 0)
    BY <1>s, RoundNext
  <2>2. CASE h + 1 < RxMax
    <3>1. (h + 1) + (n - 1) = h + n /\ y.rxHead = h + 1
      BY <1>2, <1>3, <2>1, <2>2
    <3> QED
      BY <1>2, <1>3, <3>1
  <2>3. CASE ~ (h + 1 < RxMax)
    <3>1. h + n = RxMax + (n - 1) /\ n - 1 \in Nat /\ n - 1 < RxMax
      BY <1>3, <1>4, <2>3
    <3>2. Round(h + n) = n - 1
      <4>1. /\ h \in 0 .. RxMax - 1 /\ n \in 0 .. RxMax /\ ~ (h + n < RxMax)
            /\ h + n - RxMax = n - 1
        BY <1>3, <3>1
      <4>2. Round(h + n) = IF h + n < RxMax THEN h + n ELSE h + n - RxMax
        BY <4>1, RoundSum
      <4> QED
        BY <4>1, <4>2
    <3>3. y.rxHead = 0 /\ 0 + (n - 1) = n - 1
      BY <1>2, <1>3, <2>1, <2>3
    <3>4. Round(n - 1) = n - 1
      BY <3>1, RoundBelow
    <3> QED
      BY <1>2, <1>3, <3>2, <3>3, <3>4
  <2> QED
    BY <2>2, <2>3
<1>8. RxTypes(y, rest)
  <2>1. y.rxBuf \in [0 .. RxMax - 1 -> Bytes \cup {None}] /\ y.rxHead \in 0 .. RxMax - 1
    BY <1>2, <1>3, <1>t
  <2>2. u.rxBuf[h] \in Bytes
    BY <1>1, <1>3
  <2>3. y.chunk \in Seq(Bytes)
    BY <1>2, <1>3, <2>2, AppendProperties
  <2> QED
    BY <1>2, <1>3, <1>5, <2>1, <2>3, Zenon DEF RxOK, RxTypes
<1>9. RxOK(y, rest)
  <2>1. n - 1 <= RxMax
    BY <1>3
  <2> QED
    BY <1>2, <1>5, <1>6, <1>7, <1>8, <2>1, Zenon DEF RxOK
<1> QED
  BY <1>1, <1>9, RxNext

-----------------------------------------------------------------------------
(* The port: one lemma per action, for both sides.                         *)

LEMMA PollReceiveKeeps ==
  ASSUME UartIInv, PollReceive
  PROVE  UartIInv'
<1> DEFINE t == IdleTimer
           cnt == HalUARTRxAvailDMA
           evt == cnt >= Full \/ cnt >= High \/ (cnt > 0 /\ t.rxTick = 0) \/ t.txMT
           y == [t EXCEPT !.evt = evt, !.txMT = FALSE]
<1>1. u' = y /\ at' = "shadow" /\ UNCHANGED <<wr, owed, unread>>
  BY Zenon DEF PollReceive
<1>2. DOMAIN u = Fields
  BY DEF UartIInv, TxOK, TxTypes
<1>3. /\ DOMAIN t = Fields
      /\ t.txBuf = u.txBuf /\ t.txSel = u.txSel /\ t.armed = u.armed /\ t.irq = u.irq
      /\ t.sent = u.sent /\ t.dbuf = u.dbuf /\ t.dbufAge = u.dbufAge
      /\ t.txDMAPending = u.txDMAPending /\ t.txShdwValid = u.txShdwValid /\ t.txAge = u.txAge
      /\ t.rxBuf = u.rxBuf /\ t.rxHead = u.rxHead /\ t.rxDma = u.rxDma /\ t.chunk = u.chunk
  <2> DEFINE tail == findTail
             age == IF u.rxTick = 0 THEN 0 ELSE u.rxAge
             left == IF u.rxTick > u.rxAge THEN u.rxTick - u.rxAge ELSE 0
             a == [u EXCEPT !.rxTick = 0, !.rxAge = 0]
             b == [u EXCEPT !.rxTail = tail, !.rxTick = IdleTicks, !.rxAge = age]
             c == [u EXCEPT !.rxTick = left, !.rxAge = 0]
  <2>1. t = a \/ t = b \/ t = c
    <3>1. b = [u EXCEPT !.rxTail = tail, !.rxTick = IdleTicks,
                        !.rxAge = IF u.rxTick = 0 THEN 0 ELSE @]
      OBVIOUS
    <3>2. c = [u EXCEPT !.rxTick = IF @ > u.rxAge THEN @ - u.rxAge ELSE 0, !.rxAge = 0]
      OBVIOUS
    <3> HIDE DEF a, b, c
    <3> QED
      BY <3>1, <3>2, Zenon DEF IdleTimer, a
  <2> HIDE DEF t, tail, age, left
  <2>2. CASE t = a
    BY <1>2, <2>2 DEF Fields
  <2>3. CASE t = b
    BY <1>2, <2>3 DEF Fields
  <2>4. CASE t = c
    BY <1>2, <2>4 DEF Fields
  <2> QED
    BY <2>1, <2>2, <2>3, <2>4
<1> HIDE DEF t, evt
<1>4. /\ DOMAIN y = Fields
      /\ y.txBuf = t.txBuf /\ y.txSel = t.txSel /\ y.armed = t.armed /\ y.irq = t.irq
      /\ y.sent = t.sent /\ y.dbuf = t.dbuf /\ y.dbufAge = t.dbufAge
      /\ y.txDMAPending = t.txDMAPending /\ y.txShdwValid = t.txShdwValid /\ y.txAge = t.txAge
      /\ y.rxBuf = t.rxBuf /\ y.rxHead = t.rxHead /\ y.rxDma = t.rxDma /\ y.chunk = t.chunk
  BY <1>3 DEF Fields
<1> HIDE DEF y
<1>5. TxOK(y, owed)
  BY <1>3, <1>4, TxKept, Zenon DEF UartIInv
<1>6. TxOK(u, owed)'
  BY <1>1, <1>5, TxNext
<1>7. RxOK(u, unread)'
  BY <1>1, <1>3, <1>4, RxKept, Zenon DEF UartIInv
<1> QED
  BY <1>1, <1>6, <1>7 DEF UartIInv, Writing

LEMMA PollShadowKeeps ==
  ASSUME UartIInv, PollShadow
  PROVE  UartIInv'
<1> DEFINE y == [u EXCEPT !.txShdwValid = FALSE, !.txAge = 0]
           over == u.txShdwValid /\ u.txAge > TxTick
<1>1. u' = (IF over THEN y ELSE u) /\ at' = "poll" /\ UNCHANGED <<wr, owed, unread>>
  BY DEF PollShadow
<1>2. DOMAIN u = Fields
  BY DEF UartIInv, TxOK, TxTypes
<1>3. /\ DOMAIN y = Fields
      /\ y.txBuf = u.txBuf /\ y.txSel = u.txSel /\ y.armed = u.armed /\ y.irq = u.irq
      /\ y.sent = u.sent /\ y.dbuf = u.dbuf /\ y.dbufAge = u.dbufAge
      /\ y.txDMAPending = u.txDMAPending /\ y.txShdwValid = FALSE /\ y.txAge = 0
      /\ y.rxBuf = u.rxBuf /\ y.rxHead = u.rxHead /\ y.rxDma = u.rxDma /\ y.chunk = u.chunk
  BY <1>2 DEF Fields
<1>4. over => u.dbuf = None \/ Sending(u)
  <2>1. u.dbuf # None => Sending(u) \/ u.txAge <= u.dbufAge
    BY DEF UartIInv, TxOK, Line
  <2>2. u.dbufAge <= TxTick /\ u.dbufAge \in Nat /\ u.txAge \in Nat /\ TxTick \in Nat
    BY UartNumbers DEF UartIInv, TxOK, TxTypes
  <2> QED
    BY <2>1, <2>2
<1> HIDE DEF y, over
<1>5. over => TxOK(y, owed)
  BY <1>3, <1>4, TxKept, Zenon DEF UartIInv
<1>6. TxOK(u, owed)'
  <2>1. TxOK(u', owed)
    BY <1>1, <1>5, Zenon DEF UartIInv
  <2> QED
    BY <1>1, <2>1, TxNext
<1>7. RxOK(u, unread)'
  <2>1. DOMAIN u' = Fields /\ UNCHANGED <<u.rxBuf, u.rxHead, u.rxDma, u.chunk>>
    BY <1>1, <1>2, <1>3
  <2> QED
    BY <1>1, <2>1, RxKept DEF UartIInv
<1> QED
  BY <1>1, <1>6, <1>7 DEF UartIInv, Writing

(* The receive side and the write under way are not touched by the end of  *)
(* a transmit or by the start of one.                                      *)
LEMMA TxOnly ==
  ASSUME DOMAIN u = Fields
  PROVE  /\ DOMAIN HalUARTIsrDMA(u) = Fields /\ DOMAIN Fire(u) = Fields
         /\ HalUARTIsrDMA(u).rxBuf = u.rxBuf /\ HalUARTIsrDMA(u).rxHead = u.rxHead
         /\ HalUARTIsrDMA(u).rxDma = u.rxDma /\ HalUARTIsrDMA(u).chunk = u.chunk
         /\ HalUARTIsrDMA(u).txSel = u.txSel
         /\ HalUARTIsrDMA(u).txBuf = [u.txBuf EXCEPT ![1 - u.txSel] = <<>>]
         /\ Fire(u).rxBuf = u.rxBuf /\ Fire(u).rxHead = u.rxHead
         /\ Fire(u).rxDma = u.rxDma /\ Fire(u).chunk = u.chunk
<1> DEFINE pending == u.txDMAPending \/ u.txBuf[u.txSel] # <<>>
           y == [u EXCEPT !.irq = FALSE, !.txBuf[1 - u.txSel] = <<>>, !.txMT = TRUE,
                    !.txShdwValid = TRUE, !.txAge = 0, !.sent = 0, !.txDMAPending = pending]
           q == u.txBuf[u.txSel]
           more == Len(q) > 1
           last == Len(q) = 1
           z == [u EXCEPT !.txDMAPending = FALSE, !.txSel = 1 - u.txSel, !.sent = 1,
                    !.dbuf = Head(q), !.dbufAge = 0, !.armed = more, !.irq = last]
<1>1. HalUARTIsrDMA(u) = y
  BY Zenon DEF HalUARTIsrDMA
<1>2. Fire(u) = z
  BY Zenon DEF Fire
<1> HIDE DEF pending, q, more, last
<1>3. /\ DOMAIN y = Fields /\ y.rxBuf = u.rxBuf /\ y.rxHead = u.rxHead
      /\ y.rxDma = u.rxDma /\ y.chunk = u.chunk /\ y.txSel = u.txSel
      /\ y.txBuf = [u.txBuf EXCEPT ![1 - u.txSel] = <<>>]
  BY DEF Fields
<1>4. /\ DOMAIN z = Fields /\ z.rxBuf = u.rxBuf /\ z.rxHead = u.rxHead
      /\ z.rxDma = u.rxDma /\ z.chunk = u.chunk
  BY DEF Fields
<1> HIDE DEF y, z
<1> QED
  BY <1>1, <1>2, <1>3, <1>4, Zenon

LEMMA PollTransmitKeeps ==
  ASSUME UartIInv, PollTransmit
  PROVE  UartIInv'
<1> DEFINE fires == u.txDMAPending /\ ~ u.txShdwValid
           cleans == u.txBuf[u.txSel] # <<>> /\ ~ u.armed /\ ~ u.irq
<1>1. /\ u' = (IF fires THEN Fire(u) ELSE IF cleans THEN HalUARTIsrDMA(u) ELSE u)
      /\ at' # "write" /\ UNCHANGED <<wr, owed, unread>>
  BY Zenon DEF PollTransmit
<1>2. fires => TxOK(Fire(u), owed)
  BY FireKeeps DEF UartIInv
<1>3. cleans => TxOK(HalUARTIsrDMA(u), owed)
  BY IsrKeeps DEF UartIInv
<1> HIDE DEF fires, cleans
<1>4. TxOK(u, owed)'
  <2>1. TxOK(u', owed)
    BY <1>1, <1>2, <1>3, Zenon DEF UartIInv
  <2> QED
    BY <1>1, <2>1, TxNext
<1>5. RxOK(u, unread)'
  <2>1. DOMAIN u = Fields
    BY DEF UartIInv, TxOK, TxTypes
  <2>2. DOMAIN u' = Fields /\ UNCHANGED <<u.rxBuf, u.rxHead, u.rxDma, u.chunk>>
    BY <1>1, <2>1, TxOnly, Zenon
  <2> QED
    BY <1>1, <2>2, RxKept DEF UartIInv
<1> QED
  BY <1>1, <1>4, <1>5 DEF UartIInv, Writing

LEMMA WritingKept ==
  ASSUME Writing(u, at, wr), UNCHANGED <<at, wr>>, u'.txSel = u.txSel,
         u'.txBuf[u.txSel] = u.txBuf[u.txSel]
  PROVE  Writing(u, at, wr)'
BY DEF Writing, Filling

LEMMA IsrDMAKeeps ==
  ASSUME UartIInv, IsrDMA
  PROVE  UartIInv'
<1>1. u.irq /\ u' = HalUARTIsrDMA(u) /\ UNCHANGED <<at, wr, owed, unread>>
  BY DEF IsrDMA
<1>2. DOMAIN u = Fields /\ u.txSel \in 0 .. 1 /\ u.txBuf \in [0 .. 1 -> Seq(Items)]
  BY DEF UartIInv, TxOK, TxTypes
<1>3. ~ u.armed
  BY <1>1 DEF UartIInv, TxOK, Line
<1>4. TxOK(u, owed)'
  <2>1. TxOK(HalUARTIsrDMA(u), owed)
    BY <1>3, IsrKeeps DEF UartIInv
  <2> QED
    BY <1>1, <2>1, TxNext
<1>5. RxOK(u, unread)'
  <2>1. DOMAIN u' = Fields /\ UNCHANGED <<u.rxBuf, u.rxHead, u.rxDma, u.chunk>>
    BY <1>1, <1>2, TxOnly, Zenon
  <2> QED
    BY <1>1, <2>1, RxKept DEF UartIInv
<1>6. Writing(u, at, wr)'
  <2>1. u'.txSel = u.txSel /\ u'.txBuf = [u.txBuf EXCEPT ![1 - u.txSel] = <<>>]
    BY <1>1, <1>2, TxOnly, Zenon
  <2>2. u'.txBuf[u.txSel] = u.txBuf[u.txSel]
    BY <1>2, <2>1
  <2> QED
    BY <1>1, <2>1, <2>2, WritingKept DEF UartIInv
<1> QED
  BY <1>4, <1>5, <1>6 DEF UartIInv

LEMMA DmaNextKeeps ==
  ASSUME UartIInv, DmaNext
  PROVE  UartIInv'
<1> DEFINE b == u.txBuf[1 - u.txSel]
           n == u.sent + 1
           more == n < Len(b)
           last == n = Len(b)
           y == [u EXCEPT !.dbuf = b[n], !.dbufAge = 0, !.sent = n, !.armed = more, !.irq = last]
<1>1. u' = y /\ UNCHANGED <<at, wr, owed, unread>>
  BY Zenon DEF DmaNext
<1>2. DOMAIN u = Fields
  BY DEF UartIInv, TxOK, TxTypes
<1> HIDE DEF b, n, more, last
<1>3. /\ DOMAIN y = Fields /\ y.rxBuf = u.rxBuf /\ y.rxHead = u.rxHead /\ y.rxDma = u.rxDma
      /\ y.chunk = u.chunk /\ y.txSel = u.txSel /\ y.txBuf = u.txBuf
  BY <1>2 DEF Fields
<1> HIDE DEF y
<1>4. TxOK(u, owed)'
  BY DmaKeeps DEF UartIInv
<1>5. RxOK(u, unread)'
  BY <1>1, <1>3, RxKept DEF UartIInv
<1>6. Writing(u, at, wr)'
  BY <1>1, <1>3, WritingKept DEF UartIInv
<1> QED
  BY <1>4, <1>5, <1>6 DEF UartIInv

LEMMA UartTakesKeeps ==
  ASSUME UartIInv, UartTakes
  PROVE  UartIInv'
<1> DEFINE y == [u EXCEPT !.dbuf = None, !.dbufAge = 0]
<1>1. u' = y /\ UNCHANGED <<at, wr, unread>>
  BY DEF UartTakes
<1>2. DOMAIN u = Fields
  BY DEF UartIInv, TxOK, TxTypes
<1>3. /\ DOMAIN y = Fields /\ y.rxBuf = u.rxBuf /\ y.rxHead = u.rxHead /\ y.rxDma = u.rxDma
      /\ y.chunk = u.chunk /\ y.txSel = u.txSel /\ y.txBuf = u.txBuf
  BY <1>2 DEF Fields
<1> HIDE DEF y
<1>4. TxOK(u, owed)'
  BY TakeKeeps DEF UartIInv
<1>5. RxOK(u, unread)'
  BY <1>1, <1>3, RxKept DEF UartIInv
<1>6. Writing(u, at, wr)'
  BY <1>1, <1>3, WritingKept DEF UartIInv
<1> QED
  BY <1>4, <1>5, <1>6 DEF UartIInv

LEMMA TimeKeeps ==
  ASSUME UartIInv, Tick
  PROVE  UartIInv'
<1> DEFINE age == IF u.txShdwValid THEN (u.txAge + 1) % Wrap ELSE 0
           rx == IF u.rxTick > 0 THEN (u.rxAge + 1) % Wrap ELSE 0
           stay == IF u.dbuf # None THEN u.dbufAge + 1 ELSE 0
           y == [u EXCEPT !.txAge = age, !.rxAge = rx, !.dbufAge = stay]
<1>1. u' = y /\ UNCHANGED <<at, wr, owed, unread>>
  BY DEF Tick
<1>2. DOMAIN u = Fields
  BY DEF UartIInv, TxOK, TxTypes
<1> HIDE DEF age, rx, stay
<1>3. /\ DOMAIN y = Fields /\ y.rxBuf = u.rxBuf /\ y.rxHead = u.rxHead /\ y.rxDma = u.rxDma
      /\ y.chunk = u.chunk /\ y.txSel = u.txSel /\ y.txBuf = u.txBuf
  BY <1>2 DEF Fields
<1> HIDE DEF y
<1>4. TxOK(u, owed)'
  BY TickKeeps DEF UartIInv
<1>5. RxOK(u, unread)'
  BY <1>1, <1>3, RxKept DEF UartIInv
<1>6. Writing(u, at, wr)'
  BY <1>1, <1>3, WritingKept DEF UartIInv
<1> QED
  BY <1>4, <1>5, <1>6 DEF UartIInv

(* What the receive side does leaves the transmit side alone.              *)
LEMMA RxOnly ==
  ASSUME TxOK(u, owed), DOMAIN u' = Fields,
         UNCHANGED <<owed, u.txBuf, u.txSel, u.armed, u.irq, u.sent, u.dbuf, u.dbufAge,
                     u.txDMAPending, u.txShdwValid, u.txAge>>
  PROVE  TxOK(u, owed)'
<1>1. TxOK(u', owed)
  BY TxKept, Zenon
<1> QED
  BY <1>1, TxNext

LEMMA ByteArrivesKeeps ==
  ASSUME UartIInv, NEW b \in Bytes, ByteArrives(b)
  PROVE  UartIInv'
<1> DEFINE next == (u.rxDma + 1) % RxMax
           y == [u EXCEPT !.rxBuf[u.rxDma] = b, !.rxDma = next]
<1>1. u' = y /\ UNCHANGED <<at, wr, owed>>
  BY DEF ByteArrives
<1>2. DOMAIN u = Fields
  BY DEF UartIInv, TxOK, TxTypes
<1> HIDE DEF next
<1>3. /\ DOMAIN y = Fields /\ y.txBuf = u.txBuf /\ y.txSel = u.txSel /\ y.armed = u.armed
      /\ y.irq = u.irq /\ y.sent = u.sent /\ y.dbuf = u.dbuf /\ y.dbufAge = u.dbufAge
      /\ y.txDMAPending = u.txDMAPending /\ y.txShdwValid = u.txShdwValid /\ y.txAge = u.txAge
  BY <1>2 DEF Fields
<1> HIDE DEF y
<1>4. TxOK(u, owed)'
  BY <1>1, <1>3, RxOnly DEF UartIInv
<1>5. RxOK(u, unread)'
  BY ArrivalKeeps DEF UartIInv
<1>6. Writing(u, at, wr)'
  BY <1>1, <1>3, WritingKept DEF UartIInv
<1> QED
  BY <1>4, <1>5, <1>6 DEF UartIInv

LEMMA CallbackReadKeeps ==
  ASSUME UartIInv, CallbackRead
  PROVE  UartIInv'
<1> DEFINE next == (u.rxHead + 1) % RxMax
           got == Append(u.chunk, u.rxBuf[u.rxHead])
           y == [u EXCEPT !.chunk = got, !.rxBuf[u.rxHead] = None, !.rxHead = next]
<1>1. u' = y /\ at = "callback" /\ UNCHANGED <<at, wr, owed>>
  BY DEF CallbackRead
<1>2. DOMAIN u = Fields
  BY DEF UartIInv, TxOK, TxTypes
<1> HIDE DEF next, got
<1>3. /\ DOMAIN y = Fields /\ y.txBuf = u.txBuf /\ y.txSel = u.txSel /\ y.armed = u.armed
      /\ y.irq = u.irq /\ y.sent = u.sent /\ y.dbuf = u.dbuf /\ y.dbufAge = u.dbufAge
      /\ y.txDMAPending = u.txDMAPending /\ y.txShdwValid = u.txShdwValid /\ y.txAge = u.txAge
  BY <1>2 DEF Fields
<1> HIDE DEF y
<1>4. TxOK(u, owed)'
  BY <1>1, <1>3, RxOnly DEF UartIInv
<1>5. RxOK(u, unread)'
  BY ReadKeeps DEF UartIInv
<1> QED
  BY <1>1, <1>4, <1>5 DEF UartIInv, Writing

LEMMA CallbackEndKeeps ==
  ASSUME UartIInv, CallbackEnd
  PROVE  UartIInv'
<1> DEFINE y == [u EXCEPT !.chunk = <<>>, !.evt = FALSE]
<1>1. u' = y /\ at' = "idle" /\ UNCHANGED <<wr, owed, unread>>
  BY DEF CallbackEnd
<1>2. DOMAIN u = Fields
  BY DEF UartIInv, TxOK, TxTypes
<1>3. /\ DOMAIN y = Fields /\ y.txBuf = u.txBuf /\ y.txSel = u.txSel /\ y.armed = u.armed
      /\ y.irq = u.irq /\ y.sent = u.sent /\ y.dbuf = u.dbuf /\ y.dbufAge = u.dbufAge
      /\ y.txDMAPending = u.txDMAPending /\ y.txShdwValid = u.txShdwValid /\ y.txAge = u.txAge
      /\ y.rxBuf = u.rxBuf /\ y.rxHead = u.rxHead /\ y.rxDma = u.rxDma /\ y.chunk = <<>>
  BY <1>2 DEF Fields
<1> HIDE DEF y
<1>4. TxOK(u, owed)'
  BY <1>1, <1>3, RxOnly DEF UartIInv
<1>5. RxOK(u, unread)'
  <2>1. <<>> \in Seq(Bytes)
    BY EmptySeq
  <2>2. RxOK(y, unread)
    BY <1>3, <2>1, Zenon DEF UartIInv, RxOK, RxTypes
  <2> QED
    BY <1>1, <2>2, RxNext
<1> QED
  BY <1>1, <1>4, <1>5 DEF UartIInv, Writing

LEMMA WriteBegins ==
  ASSUME UartIInv, NEW item \in Items, NEW from, WriteBegin(item, from)
  PROVE  UartIInv'
<1>1. u' = u /\ owed' = owed /\ unread' = unread
      /\ wr' = [item |-> item, sel |-> u.txSel, idx |-> Len(Filling(u))]
  BY DEF WriteBegin, Filling
<1>2. TxOK(u, owed)' /\ RxOK(u, unread)'
  BY <1>1, TxNext, RxNext DEF UartIInv
<1>3. Writing(u, at, wr)'
  BY <1>1 DEF Writing, Filling
<1> QED
  BY <1>2, <1>3 DEF UartIInv

LEMMA WriteEnds ==
  ASSUME UartIInv, WriteCommit("app")
  PROVE  UartIInv'
<1> DEFINE s == u.txSel
           q == Append(SubSeq(u.txBuf[s], 1, IF s = wr.sel THEN wr.idx ELSE Len(u.txBuf[s])), wr.item)
           pending == u.txDMAPending \/ u.txBuf[1 - s] = <<>>
           y == [u EXCEPT !.txBuf[s] = q, !.txDMAPending = pending]
<1>1. u' = y /\ at' = "app" /\ unread' = unread
  BY Zenon DEF WriteCommit
<1>2. DOMAIN u = Fields
  BY DEF UartIInv, TxOK, TxTypes
<1> HIDE DEF q, pending
<1>3. /\ DOMAIN y = Fields /\ y.rxBuf = u.rxBuf /\ y.rxHead = u.rxHead /\ y.rxDma = u.rxDma
      /\ y.chunk = u.chunk
  BY <1>2 DEF Fields
<1> HIDE DEF y
<1>4. TxOK(u, owed)'
  BY CommitKeeps DEF UartIInv
<1>5. RxOK(u, unread)'
  BY <1>1, <1>3, RxKept DEF UartIInv
<1> QED
  BY <1>1, <1>4, <1>5 DEF UartIInv, Writing

LEMMA PortStill ==
  ASSUME UartIInv, UNCHANGED <<u, wr, owed, unread>>, at' = at \/ at' # "write"
  PROVE  UartIInv'
<1>1. TxOK(u, owed)' /\ RxOK(u, unread)'
  BY TxNext, RxNext DEF UartIInv
<1> QED
  BY <1>1 DEF UartIInv, Writing, Filling

-----------------------------------------------------------------------------
(* The application above the port.                                         *)

LEMMA PortKeeps ==
  ASSUME HomeIInv, Port
  PROVE  HomeIInv'
<1>1. UartIInv'
  BY PollReceiveKeeps, PollShadowKeeps, PollTransmitKeeps, CallbackReadKeeps, IsrDMAKeeps,
     DmaNextKeeps, UartTakesKeeps, TimeKeeps
  DEF HomeIInv, Port, Background, UartHardware
<1> QED
  BY <1>1 DEF HomeIInv, Port

LEMMA SerialKeeps ==
  ASSUME HomeIInv, SerialMessage
  PROVE  HomeIInv'
<1>1. UartIInv'
  BY CallbackEndKeeps DEF HomeIInv, SerialMessage
<1>2. Serial(u.chunk) \in Messages
  BY EmptySeq DEF HomeIInv, UartIInv, RxOK, RxTypes, Serial, Messages
<1>3. inbox' \in Seq(Messages)
  BY <1>2, AppendProperties DEF HomeIInv, SerialMessage
<1> QED
  BY <1>1, <1>3 DEF HomeIInv

(* What is told the host are items of the driver.                          *)
LEMMA TellFacts ==
  /\ \A c \in Reports : Tell(<<c>>) \in Messages
  /\ Tell(<<>>) \in Messages
  /\ \A items \in {<<"key5">>, <<"key4">>, <<"key5", "key4">>} : Tell(items) \in Messages
<1>1. Reports \subseteq Items /\ "key4" \in Items /\ "key5" \in Items
  BY SmartHomeAssumption
<1>2. \A w \in Seq(Items) : Tell(w) \in Messages
  BY EmptySeq DEF Tell, Messages
<1>3. <<>> \in Seq(Items) /\ \A c \in Reports : <<c>> \in Seq(Items)
  BY <1>1, EmptySeq
<1>4. <<"key5">> \in Seq(Items) /\ <<"key4">> \in Seq(Items) /\ <<"key5", "key4">> \in Seq(Items)
  BY <1>1
<1> QED
  BY <1>2, <1>3, <1>4

LEMMA InboxKeeps ==
  ASSUME HomeIInv, (\E m \in BagToSet(air) : LampReceives(m) \/ GateReceives(m)) \/ Inputs
  PROVE  HomeIInv'
<1>1. CASE \E m \in BagToSet(air) : LampReceives(m)
  <2>1. UNCHANGED <<uartVars, inbox>>
    BY <1>1 DEF LampReceives
  <2> QED
    BY <2>1, PortStill DEF HomeIInv, uartVars
<1>2. ASSUME NEW m \in BagToSet(air), GateReceives(m)
      PROVE  HomeIInv'
  <2> DEFINE w == IF m.cmd \in Reports THEN <<m.cmd>> ELSE <<>>
  <2>1. UNCHANGED uartVars /\ inbox' = Append(inbox, Tell(w))
    BY <1>2 DEF GateReceives
  <2>2. Tell(w) \in Messages
    BY TellFacts
  <2> HIDE DEF w
  <2>3. inbox' \in Seq(Messages)
    BY <2>1, <2>2, AppendProperties DEF HomeIInv
  <2> QED
    BY <2>1, <2>3, PortStill DEF HomeIInv, uartVars
<1>3. ASSUME NEW b \in Bytes, SerialByte(b)
      PROVE  HomeIInv'
  <2>1. ByteArrives(b) /\ inbox' = inbox
    BY <1>3 DEF SerialByte
  <2> QED
    BY <2>1, ByteArrivesKeeps DEF HomeIInv
<1>4. ASSUME NEW items \in {<<"key5">>, <<"key4">>, <<"key5", "key4">>}, KeysChange(items)
      PROVE  HomeIInv'
  <2>1. UNCHANGED uartVars /\ inbox' = Append(inbox, Tell(items))
    BY <1>4 DEF KeysChange
  <2>2. Tell(items) \in Messages
    BY TellFacts
  <2>3. inbox' \in Seq(Messages)
    BY <2>1, <2>2, AppendProperties DEF HomeIInv
  <2> QED
    BY <2>1, <2>3, PortStill DEF HomeIInv, uartVars
<1> QED
  BY <1>1, <1>2, <1>3, <1>4 DEF Inputs

LEMMA AppKeeps ==
  ASSUME HomeIInv, App
  PROVE  HomeIInv'
<1> DEFINE m == Head(inbox)
<1>1. inbox # <<>> => /\ m \in Messages /\ m.writes \in Seq(Items)
                      /\ Tail(inbox) \in Seq(Messages)
  <2> SUFFICES ASSUME inbox # <<>>
               PROVE  m \in Messages /\ m.writes \in Seq(Items) /\ Tail(inbox) \in Seq(Messages)
    OBVIOUS
  <2>1. inbox \in Seq(Messages)
    BY DEF HomeIInv
  <2>2. m \in Messages /\ Tail(inbox) \in Seq(Messages)
    BY <2>1, HeadTailProperties
  <2> HIDE DEF m
  <2> QED
    BY <2>2 DEF Messages
<1>2. ASSUME inbox # <<>>, m.writes # <<>>
      PROVE  Head(m.writes) \in Items /\ DropWrite \in Seq(Messages)
  <2>1. Head(m.writes) \in Items /\ Tail(m.writes) \in Seq(Items)
    BY <1>1, <1>2, HeadTailProperties
  <2>2. [m EXCEPT !.writes = Tail(m.writes)] \in Messages
    BY <1>1, <1>2, <2>1 DEF Messages
  <2>3. inbox \in Seq(Messages) /\ 1 \in 1 .. Len(inbox) /\ m = inbox[1]
    BY <1>2, EmptySeq DEF HomeIInv
  <2>4. DropWrite = [inbox EXCEPT ![1] = [m EXCEPT !.writes = Tail(m.writes)]]
    BY <2>3 DEF DropWrite
  <2> HIDE DEF m
  <2>5. DropWrite \in Seq(Messages)
    BY <2>2, <2>3, <2>4, ExceptSeq
  <2> QED
    BY <2>1, <2>5
<1>3. CASE AppStart \/ AppEnd
  BY <1>3, PortStill DEF AppStart, AppEnd, HomeIInv
<1>4. CASE AppSerial \/ AppDone
  BY <1>1, <1>4, PortStill DEF AppSerial, AppDone, HomeIInv, uartVars
<1>5. CASE AppWrite
  <2>1. inbox # <<>> /\ m.writes # <<>> /\ WriteBegin(Head(m.writes), "app") /\ inbox' = DropWrite
    BY <1>5 DEF AppWrite
  <2>2. Head(m.writes) \in Items /\ DropWrite \in Seq(Messages)
    BY <1>2, <2>1
  <2> HIDE DEF m
  <2>3. UartIInv'
    BY <2>1, <2>2, WriteBegins DEF HomeIInv
  <2> QED
    BY <2>1, <2>2, <2>3 DEF HomeIInv
<1>6. CASE AppWriteRefused
  <2>1. inbox # <<>> /\ m.writes # <<>> /\ UNCHANGED uartVars /\ inbox' = DropWrite
    BY <1>6 DEF AppWriteRefused
  <2>2. DropWrite \in Seq(Messages)
    BY <1>2, <2>1
  <2> QED
    BY <2>1, <2>2, PortStill DEF HomeIInv, uartVars
<1>7. CASE AppWritten
  BY <1>7, WriteEnds DEF AppWritten, HomeIInv
<1> QED
  BY <1>3, <1>4, <1>5, <1>6, <1>7 DEF App

LEMMA HomeStarts ==
  ASSUME HomeInit
  PROVE  HomeIInv
<1>1. TxOK(u, owed)
  <2>1. /\ DOMAIN u = Fields /\ u.txBuf = [i \in 0 .. 1 |-> <<>>] /\ u.txSel = 0
        /\ u.armed = FALSE /\ u.irq = FALSE /\ u.sent = 0 /\ u.txShdwValid = FALSE /\ u.txAge = 0
        /\ u.txDMAPending = FALSE /\ u.dbuf = None /\ u.dbufAge = 0 /\ owed = <<>>
    BY DEF HomeInit, UartInit, Fields
  <2>2. Filling(u) = <<>> /\ Draining(u) = <<>> /\ ~ Sending(u)
        /\ Register(u) = <<>> /\ Unsent(u) = <<>>
    BY <2>1 DEF Filling, Draining, Sending, Register, Unsent
  <2>3. <<>> \in Seq(Items) /\ 0 \in 0 .. Wrap - 1 /\ 0 \in 0 .. TxTick /\ 0 \in 0 .. 1 /\ 0 \in Nat
    BY EmptySeq, UartNumbers
  <2>4. u.txBuf \in [0 .. 1 -> Seq(Items)]
    BY <2>1, <2>3
  <2>5. TxTypes(u, owed)
    BY <2>1, <2>3, <2>4, Zenon DEF TxTypes
  <2>6. Line(u)
    BY <2>1, <2>2 DEF Line
  <2>7. owed = Register(u) \o Unsent(u) \o Filling(u)
    BY <2>1, <2>2, <2>3, ConcatEmptySeq
  <2> QED
    BY <2>5, <2>6, <2>7 DEF TxOK
<1>2. RxOK(u, unread)
  <2>1. /\ DOMAIN u = Fields /\ u.rxBuf = [i \in 0 .. RxMax - 1 |-> None]
        /\ u.rxHead = 0 /\ u.rxDma = 0 /\ u.chunk = <<>> /\ unread = <<>>
    BY DEF HomeInit, UartInit, Fields
  <2>2. 0 \in 0 .. RxMax - 1 /\ <<>> \in Seq(Bytes) /\ Len(<<>>) = 0 /\ Round(0 + 0) = 0 /\ 0 <= RxMax
    BY RingSize, RoundFacts, EmptySeq
  <2>3. \A i \in 1 .. RxMax : Slot(0, i) \in 0 .. RxMax - 1 /\ ~ (i <= 0)
    BY <2>2, SlotFacts
  <2>4. u.rxBuf \in [0 .. RxMax - 1 -> Bytes \cup {None}]
    BY <2>1
  <2>5. RxTypes(u, unread)
    BY <2>1, <2>2, <2>4 DEF RxTypes
  <2>6. \A i \in 1 .. RxMax : u.rxBuf[Slot(0, i)] = None
    BY <2>1, <2>3
  <2> QED
    BY <2>1, <2>2, <2>3, <2>5, <2>6 DEF RxOK
<1>3. Writing(u, at, wr)
  BY DEF HomeInit, UartInit, Writing
<1>4. inbox \in Seq(Messages)
  BY EmptySeq DEF HomeInit
<1> QED
  BY <1>1, <1>2, <1>3, <1>4 DEF HomeIInv, UartIInv

-----------------------------------------------------------------------------
(* The inductive invariant of the port and of the messages above it.       *)
THEOREM HomeInvariant == HomeSpec => []HomeIInv
<1>1. HomeInit => HomeIInv
  BY HomeStarts
<1>2. HomeIInv /\ [HomeNext]_homeVars => HomeIInv'
  <2> SUFFICES ASSUME HomeIInv, [HomeNext]_homeVars
               PROVE  HomeIInv'
    OBVIOUS
  <2>1. CASE UNCHANGED homeVars
    <3>1. UNCHANGED <<u, at, wr, owed, unread, inbox>>
      BY <2>1 DEF homeVars
    <3> QED
      BY <3>1, PortStill DEF HomeIInv
  <2>2. CASE HomeNext
    BY <2>2, AppKeeps, SerialKeeps, PortKeeps, InboxKeeps DEF HomeNext, Receive
  <2> QED
    BY <2>1, <2>2
<1> QED
  BY <1>1, <1>2, PTL DEF HomeSpec

(* The driver of _hal_uart_dma.c loses, doubles, overtakes and overwrites  *)
(* nothing that HalUARTWriteDMA accepted or the DMA received: what is owed *)
(* is in the data register, the rest of the buffer being sent and the      *)
(* buffer being filled, and the ring holds what has not been read.         *)
THEOREM PortLosesNothing == HomeSpec => []PortExact
<1>1. HomeIInv => PortExact
  <2> SUFFICES ASSUME HomeIInv PROVE WritesExact /\ ReadsExact
    BY DEF PortExact
  <2>1. WritesExact
    BY DEF HomeIInv, UartIInv, TxOK, Register, Unsent, Filling, Draining, WritesExact
  <2>2. ReadsExact
    BY DEF HomeIInv, UartIInv, RxOK, Slot, Round, ReadsExact
  <2> QED
    BY <2>1, <2>2
<1> QED
  BY <1>1, HomeInvariant, PTL

-----------------------------------------------------------------------------
(* Bags of broadcasts.                                                     *)
Airborne(b) == b \in [DOMAIN b -> Nat \ {0}] /\ DOMAIN b \subseteq Broadcasts

Copies(b, e) == IF e \in DOMAIN b THEN b[e] ELSE 0

LEMMA CopiesType ==
  ASSUME NEW b, Airborne(b), NEW e
  PROVE  Copies(b, e) \in Nat
BY DEF Airborne, Copies

LEMMA BagAdd ==
  ASSUME NEW b, Airborne(b), NEW S, S \subseteq Broadcasts
  PROVE  LET c == b (+) SetToBag(S)
         IN Airborne(c) /\ \A e : Copies(c, e) = Copies(b, e) + IF e \in S THEN 1 ELSE 0
<1> DEFINE one == [e \in S |-> 1]
           c == [e \in (DOMAIN b) \cup (DOMAIN one) |->
                   (IF e \in DOMAIN b THEN b[e] ELSE 0)
                   + (IF e \in DOMAIN one THEN one[e] ELSE 0)]
<1>1. b (+) SetToBag(S) = c
  BY Zenon DEF (+), SetToBag
<1>2. DOMAIN c = DOMAIN b \cup S
  OBVIOUS
<1>3. \A e \in DOMAIN c : c[e] = Copies(b, e) + (IF e \in S THEN 1 ELSE 0)
  BY DEF Copies
<1>4. c = [e \in DOMAIN c |-> c[e]]
  OBVIOUS
<1> HIDE DEF c
<1>5. \A e \in DOMAIN c : c[e] \in Nat \ {0}
  <2> SUFFICES ASSUME NEW e \in DOMAIN c
               PROVE  c[e] \in Nat \ {0}
    OBVIOUS
  <2>1. Copies(b, e) \in Nat
    BY CopiesType
  <2>2. e \in S \/ Copies(b, e) # 0
    BY <1>2 DEF Airborne, Copies
  <2> QED
    BY <1>3, <2>1, <2>2
<1>6. Airborne(c)
  BY <1>2, <1>4, <1>5 DEF Airborne
<1>7. \A e : Copies(c, e) = Copies(b, e) + IF e \in S THEN 1 ELSE 0
  BY <1>2, <1>3 DEF Copies
<1> QED
  BY <1>1, <1>6, <1>7

LEMMA BagRemove ==
  ASSUME NEW b, Airborne(b), NEW m \in DOMAIN b
  PROVE  LET c == b (-) SetToBag({m})
         IN /\ Airborne(c)
            /\ \A e : Copies(c, e) = IF e = m THEN Copies(b, e) - 1 ELSE Copies(b, e)
<1> DEFINE one == [e \in {m} |-> 1]
           less == [e \in DOMAIN b |-> IF e \in DOMAIN one THEN b[e] - one[e] ELSE b[e]]
           c == [e \in {d \in DOMAIN less : less[d] > 0} |-> less[e]]
<1>1. b (-) SetToBag({m}) = c
  BY Zenon DEF (-), SetToBag
<1>2. DOMAIN less = DOMAIN b /\ \A e \in DOMAIN b : less[e] = IF e = m THEN b[e] - 1 ELSE b[e]
  OBVIOUS
<1>3. \A e \in DOMAIN b : b[e] \in Nat \ {0}
  BY DEF Airborne
<1> HIDE DEF less
<1>4. /\ DOMAIN c = {d \in DOMAIN b : less[d] > 0}
      /\ \A e \in DOMAIN c : c[e] = less[e]
      /\ c = [e \in DOMAIN c |-> c[e]]
  BY <1>2
<1> HIDE DEF c
<1>5. \A e \in DOMAIN b : less[e] \in Nat
  BY <1>2, <1>3
<1>6. \A e \in DOMAIN c : c[e] \in Nat \ {0}
  BY <1>4, <1>5
<1>7. Airborne(c)
  BY <1>4, <1>6 DEF Airborne
<1>8. \A e : Copies(c, e) = IF e = m THEN Copies(b, e) - 1 ELSE Copies(b, e)
  <2> SUFFICES ASSUME NEW e
               PROVE  Copies(c, e) = IF e = m THEN Copies(b, e) - 1 ELSE Copies(b, e)
    OBVIOUS
  <2>1. CASE e \in DOMAIN b
    BY <1>2, <1>3, <1>4, <1>5, <2>1 DEF Copies
  <2>2. CASE e \notin DOMAIN b
    BY <1>4, <2>2 DEF Copies
  <2> QED
    BY <2>1, <2>2
<1> QED
  BY <1>1, <1>7, <1>8

-----------------------------------------------------------------------------
(* The bytes of the messages in a queue.                                   *)
Cells(q) == UNION {{i} \X DOMAIN q[i].bytes : i \in DOMAIN q}

Row(i, k) == {i} \X (1 .. k)

LEMMA RowSize ==
  ASSUME NEW i, NEW k \in Nat
  PROVE  IsFiniteSet(Row(i, k)) /\ Cardinality(Row(i, k)) = k
<1> DEFINE f == [j \in 1 .. k |-> <<i, j>>]
<1>1. f \in Bijection(1 .. k, Row(i, k))
  <2>1. f \in [1 .. k -> Row(i, k)]
    BY DEF Row
  <2>2. \A a, b \in 1 .. k : f[a] = f[b] => a = b
    OBVIOUS
  <2>3. \A t \in Row(i, k) : \E s \in 1 .. k : f[s] = t
    BY DEF Row
  <2> QED
    BY <2>1, <2>2, <2>3, Fun_IsBij
<1>2. ExistsBijection(1 .. k, Row(i, k))
  BY <1>1 DEF ExistsBijection
<1>3. IsFiniteSet(1 .. k) /\ Cardinality(1 .. k) = k
  BY FS_Interval
<1> QED
  BY <1>2, <1>3, FS_Bijection

LEMMA CellsAre ==
  ASSUME NEW q \in Seq(Messages)
  PROVE  /\ \A i \in 1 .. Len(q) : q[i].bytes \in Seq(Bytes) /\ Len(q[i].bytes) \in Nat
         /\ \A p : p \in Cells(q) <=> \E i \in 1 .. Len(q) : p \in Row(i, Len(q[i].bytes))
<1>1. \A i \in 1 .. Len(q) : q[i].bytes \in Seq(Bytes)
  <2>1. \A i \in 1 .. Len(q) : q[i] \in Messages
    BY ElementOfSeq
  <2> QED
    BY <2>1 DEF Messages
<1>2. \A i \in 1 .. Len(q) : Len(q[i].bytes) \in Nat /\ DOMAIN q[i].bytes = 1 .. Len(q[i].bytes)
  BY <1>1
<1>3. DOMAIN q = 1 .. Len(q)
  OBVIOUS
<1>4. \A i \in 1 .. Len(q) : {i} \X DOMAIN q[i].bytes = Row(i, Len(q[i].bytes))
  BY <1>2 DEF Row
<1>5. \A p : p \in Cells(q) <=> \E i \in 1 .. Len(q) : p \in {i} \X DOMAIN q[i].bytes
  BY <1>3, Zenon DEF Cells
<1>6. \A p : p \in Cells(q) <=> \E i \in 1 .. Len(q) : p \in Row(i, Len(q[i].bytes))
  BY <1>4, <1>5, Zenon
<1> QED
  BY <1>1, <1>2, <1>6

LEMMA CellsAppend ==
  ASSUME NEW q \in Seq(Messages), IsFiniteSet(Cells(q)), NEW x \in Messages
  PROVE  LET r == Append(q, x)
         IN /\ IsFiniteSet(Cells(r)) /\ Len(x.bytes) \in Nat
            /\ Cardinality(Cells(r)) = Cardinality(Cells(q)) + Len(x.bytes)
<1> DEFINE r == Append(q, x)
           n == Len(q) + 1
           k == Len(x.bytes)
<1>1. k \in Nat
  BY DEF Messages
<1>2. /\ r \in Seq(Messages) /\ Len(r) = n /\ Len(q) \in Nat
      /\ \A i \in 1 .. Len(q) : r[i] = q[i]
      /\ r[n] = x
  BY AppendProperties
<1> HIDE DEF r, k
<1>3. \A i \in 1 .. n : i \in 1 .. Len(q) \/ i = n
  BY <1>2
<1>4. Cells(r) = Cells(q) \cup Row(n, k)
  <2>1. \A p : p \in Cells(r) <=> \E i \in 1 .. n : p \in Row(i, Len(r[i].bytes))
    BY <1>2, CellsAre
  <2>2. \A p : p \in Cells(q) <=> \E i \in 1 .. Len(q) : p \in Row(i, Len(q[i].bytes))
    BY CellsAre
  <2>3. \A i \in 1 .. Len(q) : i \in 1 .. n /\ Row(i, Len(r[i].bytes)) = Row(i, Len(q[i].bytes))
    BY <1>2
  <2>4. n \in 1 .. n /\ Row(n, Len(r[n].bytes)) = Row(n, k)
    BY <1>2 DEF k
  <2> HIDE DEF n
  <2>5. ASSUME NEW p PROVE p \in Cells(r) <=> p \in Cells(q) \/ p \in Row(n, k)
    BY <1>3, <2>1, <2>2, <2>3, <2>4
  <2> QED
    BY <2>5
<1>5. Cells(q) \cap Row(n, k) = {}
  <2>1. \A p \in Cells(q) : \E i \in 1 .. Len(q) : p \in Row(i, Len(q[i].bytes))
    BY CellsAre
  <2> QED
    BY <1>2, <2>1 DEF Row
<1>6. IsFiniteSet(Row(n, k)) /\ Cardinality(Row(n, k)) = k
  BY <1>1, RowSize
<1>7. /\ IsFiniteSet(Cells(q) \cup Row(n, k))
      /\ Cardinality(Cells(q) \cup Row(n, k)) = Cardinality(Cells(q)) + k - Cardinality({})
  BY <1>5, <1>6, FS_Union
<1>8. Cardinality({}) = 0 /\ Cardinality(Cells(q)) \in Nat
  BY FS_EmptySet, FS_CardinalityType
<1> QED
  BY <1>1, <1>4, <1>7, <1>8 DEF r, k

LEMMA CellsTail ==
  ASSUME NEW q \in Seq(Messages), IsFiniteSet(Cells(q)), q # <<>>
  PROVE  LET r == Tail(q)
         IN /\ IsFiniteSet(Cells(r)) /\ Len(Head(q).bytes) \in Nat
            /\ Cardinality(Cells(r)) = Cardinality(Cells(q)) - Len(Head(q).bytes)
<1> DEFINE r == Tail(q)
           k == Len(Head(q).bytes)
           head == Row(1, k)
           rest == Cells(q) \ head
           f == [p \in rest |-> <<p[1] - 1, p[2]>>]
<1>1. Len(q) \in Nat \ {0} /\ 1 \in 1 .. Len(q)
  BY EmptySeq
<1>2. /\ r \in Seq(Messages) /\ Len(r) = Len(q) - 1 /\ Head(q) = q[1]
      /\ \A i \in 1 .. Len(r) : r[i] = q[i + 1]
  BY HeadTailProperties
<1>3. /\ \A i \in 1 .. Len(q) : Len(q[i].bytes) \in Nat
      /\ \A p : p \in Cells(q) <=> \E i \in 1 .. Len(q) : p \in Row(i, Len(q[i].bytes))
      /\ \A p : p \in Cells(r) <=> \E i \in 1 .. Len(r) : p \in Row(i, Len(r[i].bytes))
  BY <1>2, CellsAre
<1>4. k \in Nat /\ head = Row(1, Len(q[1].bytes))
  BY <1>1, <1>2, <1>3
<1> HIDE DEF r, k, head
<1>5. head \subseteq Cells(q)
  BY <1>1, <1>3, <1>4
<1>6. \A p : p \in rest <=> \E i \in 2 .. Len(q) : p \in Row(i, Len(q[i].bytes))
  <2> SUFFICES ASSUME NEW p
               PROVE  p \in rest <=> \E i \in 2 .. Len(q) : p \in Row(i, Len(q[i].bytes))
    OBVIOUS
  <2>1. p \in rest => \E i \in 2 .. Len(q) : p \in Row(i, Len(q[i].bytes))
    <3> SUFFICES ASSUME p \in Cells(q), p \notin head
                 PROVE  \E i \in 2 .. Len(q) : p \in Row(i, Len(q[i].bytes))
      OBVIOUS
    <3>1. PICK i \in 1 .. Len(q) : p \in Row(i, Len(q[i].bytes))
      BY <1>3
    <3>2. i # 1
      BY <1>4, <3>1
    <3> QED
      BY <1>1, <3>1, <3>2
  <2>2. ASSUME NEW i \in 2 .. Len(q), p \in Row(i, Len(q[i].bytes))
        PROVE  p \in rest
    <3>1. i \in 1 .. Len(q) /\ i # 1
      BY <1>1
    <3>2. p \in Cells(q)
      BY <1>3, <2>2, <3>1
    <3>3. p \notin head
      BY <1>4, <2>2, <3>1 DEF Row
    <3> QED
      BY <3>2, <3>3
  <2> QED
    BY <2>1, <2>2
<1> HIDE DEF rest
<1>7. f \in Bijection(rest, Cells(r))
  <2>1. f \in [rest -> Cells(r)]
    <3> SUFFICES ASSUME NEW p \in rest
                 PROVE  <<p[1] - 1, p[2]>> \in Cells(r)
      OBVIOUS
    <3>1. PICK i \in 2 .. Len(q) : p \in Row(i, Len(q[i].bytes))
      BY <1>6
    <3>2. i - 1 \in 1 .. Len(r) /\ r[i - 1] = q[i]
      BY <1>1, <1>2
    <3>3. <<p[1] - 1, p[2]>> \in Row(i - 1, Len(r[i - 1].bytes))
      BY <3>1, <3>2 DEF Row
    <3> QED
      BY <1>3, <3>2, <3>3
  <2>2. \A a, b \in rest : f[a] = f[b] => a = b
    <3> SUFFICES ASSUME NEW a \in rest, NEW b \in rest, f[a] = f[b]
                 PROVE  a = b
      OBVIOUS
    <3>1. PICK i \in 2 .. Len(q) : a \in Row(i, Len(q[i].bytes))
      BY <1>6
    <3>2. PICK j \in 2 .. Len(q) : b \in Row(j, Len(q[j].bytes))
      BY <1>6
    <3>3. a = <<i, a[2]>> /\ b = <<j, b[2]>>
      BY <3>1, <3>2 DEF Row
    <3>4. i - 1 = j - 1 /\ a[2] = b[2]
      BY <3>3
    <3> QED
      BY <3>3, <3>4
  <2>3. \A t \in Cells(r) : \E s \in rest : f[s] = t
    <3> SUFFICES ASSUME NEW t \in Cells(r)
                 PROVE  \E s \in rest : f[s] = t
      OBVIOUS
    <3>1. PICK i \in 1 .. Len(r) : t \in Row(i, Len(r[i].bytes))
      BY <1>3
    <3>2. i + 1 \in 2 .. Len(q) /\ r[i] = q[i + 1]
      BY <1>1, <1>2
    <3>3. t = <<i, t[2]>> /\ <<i + 1, t[2]>> \in Row(i + 1, Len(q[i + 1].bytes))
      BY <3>1, <3>2 DEF Row
    <3>4. <<i + 1, t[2]>> \in rest
      BY <1>6, <3>2, <3>3
    <3>5. f[<<i + 1, t[2]>>] = <<i, t[2]>>
      BY <3>4
    <3> QED
      BY <3>3, <3>4, <3>5
  <2> HIDE DEF f
  <2> QED
    BY <2>1, <2>2, <2>3, Fun_IsBij
<1>8. ExistsBijection(rest, Cells(r))
  BY <1>7 DEF ExistsBijection
<1>9. IsFiniteSet(head) /\ Cardinality(head) = k
  BY <1>4, RowSize DEF head
<1>10. IsFiniteSet(rest)
  BY FS_Subset DEF rest
<1>11. Cardinality(Cells(q)) = k + Cardinality(rest) /\ Cardinality(rest) \in Nat
  <2>1. Cells(q) = head \cup rest /\ head \cap rest = {}
    BY <1>5 DEF rest
  <2>2. Cardinality(Cells(q)) = Cardinality(head) + Cardinality(rest) - Cardinality({})
    BY <1>9, <1>10, <2>1, FS_Union
  <2>3. Cardinality({}) = 0 /\ Cardinality(rest) \in Nat
    BY <1>10, FS_EmptySet, FS_CardinalityType
  <2> QED
    BY <1>4, <1>9, <2>2, <2>3
<1>12. IsFiniteSet(Cells(r)) /\ Cardinality(Cells(r)) = Cardinality(rest)
  BY <1>8, <1>10, FS_Bijection
<1> QED
  BY <1>4, <1>11, <1>12 DEF r, k

LEMMA CellsSame ==
  ASSUME NEW q \in Seq(Messages), NEW r \in Seq(Messages), Len(r) = Len(q),
         \A i \in 1 .. Len(q) : r[i].bytes = q[i].bytes
  PROVE  Cells(r) = Cells(q)
<1>1. \A p : p \in Cells(q) <=> \E i \in 1 .. Len(q) : p \in Row(i, Len(q[i].bytes))
  BY CellsAre
<1>2. \A p : p \in Cells(r) <=> \E i \in 1 .. Len(q) : p \in Row(i, Len(r[i].bytes))
  BY CellsAre
<1>3. \A i \in 1 .. Len(q) : Row(i, Len(r[i].bytes)) = Row(i, Len(q[i].bytes))
  OBVIOUS
<1>4. \A p : p \in Cells(r) <=> p \in Cells(q)
  BY <1>1, <1>2, <1>3, Zenon
<1> QED
  BY <1>4

-----------------------------------------------------------------------------
(* The sizes of the port, and the bytes between the line and the queue.    *)

Sizes(x) ==
  /\ \A i \in 0 .. 1 : Len(x.txBuf[i]) <= TxMax
  /\ x.sent <= TxMax /\ x.txMT \in BOOLEAN /\ x.evt \in BOOLEAN
  /\ x.rxTail \in 0 .. RxMax - 1 /\ x.rxTick \in 0 .. IdleTicks /\ x.rxAge \in 0 .. Wrap - 1

(* The room that was found is still there when the item is copied.         *)
Room(x, where) == where = "write" => Len(Filling(x)) < TxMax

Pending(x, n) == Len(x.chunk) + Len(n)

Places == {"idle", "shadow", "poll", "callback", "app", "write"}

PortSizes == Sizes(u) /\ Room(u, at) /\ at \in Places /\ Pending(u, unread) <= ChunkMax

LEMMA PortNumbers ==
  /\ TxMax \in Nat \ {0} /\ RxMax \in Nat \ {0} /\ IdleTicks \in Nat \ {0}
  /\ ChunkMax \in Nat \ {0} /\ Wrap \in Nat \ {0}
<1>1. TxMax \in Nat \ {0} /\ RxMax \in Nat \ {0} /\ IdleTicks \in Nat \ {0} /\ ChunkMax \in Nat \ {0}
  BY UartAssumption
<1>2. Wrap \in Nat \ {0}
  BY UartNumbers
<1> QED
  BY <1>1, <1>2

LEMMA PortTypes ==
  ASSUME UartIInv
  PROVE  /\ DOMAIN u = Fields /\ u.txSel \in 0 .. 1 /\ u.txBuf \in [0 .. 1 -> Seq(Items)]
         /\ u.sent \in Nat /\ u.chunk \in Seq(Bytes) /\ unread \in Seq(Bytes)
         /\ Len(u.chunk) \in Nat /\ Len(unread) \in Nat
         /\ \A i \in 0 .. 1 : Len(u.txBuf[i]) \in Nat
<1>1. /\ DOMAIN u = Fields /\ u.txSel \in 0 .. 1 /\ u.txBuf \in [0 .. 1 -> Seq(Items)]
      /\ u.sent \in Nat /\ u.chunk \in Seq(Bytes) /\ unread \in Seq(Bytes)
  BY DEF UartIInv, TxOK, TxTypes, RxOK, RxTypes
<1>2. Len(u.chunk) \in Nat /\ Len(unread) \in Nat
  BY <1>1
<1>3. \A i \in 0 .. 1 : Len(u.txBuf[i]) \in Nat
  <2>1. \A i \in 0 .. 1 : u.txBuf[i] \in Seq(Items)
    BY <1>1
  <2> QED
    BY <2>1
<1> QED
  BY <1>1, <1>2, <1>3

LEMMA QuietStep ==
  ASSUME PortSizes, Sizes(u'), unread' = unread, u'.chunk = u.chunk,
         \/ at' = at /\ Filling(u') = Filling(u)
         \/ at' \in Places \ {"write"}
  PROVE  PortSizes' /\ Pending(u, unread)' = Pending(u, unread)
<1>1. Pending(u, unread)' = Pending(u, unread)
  BY DEF Pending
<1>2. Sizes(u)'
  BY DEF Sizes
<1>3. Room(u, at)' /\ (at \in Places)'
  BY DEF PortSizes, Room, Places, Filling
<1> QED
  BY <1>1, <1>2, <1>3, Zenon DEF PortSizes

LEMMA SizesKept ==
  ASSUME Sizes(u), UNCHANGED <<u.txBuf, u.sent, u.txMT, u.evt, u.rxTail, u.rxTick, u.rxAge>>
  PROVE  Sizes(u')
BY DEF Sizes

LEMMA MinIn ==
  ASSUME NEW S \in SUBSET Nat, S # {}
  PROVE  Min(S) \in S
<1> DEFINE R == OpToRel(<, Nat)
<1>1. IsWellFoundedOn(R, Nat)
  BY NatLessThanWellFounded
<1> HIDE DEF R
<1>2. PICK x \in S : \A y \in S : ~ (<<y, x>> \in R)
  <2>1. S \subseteq Nat /\ S # {}
    OBVIOUS
  <2> QED
    BY <1>1, <2>1, WFMin, Zenon
<1>3. \A y \in S : x <= y
  <2> SUFFICES ASSUME NEW y \in S
               PROVE  x <= y
    OBVIOUS
  <2>1. x \in Nat /\ y \in Nat
    OBVIOUS
  <2>2. y < x => <<y, x>> \in R
    BY <2>1 DEF OpToRel, R
  <2> QED
    BY <1>2, <2>1, <2>2
<1>4. \E k \in S : \A y \in S : k <= y
  BY <1>3
<1> QED
  BY <1>4, Zenon DEF Min

LEMMA TailInRing ==
  ASSUME UartIInv
  PROVE  findTail \in 0 .. RxMax - 1
<1> DEFINE old == {k \in 0 .. RxMax - 1 : ~ NewRxByte((u.rxHead + k) % RxMax)}
           far == IF old = {} THEN 0 ELSE Min(old)
<1>1. u.rxHead \in 0 .. RxMax - 1
  BY DEF UartIInv, RxOK, RxTypes
<1>2. far \in Nat
  <2>1. old \in SUBSET Nat
    BY PortNumbers
  <2> HIDE DEF old
  <2>2. old # {} => Min(old) \in Nat
    BY <2>1, MinIn
  <2> QED
    BY <2>2
<1>3. findTail = (u.rxHead + far) % RxMax
  BY Zenon DEF findTail
<1> HIDE DEF far
<1> QED
  BY <1>1, <1>2, <1>3, PortNumbers

LEMMA PollReceiveSizes ==
  ASSUME UartIInv, PortSizes, PollReceive
  PROVE  PortSizes' /\ Pending(u, unread)' = Pending(u, unread)
<1> DEFINE t == IdleTimer
           cnt == HalUARTRxAvailDMA
           evt == cnt >= Full \/ cnt >= High \/ (cnt > 0 /\ t.rxTick = 0) \/ t.txMT
           y == [t EXCEPT !.evt = evt, !.txMT = FALSE]
<1>1. u' = y /\ at' = "shadow" /\ UNCHANGED <<wr, owed, unread>>
  BY Zenon DEF PollReceive
<1>2. DOMAIN u = Fields
  BY PortTypes
<1>3. /\ u.rxTick \in 0 .. IdleTicks /\ u.rxAge \in 0 .. Wrap - 1 /\ u.rxTail \in 0 .. RxMax - 1
      /\ 0 \in 0 .. IdleTicks /\ IdleTicks \in 0 .. IdleTicks /\ 0 \in 0 .. Wrap - 1
      /\ findTail \in 0 .. RxMax - 1
  BY PortNumbers, TailInRing DEF PortSizes, Sizes
<1>4. /\ DOMAIN t = Fields /\ t.txBuf = u.txBuf /\ t.sent = u.sent /\ t.chunk = u.chunk
      /\ t.rxTail \in 0 .. RxMax - 1 /\ t.rxTick \in 0 .. IdleTicks /\ t.rxAge \in 0 .. Wrap - 1
  <2> DEFINE tail == findTail
             age == IF u.rxTick = 0 THEN 0 ELSE u.rxAge
             left == IF u.rxTick > u.rxAge THEN u.rxTick - u.rxAge ELSE 0
             a == [u EXCEPT !.rxTick = 0, !.rxAge = 0]
             b == [u EXCEPT !.rxTail = tail, !.rxTick = IdleTicks, !.rxAge = age]
             c == [u EXCEPT !.rxTick = left, !.rxAge = 0]
  <2>1. t = a \/ t = b \/ t = c
    <3>1. b = [u EXCEPT !.rxTail = tail, !.rxTick = IdleTicks,
                        !.rxAge = IF u.rxTick = 0 THEN 0 ELSE @]
      OBVIOUS
    <3>2. c = [u EXCEPT !.rxTick = IF @ > u.rxAge THEN @ - u.rxAge ELSE 0, !.rxAge = 0]
      OBVIOUS
    <3> HIDE DEF a, b, c
    <3> QED
      BY <3>1, <3>2, Zenon DEF IdleTimer, a
  <2>2. age \in 0 .. Wrap - 1 /\ left \in 0 .. IdleTicks /\ tail \in 0 .. RxMax - 1
    BY <1>3, PortNumbers
  <2> HIDE DEF t, tail, age, left
  <2>3. CASE t = a
    <3>1. /\ DOMAIN a = Fields /\ a.txBuf = u.txBuf /\ a.sent = u.sent /\ a.chunk = u.chunk
          /\ a.rxTail = u.rxTail /\ a.rxTick = 0 /\ a.rxAge = 0
      BY <1>2 DEF Fields
    <3> HIDE DEF a
    <3> QED
      BY <1>3, <2>3, <3>1, Zenon
  <2>4. CASE t = b
    <3>1. /\ DOMAIN b = Fields /\ b.txBuf = u.txBuf /\ b.sent = u.sent /\ b.chunk = u.chunk
          /\ b.rxTail = tail /\ b.rxTick = IdleTicks /\ b.rxAge = age
      BY <1>2 DEF Fields
    <3> HIDE DEF b
    <3> QED
      BY <1>3, <2>2, <2>4, <3>1, Zenon
  <2>5. CASE t = c
    <3>1. /\ DOMAIN c = Fields /\ c.txBuf = u.txBuf /\ c.sent = u.sent /\ c.chunk = u.chunk
          /\ c.rxTail = u.rxTail /\ c.rxTick = left /\ c.rxAge = 0
      BY <1>2 DEF Fields
    <3> HIDE DEF c
    <3> QED
      BY <1>3, <2>2, <2>5, <3>1, Zenon
  <2> QED
    BY <2>1, <2>3, <2>4, <2>5
<1>5. evt \in BOOLEAN
  OBVIOUS
<1> HIDE DEF t, evt
<1>6. /\ y.txBuf = t.txBuf /\ y.sent = t.sent /\ y.chunk = t.chunk /\ y.rxTail = t.rxTail
      /\ y.rxTick = t.rxTick /\ y.rxAge = t.rxAge /\ y.evt = evt /\ y.txMT = FALSE
  BY <1>4 DEF Fields
<1> HIDE DEF y
<1>7. Sizes(u')
  BY <1>1, <1>4, <1>5, <1>6, Zenon DEF PortSizes, Sizes
<1>8. u'.chunk = u.chunk /\ at' \in Places \ {"write"}
  BY <1>1, <1>4, <1>6 DEF Places
<1> QED
  BY <1>1, <1>7, <1>8, QuietStep

LEMMA PollShadowSizes ==
  ASSUME UartIInv, PortSizes, PollShadow
  PROVE  PortSizes' /\ Pending(u, unread)' = Pending(u, unread)
<1> DEFINE y == [u EXCEPT !.txShdwValid = FALSE, !.txAge = 0]
<1>1. (u' = y \/ u' = u) /\ at' = "poll" /\ unread' = unread
  BY DEF PollShadow
<1>2. DOMAIN u = Fields
  BY PortTypes
<1>3. /\ y.txBuf = u.txBuf /\ y.sent = u.sent /\ y.txMT = u.txMT /\ y.evt = u.evt
      /\ y.rxTail = u.rxTail /\ y.rxTick = u.rxTick /\ y.rxAge = u.rxAge /\ y.chunk = u.chunk
  BY <1>2 DEF Fields
<1> HIDE DEF y
<1>4. Sizes(u')
  BY <1>1, <1>3, SizesKept DEF PortSizes
<1>5. u'.chunk = u.chunk /\ at' \in Places \ {"write"}
  BY <1>1, <1>3 DEF Places
<1> QED
  BY <1>1, <1>4, <1>5, QuietStep

(* The end and the start of a transmit.                                    *)
LEMMA TransmitSizes ==
  ASSUME UartIInv, Sizes(u)
  PROVE  Sizes(HalUARTIsrDMA(u)) /\ Sizes(Fire(u))
<1> DEFINE pending == u.txDMAPending \/ u.txBuf[u.txSel] # <<>>
           y == [u EXCEPT !.irq = FALSE, !.txBuf[1 - u.txSel] = <<>>, !.txMT = TRUE,
                    !.txShdwValid = TRUE, !.txAge = 0, !.sent = 0, !.txDMAPending = pending]
           q == u.txBuf[u.txSel]
           more == Len(q) > 1
           last == Len(q) = 1
           z == [u EXCEPT !.txDMAPending = FALSE, !.txSel = 1 - u.txSel, !.sent = 1,
                    !.dbuf = Head(q), !.dbufAge = 0, !.armed = more, !.irq = last]
<1>1. HalUARTIsrDMA(u) = y
  BY Zenon DEF HalUARTIsrDMA
<1>2. Fire(u) = z
  BY Zenon DEF Fire
<1>3. DOMAIN u = Fields /\ u.txSel \in 0 .. 1 /\ u.txBuf \in [0 .. 1 -> Seq(Items)]
  BY PortTypes
<1> HIDE DEF pending, q, more, last
<1>4. /\ y.txBuf = [u.txBuf EXCEPT ![1 - u.txSel] = <<>>] /\ y.sent = 0 /\ y.txMT = TRUE
      /\ y.evt = u.evt /\ y.rxTail = u.rxTail /\ y.rxTick = u.rxTick /\ y.rxAge = u.rxAge
  BY <1>3 DEF Fields
<1>5. /\ z.txBuf = u.txBuf /\ z.sent = 1 /\ z.txMT = u.txMT
      /\ z.evt = u.evt /\ z.rxTail = u.rxTail /\ z.rxTick = u.rxTick /\ z.rxAge = u.rxAge
  BY <1>3 DEF Fields
<1> HIDE DEF y, z
<1>6. \A i \in 0 .. 1 : Len(y.txBuf[i]) <= TxMax
  <2> SUFFICES ASSUME NEW i \in 0 .. 1
               PROVE  Len(y.txBuf[i]) <= TxMax
    OBVIOUS
  <2>1. y.txBuf[i] = <<>> \/ y.txBuf[i] = u.txBuf[i]
    BY <1>3, <1>4
  <2>2. Len(<<>>) <= TxMax
    BY PortNumbers
  <2>3. Len(u.txBuf[i]) <= TxMax
    BY DEF Sizes
  <2> QED
    BY <2>1, <2>2, <2>3, Zenon
<1>7. 0 <= TxMax /\ 1 <= TxMax /\ TRUE \in BOOLEAN
  BY PortNumbers
<1>8. Sizes(y)
  BY <1>4, <1>6, <1>7, Zenon DEF Sizes
<1>9. Sizes(z)
  BY <1>5, <1>7, Zenon DEF Sizes
<1> QED
  BY <1>1, <1>2, <1>8, <1>9, Zenon

LEMMA PollTransmitSizes ==
  ASSUME UartIInv, PortSizes, PollTransmit
  PROVE  PortSizes' /\ Pending(u, unread)' = Pending(u, unread)
<1> DEFINE f == Fire(u)
           e == HalUARTIsrDMA(u)
<1>1. /\ u' = f \/ u' = e \/ u' = u
      /\ at' = "callback" \/ at' = "idle"
      /\ unread' = unread
  BY Zenon DEF PollTransmit
<1>2. Sizes(f) /\ Sizes(e) /\ Sizes(u)
  BY TransmitSizes DEF PortSizes
<1>3. f.chunk = u.chunk /\ e.chunk = u.chunk
  BY PortTypes, TxOnly
<1> HIDE DEF f, e
<1>4. Sizes(u') /\ u'.chunk = u.chunk
  BY <1>1, <1>2, <1>3
<1>5. at' \in Places \ {"write"}
  BY <1>1 DEF Places
<1> QED
  BY <1>1, <1>4, <1>5, QuietStep

LEMMA IsrSizes ==
  ASSUME UartIInv, PortSizes, IsrDMA
  PROVE  PortSizes' /\ Pending(u, unread)' = Pending(u, unread)
<1> DEFINE e == HalUARTIsrDMA(u)
<1>1. u' = e /\ at' = at /\ unread' = unread
  BY DEF IsrDMA
<1>2. u.txSel \in 0 .. 1 /\ u.txBuf \in [0 .. 1 -> Seq(Items)] /\ DOMAIN u = Fields
  BY PortTypes
<1>3. Sizes(e)
  BY TransmitSizes DEF PortSizes
<1>4. e.chunk = u.chunk /\ e.txSel = u.txSel /\ e.txBuf = [u.txBuf EXCEPT ![1 - u.txSel] = <<>>]
  BY <1>2, TxOnly
<1> HIDE DEF e
<1>5. Filling(e) = Filling(u)
  BY <1>2, <1>4 DEF Filling
<1> QED
  BY <1>1, <1>3, <1>4, <1>5, QuietStep

LEMMA DmaSizes ==
  ASSUME UartIInv, PortSizes, DmaNext
  PROVE  PortSizes' /\ Pending(u, unread)' = Pending(u, unread)
<1> DEFINE b == u.txBuf[1 - u.txSel]
           n == u.sent + 1
           more == n < Len(b)
           last == n = Len(b)
           y == [u EXCEPT !.dbuf = b[n], !.dbufAge = 0, !.sent = n, !.armed = more, !.irq = last]
<1>1. u.armed /\ u' = y /\ UNCHANGED <<at, unread>>
  BY Zenon DEF DmaNext
<1>2. DOMAIN u = Fields
  BY PortTypes
<1>3. n <= TxMax
  <2>1. u.sent < Len(b)
    BY <1>1 DEF UartIInv, TxOK, Line, Draining
  <2>2. 1 - u.txSel \in 0 .. 1 /\ u.sent \in Nat
    BY PortTypes
  <2>3. Len(b) \in Nat
    BY <2>2, PortTypes
  <2>4. Len(b) <= TxMax
    BY <2>2 DEF PortSizes, Sizes
  <2> HIDE DEF b
  <2> QED
    BY <2>1, <2>2, <2>3, <2>4, PortNumbers
<1> HIDE DEF b, n, more, last
<1>4. /\ y.txBuf = u.txBuf /\ y.txSel = u.txSel /\ y.sent = n /\ y.txMT = u.txMT /\ y.evt = u.evt
      /\ y.rxTail = u.rxTail /\ y.rxTick = u.rxTick /\ y.rxAge = u.rxAge /\ y.chunk = u.chunk
  BY <1>2 DEF Fields
<1> HIDE DEF y
<1>5. Sizes(u')
  BY <1>1, <1>3, <1>4, Zenon DEF PortSizes, Sizes
<1>6. Filling(u') = Filling(u) /\ u'.chunk = u.chunk
  BY <1>1, <1>4 DEF Filling
<1> QED
  BY <1>1, <1>5, <1>6, QuietStep

LEMMA TakeSizes ==
  ASSUME UartIInv, PortSizes, UartTakes
  PROVE  PortSizes' /\ Pending(u, unread)' = Pending(u, unread)
<1> DEFINE y == [u EXCEPT !.dbuf = None, !.dbufAge = 0]
<1>1. u' = y /\ UNCHANGED <<at, unread>>
  BY DEF UartTakes
<1>2. DOMAIN u = Fields
  BY PortTypes
<1>3. /\ y.txBuf = u.txBuf /\ y.txSel = u.txSel /\ y.sent = u.sent /\ y.txMT = u.txMT /\ y.evt = u.evt
      /\ y.rxTail = u.rxTail /\ y.rxTick = u.rxTick /\ y.rxAge = u.rxAge /\ y.chunk = u.chunk
  BY <1>2 DEF Fields
<1> HIDE DEF y
<1>4. Sizes(u')
  BY <1>1, <1>3, SizesKept DEF PortSizes
<1>5. Filling(u') = Filling(u) /\ u'.chunk = u.chunk
  BY <1>1, <1>3 DEF Filling
<1> QED
  BY <1>1, <1>4, <1>5, QuietStep

LEMMA TickSizes ==
  ASSUME UartIInv, PortSizes, Tick
  PROVE  PortSizes' /\ Pending(u, unread)' = Pending(u, unread)
<1> DEFINE age == IF u.txShdwValid THEN (u.txAge + 1) % Wrap ELSE 0
           rx == IF u.rxTick > 0 THEN (u.rxAge + 1) % Wrap ELSE 0
           stay == IF u.dbuf # None THEN u.dbufAge + 1 ELSE 0
           y == [u EXCEPT !.txAge = age, !.rxAge = rx, !.dbufAge = stay]
<1>1. u' = y /\ UNCHANGED <<at, unread>>
  BY DEF Tick
<1>2. DOMAIN u = Fields
  BY PortTypes
<1>3. rx \in 0 .. Wrap - 1
  <2>1. u.rxAge \in 0 .. Wrap - 1
    BY DEF PortSizes, Sizes
  <2>2. (u.rxAge + 1) % Wrap \in 0 .. Wrap - 1 /\ 0 \in 0 .. Wrap - 1
    BY <2>1, PortNumbers
  <2> QED
    BY <2>2, Zenon
<1> HIDE DEF age, rx, stay
<1>4. /\ y.txBuf = u.txBuf /\ y.txSel = u.txSel /\ y.sent = u.sent /\ y.txMT = u.txMT /\ y.evt = u.evt
      /\ y.rxTail = u.rxTail /\ y.rxTick = u.rxTick /\ y.rxAge = rx /\ y.chunk = u.chunk
  BY <1>2 DEF Fields
<1> HIDE DEF y
<1>5. Sizes(u')
  BY <1>1, <1>3, <1>4, Zenon DEF PortSizes, Sizes
<1>6. Filling(u') = Filling(u) /\ u'.chunk = u.chunk
  BY <1>1, <1>4 DEF Filling
<1> QED
  BY <1>1, <1>5, <1>6, QuietStep

(* A byte is there to be read whenever the ring is not empty.              *)
LEMMA ReadSizes ==
  ASSUME UartIInv, PortSizes, CallbackRead
  PROVE  PortSizes' /\ Pending(u, unread)' = Pending(u, unread)
<1> DEFINE next == (u.rxHead + 1) % RxMax
           got == Append(u.chunk, u.rxBuf[u.rxHead])
           n == Len(unread)
           y == [u EXCEPT !.chunk = got, !.rxBuf[u.rxHead] = None, !.rxHead = next]
<1>1. /\ u' = y /\ at = "callback" /\ at' = at /\ u.rxBuf[u.rxHead] # None
      /\ unread' = SubSeq(unread, 2, n)
  BY DEF CallbackRead, NewRxByte
<1>2. DOMAIN u = Fields /\ unread \in Seq(Bytes) /\ u.chunk \in Seq(Bytes) /\ n \in Nat
      /\ Len(u.chunk) \in Nat
  BY PortTypes
<1>3. /\ u.rxHead \in 0 .. RxMax - 1
      /\ \A i \in 1 .. RxMax : u.rxBuf[Slot(u.rxHead, i)] = IF i <= n THEN unread[i] ELSE None
  BY DEF UartIInv, RxOK, RxTypes
<1>4. n >= 1
  <2>1. 1 \in 1 .. RxMax /\ Slot(u.rxHead, 1) = u.rxHead
    <3>1. 1 \in 1 .. RxMax
      BY PortNumbers
    <3>2. u.rxHead \in 0 .. RxMax - 1
      BY <1>3
    <3> QED
      BY <3>1, <3>2, SlotFacts
  <2>2. 1 <= n
    BY <1>1, <1>3, <2>1
  <2> QED
    BY <1>2, <2>2
<1>5. Len(unread') = n - 1
  <2>1. unread # <<>>
    BY <1>2, <1>4
  <2>2. Tail(unread) = unread'
    BY <1>1, <1>2, <2>1, TailIsSubSeq
  <2> QED
    BY <1>2, <2>1, <2>2, HeadTailProperties
<1>6. Len(got) = Len(u.chunk) + 1
  BY <1>2, LenProperties, AppendProperties
<1> HIDE DEF next, got
<1>7. /\ y.txBuf = u.txBuf /\ y.txSel = u.txSel /\ y.sent = u.sent /\ y.txMT = u.txMT /\ y.evt = u.evt
      /\ y.rxTail = u.rxTail /\ y.rxTick = u.rxTick /\ y.rxAge = u.rxAge /\ y.chunk = got
  BY <1>2 DEF Fields
<1> HIDE DEF y
<1>8. Sizes(u')
  BY <1>1, <1>7, SizesKept DEF PortSizes
<1>9. Sizes(u)'
  BY <1>8 DEF Sizes
<1>10. Pending(u, unread)' = Pending(u, unread)
  <2>1. Len(u'.chunk) = Len(u.chunk) + 1
    BY <1>1, <1>6, <1>7
  <2> HIDE DEF n
  <2>2. Len(u'.chunk) + Len(unread') = Len(u.chunk) + n
    BY <1>2, <1>5, <2>1
  <2> QED
    BY <2>2 DEF Pending, n
<1>11. Room(u, at)' /\ (at \in Places)'
  BY <1>1 DEF Room, Places
<1> QED
  BY <1>9, <1>10, <1>11, Zenon DEF PortSizes

LEMMA PortCounts ==
  ASSUME UartIInv, PortSizes, Port
  PROVE  PortSizes' /\ Pending(u, unread)' = Pending(u, unread)
BY PollReceiveSizes, PollShadowSizes, PollTransmitSizes, ReadSizes, IsrSizes, DmaSizes,
   TakeSizes, TickSizes
DEF Port, Background, UartHardware

LEMMA CallbackEndSizes ==
  ASSUME UartIInv, PortSizes, CallbackEnd
  PROVE  PortSizes' /\ Pending(u, unread)' + Len(u.chunk) = Pending(u, unread)
<1> DEFINE y == [u EXCEPT !.chunk = <<>>, !.evt = FALSE]
<1>1. u' = y /\ at' = "idle" /\ unread' = unread
  BY DEF CallbackEnd
<1>2. DOMAIN u = Fields /\ Len(u.chunk) \in Nat /\ Len(unread) \in Nat
  BY PortTypes
<1>3. /\ y.txBuf = u.txBuf /\ y.sent = u.sent /\ y.txMT = u.txMT /\ y.evt = FALSE
      /\ y.rxTail = u.rxTail /\ y.rxTick = u.rxTick /\ y.rxAge = u.rxAge /\ y.chunk = <<>>
  BY <1>2 DEF Fields
<1> HIDE DEF y
<1>4. Sizes(u)'
  <2>1. Sizes(u')
    BY <1>1, <1>3, Zenon DEF PortSizes, Sizes
  <2> QED
    BY <2>1 DEF Sizes
<1>5. Pending(u, unread)' = Len(unread)
  <2>1. Len(<<>>) = 0 /\ 0 + Len(unread) = Len(unread)
    BY <1>2
  <2> QED
    BY <1>1, <1>3, <2>1 DEF Pending
<1>6. Pending(u, unread)' <= ChunkMax /\ Pending(u, unread)' + Len(u.chunk) = Pending(u, unread)
  <2>1. Pending(u, unread) = Len(u.chunk) + Len(unread)
    BY DEF Pending
  <2>2. Pending(u, unread) <= ChunkMax
    BY DEF PortSizes
  <2> QED
    BY <1>2, <1>5, <2>1, <2>2, PortNumbers
<1>7. Room(u, at)' /\ (at \in Places)'
  BY <1>1 DEF Room, Places
<1> QED
  BY <1>4, <1>6, <1>7, Zenon DEF PortSizes

LEMMA ArrivalSizes ==
  ASSUME UartIInv, PortSizes, NEW b \in Bytes, ByteArrives(b)
  PROVE  PortSizes' /\ Pending(u, unread)' = Pending(u, unread) + 1
<1> DEFINE next == (u.rxDma + 1) % RxMax
           y == [u EXCEPT !.rxBuf[u.rxDma] = b, !.rxDma = next]
<1>1. /\ u' = y /\ at' = at /\ unread' = Append(unread, b)
      /\ Len(unread) + Len(u.chunk) < ChunkMax
  BY DEF ByteArrives
<1>2. DOMAIN u = Fields /\ unread \in Seq(Bytes) /\ Len(u.chunk) \in Nat /\ Len(unread) \in Nat
  BY PortTypes
<1> HIDE DEF next
<1>3. /\ y.txBuf = u.txBuf /\ y.txSel = u.txSel /\ y.sent = u.sent /\ y.txMT = u.txMT /\ y.evt = u.evt
      /\ y.rxTail = u.rxTail /\ y.rxTick = u.rxTick /\ y.rxAge = u.rxAge /\ y.chunk = u.chunk
  BY <1>2 DEF Fields
<1> HIDE DEF y
<1>4. Sizes(u)'
  <2>1. Sizes(u')
    BY <1>1, <1>3, SizesKept DEF PortSizes
  <2> QED
    BY <2>1 DEF Sizes
<1>5. Len(unread') = Len(unread) + 1
  BY <1>1, <1>2, AppendProperties
<1>6. Pending(u, unread)' = Len(u.chunk) + (Len(unread) + 1)
  BY <1>1, <1>3, <1>5 DEF Pending
<1>7. Pending(u, unread)' <= ChunkMax /\ Pending(u, unread)' = Pending(u, unread) + 1
  <2>1. Pending(u, unread) = Len(u.chunk) + Len(unread)
    BY DEF Pending
  <2>2. \A c, n \in Nat : n + c < ChunkMax => c + (n + 1) <= ChunkMax /\ c + (n + 1) = c + n + 1
    BY PortNumbers
  <2>3. Len(u.chunk) \in Nat /\ Len(unread) \in Nat /\ Len(unread) + Len(u.chunk) < ChunkMax
    BY <1>1, <1>2
  <2>4. /\ Len(u.chunk) + (Len(unread) + 1) <= ChunkMax
        /\ Len(u.chunk) + (Len(unread) + 1) = Len(u.chunk) + Len(unread) + 1
    BY <2>2, <2>3
  <2> QED
    BY <1>6, <2>1, <2>4, Zenon
<1>8. Room(u, at)' /\ (at \in Places)'
  <2>1. Filling(u)' = Filling(u)
    BY <1>1, <1>3 DEF Filling
  <2> QED
    BY <1>1, <2>1 DEF PortSizes, Room, Places
<1> QED
  BY <1>4, <1>7, <1>8, Zenon DEF PortSizes

(* The buffer that has room keeps it until the item is in.                 *)
LEMMA BeginSizes ==
  ASSUME UartIInv, PortSizes, NEW item, NEW from, WriteBegin(item, from)
  PROVE  PortSizes' /\ Pending(u, unread)' = Pending(u, unread)
<1>1. /\ u' = u /\ unread' = unread /\ at' = "write"
      /\ Len(Filling(u)) + 1 <= TxMax
  BY DEF WriteBegin, Filling
<1>2. Sizes(u)' /\ Pending(u, unread)' = Pending(u, unread)
  BY <1>1 DEF PortSizes, Sizes, Pending
<1>3. Len(Filling(u)) < TxMax
  <2>1. Len(Filling(u)) \in Nat
    BY PortTypes DEF Filling
  <2> QED
    BY <1>1, <2>1, PortNumbers
<1>4. Room(u, at)' /\ (at \in Places)'
  BY <1>1, <1>3 DEF Room, Places, Filling
<1> QED
  BY <1>2, <1>4, Zenon DEF PortSizes

LEMMA CommitSizes ==
  ASSUME UartIInv, PortSizes, WriteCommit("app")
  PROVE  PortSizes' /\ Pending(u, unread)' = Pending(u, unread)
<1> DEFINE s == u.txSel
           idx == IF s = wr.sel THEN wr.idx ELSE Len(u.txBuf[s])
           q == Append(SubSeq(u.txBuf[s], 1, idx), wr.item)
           pending == u.txDMAPending \/ u.txBuf[1 - s] = <<>>
           y == [u EXCEPT !.txBuf[s] = q, !.txDMAPending = pending]
<1>1. at = "write" /\ u' = y /\ at' = "app" /\ unread' = unread
  BY Zenon DEF WriteCommit
<1>2. DOMAIN u = Fields /\ s \in 0 .. 1 /\ u.txBuf \in [0 .. 1 -> Seq(Items)]
  BY PortTypes
<1>3. Len(q) <= TxMax
  <2>1. Filling(u) \in Seq(Items) /\ Len(Filling(u)) \in Nat
    BY <1>2, LenProperties DEF Filling
  <2>2. wr.item \in Items /\ idx = Len(Filling(u)) /\ Len(Filling(u)) < TxMax
    BY <1>1 DEF UartIInv, Writing, PortSizes, Room, Filling
  <2>3. SubSeq(Filling(u), 1, idx) = Filling(u)
    BY <2>1, <2>2, SubSeqFull
  <2>4. q = Append(Filling(u), wr.item)
    BY <2>3 DEF Filling
  <2>5. Len(q) = Len(Filling(u)) + 1
    <3>1. wr.item \in Items
      BY <2>2
    <3> HIDE DEF q
    <3> QED
      BY <2>1, <2>4, <3>1, AppendProperties
  <2> HIDE DEF q
  <2> QED
    BY <2>1, <2>2, <2>5, PortNumbers
<1> HIDE DEF q, pending, idx
<1>4. /\ y.txBuf = [u.txBuf EXCEPT ![s] = q] /\ y.sent = u.sent /\ y.txMT = u.txMT /\ y.evt = u.evt
      /\ y.rxTail = u.rxTail /\ y.rxTick = u.rxTick /\ y.rxAge = u.rxAge /\ y.chunk = u.chunk
  BY <1>2 DEF Fields
<1> HIDE DEF y
<1>5. \A i \in 0 .. 1 : Len(y.txBuf[i]) <= TxMax
  <2> SUFFICES ASSUME NEW i \in 0 .. 1
               PROVE  Len(y.txBuf[i]) <= TxMax
    OBVIOUS
  <2>1. y.txBuf[i] = q \/ y.txBuf[i] = u.txBuf[i]
    BY <1>2, <1>4
  <2>2. Len(u.txBuf[i]) <= TxMax
    BY DEF PortSizes, Sizes
  <2> QED
    BY <1>3, <2>1, <2>2, Zenon
<1>6. Sizes(u')
  BY <1>1, <1>4, <1>5, Zenon DEF PortSizes, Sizes
<1>7. u'.chunk = u.chunk /\ at' \in Places \ {"write"}
  BY <1>1, <1>4 DEF Places
<1> QED
  BY <1>1, <1>6, <1>7, QuietStep

LEMMA StillSizes ==
  ASSUME PortSizes, UNCHANGED <<u, unread>>, at' = at \/ at' \in {"idle", "app"}
  PROVE  PortSizes' /\ Pending(u, unread)' = Pending(u, unread)
<1>1. Sizes(u') /\ u'.chunk = u.chunk /\ Filling(u') = Filling(u)
  BY DEF PortSizes
<1>2. at' = at \/ at' \in Places \ {"write"}
  BY DEF Places
<1> QED
  BY <1>1, <1>2, QuietStep

-----------------------------------------------------------------------------
(* The lamps' turns.                                                       *)

To(n, cmd) == [to |-> n, cmd |-> cmd]

Held(l, b, n) ==
  l[n].turns + Copies(b, To(n, "openCurtain")) + Copies(b, To(n, "closeCurtain"))

InputCounts == [bytes : 0 .. MaxBytes, keys : 0 .. MaxKeys]
LampStates == [Lamps -> [light : 0 .. 1, turns : Nat]]

(* A byte turns a motor once at most: a lamp's turns, the commands that    *)
(* are on their way to it and the bytes nobody has handled came in.        *)
Counted(l, b, q, x, r, i) ==
  /\ Airborne(b) /\ l \in LampStates /\ IsFiniteSet(Cells(q))
  /\ i \in InputCounts
  /\ \A n \in Lamps : Held(l, b, n) + (Pending(x, r) + Cardinality(Cells(q))) <= i.bytes

HomeSafe == HomeIInv /\ PortSizes /\ Counted(lamp, air, inbox, u, unread, inputs)

LEMMA CountedNext ==
  ASSUME Counted(lamp', air', inbox', u', unread', inputs')
  PROVE  Counted(lamp, air, inbox, u, unread, inputs)'
BY DEF Counted, Airborne, Cells, Held, Copies, To, Pending, LampStates, InputCounts

LEMMA CountNumbers ==
  ASSUME HomeIInv, Counted(lamp, air, inbox, u, unread, inputs)
  PROVE  /\ Pending(u, unread) \in Nat /\ Cardinality(Cells(inbox)) \in Nat
         /\ inputs.bytes \in Nat
         /\ \A n \in Lamps : Held(lamp, air, n) \in Nat
<1>1. Pending(u, unread) \in Nat
  BY PortTypes DEF HomeIInv, Pending
<1>2. Cardinality(Cells(inbox)) \in Nat
  BY FS_CardinalityType DEF Counted
<1>3. inputs.bytes \in Nat
  BY DEF Counted, InputCounts
<1>4. ASSUME NEW n \in Lamps
      PROVE  Held(lamp, air, n) \in Nat
  <2>1. lamp[n].turns \in Nat
    BY DEF Counted, LampStates
  <2>2. Copies(air, To(n, "openCurtain")) \in Nat /\ Copies(air, To(n, "closeCurtain")) \in Nat
    BY CopiesType DEF Counted
  <2> QED
    BY <2>1, <2>2 DEF Held
<1> QED
  BY <1>1, <1>2, <1>3, <1>4

(* The same, or less, on both sides.                                       *)
LEMMA CountedKeeps ==
  ASSUME HomeIInv, Counted(lamp, air, inbox, u, unread, inputs),
         Airborne(air'), lamp' \in LampStates, IsFiniteSet(Cells(inbox')),
         inputs' \in InputCounts, inputs'.bytes = inputs.bytes,
         Pending(u', unread') \in Nat, Cardinality(Cells(inbox')) \in Nat,
         \A n \in Lamps : Held(lamp', air', n) \in Nat /\ Held(lamp', air', n) <= Held(lamp, air, n),
         Pending(u', unread') + Cardinality(Cells(inbox'))
           <= Pending(u, unread) + Cardinality(Cells(inbox))
  PROVE  Counted(lamp, air, inbox, u, unread, inputs)'
<1>1. ASSUME NEW n \in Lamps
      PROVE  Held(lamp', air', n) + (Pending(u', unread') + Cardinality(Cells(inbox')))
               <= inputs'.bytes
  <2>1. \A a, b, c, d, e, f, g \in Nat :
          a <= b /\ c + d <= e + f /\ b + (e + f) <= g => a + (c + d) <= g
    OBVIOUS
  <2>2. /\ Pending(u, unread) \in Nat /\ Cardinality(Cells(inbox)) \in Nat
        /\ inputs.bytes \in Nat /\ Held(lamp, air, n) \in Nat
    BY CountNumbers
  <2>3. Held(lamp, air, n) + (Pending(u, unread) + Cardinality(Cells(inbox))) <= inputs.bytes
    BY DEF Counted
  <2>4. Held(lamp', air', n) \in Nat /\ Held(lamp', air', n) <= Held(lamp, air, n)
    OBVIOUS
  <2>5. Held(lamp', air', n) + (Pending(u', unread') + Cardinality(Cells(inbox'))) <= inputs.bytes
    BY <2>1, <2>2, <2>3, <2>4
  <2> QED
    BY <2>5
<1>2. Counted(lamp', air', inbox', u', unread', inputs')
  BY <1>1 DEF Counted
<1> QED
  BY <1>2, CountedNext

LEMMA HeldType ==
  ASSUME NEW l \in LampStates, NEW b, Airborne(b), NEW n \in Lamps
  PROVE  Held(l, b, n) \in Nat
<1>1. l[n].turns \in Nat
  BY DEF LampStates
<1>2. Copies(b, To(n, "openCurtain")) \in Nat /\ Copies(b, To(n, "closeCurtain")) \in Nat
  BY CopiesType
<1> QED
  BY <1>1, <1>2 DEF Held

LEMMA CountedStill ==
  ASSUME HomeSafe, UNCHANGED <<lamp, air, inputs>>,
         Pending(u, unread)' = Pending(u, unread), Cells(inbox') = Cells(inbox)
  PROVE  Counted(lamp, air, inbox, u, unread, inputs)'
<1>1. HomeIInv /\ Counted(lamp, air, inbox, u, unread, inputs)
  BY DEF HomeSafe
<1>2. Pending(u', unread') = Pending(u, unread)
  BY DEF Pending
<1>3. /\ Pending(u, unread) \in Nat /\ Cardinality(Cells(inbox)) \in Nat
      /\ \A n \in Lamps : Held(lamp, air, n) \in Nat
  BY <1>1, CountNumbers
<1>4. /\ Airborne(air) /\ lamp \in LampStates /\ IsFiniteSet(Cells(inbox))
      /\ inputs \in InputCounts
  BY <1>1 DEF Counted
<1>5. \A a \in Nat : a <= a
  OBVIOUS
<1>6. \A n \in Lamps : Held(lamp', air', n) \in Nat /\ Held(lamp', air', n) <= Held(lamp, air, n)
  BY <1>3, <1>5
<1>7. Pending(u, unread) + Cardinality(Cells(inbox)) <= Pending(u, unread) + Cardinality(Cells(inbox))
  BY <1>3
<1> QED
  BY <1>1, <1>2, <1>3, <1>4, <1>6, <1>7, CountedKeeps

LEMMA PortSafe ==
  ASSUME HomeSafe, Port
  PROVE  HomeSafe'
<1>1. HomeIInv'
  BY PortKeeps DEF HomeSafe
<1>2. PortSizes' /\ Pending(u, unread)' = Pending(u, unread)
  BY PortCounts DEF HomeSafe, HomeIInv
<1>3. UNCHANGED <<lamp, air, inputs>> /\ Cells(inbox') = Cells(inbox)
  BY DEF Port
<1>4. Counted(lamp, air, inbox, u, unread, inputs)'
  BY <1>2, <1>3, CountedStill
<1> QED
  BY <1>1, <1>2, <1>4 DEF HomeSafe

(* A message comes into the queue: its bytes come from the port.           *)
LEMMA CountedQueued ==
  ASSUME HomeSafe, NEW x \in Messages, inbox' = Append(inbox, x),
         inputs' \in InputCounts, inputs'.bytes = inputs.bytes,
         Airborne(air'), lamp' = lamp,
         \A n \in Lamps : Held(lamp, air', n) <= Held(lamp, air, n),
         Pending(u', unread') \in Nat,
         Pending(u', unread') + Len(x.bytes) = Pending(u, unread)
  PROVE  Counted(lamp, air, inbox, u, unread, inputs)'
<1>1. HomeIInv /\ Counted(lamp, air, inbox, u, unread, inputs)
  BY DEF HomeSafe
<1>2. inbox \in Seq(Messages) /\ IsFiniteSet(Cells(inbox)) /\ lamp \in LampStates
  BY <1>1 DEF HomeIInv, Counted
<1>3. /\ IsFiniteSet(Cells(inbox')) /\ Len(x.bytes) \in Nat
      /\ Cardinality(Cells(inbox')) = Cardinality(Cells(inbox)) + Len(x.bytes)
  BY <1>2, CellsAppend
<1>4. Pending(u, unread) \in Nat /\ Cardinality(Cells(inbox)) \in Nat
  BY <1>1, CountNumbers
<1>5. Cardinality(Cells(inbox')) \in Nat
  BY <1>3, <1>4
<1>6. Pending(u', unread') + Cardinality(Cells(inbox'))
        <= Pending(u, unread) + Cardinality(Cells(inbox))
  <2>1. \A p, q, c, k \in Nat : p + k = q => p + (c + k) <= q + c
    OBVIOUS
  <2>2. Pending(u', unread') + (Cardinality(Cells(inbox)) + Len(x.bytes))
          <= Pending(u, unread) + Cardinality(Cells(inbox))
    BY <1>3, <1>4, <2>1
  <2> QED
    BY <1>3, <2>2
<1>7. \A n \in Lamps : Held(lamp', air', n) \in Nat
  BY <1>2, HeldType
<1> QED
  BY <1>1, <1>2, <1>3, <1>5, <1>6, <1>7, CountedKeeps

(* A message that does not turn a motor leaves the queue.                  *)
LEMMA CountedHandled ==
  ASSUME HomeSafe, inbox # <<>>, inbox' = Tail(inbox), UNCHANGED <<lamp, air, inputs, u, unread>>
  PROVE  Counted(lamp, air, inbox, u, unread, inputs)'
<1>1. HomeIInv /\ Counted(lamp, air, inbox, u, unread, inputs)
  BY DEF HomeSafe
<1>2. inbox \in Seq(Messages) /\ IsFiniteSet(Cells(inbox)) /\ lamp \in LampStates /\ Airborne(air)
      /\ inputs \in InputCounts
  BY <1>1 DEF HomeIInv, Counted
<1>3. /\ IsFiniteSet(Cells(inbox')) /\ Len(Head(inbox).bytes) \in Nat
      /\ Cardinality(Cells(inbox')) = Cardinality(Cells(inbox)) - Len(Head(inbox).bytes)
  BY <1>2, CellsTail
<1>4. /\ Pending(u, unread) \in Nat /\ Cardinality(Cells(inbox)) \in Nat
      /\ \A n \in Lamps : Held(lamp, air, n) \in Nat
  BY <1>1, CountNumbers
<1>5. Cardinality(Cells(inbox')) \in Nat
  BY <1>3, FS_CardinalityType
<1>6. Pending(u, unread) + Cardinality(Cells(inbox'))
        <= Pending(u, unread) + Cardinality(Cells(inbox))
  <2>1. \A p, b, c, k \in Nat : b = c - k => p + b <= p + c
    OBVIOUS
  <2> QED
    BY <1>3, <1>4, <1>5, <2>1
<1>7. \A n \in Lamps : Held(lamp', air', n) \in Nat /\ Held(lamp', air', n) <= Held(lamp, air, n)
  <2>1. \A a \in Nat : a <= a
    OBVIOUS
  <2> QED
    BY <1>4, <2>1
<1>8. Pending(u', unread') = Pending(u, unread)
  OBVIOUS
<1> QED
  BY <1>1, <1>2, <1>3, <1>4, <1>5, <1>6, <1>7, <1>8, CountedKeeps

(* The commands and the reports of a broadcast.                            *)
LEMMA CommandFacts ==
  /\ DOMAIN Did = {"openLight", "closeLight", "openCurtain", "closeCurtain"}
  /\ \A c \in DOMAIN Did : Did[c] \in Reports
  /\ \A r \in Reports : r # "openCurtain" /\ r # "closeCurtain"
<1>1. DOMAIN Did = {"openLight", "closeLight", "openCurtain", "closeCurtain"}
  BY DEF Did
<1>2. \A c \in DOMAIN Did : Did[c] \in Reports
  BY DEF Reports
<1>3. /\ Did["openLight"] = "didOpenLight" /\ Did["closeLight"] = "didCloseLight"
      /\ Did["openCurtain"] = "didOpenCurtain" /\ Did["closeCurtain"] = "didCloseCurtain"
  BY DEF Did
<1>4. Reports = {"didOpenLight", "didCloseLight", "didOpenCurtain", "didCloseCurtain"}
  <2>1. \A r : r \in Reports <=> \E c \in DOMAIN Did : r = Did[c]
    BY DEF Reports
  <2> QED
    BY <1>1, <1>3, <2>1
<1> QED
  BY <1>1, <1>2, <1>4

Heard(from, cmd, got) == [to : got \ {from}, cmd : {cmd}]

LEMMA HeardFacts ==
  ASSUME NEW from, NEW cmd \in DOMAIN Did \cup Reports, NEW got \in SUBSET Nodes
  PROVE  /\ Heard(from, cmd, got) \subseteq Broadcasts
         /\ \A n, c : To(n, c) \in Heard(from, cmd, got) => c = cmd
BY DEF Heard, Broadcasts, To

(* A broadcast is taken out of the air.                                    *)
LEMMA HeldLess ==
  ASSUME NEW l \in LampStates, NEW b, Airborne(b), NEW m \in DOMAIN b
  PROVE  LET c == b (-) SetToBag({m})
         IN Airborne(c) /\ \A n \in Lamps : Held(l, c, n) <= Held(l, b, n)
<1> DEFINE c == b (-) SetToBag({m})
<1>1. /\ Airborne(c)
      /\ \A e : Copies(c, e) = IF e = m THEN Copies(b, e) - 1 ELSE Copies(b, e)
  BY BagRemove
<1> HIDE DEF c
<1>2. ASSUME NEW n \in Lamps
      PROVE  Held(l, c, n) <= Held(l, b, n)
  <2>1. /\ Copies(b, To(n, "openCurtain")) \in Nat /\ Copies(b, To(n, "closeCurtain")) \in Nat
        /\ Copies(c, To(n, "openCurtain")) \in Nat /\ Copies(c, To(n, "closeCurtain")) \in Nat
        /\ l[n].turns \in Nat
    BY <1>1, CopiesType DEF LampStates
  <2>2. /\ Copies(c, To(n, "openCurtain")) <= Copies(b, To(n, "openCurtain"))
        /\ Copies(c, To(n, "closeCurtain")) <= Copies(b, To(n, "closeCurtain"))
    BY <1>1, <2>1
  <2>3. \A t, p, q, r, s \in Nat : p <= r /\ q <= s => t + p + q <= t + r + s
    OBVIOUS
  <2> QED
    BY <2>1, <2>2, <2>3 DEF Held
<1> QED
  BY <1>1, <1>2 DEF c

(* A command comes into the air: at most one for each lamp.                *)
LEMMA HeldMore ==
  ASSUME NEW l \in LampStates, NEW b, Airborne(b), NEW cmd \in DOMAIN Did,
         NEW got \in SUBSET Nodes
  PROVE  LET c == b (+) Broadcast("gate", cmd, got)
         IN Airborne(c) /\ \A n \in Lamps : Held(l, c, n) <= Held(l, b, n) + 1
<1> DEFINE S == Heard("gate", cmd, got)
           c == b (+) SetToBag(S)
<1>1. S \subseteq Broadcasts /\ \A n, d : To(n, d) \in S => d = cmd
  BY HeardFacts
<1> HIDE DEF S
<1>2. Airborne(c) /\ \A e : Copies(c, e) = Copies(b, e) + IF e \in S THEN 1 ELSE 0
  BY <1>1, BagAdd
<1> HIDE DEF c
<1>3. ASSUME NEW n \in Lamps
      PROVE  Held(l, c, n) <= Held(l, b, n) + 1
  <2>1. /\ Copies(b, To(n, "openCurtain")) \in Nat /\ Copies(b, To(n, "closeCurtain")) \in Nat
        /\ l[n].turns \in Nat
    BY CopiesType DEF LampStates
  <2>2. To(n, "openCurtain") \notin S \/ To(n, "closeCurtain") \notin S
    BY <1>1
  <2>3. /\ Copies(c, To(n, "openCurtain"))
             = Copies(b, To(n, "openCurtain")) + IF To(n, "openCurtain") \in S THEN 1 ELSE 0
        /\ Copies(c, To(n, "closeCurtain"))
             = Copies(b, To(n, "closeCurtain")) + IF To(n, "closeCurtain") \in S THEN 1 ELSE 0
    BY <1>2
  <2> QED
    BY <2>1, <2>2, <2>3 DEF Held
<1>4. c = b (+) Broadcast("gate", cmd, got)
  BY Zenon DEF c, S, Broadcast, Heard
<1> QED
  BY <1>2, <1>3, <1>4

(* A lamp obeys: it turns its motor for a command that is gone.            *)
LEMMA HeldObeyed ==
  ASSUME NEW l \in LampStates, NEW b, Airborne(b), NEW m \in DOMAIN b,
         m.to \in Lamps, m.cmd \in DOMAIN Did, NEW got \in SUBSET Nodes
  PROVE  LET c == (b (-) SetToBag({m})) (+) Broadcast(m.to, Did[m.cmd], got)
             k == [l EXCEPT ![m.to] = Obey(@, m.cmd)]
         IN Airborne(c) /\ k \in LampStates /\ \A n \in Lamps : Held(k, c, n) <= Held(l, b, n)
<1> DEFINE a == b (-) SetToBag({m})
           S == Heard(m.to, Did[m.cmd], got)
           c == a (+) SetToBag(S)
           new == Obey(l[m.to], m.cmd)
           k == [l EXCEPT ![m.to] = new]
<1>1. /\ Airborne(a)
      /\ \A e : Copies(a, e) = IF e = m THEN Copies(b, e) - 1 ELSE Copies(b, e)
  BY BagRemove
<1> HIDE DEF a
<1>2. S \subseteq Broadcasts /\ \A n, d : To(n, d) \in S => d # "openCurtain" /\ d # "closeCurtain"
  BY CommandFacts, HeardFacts
<1> HIDE DEF S
<1>3. Airborne(c) /\ \A e : Copies(c, e) = Copies(a, e) + IF e \in S THEN 1 ELSE 0
  BY <1>1, <1>2, BagAdd
<1> HIDE DEF c
<1>4. \A n : /\ Copies(b, To(n, "openCurtain")) \in Nat /\ Copies(b, To(n, "closeCurtain")) \in Nat
             /\ Copies(c, To(n, "openCurtain"))
                  = IF To(n, "openCurtain") = m THEN Copies(b, To(n, "openCurtain")) - 1
                    ELSE Copies(b, To(n, "openCurtain"))
             /\ Copies(c, To(n, "closeCurtain"))
                  = IF To(n, "closeCurtain") = m THEN Copies(b, To(n, "closeCurtain")) - 1
                    ELSE Copies(b, To(n, "closeCurtain"))
  BY <1>1, <1>2, <1>3, CopiesType
<1>5. m = To(m.to, m.cmd)
  <2>1. m \in Broadcasts
    BY DEF Airborne
  <2> QED
    BY <2>1 DEF Broadcasts, To
<1>6. /\ l[m.to] \in [light : 0 .. 1, turns : Nat] /\ l[m.to].turns \in Nat
      /\ new \in [light : 0 .. 1, turns : Nat]
      /\ new.turns = IF m.cmd \in {"openCurtain", "closeCurtain"} THEN l[m.to].turns + 1
                     ELSE l[m.to].turns
  <2>1. l[m.to] \in [light : 0 .. 1, turns : Nat]
    BY DEF LampStates
  <2>2. m.cmd \in {"openLight", "closeLight", "openCurtain", "closeCurtain"}
    BY CommandFacts
  <2> DEFINE x == l[m.to]
  <2> HIDE DEF x
  <2>3. x \in [light : 0 .. 1, turns : Nat] /\ new = Obey(x, m.cmd)
    BY <2>1, Zenon DEF x
  <2>4. CASE m.cmd = "openLight"
    BY <2>3, <2>4 DEF Obey, x
  <2>5. CASE m.cmd = "closeLight"
    BY <2>3, <2>5 DEF Obey, x
  <2>6. CASE m.cmd \in {"openCurtain", "closeCurtain"}
    BY <2>3, <2>6 DEF Obey, x
  <2> QED
    BY <2>2, <2>4, <2>5, <2>6
<1> HIDE DEF new
<1>7. k \in LampStates
  BY <1>6 DEF LampStates
<1>8. ASSUME NEW n \in Lamps
      PROVE  Held(k, c, n) <= Held(l, b, n)
  <2>1. l[n].turns \in Nat
    BY DEF LampStates
  <2>2. CASE n # m.to
    <3>1. k[n] = l[n]
      BY <2>2 DEF LampStates
    <3>2. To(n, "openCurtain") # m /\ To(n, "closeCurtain") # m
      BY <2>2 DEF To
    <3>3. Held(k, c, n) = Held(l, b, n)
      BY <1>4, <3>1, <3>2 DEF Held
    <3>4. Held(l, b, n) \in Nat
      BY HeldType
    <3> QED
      BY <3>3, <3>4
  <2>3. CASE n = m.to
    <3>1. k[n].turns = IF m.cmd \in {"openCurtain", "closeCurtain"} THEN l[n].turns + 1
                       ELSE l[n].turns
      BY <1>6, <2>3 DEF LampStates
    <3>2. /\ To(n, "openCurtain") = m <=> m.cmd = "openCurtain"
          /\ To(n, "closeCurtain") = m <=> m.cmd = "closeCurtain"
      BY <1>5, <2>3 DEF To
    <3>3. CASE m.cmd = "openCurtain"
      BY <1>4, <2>1, <3>1, <3>2, <3>3 DEF Held
    <3>4. CASE m.cmd = "closeCurtain"
      BY <1>4, <2>1, <3>1, <3>2, <3>4 DEF Held
    <3>5. CASE m.cmd # "openCurtain" /\ m.cmd # "closeCurtain"
      BY <1>4, <2>1, <3>1, <3>2, <3>5 DEF Held
    <3> QED
      BY <3>3, <3>4, <3>5
  <2> QED
    BY <2>2, <2>3
<1>9. c = (b (-) SetToBag({m})) (+) Broadcast(m.to, Did[m.cmd], got)
  BY Zenon DEF c, a, S, Broadcast, Heard
<1>10. k = [l EXCEPT ![m.to] = Obey(@, m.cmd)]
  BY DEF new
<1> HIDE DEF k
<1> QED
  BY <1>3, <1>7, <1>8, <1>9, <1>10

LEMMA SafeParts ==
  ASSUME HomeSafe
  PROVE  /\ HomeIInv /\ UartIInv /\ PortSizes /\ Counted(lamp, air, inbox, u, unread, inputs)
         /\ inbox \in Seq(Messages) /\ IsFiniteSet(Cells(inbox)) /\ Airborne(air)
         /\ lamp \in LampStates /\ inputs \in InputCounts
         /\ Pending(u, unread) \in Nat /\ Cardinality(Cells(inbox)) \in Nat
         /\ inputs.bytes \in Nat
<1>1. HomeIInv /\ UartIInv /\ PortSizes /\ Counted(lamp, air, inbox, u, unread, inputs)
  BY DEF HomeSafe, HomeIInv
<1>2. inbox \in Seq(Messages)
  BY <1>1 DEF HomeIInv
<1>3. IsFiniteSet(Cells(inbox)) /\ Airborne(air) /\ lamp \in LampStates /\ inputs \in InputCounts
  BY <1>1 DEF Counted
<1> QED
  BY <1>1, <1>2, <1>3, CountNumbers

LEMMA HeldStill ==
  ASSUME HomeSafe
  PROVE  \A n \in Lamps : Held(lamp, air, n) <= Held(lamp, air, n)
<1>1. \A n \in Lamps : Held(lamp, air, n) \in Nat
  BY SafeParts, CountNumbers
<1>2. \A a \in Nat : a <= a
  OBVIOUS
<1> QED
  BY <1>1, <1>2

LEMMA SerialSafe ==
  ASSUME HomeSafe, SerialMessage
  PROVE  HomeSafe'
<1>1. HomeIInv' /\ CallbackEnd /\ UNCHANGED <<air, lamp, inputs>>
  BY SerialKeeps, SafeParts DEF SerialMessage
<1>2. PortSizes' /\ Pending(u, unread)' + Len(u.chunk) = Pending(u, unread)
  BY <1>1, CallbackEndSizes, SafeParts
<1>3. Pending(u', unread') + Len(u.chunk) = Pending(u, unread) /\ Pending(u', unread') \in Nat
  <2>1. Pending(u', unread') = Pending(u, unread)'
    BY DEF Pending
  <2>2. UartIInv'
    BY <1>1 DEF HomeIInv
  <2>3. Len(u'.chunk) \in Nat /\ Len(unread') \in Nat
    BY <2>2 DEF UartIInv, RxOK, RxTypes
  <2>4. Pending(u', unread') \in Nat
    BY <2>3 DEF Pending
  <2> QED
    BY <1>2, <2>1, <2>4, Zenon
<1>4. Counted(lamp, air, inbox, u, unread, inputs)'
  <2>1. CASE u.chunk = <<>>
    <3>1. inbox' = inbox
      BY <2>1 DEF SerialMessage
    <3>2. Pending(u', unread') + 0 = Pending(u, unread)
      BY <1>3, <2>1
    <3>3. Pending(u, unread)' = Pending(u, unread)
      BY <1>3, <3>2 DEF Pending
    <3> QED
      BY <1>1, <3>1, <3>3, CountedStill
  <2>2. CASE u.chunk # <<>>
    <3>1. inbox' = Append(inbox, Serial(u.chunk)) /\ Serial(u.chunk).bytes = u.chunk
      BY <2>2 DEF SerialMessage, Serial
    <3>2. Serial(u.chunk) \in Messages
      BY SafeParts, EmptySeq DEF UartIInv, RxOK, RxTypes, Serial, Messages
    <3>3. Airborne(air') /\ inputs' \in InputCounts /\ inputs'.bytes = inputs.bytes /\ lamp' = lamp
      BY <1>1, SafeParts
    <3>4. \A n \in Lamps : Held(lamp, air', n) <= Held(lamp, air, n)
      BY <1>1, HeldStill
    <3>5. Pending(u', unread') + Len(Serial(u.chunk).bytes) = Pending(u, unread)
      BY <1>3, <3>1
    <3> QED
      BY <1>3, <3>1, <3>2, <3>3, <3>4, <3>5, CountedQueued
  <2> QED
    BY <2>1, <2>2
<1> QED
  BY <1>1, <1>2, <1>4 DEF HomeSafe

LEMMA ByteSafe ==
  ASSUME HomeSafe, NEW b \in Bytes, SerialByte(b)
  PROVE  HomeSafe'
<1>1. /\ ByteArrives(b) /\ UNCHANGED <<inbox, air, lamp>> /\ inputs.bytes < MaxBytes
      /\ inputs' = [inputs EXCEPT !.bytes = @ + 1]
  BY DEF SerialByte
<1>2. HomeIInv'
  BY InboxKeeps, SafeParts DEF Inputs
<1>3. PortSizes' /\ Pending(u, unread)' = Pending(u, unread) + 1
  BY <1>1, ArrivalSizes, SafeParts
<1>4. inputs' \in InputCounts /\ inputs'.bytes = inputs.bytes + 1
  <2>1. inputs \in [bytes : 0 .. MaxBytes, keys : 0 .. MaxKeys]
    BY SafeParts DEF InputCounts
  <2>2. inputs.bytes + 1 \in 0 .. MaxBytes
    BY <1>1, <2>1, SmartHomeAssumption
  <2> QED
    BY <1>1, <2>1, <2>2 DEF InputCounts
<1>5. ASSUME NEW n \in Lamps
      PROVE  Held(lamp', air', n) + (Pending(u', unread') + Cardinality(Cells(inbox')))
               <= inputs'.bytes
  <2>1. Held(lamp, air, n) + (Pending(u, unread) + Cardinality(Cells(inbox))) <= inputs.bytes
    BY SafeParts DEF Counted
  <2>2. /\ Pending(u, unread) \in Nat /\ Cardinality(Cells(inbox)) \in Nat
        /\ inputs.bytes \in Nat /\ Held(lamp, air, n) \in Nat
    BY SafeParts, CountNumbers
  <2>3. \A h, p, c, i \in Nat : h + (p + c) <= i => h + ((p + 1) + c) <= i + 1
    OBVIOUS
  <2>4. Held(lamp, air, n) + ((Pending(u, unread) + 1) + Cardinality(Cells(inbox)))
          <= inputs.bytes + 1
    BY <2>1, <2>2, <2>3
  <2>5. Pending(u', unread') = Pending(u, unread) + 1
    BY <1>3 DEF Pending
  <2> QED
    BY <1>1, <1>4, <2>4, <2>5
<1>6. Counted(lamp', air', inbox', u', unread', inputs')
  <2>1. Airborne(air') /\ lamp' \in LampStates /\ IsFiniteSet(Cells(inbox'))
    BY <1>1, SafeParts
  <2> QED
    BY <1>4, <1>5, <2>1 DEF Counted
<1> QED
  BY <1>2, <1>3, <1>6, CountedNext DEF HomeSafe

LEMMA KeysSafe ==
  ASSUME HomeSafe, NEW items \in {<<"key5">>, <<"key4">>, <<"key5", "key4">>}, KeysChange(items)
  PROVE  HomeSafe'
<1>1. /\ UNCHANGED uartVars /\ UNCHANGED <<air, lamp>> /\ inbox' = Append(inbox, Tell(items))
      /\ inputs.keys < MaxKeys /\ inputs' = [inputs EXCEPT !.keys = @ + 1]
  BY DEF KeysChange
<1>2. HomeIInv'
  BY InboxKeeps, SafeParts DEF Inputs
<1>3. UNCHANGED <<u, unread, at>>
  BY <1>1 DEF uartVars
<1>4. PortSizes'
  BY <1>3, StillSizes, SafeParts
<1>5. inputs' \in InputCounts /\ inputs'.bytes = inputs.bytes
  <2>1. inputs \in [bytes : 0 .. MaxBytes, keys : 0 .. MaxKeys]
    BY SafeParts DEF InputCounts
  <2>2. inputs.keys + 1 \in 0 .. MaxKeys
    BY <1>1, <2>1, SmartHomeAssumption
  <2> QED
    BY <1>1, <2>1, <2>2 DEF InputCounts
<1>6. Tell(items) \in Messages /\ Tell(items).bytes = <<>>
  BY TellFacts DEF Tell
<1>7. Pending(u', unread') \in Nat /\ Pending(u', unread') + Len(Tell(items).bytes) = Pending(u, unread)
  <2>1. Pending(u, unread) + Len(<<>>) = Pending(u, unread) /\ Pending(u, unread) \in Nat
    BY SafeParts
  <2> QED
    BY <1>3, <1>6, <2>1
<1>8. Airborne(air') /\ \A n \in Lamps : Held(lamp, air', n) <= Held(lamp, air, n)
  BY <1>1, HeldStill, SafeParts
<1>9. Counted(lamp, air, inbox, u, unread, inputs)'
  BY <1>1, <1>5, <1>6, <1>7, <1>8, CountedQueued
<1> QED
  BY <1>2, <1>4, <1>9 DEF HomeSafe

LEMMA GateSafe ==
  ASSUME HomeSafe, NEW m \in BagToSet(air), GateReceives(m)
  PROVE  HomeSafe'
<1> DEFINE w == IF m.cmd \in Reports THEN <<m.cmd>> ELSE <<>>
<1>1. /\ UNCHANGED uartVars /\ UNCHANGED <<lamp, inputs>> /\ inbox' = Append(inbox, Tell(w))
      /\ air' = air (-) SetToBag({m})
  BY DEF GateReceives
<1>2. HomeIInv'
  BY InboxKeeps, SafeParts DEF Inputs
<1>3. UNCHANGED <<u, unread, at>>
  BY <1>1 DEF uartVars
<1>4. PortSizes'
  BY <1>3, StillSizes, SafeParts
<1>5. Tell(w) \in Messages /\ Tell(w).bytes = <<>>
  BY TellFacts DEF Tell
<1> HIDE DEF w
<1>6. Pending(u', unread') \in Nat /\ Pending(u', unread') + Len(Tell(w).bytes) = Pending(u, unread)
  <2>1. Pending(u, unread) + Len(<<>>) = Pending(u, unread) /\ Pending(u, unread) \in Nat
    BY SafeParts
  <2> QED
    BY <1>3, <1>5, <2>1
<1>7. Airborne(air') /\ \A n \in Lamps : Held(lamp, air', n) <= Held(lamp, air, n)
  <2>1. m \in DOMAIN air /\ Airborne(air) /\ lamp \in LampStates
    BY SafeParts DEF BagToSet
  <2> QED
    BY <1>1, <2>1, HeldLess
<1>8. inputs' \in InputCounts /\ inputs'.bytes = inputs.bytes
  BY <1>1, SafeParts
<1>9. Counted(lamp, air, inbox, u, unread, inputs)'
  BY <1>1, <1>5, <1>6, <1>7, <1>8, CountedQueued
<1> QED
  BY <1>2, <1>4, <1>9 DEF HomeSafe

LEMMA LampSafe ==
  ASSUME HomeSafe, NEW m \in BagToSet(air), LampReceives(m)
  PROVE  HomeSafe'
<1>1. UNCHANGED <<uartVars, inbox, inputs>> /\ m.to \in Lamps
  BY DEF LampReceives
<1>2. HomeIInv'
  BY InboxKeeps, SafeParts
<1>3. UNCHANGED <<u, unread, at>>
  BY <1>1 DEF uartVars
<1>4. PortSizes'
  BY <1>3, StillSizes, SafeParts
<1>5. m \in DOMAIN air /\ Airborne(air) /\ lamp \in LampStates
  BY SafeParts DEF BagToSet
<1>6. Airborne(air') /\ lamp' \in LampStates /\ \A n \in Lamps : Held(lamp', air', n) <= Held(lamp, air, n)
  <2>1. CASE m.cmd \in DOMAIN Did
    <3>1. PICK got \in SUBSET Nodes :
            /\ lamp' = [lamp EXCEPT ![m.to] = Obey(@, m.cmd)]
            /\ air' = (air (-) SetToBag({m})) (+) Broadcast(m.to, Did[m.cmd], got)
      BY <2>1 DEF LampReceives
    <3> QED
      BY <1>1, <1>5, <2>1, <3>1, HeldObeyed
  <2>2. CASE m.cmd \notin DOMAIN Did
    <3>1. air' = air (-) SetToBag({m}) /\ lamp' = lamp
      BY <2>2 DEF LampReceives
    <3> QED
      BY <1>5, <3>1, HeldLess
  <2> QED
    BY <2>1, <2>2
<1>7. /\ inputs' \in InputCounts /\ inputs'.bytes = inputs.bytes /\ IsFiniteSet(Cells(inbox'))
      /\ Pending(u', unread') \in Nat /\ Cardinality(Cells(inbox')) \in Nat
      /\ Pending(u', unread') + Cardinality(Cells(inbox'))
           <= Pending(u, unread) + Cardinality(Cells(inbox))
  <2>1. Pending(u, unread) + Cardinality(Cells(inbox)) <= Pending(u, unread) + Cardinality(Cells(inbox))
    BY SafeParts
  <2> QED
    BY <1>1, <1>3, <2>1, SafeParts
<1>8. \A n \in Lamps : Held(lamp', air', n) \in Nat
  BY <1>6, HeldType
<1>9. Counted(lamp, air, inbox, u, unread, inputs)'
  BY <1>6, <1>7, <1>8, SafeParts, CountedKeeps
<1> QED
  BY <1>2, <1>4, <1>9 DEF HomeSafe

(* The message that is served is the first of the queue.                   *)
LEMMA HeadFacts ==
  ASSUME HomeSafe, inbox # <<>>
  PROVE  /\ Head(inbox) \in Messages /\ Head(inbox).bytes \in Seq(Bytes)
         /\ Len(Head(inbox).bytes) \in Nat /\ IsFiniteSet(Cells(Tail(inbox)))
         /\ Cardinality(Cells(Tail(inbox))) \in Nat
         /\ Cardinality(Cells(Tail(inbox))) = Cardinality(Cells(inbox)) - Len(Head(inbox).bytes)
<1>1. inbox \in Seq(Messages) /\ IsFiniteSet(Cells(inbox))
  BY SafeParts
<1>2. Head(inbox) \in Messages
  BY <1>1, HeadTailProperties
<1>3. Head(inbox).bytes \in Seq(Bytes)
  BY <1>2 DEF Messages
<1>4. /\ IsFiniteSet(Cells(Tail(inbox))) /\ Len(Head(inbox).bytes) \in Nat
      /\ Cardinality(Cells(Tail(inbox))) = Cardinality(Cells(inbox)) - Len(Head(inbox).bytes)
  BY <1>1, CellsTail
<1>5. Cardinality(Cells(Tail(inbox))) \in Nat
  BY <1>4, FS_CardinalityType
<1> QED
  BY <1>2, <1>3, <1>4, <1>5

(* A message of bytes becomes one command at most for each lamp.           *)
LEMMA AppSerialCounted ==
  ASSUME HomeSafe, AppSerial
  PROVE  Counted(lamp, air, inbox, u, unread, inputs)'
<1> DEFINE k == Len(Head(inbox).bytes)
<1>1. /\ inbox # <<>> /\ Head(inbox).bytes # <<>> /\ inbox' = Tail(inbox)
      /\ UNCHANGED <<uartVars, lamp, inputs>>
  BY DEF AppSerial
<1>2. UNCHANGED <<u, unread>>
  BY <1>1 DEF uartVars
<1>3. /\ IsFiniteSet(Cells(inbox')) /\ Cardinality(Cells(inbox')) \in Nat /\ k \in Nat
      /\ Cardinality(Cells(inbox')) = Cardinality(Cells(inbox)) - k
  BY <1>1, HeadFacts
<1>4. k >= 1
  <2>1. Head(inbox).bytes \in Seq(Bytes)
    BY <1>1, HeadFacts
  <2>2. Len(Head(inbox).bytes) # 0
    BY <1>1, <2>1
  <2> QED
    BY <1>3, <2>2
<1> HIDE DEF k
<1>5. Airborne(air') /\ \A n \in Lamps : Held(lamp, air', n) <= Held(lamp, air, n) + 1
  <2>1. Airborne(air) /\ lamp \in LampStates
    BY SafeParts
  <2>2. CASE Head(Head(inbox).bytes) \in DOMAIN Did
    <3> DEFINE first == Head(Head(inbox).bytes)
    <3>1. PICK got \in SUBSET Nodes : air' = air (+) Broadcast("gate", first, got)
      BY <2>2 DEF AppSerial
    <3>2. first \in DOMAIN Did
      BY <2>2
    <3> HIDE DEF first
    <3> QED
      BY <2>1, <3>1, <3>2, HeldMore
  <2>3. CASE Head(Head(inbox).bytes) \notin DOMAIN Did
    <3>1. air' = air
      BY <2>3 DEF AppSerial
    <3>2. \A n \in Lamps : Held(lamp, air, n) \in Nat
      BY SafeParts, CountNumbers
    <3>3. \A a \in Nat : a <= a + 1
      OBVIOUS
    <3> QED
      BY <2>1, <3>1, <3>2, <3>3
  <2> QED
    BY <2>2, <2>3
<1>6. ASSUME NEW n \in Lamps
      PROVE  Held(lamp', air', n) + (Pending(u', unread') + Cardinality(Cells(inbox')))
               <= inputs'.bytes
  <2>1. Held(lamp, air, n) + (Pending(u, unread) + Cardinality(Cells(inbox))) <= inputs.bytes
    BY SafeParts DEF Counted
  <2>2. /\ Pending(u, unread) \in Nat /\ Cardinality(Cells(inbox)) \in Nat
        /\ inputs.bytes \in Nat /\ Held(lamp, air, n) \in Nat
    BY SafeParts, CountNumbers
  <2>3. Held(lamp, air', n) \in Nat /\ Held(lamp, air', n) <= Held(lamp, air, n) + 1
    BY <1>5, HeldType, SafeParts
  <2>4. \A h, g, p, c, d, j, i \in Nat :
          h + (p + c) <= i /\ g <= h + 1 /\ d = c - j /\ j >= 1 => g + (p + d) <= i
    OBVIOUS
  <2>5. Held(lamp, air', n) + (Pending(u, unread) + Cardinality(Cells(inbox'))) <= inputs.bytes
    BY <1>3, <1>4, <2>1, <2>2, <2>3, <2>4
  <2> QED
    BY <1>1, <1>2, <2>5
<1>7. Counted(lamp', air', inbox', u', unread', inputs')
  <2>1. lamp' \in LampStates /\ inputs' \in InputCounts
    BY <1>1, SafeParts
  <2> QED
    BY <1>3, <1>5, <1>6, <2>1 DEF Counted
<1> QED
  BY <1>7, CountedNext

(* Telling the host takes no byte out of the queue.                        *)
LEMMA DropCells ==
  ASSUME HomeSafe, inbox # <<>>, Head(inbox).writes # <<>>
  PROVE  Cells(DropWrite) = Cells(inbox)
<1> DEFINE m == [Head(inbox) EXCEPT !.writes = Tail(Head(inbox).writes)]
<1>1. inbox \in Seq(Messages) /\ 1 \in 1 .. Len(inbox) /\ Head(inbox) = inbox[1]
      /\ DOMAIN inbox = 1 .. Len(inbox) /\ Head(inbox) \in Messages
  BY SafeParts, HeadFacts, EmptySeq
<1>2. m \in Messages /\ m.bytes = Head(inbox).bytes
  <2> DEFINE h == Head(inbox)
  <2>1. h \in Messages /\ h.writes # <<>>
    BY <1>1
  <2> HIDE DEF h
  <2>2. Tail(h.writes) \in Seq(Items)
    <3>1. h.writes \in Seq(Items)
      BY <2>1 DEF Messages
    <3> QED
      BY <2>1, <3>1, HeadTailProperties
  <2>3. [h EXCEPT !.writes = Tail(h.writes)] \in Messages
        /\ [h EXCEPT !.writes = Tail(h.writes)].bytes = h.bytes
    BY <2>1, <2>2 DEF Messages
  <2> QED
    BY <2>3 DEF h
<1>3. DropWrite = [inbox EXCEPT ![1] = m]
  BY <1>1 DEF DropWrite
<1> HIDE DEF m
<1>4. DropWrite \in Seq(Messages) /\ Len(DropWrite) = Len(inbox)
  BY <1>1, <1>2, <1>3, ExceptSeq
<1>5. \A i \in 1 .. Len(inbox) : DropWrite[i].bytes = inbox[i].bytes
  BY <1>1, <1>2, <1>3
<1> QED
  BY <1>1, <1>4, <1>5, CellsSame

LEMMA AppSafe ==
  ASSUME HomeSafe, App
  PROVE  HomeSafe'
<1>1. HomeIInv'
  BY AppKeeps, SafeParts
<1>2. CASE AppStart \/ AppEnd
  <2>1. UNCHANGED <<u, unread, inbox, air, lamp, inputs>> /\ at' \in {"idle", "app"}
    BY <1>2 DEF AppStart, AppEnd
  <2>2. PortSizes' /\ Pending(u, unread)' = Pending(u, unread)
    BY <2>1, StillSizes, SafeParts
  <2>3. Counted(lamp, air, inbox, u, unread, inputs)'
    BY <2>1, <2>2, CountedStill
  <2> QED
    BY <1>1, <2>2, <2>3 DEF HomeSafe
<1>3. CASE AppSerial
  <2>1. UNCHANGED <<u, unread, at>>
    BY <1>3 DEF AppSerial, uartVars
  <2>2. PortSizes'
    BY <2>1, StillSizes, SafeParts
  <2> QED
    BY <1>1, <1>3, <2>2, AppSerialCounted DEF HomeSafe
<1>4. CASE AppWrite
  <2>1. /\ inbox # <<>> /\ Head(inbox).writes # <<>> /\ inbox' = DropWrite
        /\ WriteBegin(Head(Head(inbox).writes), "app") /\ UNCHANGED <<air, lamp, inputs>>
    BY <1>4 DEF AppWrite
  <2>2. PortSizes' /\ Pending(u, unread)' = Pending(u, unread)
    BY <2>1, BeginSizes, SafeParts
  <2>3. Counted(lamp, air, inbox, u, unread, inputs)'
    BY <2>1, <2>2, DropCells, CountedStill
  <2> QED
    BY <1>1, <2>2, <2>3 DEF HomeSafe
<1>5. CASE AppWriteRefused
  <2>1. /\ inbox # <<>> /\ Head(inbox).writes # <<>> /\ inbox' = DropWrite
        /\ UNCHANGED <<u, at, unread, air, lamp, inputs>>
    BY <1>5 DEF AppWriteRefused, uartVars
  <2>2. PortSizes' /\ Pending(u, unread)' = Pending(u, unread)
    BY <2>1, StillSizes, SafeParts
  <2>3. Counted(lamp, air, inbox, u, unread, inputs)'
    BY <2>1, <2>2, DropCells, CountedStill
  <2> QED
    BY <1>1, <2>2, <2>3 DEF HomeSafe
<1>6. CASE AppWritten
  <2>1. WriteCommit("app") /\ UNCHANGED <<inbox, air, lamp, inputs>>
    BY <1>6 DEF AppWritten
  <2>2. PortSizes' /\ Pending(u, unread)' = Pending(u, unread)
    BY <2>1, CommitSizes, SafeParts
  <2>3. Counted(lamp, air, inbox, u, unread, inputs)'
    BY <2>1, <2>2, CountedStill
  <2> QED
    BY <1>1, <2>2, <2>3 DEF HomeSafe
<1>7. CASE AppDone
  <2>1. /\ inbox # <<>> /\ inbox' = Tail(inbox)
        /\ UNCHANGED <<u, at, unread, air, lamp, inputs>>
    BY <1>7 DEF AppDone, uartVars
  <2>2. PortSizes'
    BY <2>1, StillSizes, SafeParts
  <2>3. Counted(lamp, air, inbox, u, unread, inputs)'
    BY <2>1, CountedHandled
  <2> QED
    BY <1>1, <2>2, <2>3 DEF HomeSafe
<1> QED
  BY <1>2, <1>3, <1>4, <1>5, <1>6, <1>7 DEF App

LEMMA HomeStartsSafe ==
  ASSUME HomeInit
  PROVE  HomeSafe
<1>1. HomeIInv
  BY HomeStarts
<1>2. /\ u.txBuf = [i \in 0 .. 1 |-> <<>>] /\ u.txSel = 0 /\ u.sent = 0
      /\ u.txMT = FALSE /\ u.evt = FALSE /\ u.rxTail = 0 /\ u.rxTick = 0 /\ u.rxAge = 0
      /\ u.chunk = <<>> /\ unread = <<>> /\ at = "idle"
  BY DEF HomeInit, UartInit
<1>3. PortSizes
  <2>1. Sizes(u)
    <3>1. \A i \in 0 .. 1 : Len(u.txBuf[i]) <= TxMax
      BY <1>2, PortNumbers
    <3>2. 0 <= TxMax /\ 0 \in 0 .. RxMax - 1 /\ 0 \in 0 .. IdleTicks /\ 0 \in 0 .. Wrap - 1
      BY PortNumbers
    <3> QED
      BY <1>2, <3>1, <3>2, Zenon DEF Sizes
  <2>2. Room(u, at) /\ at \in Places
    BY <1>2 DEF Room, Places
  <2>3. Pending(u, unread) <= ChunkMax
    BY <1>2, PortNumbers DEF Pending
  <2> QED
    BY <2>1, <2>2, <2>3 DEF PortSizes
<1>4. /\ inbox = <<>> /\ air = EmptyBag /\ lamp = [n \in Lamps |-> [light |-> 0, turns |-> 0]]
      /\ inputs = [bytes |-> 0, keys |-> 0]
  BY DEF HomeInit
<1>5. Airborne(air) /\ \A e : Copies(air, e) = 0
  <2>1. air = [e \in {} |-> 1]
    BY <1>4 DEF EmptyBag, SetToBag
  <2> QED
    BY <2>1 DEF Airborne, Copies
<1>6. lamp \in LampStates /\ inputs \in InputCounts
  BY <1>4, SmartHomeAssumption DEF LampStates, InputCounts
<1>7. Cells(inbox) = {} /\ IsFiniteSet({}) /\ Cardinality({}) = 0
  BY <1>4, FS_EmptySet DEF Cells
<1>8. ASSUME NEW n \in Lamps
      PROVE  Held(lamp, air, n) + (Pending(u, unread) + Cardinality(Cells(inbox))) <= inputs.bytes
  <2>1. Held(lamp, air, n) = 0
    BY <1>4, <1>5 DEF Held
  <2>2. Pending(u, unread) = 0
    BY <1>2 DEF Pending
  <2>3. inputs.bytes = 0
    BY <1>4
  <2>4. 0 + (0 + 0) <= 0
    OBVIOUS
  <2> QED
    BY <1>7, <2>1, <2>2, <2>3, <2>4, Zenon
<1>9. Counted(lamp, air, inbox, u, unread, inputs)
  BY <1>5, <1>6, <1>7, <1>8 DEF Counted
<1> QED
  BY <1>1, <1>3, <1>9 DEF HomeSafe

LEMMA SafeStill ==
  ASSUME HomeSafe, UNCHANGED homeVars
  PROVE  HomeSafe'
<1>1. UNCHANGED <<u, at, wr, owed, unread, inbox, air, lamp, inputs>>
  BY DEF homeVars
<1>2. HomeIInv'
  BY <1>1, PortStill, SafeParts DEF HomeIInv
<1>3. PortSizes' /\ Pending(u, unread)' = Pending(u, unread)
  BY <1>1, StillSizes, SafeParts
<1>4. Counted(lamp, air, inbox, u, unread, inputs)'
  BY <1>1, <1>3, CountedStill
<1> QED
  BY <1>2, <1>3, <1>4 DEF HomeSafe

(* The inductive invariant of the whole home.                              *)
THEOREM HomeStaysSafe == HomeSpec => []HomeSafe
<1>1. HomeInit => HomeSafe
  BY HomeStartsSafe
<1>2. HomeSafe /\ [HomeNext]_homeVars => HomeSafe'
  <2> SUFFICES ASSUME HomeSafe, [HomeNext]_homeVars
               PROVE  HomeSafe'
    OBVIOUS
  <2>1. CASE UNCHANGED homeVars
    BY <2>1, SafeStill
  <2>2. CASE HomeNext
    BY <2>2, AppSafe, SerialSafe, PortSafe, LampSafe, GateSafe, ByteSafe, KeysSafe
    DEF HomeNext, Receive, Inputs
  <2> QED
    BY <2>1, <2>2
<1> QED
  BY <1>1, <1>2, PTL DEF HomeSpec

LEMMA SafeIsTyped ==
  ASSUME HomeSafe
  PROVE  HomeTypeOK
<1>1. UartTypeOK
  <2>1. /\ u.txBuf \in [0 .. 1 -> Seq(Items)] /\ u.txSel \in 0 .. 1 /\ u.armed \in BOOLEAN
        /\ u.irq \in BOOLEAN /\ u.txShdwValid \in BOOLEAN /\ u.txAge \in 0 .. Wrap - 1
        /\ u.txDMAPending \in BOOLEAN /\ u.dbuf \in Items \cup {None} /\ u.dbufAge \in 0 .. TxTick
        /\ u.sent \in Nat
    BY SafeParts DEF UartIInv, TxOK, TxTypes
  <2>2. /\ u.rxBuf \in [0 .. RxMax - 1 -> Bytes \cup {None}] /\ u.rxHead \in 0 .. RxMax - 1
        /\ u.rxDma \in 0 .. RxMax - 1 /\ u.chunk \in Seq(Bytes)
    BY SafeParts DEF UartIInv, RxOK, RxTypes
  <2>3. Sizes(u) /\ Pending(u, unread) <= ChunkMax
    BY SafeParts DEF PortSizes
  <2>4. u.sent \in 0 .. TxMax
    BY <2>1, <2>3, PortNumbers DEF Sizes
  <2>5. Len(u.chunk) <= ChunkMax
    <3>1. Len(u.chunk) \in Nat /\ Len(unread) \in Nat
      BY SafeParts, PortTypes
    <3> QED
      BY <2>3, <3>1, PortNumbers DEF Pending
  <2> QED
    BY <2>1, <2>2, <2>3, <2>4, <2>5, Zenon DEF UartTypeOK, Sizes
<1>2. at \in {"idle", "shadow", "poll", "callback", "app", "write"}
  BY SafeParts DEF PortSizes, Places
<1>3. \A i \in DOMAIN inbox : inbox[i].bytes \in Seq(Bytes) /\ inbox[i].writes \in Seq(Items)
  <2>1. \A i \in DOMAIN inbox : inbox[i] \in Messages
    BY SafeParts, LenProperties, ElementOfSeq
  <2> QED
    BY <2>1 DEF Messages
<1>4. BagToSet(air) \subseteq Broadcasts
  BY SafeParts DEF Airborne, BagToSet
<1>5. lamp \in [Lamps -> [light : 0 .. 1, turns : 0 .. MaxBytes]]
  <2> SUFFICES ASSUME NEW n \in Lamps
               PROVE  lamp[n] \in [light : 0 .. 1, turns : 0 .. MaxBytes]
    BY SafeParts DEF LampStates
  <2>1. lamp[n] \in [light : 0 .. 1, turns : Nat]
    BY SafeParts DEF LampStates
  <2>2. Held(lamp, air, n) + (Pending(u, unread) + Cardinality(Cells(inbox))) <= inputs.bytes
    BY SafeParts DEF Counted
  <2>3. lamp[n].turns \in Nat /\ Pending(u, unread) \in Nat /\ Cardinality(Cells(inbox)) \in Nat
        /\ inputs.bytes \in 0 .. MaxBytes /\ MaxBytes \in Nat
        /\ Copies(air, To(n, "openCurtain")) \in Nat /\ Copies(air, To(n, "closeCurtain")) \in Nat
    BY <2>1, SafeParts, CopiesType, SmartHomeAssumption DEF InputCounts
  <2>4. lamp[n].turns <= MaxBytes
    BY <2>2, <2>3 DEF Held
  <2> QED
    BY <2>1, <2>3, <2>4
<1>6. inputs \in [bytes : 0 .. MaxBytes, keys : 0 .. MaxKeys]
  BY SafeParts DEF InputCounts
<1> QED
  BY <1>1, <1>2, <1>3, <1>4, <1>5, <1>6 DEF HomeTypeOK

LEMMA SafeIsCounted ==
  ASSUME HomeSafe
  PROVE  AtMostOnce
<1> SUFFICES ASSUME NEW n \in Lamps
             PROVE  lamp[n].turns + OnAir(n, "openCurtain") + OnAir(n, "closeCurtain")
                      + Len(u.chunk) + Len(unread) + Cardinality(Unhandled) <= inputs.bytes
  BY DEF AtMostOnce
<1>1. \A c : OnAir(n, c) = Copies(air, To(n, c))
  BY DEF OnAir, Copies, To, BagIn, BagToSet
<1>2. Unhandled = Cells(inbox)
  BY Zenon DEF Unhandled, Cells
<1>3. /\ lamp[n].turns \in Nat /\ Len(u.chunk) \in Nat /\ Len(unread) \in Nat
      /\ Copies(air, To(n, "openCurtain")) \in Nat /\ Copies(air, To(n, "closeCurtain")) \in Nat
      /\ Cardinality(Cells(inbox)) \in Nat /\ inputs.bytes \in Nat
  BY SafeParts, PortTypes, CopiesType DEF LampStates
<1>4. (lamp[n].turns + Copies(air, To(n, "openCurtain")) + Copies(air, To(n, "closeCurtain")))
        + ((Len(u.chunk) + Len(unread)) + Cardinality(Cells(inbox))) <= inputs.bytes
  BY SafeParts DEF Counted, Held, Pending
<1>5. \A a, b, c, d, e, f, g \in Nat :
        (a + b + c) + ((d + e) + f) <= g => a + b + c + d + e + f <= g
  OBVIOUS
<1>6. lamp[n].turns + Copies(air, To(n, "openCurtain")) + Copies(air, To(n, "closeCurtain"))
        + Len(u.chunk) + Len(unread) + Cardinality(Cells(inbox)) <= inputs.bytes
  BY <1>3, <1>4, <1>5, SMTT(40)
<1> QED
  BY <1>1, <1>2, <1>6

(* The state of the driver of _hal_uart_dma.c and of App.c keeps to its    *)
(* types: the transmit buffers, the ring and its indices and the chunk of  *)
(* a call-back stay within their sizes, whatever the interrupts do.        *)
THEOREM HomeTypes == HomeSpec => []HomeTypeOK
<1>1. HomeSafe => HomeTypeOK
  BY SafeIsTyped
<1> QED
  BY <1>1, HomeStaysSafe, PTL

(* No byte from the serial host turns a lamp's motor (openCurtain,         *)
(* closeCurtain of App.c) twice, however the bytes are cut into messages   *)
(* and however the radio delays the commands.                              *)
THEOREM CurtainsTurnAtMostOnce == HomeSpec => []AtMostOnce
<1>1. HomeSafe => AtMostOnce
  BY SafeIsCounted
<1> QED
  BY <1>1, HomeStaysSafe, PTL
===============================================================================
