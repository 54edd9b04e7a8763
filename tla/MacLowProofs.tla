----------------------------- MODULE MacLowProofs -----------------------------
(***************************************************************************)
(* Proofs about the low-level MAC: for every number of backoffs, every     *)
(* size of the FIFO and every set of reasons to keep the receiver on, with *)
(* the interrupts, the radio and the background code interleaved in any    *)
(* way, all six invariants of MacLow hold.                                 *)
(*                                                                         *)
(* The inductive invariant IInv is a conjunction of predicates of the      *)
(* record x that m holds and of the place b of the background code: the    *)
(* shape and the ranges of the record, what the radio keeps (Radio), how   *)
(* far the transmit is (Sending), what has been put off (Kept), what the   *)
(* high-level MAC was told (Told), and how far the receive is (Receiving). *)
(* An interrupt is a composition of functions; in its middle the record    *)
(* may have wider ranges and the receive may not fit, so the lemmas about  *)
(* the functions speak of Sane, Still, Mid, Good and Received, parts of    *)
(* IInv that hold there, and of what a function leaves as it was (Same).   *)
(***************************************************************************)
EXTENDS MacLow, SequenceTheorems, TLAPS

Frame == DataFrame \cup AckFrame

(* The record as a function, and what its fields hold at any point of a    *)
(* handler.                                                                *)
Fields == {"tx", "ackReq", "retransmit", "nb", "rx", "ackFlag", "state", "got", "buf", "isr",
           "reset", "on", "enable", "filter", "sleep", "newChannel", "newPower", "hwOn",
           "overflow", "rferr", "acking", "fifo", "csp", "cspz", "irq", "mask", "failed",
           "cut", "call"}

Shape(x) == x = [f \in Fields |-> x[f]]

Ranges(x) ==
  /\ x.tx \in {"no", "init", "queued", "go", "listen", "done", "busy", "post"}
  /\ x.ackReq \in BOOLEAN /\ x.retransmit \in BOOLEAN /\ x.nb \in 0 .. MaxBackoffs + 1
  /\ x.rx \in {"no", "started", "done"} /\ x.ackFlag \in BOOLEAN
  /\ x.state \in {"start", "addr", "payload", "fcs", "discard"}
  /\ x.got \in 0 .. 3 /\ x.buf \in BOOLEAN
  /\ x.isr \in BOOLEAN /\ x.reset \in BOOLEAN
  /\ x.on \in BOOLEAN /\ x.enable \in SUBSET Flags /\ x.filter \in BOOLEAN
  /\ x.sleep \in {"awake", "osc_off", "radio_off"}
  /\ x.newChannel \in BOOLEAN /\ x.newPower \in BOOLEAN
  /\ x.hwOn \in BOOLEAN /\ x.overflow \in BOOLEAN /\ x.rferr \in BOOLEAN
  /\ x.acking \in BOOLEAN /\ x.fifo \in Seq(Frame)
  /\ x.csp \in {"idle", "loaded", "cca", "strobe", "air", "hung", "wait"}
  /\ x.cspz \in {"busy", "done", "timeout"}
  /\ x.irq \in SUBSET Interrupts /\ x.mask \in SUBSET Interrupts
  /\ x.failed \in BOOLEAN /\ x.cut \in BOOLEAN /\ x.call \in Call

IsMac(x) == Shape(x) /\ Ranges(x)

(* In the middle of a transmit that goes out.                              *)
Going == {"cancel", "clear", "go"}

(* A good ACK of the frame that went out is known to have come in.         *)
Heard(q, acked) ==
  \A i \in 1 .. Len(q) : q[i].kind = "ack" /\ q[i].good /\ q[i].mine => acked

(* Only the last frame of the FIFO can still be arriving.                  *)
Whole(q) == \A i \in 1 .. Len(q) : q[i].have < 4 => i = Len(q)

(* The receiver is on when the code says so; it is off while the radio     *)
(* sleeps, on while a transmit goes, and a transmit never hangs.           *)
Radio(x) ==
  /\ x.hwOn <=> x.on
  /\ ~ x.on => x.fifo = <<>>
  /\ Whole(x.fifo)
  /\ x.csp \in {"cca", "strobe", "air"} => x.on
  /\ x.csp # "hung"
  /\ x.sleep # "awake" => ~ x.on

(* The transmit: where it is decides what the CSP, its interrupt and the   *)
(* background code can be doing, and how often the frame went out.         *)
Sending(x, b) ==
  /\ x.tx \in {"no", "init", "queued", "go", "listen"}
  /\ x.tx = "init" <=> b \in {"prepare", "decide"}
  /\ b \in Going => x.tx = "go"
  /\ "stop" \in x.mask <=> ((x.tx = "go" /\ b \notin Going) \/ x.tx = "listen")
  /\ x.tx = "no" \/ b = "prepare" => x.csp = "idle"
  /\ b = "prepare" => x.call.sent = 0
  /\ b = "decide" \/ x.tx = "queued" \/ b \in Going =>
       /\ x.csp = "loaded" /\ x.cspz = "busy" /\ "stop" \notin x.irq /\ x.call.sent = 0
       /\ x.nb <= MaxBackoffs
  /\ x.tx = "go" /\ b \notin Going =>
       /\ x.nb <= MaxBackoffs
       /\ \/ x.csp \in {"cca", "strobe"} /\ x.cspz = "busy" /\ "stop" \notin x.irq /\ x.call.sent = 0
          \/ x.csp = "air" /\ x.cspz = "busy" /\ "stop" \notin x.irq /\ x.call.sent = 1
          \/ x.csp = "idle" /\ x.cspz = "busy" /\ x.call.sent = 0
          \/ x.csp = "idle" /\ x.cspz = "done" /\ x.call.sent = 1 /\ Heard(x.fifo, x.call.acked)
  /\ x.tx = "listen" =>
       /\ x.call.sent = 1 /\ Heard(x.fifo, x.call.acked)
       /\ x.cspz = "timeout" /\ x.csp \in {"wait", "idle"}
  /\ x.sleep # "awake" => x.tx = "no" \/ b = "prepare"
  /\ x.newChannel => x.tx \in {"queued", "go", "listen"}

(* What was put off, and by whom it is remembered.                         *)
Kept(x, b) ==
  LET receiving == x.rx = "started" \/ x.ackFlag
  IN /\ x.tx = "queued" => receiving
     /\ x.on /\ x.enable = {} => receiving \/ x.tx \in {"go", "listen"} \/ b = "off"
     /\ x.newPower => receiving \/ x.tx \in {"go", "listen"}

(* The radio was put to sleep again while it is being woken up: nothing    *)
(* wants the receiver.                                                     *)
Drowsy(x, b) == b = "wake" /\ x.sleep # "awake" => x.enable = {}

Sane(x, b) ==
  /\ IsMac(x) /\ Len(x.fifo) <= FifoFrames /\ ~ x.failed /\ ~ x.cut
  /\ Radio(x) /\ Sending(x, b) /\ Kept(x, b) /\ Drowsy(x, b)

(* What the high-level MAC was told.                                       *)
StatusFits(c, ackReq, status) ==
  /\ status = "success" => c.sent = 1 /\ (ackReq => c.acked)
  /\ status = "no_ack" => c.sent = 1
  /\ status \in {"no_access", "aborted"} => c.sent = 0

Told(x) ==
  /\ x.call.open <=> x.tx # "no"
  /\ x.call.open => x.call.status = "none"
  /\ StatusFits(x.call, x.ackReq, x.call.status)
  /\ ~ x.call.twice

Good(x, b) == Sane(x, b) /\ Told(x)

(* The receive: the next handler, the pieces read so far and the frame at  *)
(* the head of the FIFO fit each other.                                    *)
Receiving(x, b) ==
  /\ x.rx = IF x.state = "start" THEN "no" ELSE "started"
  /\ x.buf <=> x.state \in {"addr", "payload", "fcs"}
  /\ x.state = "start" => x.got = 0
  /\ x.state = "addr" => x.got = 1
  /\ x.state = "payload" => x.got = 2
  /\ x.state = "fcs" => x.got = 3
  /\ x.state = "discard" => x.got > 0
  /\ x.state # "start" => x.fifo # <<>> /\ x.fifo[1].kind = "data"
  /\ x.ackFlag => "ackdone" \in x.mask \/ b = "clear"

Places == {"idle", "prepare", "decide", "cancel", "clear", "go", "off", "wake"}

IInv ==
  /\ Good(m, bg) /\ Receiving(m, bg) /\ ~ m.isr /\ ~ m.reset /\ bg \in Places

-----------------------------------------------------------------------------
(* Records.                                                                *)
LEMMA Extensional ==
  ASSUME NEW F, NEW s, NEW y, s = [f \in F |-> s[f]], y = [f \in F |-> y[f]],
         \A f \in F : s[f] = y[f]
  PROVE  s = y
OBVIOUS

LEMMA Equal ==
  ASSUME NEW s, NEW y, Shape(s), Shape(y), \A f \in Fields : s[f] = y[f]
  PROVE  s = y
BY Extensional DEF Shape

LEMMA AssertHolds ==
  ASSUME NEW s, IsMac(s), NEW ok, ok
  PROVE  Assert(s, ok) = s
<1> DEFINE failed == s.failed \/ ~ ok
           y == [s EXCEPT !.failed = failed]
<1>1. failed = s.failed
  BY DEF IsMac, Ranges
<1>2. Assert(s, ok) = y
  BY DEF Assert
<1> HIDE DEF failed
<1>3. Shape(y)
  BY DEF IsMac, Shape
<1>4. \A f \in Fields : y[f] = s[f]
  BY <1>1 DEF IsMac, Shape
<1> QED
  BY <1>2, <1>3, <1>4, Equal DEF IsMac

Dark(s) == [s EXCEPT !.on = FALSE, !.hwOn = FALSE, !.fifo = <<>>, !.overflow = FALSE,
                     !.acking = FALSE]

LEMMA OffIsDark ==
  ASSUME NEW s, IsMac(s), s.csp \notin {"strobe", "air"}
  PROVE  macRxOff(s) = IF s.on THEN Dark(s) ELSE s
<1>1. CASE ~ s.on
  BY <1>1 DEF macRxOff
<1>2. CASE s.on
  <2> DEFINE y == macRxOff(s)
  <2>1. Shape(y)
    BY <1>2 DEF IsMac, Shape, macRxOff, StrobeOff
  <2>2. Shape(Dark(s))
    BY DEF IsMac, Shape, Dark
  <2>3. \A f \in Fields : y[f] = Dark(s)[f]
    <3>1. s.cut \in BOOLEAN /\ s.csp # "strobe" /\ s.csp # "air"
      BY DEF IsMac, Ranges
    <3>2. \A f \in Fields \ {"cut"} : y[f] = Dark(s)[f]
      BY <1>2, <3>1 DEF IsMac, Shape, macRxOff, StrobeOff, Dark
    <3>3. y.cut = Dark(s).cut
      BY <1>2, <3>1 DEF IsMac, Shape, macRxOff, StrobeOff, Dark, Fields
    <3> QED
      BY <3>2, <3>3
  <2> QED
    BY <1>2, <2>1, <2>2, <2>3, Equal
<1> QED
  BY <1>1, <1>2

(* What a step of the code leaves alone.                                   *)
SameTx(x, y) ==
  /\ y.tx = x.tx /\ y.ackReq = x.ackReq /\ y.nb = x.nb /\ y.cspz = x.cspz /\ y.call = x.call

SameRx(x, y) ==
  /\ y.rx = x.rx /\ y.ackFlag = x.ackFlag /\ y.state = x.state /\ y.got = x.got
  /\ y.buf = x.buf /\ y.isr = x.isr /\ y.reset = x.reset

SameRest(x, y) ==
  /\ y.enable = x.enable /\ y.sleep = x.sleep /\ y.newChannel = x.newChannel
  /\ y.failed = x.failed /\ y.cut = x.cut /\ y.irq = x.irq

SameRadio(x, y) == y.on = x.on /\ y.hwOn = x.hwOn /\ y.fifo = x.fifo

Same(x, y) ==
  SameTx(x, y) /\ SameRx(x, y) /\ SameRest(x, y) /\ y.csp = x.csp /\ y.mask = x.mask

IsDark(x) == ~ x.on /\ ~ x.hwOn /\ x.fifo = <<>>

LEMMA DarkFacts ==
  ASSUME NEW s, IsMac(s)
  PROVE  /\ IsMac(Dark(s)) /\ Same(s, Dark(s)) /\ IsDark(Dark(s))
         /\ Dark(s).newPower = s.newPower
<1>0. <<>> \in Seq(Frame)
  OBVIOUS
<1>1. Shape(Dark(s))
  BY DEF IsMac, Shape, Dark
<1>2. Ranges(Dark(s))
  BY <1>0 DEF IsMac, Shape, Ranges, Fields, Dark
<1>3. Same(s, Dark(s))
  BY DEF Same, IsMac, Shape, Fields, Dark, SameTx, SameRx, SameRest
<1>4. IsDark(Dark(s)) /\ Dark(s).newPower = s.newPower
  BY DEF IsMac, Shape, Fields, Dark, IsDark
<1> QED
  BY <1>1, <1>2, <1>3, <1>4 DEF Same, IsMac

LEMMA SameSelf ==
  ASSUME NEW s
  PROVE  Same(s, s) /\ SameRadio(s, s)
BY DEF Same, SameTx, SameRx, SameRest, SameRadio

LEMMA SameTrans ==
  ASSUME NEW x, NEW y, NEW z
  PROVE  /\ SameTx(x, y) /\ SameTx(y, z) => SameTx(x, z)
         /\ SameRx(x, y) /\ SameRx(y, z) => SameRx(x, z)
         /\ SameRest(x, y) /\ SameRest(y, z) => SameRest(x, z)
<1>1. SameTx(x, y) /\ SameTx(y, z) => SameTx(x, z)
  BY Zenon DEF SameTx
<1>2. SameRx(x, y) /\ SameRx(y, z) => SameRx(x, z)
  BY Zenon DEF SameRx
<1>3. SameRest(x, y) /\ SameRest(y, z) => SameRest(x, z)
  BY Zenon DEF SameRest
<1> QED
  BY <1>1, <1>2, <1>3

(* macRxOffRequest turns the receiver off or does nothing.                 *)
LEMMA OffRequest ==
  ASSUME NEW s, IsMac(s), s.csp \in {"strobe", "air"} => TxPhysicallyActive(s)
  PROVE  LET y == macRxOffRequest(s)
         IN /\ IsMac(y) /\ Same(s, y) /\ y.newPower = s.newPower
            /\ SameRadio(s, y) \/ (IsDark(y) /\ ~ RxPhysicallyActive(s) /\ ~ TxPhysicallyActive(s))
            /\ y.on /\ y.enable = {} => RxPhysicallyActive(s) \/ TxPhysicallyActive(s)
<1> DEFINE off == s.enable = {} /\ ~ RxPhysicallyActive(s) /\ ~ TxPhysicallyActive(s)
           y == macRxOffRequest(s)
<1>1. CASE off /\ s.on
  <2>1. y = Dark(s)
    BY <1>1, OffIsDark DEF macRxOffRequest
  <2> QED
    BY <1>1, <2>1, DarkFacts DEF IsDark
<1>2. CASE off /\ ~ s.on
  <2>1. y = s
    BY <1>2 DEF macRxOffRequest, macRxOff
  <2> QED
    BY <1>2, <2>1, SameSelf
<1>3. CASE ~ off
  <2>1. y = s
    BY <1>3 DEF macRxOffRequest
  <2> QED
    BY <1>3, <2>1, SameSelf
<1> QED
  BY <1>1, <1>2, <1>3

LEMMA UpdateTxPower ==
  ASSUME NEW s, IsMac(s)
  PROVE  LET y == macRadioUpdateTxPower(s)
         IN /\ IsMac(y) /\ Same(s, y) /\ SameRadio(s, y)
            /\ y.newPower => s.ackFlag \/ TxPhysicallyActive(s)
<1> DEFINE y == [s EXCEPT !.newPower = FALSE]
<1>0. Shape(y)
  BY DEF IsMac, Shape
<1>1. Ranges(y) /\ ~ y.newPower /\ SameRadio(s, y)
  BY DEF IsMac, Shape, Ranges, Fields, SameRadio
<1>2. Same(s, y)
  BY DEF Same, IsMac, Shape, Fields, SameTx, SameRx, SameRest
<1>3. CASE s.ackFlag \/ TxPhysicallyActive(s)
  BY <1>3, SameSelf DEF macRadioUpdateTxPower
<1>4. CASE ~ (s.ackFlag \/ TxPhysicallyActive(s))
  BY <1>0, <1>1, <1>2, <1>4 DEF macRadioUpdateTxPower, Same, IsMac
<1> QED
  BY <1>3, <1>4

(* Both, one after the other.                                              *)
Calm(s) == macRadioUpdateTxPower(macRxOffRequest(s))

LEMMA CalmFacts ==
  ASSUME NEW s, IsMac(s), s.csp \in {"strobe", "air"} => TxPhysicallyActive(s)
  PROVE  LET y == Calm(s)
         IN /\ IsMac(y) /\ Same(s, y)
            /\ SameRadio(s, y) \/ (IsDark(y) /\ ~ RxPhysicallyActive(s) /\ ~ TxPhysicallyActive(s))
            /\ y.on /\ y.enable = {} => RxPhysicallyActive(s) \/ TxPhysicallyActive(s)
            /\ y.newPower => s.ackFlag \/ TxPhysicallyActive(s)
<1> DEFINE t == macRxOffRequest(s)
           y == macRadioUpdateTxPower(t)
<1>1. /\ IsMac(t) /\ Same(s, t)
      /\ SameRadio(s, t) \/ (IsDark(t) /\ ~ RxPhysicallyActive(s) /\ ~ TxPhysicallyActive(s))
      /\ t.on /\ t.enable = {} => RxPhysicallyActive(s) \/ TxPhysicallyActive(s)
  BY OffRequest
<1> HIDE DEF t
<1>2. /\ IsMac(y) /\ Same(t, y) /\ SameRadio(t, y)
      /\ y.newPower => t.ackFlag \/ TxPhysicallyActive(t)
  BY <1>1, UpdateTxPower
<1> HIDE DEF y
<1>3. Same(s, y)
  BY <1>1, <1>2 DEF Same, SameTx, SameRx, SameRest
<1>4. t.ackFlag = s.ackFlag /\ (TxPhysicallyActive(t) <=> TxPhysicallyActive(s))
  BY <1>1 DEF Same, SameTx, SameRx, TxPhysicallyActive
<1>5. y.enable = t.enable
  BY <1>2 DEF Same, SameRest
<1>6. SameRadio(s, y) \/ (IsDark(y) /\ ~ RxPhysicallyActive(s) /\ ~ TxPhysicallyActive(s))
  BY <1>1, <1>2 DEF SameRadio, IsDark
<1>7. y.on /\ y.enable = {} => RxPhysicallyActive(s) \/ TxPhysicallyActive(s)
  BY <1>1, <1>2, <1>5 DEF SameRadio
<1> QED
  BY <1>2, <1>3, <1>4, <1>6, <1>7 DEF Calm, y, t

(* The receiver on.                                                        *)
LEMMA RxOn ==
  ASSUME NEW s, IsMac(s), s.hwOn <=> s.on
  PROVE  LET y == macRxOn(s)
         IN /\ IsMac(y) /\ Same(s, y) /\ y.newPower = s.newPower
            /\ y.on /\ y.hwOn /\ y.fifo = s.fifo
<1>1. CASE s.on
  BY <1>1, SameSelf DEF macRxOn
<1>2. CASE ~ s.on
  <2> DEFINE y == [s EXCEPT !.on = TRUE, !.hwOn = TRUE]
  <2>1. Shape(y)
    BY DEF IsMac, Shape
  <2>2. Ranges(y)
    BY DEF IsMac, Shape, Ranges, Fields
  <2>3. Same(s, y)
    BY DEF IsMac, Shape, Fields, Same, SameTx, SameRx, SameRest
  <2>4. y.on /\ y.hwOn /\ y.fifo = s.fifo /\ y.newPower = s.newPower
    BY DEF IsMac, Shape, Fields
  <2> QED
    BY <1>2, <2>1, <2>2, <2>3, <2>4 DEF macRxOn, IsMac
<1> QED
  BY <1>1, <1>2

(* The CSP is started, with the receiver on.                               *)
LEMMA GoCsma ==
  ASSUME NEW s, IsMac(s), s.hwOn <=> s.on
  PROVE  LET y == macCspTxGoCsma(s)
         IN /\ IsMac(y) /\ SameTx(s, y) /\ SameRx(s, y) /\ SameRest(s, y)
            /\ y.on /\ y.hwOn /\ y.fifo = s.fifo /\ y.newPower = s.newPower
            /\ y.csp = "cca" /\ y.mask = s.mask \cup {"stop", "int"}
<1> DEFINE mask == s.mask \cup {"stop", "int"}
           t == [s EXCEPT !.mask = mask]
           r == macRxOn(t)
           y == [r EXCEPT !.csp = "cca"]
<1>1. mask \in SUBSET Interrupts
  BY DEF IsMac, Ranges, Interrupts
<1>2. macCspTxGoCsma(s) = y
  BY DEF macCspTxGoCsma
<1> HIDE DEF mask
<1>3. Shape(t)
  BY DEF IsMac, Shape
<1>4. Ranges(t)
  BY <1>1 DEF IsMac, Shape, Ranges, Fields
<1>5. /\ SameTx(s, t) /\ SameRx(s, t) /\ SameRest(s, t) /\ t.on = s.on /\ t.hwOn = s.hwOn
      /\ t.fifo = s.fifo /\ t.newPower = s.newPower /\ t.mask = mask
  BY DEF IsMac, Shape, Fields, SameTx, SameRx, SameRest
<1> HIDE DEF t
<1>6. /\ IsMac(r) /\ Same(t, r) /\ r.newPower = t.newPower
      /\ r.on /\ r.hwOn /\ r.fifo = t.fifo
  BY <1>3, <1>4, <1>5, RxOn DEF IsMac
<1> HIDE DEF r
<1>a. Shape(r) /\ Ranges(r)
  BY <1>6 DEF IsMac
<1>7. Shape(y)
  BY <1>a DEF Shape
<1>8. Ranges(y)
  BY <1>a DEF Shape, Ranges, Fields
<1>9. /\ SameTx(r, y) /\ SameRx(r, y) /\ SameRest(r, y) /\ y.on = r.on /\ y.hwOn = r.hwOn
      /\ y.fifo = r.fifo /\ y.newPower = r.newPower /\ y.mask = r.mask /\ y.csp = "cca"
  BY <1>6 DEF IsMac, Shape, Fields, SameTx, SameRx, SameRest
<1> HIDE DEF y
<1>10. SameTx(s, y) /\ SameRx(s, y) /\ SameRest(s, y)
  BY <1>5, <1>6, <1>9, SameTrans, Zenon DEF Same
<1>11. /\ y.on /\ y.hwOn /\ y.fifo = s.fifo /\ y.newPower = s.newPower /\ y.csp = "cca"
       /\ y.mask = mask
  BY <1>5, <1>6, <1>9 DEF Same
<1> QED
  BY <1>2, <1>7, <1>8, <1>10, <1>11 DEF IsMac, mask

(* macTxStartQueuedFrame starts what is queued, and only that.             *)
LEMMA StartQueued ==
  ASSUME NEW s, IsMac(s), s.hwOn <=> s.on, s.rx = "no", ~ s.ackFlag
  PROVE  LET y == macTxStartQueuedFrame(s)
         IN /\ IsMac(y) /\ SameRx(s, y) /\ SameRest(s, y) /\ y.newPower = s.newPower
            /\ s.tx # "queued" => y = s
            /\ s.tx = "queued" =>
                 /\ y.tx = "go" /\ y.csp = "cca" /\ y.on /\ y.hwOn /\ y.fifo = s.fifo
                 /\ y.mask = (s.mask \ {"ackdone"}) \cup {"stop", "int"}
                 /\ y.ackReq = s.ackReq /\ y.nb = s.nb /\ y.cspz = s.cspz /\ y.call = s.call
<1>1. Assert(s, s.rx = "no" /\ ~ s.ackFlag) = s
  BY AssertHolds
<1>2. CASE s.tx # "queued"
  BY <1>1, <1>2, SameSelf DEF macTxStartQueuedFrame, Same
<1>3. CASE s.tx = "queued"
  <2> DEFINE mask == s.mask \ {"ackdone"}
             t == [[s EXCEPT !.tx = "go"] EXCEPT !.mask = mask, !.ackFlag = FALSE]
             y == macTxStartQueuedFrame(s)
  <2>1. mask \in SUBSET Interrupts
    BY DEF IsMac, Ranges
  <2>2. [s EXCEPT !.tx = "go"].mask = s.mask
    BY DEF IsMac, Shape, Fields
  <2>3. y = macCspTxGoCsma(t)
    BY <1>1, <1>3, <2>2 DEF macTxStartQueuedFrame, txGo
  <2> HIDE DEF mask, y
  <2>4. Shape(t)
    BY DEF IsMac, Shape
  <2>5. Ranges(t)
    BY <2>1 DEF IsMac, Shape, Ranges, Fields
  <2>6. /\ SameRx(s, t) /\ SameRest(s, t) /\ t.tx = "go" /\ t.mask = mask
        /\ t.newPower = s.newPower /\ t.fifo = s.fifo /\ t.hwOn = s.hwOn /\ t.on = s.on
        /\ t.ackReq = s.ackReq /\ t.nb = s.nb /\ t.cspz = s.cspz /\ t.call = s.call
    <3>1. s.ackFlag = FALSE
      BY DEF IsMac, Ranges
    <3> QED
      BY <3>1 DEF IsMac, Shape, Fields, SameRx, SameRest
  <2> HIDE DEF t
  <2>7. /\ IsMac(y) /\ SameTx(t, y) /\ SameRx(t, y) /\ SameRest(t, y)
        /\ y.on /\ y.hwOn /\ y.fifo = t.fifo /\ y.newPower = t.newPower
        /\ y.csp = "cca" /\ y.mask = t.mask \cup {"stop", "int"}
    BY <2>3, <2>4, <2>5, <2>6, GoCsma DEF IsMac
  <2>8. SameRx(s, y) /\ SameRest(s, y)
    BY <2>6, <2>7, SameTrans, Zenon
  <2> QED
    BY <1>3, <2>6, <2>7, <2>8 DEF SameTx, mask, y
<1> QED
  BY <1>2, <1>3

-----------------------------------------------------------------------------
(* The invariant under steps that leave most of the record alone.          *)

LEMMA EmptyFifo == Len(<<>>) = 0 /\ Whole(<<>>) /\ \A a : Heard(<<>>, a)
BY DEF Whole, Heard

(* What Sending says depends on no more than this.                         *)
LEMMA SendingSame ==
  ASSUME NEW x, NEW y, NEW b, Sending(x, b),
         SameTx(x, y), y.csp = x.csp, "stop" \in y.mask <=> "stop" \in x.mask,
         "stop" \in y.irq => "stop" \in x.irq,
         y.sleep = x.sleep, y.newChannel = x.newChannel,
         \A a : Heard(x.fifo, a) => Heard(y.fifo, a)
  PROVE  Sending(y, b)
BY DEF Sending, SameTx

LEMMA OnTheAir ==
  ASSUME NEW s, NEW b, Sending(s, b), s.csp \in {"cca", "strobe", "air"}
  PROVE  s.tx = "go"
BY DEF Sending

LEMMA Phases ==
  ASSUME NEW s, NEW b, Sending(s, b)
  PROVE  TxPhysicallyActive(s) <=> s.tx \in {"go", "listen"}
BY DEF Sending, TxPhysicallyActive

Still(s, b) ==
  /\ IsMac(s) /\ Len(s.fifo) <= FifoFrames /\ ~ s.failed /\ ~ s.cut
  /\ Radio(s) /\ Sending(s, b) /\ Drowsy(s, b)

(* The receiver may be turned off when nothing is on the air.              *)
LEMMA DimStill ==
  ASSUME NEW s, NEW y, NEW b, Still(s, b), IsMac(y), Same(s, y),
         SameRadio(s, y) \/ (IsDark(y) /\ ~ TxPhysicallyActive(s))
  PROVE  Still(y, b)
<1>1. s.csp \in {"cca", "strobe", "air"} => s.tx = "go"
  BY OnTheAir DEF Still
<1>2. y.csp = s.csp /\ y.mask = s.mask /\ y.irq = s.irq /\ y.sleep = s.sleep
      /\ y.newChannel = s.newChannel /\ SameTx(s, y) /\ ~ y.failed /\ ~ y.cut
  BY DEF Same, SameRest, Still
<1>3. Radio(y) /\ Len(y.fifo) <= FifoFrames /\ (\A a : Heard(s.fifo, a) => Heard(y.fifo, a))
  <2>1. CASE SameRadio(s, y)
    BY <1>2, <2>1 DEF SameRadio, Still, Radio
  <2>2. CASE IsDark(y) /\ ~ TxPhysicallyActive(s)
    <3>1. y.csp \notin {"cca", "strobe", "air"} /\ y.csp # "hung"
      BY <1>1, <1>2, <2>2 DEF Still, Radio, TxPhysicallyActive
    <3>2. y.fifo = <<>> /\ ~ y.on /\ ~ y.hwOn
      BY <2>2 DEF IsDark
    <3>3. Len(y.fifo) <= FifoFrames
      BY <3>2, EmptyFifo, MacAssumption
    <3>4. Radio(y)
      BY <3>1, <3>2, EmptyFifo DEF Radio
    <3> QED
      BY <3>2, <3>3, <3>4, EmptyFifo
  <2> QED
    BY <2>1, <2>2
<1>4. Sending(y, b)
  BY <1>2, <1>3, SendingSame DEF Still
<1>5. Drowsy(y, b)
  BY DEF Same, SameRest, Drowsy, Still
<1> QED
  BY <1>2, <1>3, <1>4, <1>5 DEF Still

LEMMA CalmStill ==
  ASSUME NEW s, NEW b, Still(s, b)
  PROVE  LET y == Calm(s)
         IN /\ Still(y, b) /\ Same(s, y)
            /\ y.fifo = s.fifo \/ (y.fifo = <<>> /\ ~ RxPhysicallyActive(s))
            /\ y.on /\ y.enable = {} => RxPhysicallyActive(s) \/ s.tx \in {"go", "listen"}
            /\ y.newPower => s.ackFlag \/ s.tx \in {"go", "listen"}
<1> DEFINE y == Calm(s)
<1>1. s.csp \in {"cca", "strobe", "air"} => s.tx = "go"
  BY OnTheAir DEF Still
<1>2. TxPhysicallyActive(s) <=> s.tx \in {"go", "listen"}
  BY Phases DEF Still
<1>3. /\ IsMac(y) /\ Same(s, y)
      /\ SameRadio(s, y) \/ (IsDark(y) /\ ~ RxPhysicallyActive(s) /\ ~ TxPhysicallyActive(s))
      /\ y.on /\ y.enable = {} => RxPhysicallyActive(s) \/ TxPhysicallyActive(s)
      /\ y.newPower => s.ackFlag \/ TxPhysicallyActive(s)
  BY <1>1, <1>2, CalmFacts DEF Still
<1> HIDE DEF y
<1>4. Still(y, b)
  BY <1>3, DimStill
<1>5. y.fifo = s.fifo \/ (y.fifo = <<>> /\ ~ RxPhysicallyActive(s))
  BY <1>3 DEF SameRadio, IsDark
<1> QED
  BY <1>2, <1>3, <1>4, <1>5 DEF y

(* rxPostRxUpdates: what waited for the end of the receive is done.        *)
LEMMA PostRxUpdates ==
  ASSUME NEW s, NEW b, Still(s, b), s.rx = "no", ~ s.ackFlag
  PROVE  LET y == rxPostRxUpdates(s)
         IN /\ Sane(y, b) /\ SameRx(s, y)
            /\ y.call = s.call /\ y.ackReq = s.ackReq /\ (y.tx = "no" <=> s.tx = "no")
            /\ y.fifo = s.fifo \/ y.fifo = <<>>
            /\ SameRest(s, y)
<1> DEFINE t == Calm(s)
           y == macTxStartQueuedFrame(t)
<1>0. rxPostRxUpdates(s) = y
  BY DEF rxPostRxUpdates, Calm
<1>1. /\ Still(t, b) /\ Same(s, t)
      /\ t.fifo = s.fifo \/ t.fifo = <<>>
      /\ t.on /\ t.enable = {} => s.tx \in {"go", "listen"}
      /\ t.newPower => s.tx \in {"go", "listen"}
  BY CalmStill DEF RxPhysicallyActive
<1> HIDE DEF t
<1>2. /\ t.rx = "no" /\ ~ t.ackFlag /\ t.tx = s.tx /\ t.call = s.call /\ t.ackReq = s.ackReq
      /\ SameRx(s, t) /\ SameRest(s, t)
  BY <1>1 DEF Same, SameRx, SameTx
<1>3. IsMac(t) /\ (t.hwOn <=> t.on) /\ Radio(t) /\ Sending(t, b) /\ Len(t.fifo) <= FifoFrames
      /\ ~ t.failed /\ ~ t.cut /\ Drowsy(t, b)
  BY <1>1 DEF Still, Radio
<1>4. /\ IsMac(y) /\ SameRx(t, y) /\ SameRest(t, y) /\ y.newPower = t.newPower
      /\ t.tx # "queued" => y = t
      /\ t.tx = "queued" =>
           /\ y.tx = "go" /\ y.csp = "cca" /\ y.on /\ y.hwOn /\ y.fifo = t.fifo
           /\ y.mask = (t.mask \ {"ackdone"}) \cup {"stop", "int"}
           /\ y.ackReq = t.ackReq /\ y.nb = t.nb /\ y.cspz = t.cspz /\ y.call = t.call
  BY <1>2, <1>3, StartQueued
<1> HIDE DEF y
<1>5. CASE t.tx # "queued"
  <2>1. y = t
    BY <1>4, <1>5
  <2>2. Kept(t, b)
    BY <1>1, <1>2, <1>5 DEF Kept
  <2> QED
    BY <1>0, <1>1, <1>2, <1>3, <2>1, <2>2 DEF Sane
<1>6. CASE t.tx = "queued"
  <2>1. /\ y.tx = "go" /\ y.csp = "cca" /\ y.on /\ y.hwOn /\ y.fifo = t.fifo
        /\ y.mask = (t.mask \ {"ackdone"}) \cup {"stop", "int"}
        /\ y.ackReq = t.ackReq /\ y.nb = t.nb /\ y.cspz = t.cspz /\ y.call = t.call
    BY <1>4, <1>6
  <2>2. y.irq = t.irq /\ y.sleep = t.sleep /\ y.newChannel = t.newChannel
        /\ ~ y.failed /\ ~ y.cut
    BY <1>3, <1>4 DEF SameRest
  <2>3. Radio(y)
    <3>1. t.sleep = "awake"
      BY <1>3, <1>6 DEF Sending
    <3> QED
      BY <1>3, <2>1, <2>2, <3>1 DEF Radio
  <2>4. Sending(y, b)
    BY <1>3, <1>6, <2>1, <2>2 DEF Sending, Going
  <2>5. Kept(y, b) /\ Drowsy(y, b)
    BY <1>3, <1>4, <2>1 DEF Kept, Drowsy, SameRest
  <2>6. SameRx(s, y) /\ SameRest(s, y)
    BY <1>2, <1>4, SameTrans, Zenon
  <2>7. Sane(y, b)
    BY <1>3, <1>4, <2>1, <2>2, <2>3, <2>4, <2>5 DEF Sane
  <2>8. y.call = s.call /\ y.ackReq = s.ackReq /\ (y.tx = "no" <=> s.tx = "no")
    BY <1>2, <1>6, <2>1, <2>2
  <2>9. y.fifo = s.fifo \/ y.fifo = <<>>
    BY <1>1, <2>1
  <2> QED
    BY <1>0, <2>6, <2>7, <2>8, <2>9, Zenon
<1> QED
  BY <1>5, <1>6

(* Nothing is received and no ACK goes out.                                *)
Rested(y) ==
  /\ y.rx = "no" /\ ~ y.ackFlag /\ y.state = "start" /\ y.got = 0 /\ ~ y.buf

LEMMA HaltCleanup ==
  ASSUME NEW s, NEW b, Still(s, b), Kept(s, b)
  PROVE  LET y == rxHaltCleanupFinalStep(s)
         IN /\ Sane(y, b) /\ Rested(y) /\ y.isr = s.isr /\ y.reset = s.reset
            /\ y.call = s.call /\ y.ackReq = s.ackReq /\ (y.tx = "no" <=> s.tx = "no")
            /\ SameRest(s, y)
<1> DEFINE mask == s.mask \ {"ackdone"}
           f == FlushRxFifo(s)
           t == [f EXCEPT !.mask = mask, !.buf = FALSE, !.state = "start", !.got = 0]
           r == [t EXCEPT !.rx = "no", !.ackFlag = FALSE]
           y == rxHaltCleanupFinalStep(s)
<1>a. rxHaltCleanupFinalStep(s) = y
  BY Zenon
<1>1. f.mask = s.mask
  BY DEF FlushRxFifo, Still, IsMac, Shape, Fields
<1>2. y = IF t.rx # "no" \/ t.ackFlag THEN rxPostRxUpdates(r) ELSE t
  BY <1>1 DEF rxHaltCleanupFinalStep
<1>3. Shape(s) /\ Ranges(s) /\ mask \in SUBSET Interrupts /\ <<>> \in Seq(Frame)
      /\ ("stop" \in mask <=> "stop" \in s.mask)
  BY DEF Still, IsMac, Ranges
<1> HIDE DEF mask, y
<1>4. Shape(f)
  BY <1>3 DEF Shape, FlushRxFifo
<1>5. Ranges(f)
  BY <1>3 DEF Shape, Ranges, Fields, FlushRxFifo
<1>b. /\ SameTx(s, f) /\ SameRest(s, f) /\ SameRx(s, f) /\ f.csp = s.csp /\ f.fifo = <<>>
      /\ f.on = s.on /\ f.hwOn = s.hwOn /\ f.newPower = s.newPower
  BY <1>3 DEF Shape, Fields, FlushRxFifo, SameTx, SameRest, SameRx
<1> HIDE DEF f
<1>6. Shape(t)
  BY <1>4 DEF Shape
<1>7. Ranges(t)
  BY <1>3, <1>4, <1>5 DEF Shape, Ranges, Fields
<1>8. /\ SameTx(s, t) /\ SameRest(s, t) /\ t.csp = s.csp /\ t.mask = mask /\ t.fifo = <<>>
      /\ t.on = s.on /\ t.hwOn = s.hwOn /\ t.newPower = s.newPower /\ t.isr = s.isr
      /\ t.reset = s.reset /\ t.rx = s.rx /\ t.ackFlag = s.ackFlag
      /\ t.state = "start" /\ t.got = 0 /\ ~ t.buf
  <2>1. /\ SameTx(f, t) /\ SameRest(f, t) /\ t.csp = f.csp /\ t.mask = mask /\ t.fifo = f.fifo
        /\ t.on = f.on /\ t.hwOn = f.hwOn /\ t.newPower = f.newPower /\ t.isr = f.isr
        /\ t.reset = f.reset /\ t.rx = f.rx /\ t.ackFlag = f.ackFlag
        /\ t.state = "start" /\ t.got = 0 /\ ~ t.buf
    BY <1>4 DEF Shape, Fields, SameTx, SameRest
  <2> HIDE DEF t
  <2> QED
    BY <1>b, <2>1, SameTrans DEF SameRx
<1> HIDE DEF t
<1>9. /\ t.csp = s.csp /\ t.irq = s.irq /\ t.sleep = s.sleep /\ t.newChannel = s.newChannel
      /\ t.enable = s.enable /\ t.tx = s.tx /\ t.call = s.call /\ t.ackReq = s.ackReq
      /\ ~ t.failed /\ ~ t.cut
  BY <1>8 DEF SameTx, SameRest, Still
<1>10. Sending(t, b)
  BY <1>3, <1>8, <1>9, EmptyFifo, SendingSame DEF Still
<1>11. Radio(t) /\ Len(t.fifo) <= FifoFrames
  BY <1>8, <1>9, EmptyFifo, MacAssumption DEF Still, Radio
<1>12. Still(t, b) /\ Kept(t, b)
  BY <1>6, <1>7, <1>8, <1>9, <1>10, <1>11 DEF Still, IsMac, Kept, Drowsy
<1>13. CASE t.rx # "no" \/ t.ackFlag
  <2>1. Shape(r)
    BY <1>6 DEF Shape
  <2>2. Ranges(r)
    BY <1>6, <1>7 DEF Shape, Ranges, Fields
  <2>3. /\ SameTx(t, r) /\ SameRest(t, r) /\ SameRadio(t, r) /\ r.csp = t.csp /\ r.mask = t.mask
        /\ r.isr = t.isr /\ r.reset = t.reset /\ r.rx = "no" /\ ~ r.ackFlag
        /\ r.state = t.state /\ r.got = t.got /\ r.buf = t.buf
    BY <1>6 DEF Shape, Fields, SameTx, SameRest, SameRadio
  <2> HIDE DEF r
  <2>4. /\ r.irq = t.irq /\ r.sleep = t.sleep /\ r.newChannel = t.newChannel
        /\ ~ r.failed /\ ~ r.cut /\ r.fifo = t.fifo /\ r.on = t.on /\ r.hwOn = t.hwOn
        /\ r.tx = t.tx /\ r.call = t.call /\ r.ackReq = t.ackReq
    BY <1>9, <2>3 DEF SameRest, SameRadio, SameTx
  <2>5. Sending(r, b)
    BY <1>10, <2>3, <2>4, SendingSame
  <2>6. Still(r, b)
    BY <1>11, <1>12, <2>1, <2>2, <2>3, <2>4, <2>5 DEF Still, IsMac, Radio, Drowsy, SameRest
  <2>7. y = rxPostRxUpdates(r)
    BY <1>2, <1>13
  <2>8. /\ Sane(y, b) /\ SameRx(r, y)
        /\ y.call = r.call /\ y.ackReq = r.ackReq /\ (y.tx = "no" <=> r.tx = "no")
        /\ SameRest(r, y)
    BY <2>3, <2>6, <2>7, PostRxUpdates
  <2>9. Rested(y) /\ y.isr = s.isr /\ y.reset = s.reset
    BY <1>8, <2>3, <2>8 DEF SameRx, Rested
  <2>10. y.call = s.call /\ y.ackReq = s.ackReq /\ (y.tx = "no" <=> s.tx = "no")
    BY <1>9, <2>4, <2>8
  <2>11. SameRest(s, y)
    BY <1>8, <2>3, <2>8, SameTrans, Zenon
  <2> QED
    BY <1>a, <2>8, <2>9, <2>10, <2>11, Zenon
<1>14. CASE ~ (t.rx # "no" \/ t.ackFlag)
  <2>1. y = t
    BY <1>2, <1>14
  <2>2. Sane(t, b)
    BY <1>12 DEF Sane, Still
  <2>3. Rested(t)
    BY <1>8, <1>14 DEF Rested
  <2>4. /\ y.call = s.call /\ y.ackReq = s.ackReq /\ (y.tx = "no" <=> s.tx = "no")
        /\ SameRest(s, y) /\ y.isr = s.isr /\ y.reset = s.reset
    BY <1>8, <1>9, <2>1
  <2> QED
    BY <1>a, <2>1, <2>2, <2>3, <2>4, Zenon
<1> QED
  BY <1>13, <1>14

(* macRxOff and macRxOnRequest.                                            *)
LEMMA OffStill ==
  ASSUME NEW s, NEW b, Still(s, b), Kept(s, b), s.csp \notin {"cca", "strobe", "air"}
  PROVE  LET y == macRxOff(s)
         IN Still(y, b) /\ Kept(y, b) /\ Same(s, y) /\ IsDark(y)
<1> DEFINE y == macRxOff(s)
<1>1. /\ IsMac(y) /\ Same(s, y) /\ IsDark(y) /\ y.newPower = s.newPower
  <2>1. CASE s.on
    BY <2>1, OffIsDark, DarkFacts DEF Still
  <2>2. CASE ~ s.on
    <3>1. y = s
      BY <2>2, OffIsDark DEF Still
    <3>2. IsDark(s)
      BY <2>2 DEF Still, Radio, IsDark
    <3> QED
      BY <3>1, <3>2, SameSelf DEF Still
  <2> QED
    BY <2>1, <2>2
<1> HIDE DEF y
<1>2. y.csp = s.csp /\ y.mask = s.mask /\ y.irq = s.irq /\ y.sleep = s.sleep
      /\ y.newChannel = s.newChannel /\ SameTx(s, y) /\ ~ y.failed /\ ~ y.cut /\ SameRx(s, y)
  BY <1>1 DEF Same, SameRest, Still
<1>3. y.fifo = <<>> /\ ~ y.on /\ ~ y.hwOn
  BY <1>1 DEF IsDark
<1>4. Sending(y, b)
  BY <1>2, <1>3, EmptyFifo, SendingSame DEF Still
<1>5. Radio(y) /\ Len(y.fifo) <= FifoFrames
  BY <1>2, <1>3, EmptyFifo, MacAssumption DEF Still, Radio
<1>6. Kept(y, b) /\ Drowsy(y, b)
  BY <1>1, <1>2, <1>3 DEF Still, Same, SameRest, Drowsy, Kept, SameTx, SameRx
<1> QED
  BY <1>1, <1>2, <1>4, <1>5, <1>6 DEF Still, y

LEMMA OnRequest ==
  ASSUME NEW s, NEW b, Sane(s, b), s.sleep = "awake"
  PROVE  LET y == macRxOnRequest(s)
         IN Sane(y, b) /\ Same(s, y) /\ y.fifo = s.fifo
<1> DEFINE y == macRxOnRequest(s)
<1>1. CASE s.enable = {}
  BY <1>1, SameSelf DEF macRxOnRequest
<1>2. CASE s.enable # {}
  <2>1. y = macRxOn(s)
    BY <1>2 DEF macRxOnRequest
  <2>2. /\ IsMac(y) /\ Same(s, y) /\ y.newPower = s.newPower
        /\ y.on /\ y.hwOn /\ y.fifo = s.fifo
    BY <2>1, RxOn DEF Sane, Radio
  <2> HIDE DEF y
  <2>3. y.csp = s.csp /\ y.mask = s.mask /\ y.irq = s.irq /\ y.sleep = s.sleep
        /\ y.newChannel = s.newChannel /\ SameTx(s, y) /\ ~ y.failed /\ ~ y.cut
        /\ y.enable = s.enable /\ SameRx(s, y)
    BY <2>2 DEF Same, SameRest, Sane
  <2>4. Sending(y, b)
    BY <2>2, <2>3, SendingSame DEF Sane
  <2>5. Radio(y) /\ Len(y.fifo) <= FifoFrames
    BY <2>2, <2>3 DEF Sane, Radio
  <2>6. Kept(y, b) /\ Drowsy(y, b)
    BY <1>2, <2>2, <2>3 DEF Sane, Same, SameRest, Drowsy, Kept, SameTx, SameRx
  <2> QED
    BY <2>2, <2>3, <2>4, <2>5, <2>6 DEF Sane, y
<1> QED
  BY <1>1, <1>2

(* How a callback leaves the receive: as it was, to be halted at the end   *)
(* of the receive interrupt, or halted.                                    *)
After(s, y) ==
  \/ /\ SameRx(s, y) /\ ("ackdone" \in y.mask <=> "ackdone" \in s.mask)
     /\ y.fifo = s.fifo \/ (y.fifo = <<>> /\ ~ RxPhysicallyActive(s))
  \/ s.isr /\ y.isr /\ y.reset /\ y.rx = s.rx
  \/ ~ s.isr /\ y.isr = s.isr /\ y.reset = s.reset /\ Rested(y)

LEMMA AfterSelf ==
  ASSUME NEW s
  PROVE  After(s, s)
BY DEF After, SameRx

(* A new channel is set between two transmits.                             *)
LEMMA UpdateChannel ==
  ASSUME NEW s, NEW b, IsMac(s), s.tx = "no", s.isr => s.rx = "started",
         s.newChannel => s.sleep = "awake",
         Still([s EXCEPT !.newChannel = FALSE], b), Kept([s EXCEPT !.newChannel = FALSE], b)
  PROVE  LET y == macRadioUpdateChannel(s)
         IN /\ Sane(y, b) /\ After(s, y)
            /\ y.call = s.call /\ y.ackReq = s.ackReq /\ y.tx = "no" /\ ~ y.newChannel
<1> DEFINE u == [s EXCEPT !.newChannel = FALSE]
           y == macRadioUpdateChannel(s)
<1>a. macRadioUpdateChannel(s) = y
  BY Zenon
<1>b. Still(u, b) /\ Kept(u, b)
  BY Zenon
<1>1. Assert(s, s.tx = "no") = s
  BY AssertHolds
<1>2. y = IF s.newChannel THEN macRxOnRequest(macRxHaltCleanup(macRxOff(u))) ELSE s
  BY <1>1 DEF macRadioUpdateChannel
<1> HIDE DEF y
<1>3. Shape(u) /\ Shape(s) /\ s.newChannel \in BOOLEAN
  BY DEF IsMac, Ranges, Still
<1>4. CASE ~ s.newChannel
  <2>1. \A f \in Fields : s[f] = u[f]
    BY <1>3, <1>4 DEF Shape
  <2>2. u = s
    BY <1>3, <2>1, Equal
  <2> QED
    BY <1>a, <1>2, <1>4, <2>2, AfterSelf DEF Still, Sane
<1>5. CASE s.newChannel
  <2> DEFINE v == macRxOff(u)
             w == macRxHaltCleanup(v)
  <2>1. /\ SameTx(s, u) /\ SameRx(s, u) /\ u.sleep = s.sleep /\ ~ u.newChannel
        /\ u.csp = s.csp
    BY <1>3 DEF Shape, Fields, SameTx, SameRx
  <2> HIDE DEF u
  <2>2. u.csp = "idle"
    BY <1>b, <2>1 DEF Still, Sending, SameTx
  <2>3. Still(v, b) /\ Kept(v, b) /\ Same(u, v)
    BY <1>b, <2>2, OffStill
  <2> HIDE DEF v
  <2>4. SameTx(s, v) /\ SameRx(s, v) /\ v.sleep = "awake" /\ ~ v.newChannel
    BY <1>5, <2>1, <2>3 DEF Same, SameTx, SameRx, SameRest
  <2>5. /\ Sane(w, b) /\ w.call = v.call /\ w.ackReq = v.ackReq /\ (w.tx = "no" <=> v.tx = "no")
        /\ w.sleep = v.sleep /\ w.newChannel = v.newChannel
        /\ \/ v.isr /\ w.isr /\ w.reset /\ w.rx = v.rx
           \/ ~ v.isr /\ w.isr = v.isr /\ w.reset = v.reset /\ Rested(w)
    <3>1. CASE v.isr
      <4>1. w = [v EXCEPT !.reset = TRUE]
        BY <3>1 DEF macRxHaltCleanup
      <4>2. Shape(v) /\ Ranges(v)
        BY <2>3 DEF Still, IsMac
      <4>3. Shape(w)
        BY <4>1, <4>2 DEF Shape
      <4>4. Ranges(w)
        BY <4>1, <4>2 DEF Shape, Ranges, Fields
      <4>5. /\ SameTx(v, w) /\ SameRest(v, w) /\ SameRadio(v, w) /\ w.csp = v.csp
            /\ w.mask = v.mask /\ w.rx = v.rx /\ w.ackFlag = v.ackFlag
            /\ w.newPower = v.newPower /\ w.reset /\ w.isr = v.isr
        BY <4>1, <4>2 DEF Shape, Fields, SameTx, SameRest, SameRadio
      <4> HIDE DEF w
      <4>6. w.irq = v.irq /\ w.sleep = v.sleep /\ w.newChannel = v.newChannel /\ w.fifo = v.fifo
            /\ ~ w.failed /\ ~ w.cut /\ w.on = v.on /\ w.hwOn = v.hwOn /\ w.tx = v.tx
            /\ w.enable = v.enable /\ w.call = v.call /\ w.ackReq = v.ackReq
        BY <2>3, <4>5 DEF SameRest, SameRadio, SameTx, Still
      <4>7. Sending(w, b)
        BY <2>3, <4>5, <4>6, SendingSame DEF Still
      <4>8. Radio(w) /\ Kept(w, b) /\ Drowsy(w, b) /\ Len(w.fifo) <= FifoFrames
        BY <2>3, <4>5, <4>6 DEF Still, Radio, Kept, Drowsy
      <4>9. Sane(w, b)
        BY <4>3, <4>4, <4>6, <4>7, <4>8 DEF Sane, IsMac
      <4> QED
        BY <3>1, <4>5, <4>6, <4>9
    <3>2. CASE ~ v.isr
      <4>1. w = rxHaltCleanupFinalStep(v)
        BY <3>2 DEF macRxHaltCleanup
      <4> HIDE DEF w
      <4> QED
        BY <2>3, <3>2, <4>1, HaltCleanup DEF SameRest
    <3> QED
      BY <3>1, <3>2
  <2> HIDE DEF w
  <2>6. y = macRxOnRequest(w)
    BY <1>2, <1>5 DEF u, v, w
  <2>7. Sane(y, b) /\ Same(w, y)
    BY <2>4, <2>5, <2>6, OnRequest
  <2>8. y.call = s.call /\ y.ackReq = s.ackReq /\ y.tx = "no" /\ ~ y.newChannel
    BY <2>4, <2>5, <2>7 DEF Same, SameTx, SameRest
  <2>9. After(s, y)
    <3>1. SameRx(w, y)
      BY <2>7 DEF Same
    <3>2. CASE v.isr
      BY <2>4, <2>5, <3>1, <3>2 DEF SameRx, After
    <3>3. CASE ~ v.isr
      BY <2>4, <2>5, <3>1, <3>3 DEF SameRx, After, Rested
    <3> QED
      BY <3>2, <3>3
  <2> QED
    BY <1>a, <2>7, <2>8, <2>9, Zenon
<1> QED
  BY <1>4, <1>5

LEMMA AfterTrans ==
  ASSUME NEW x, NEW y, NEW z, After(x, y), After(y, z)
  PROVE  After(x, z)
<1>1. SameRx(x, y) /\ SameRx(y, z) => SameRx(x, z)
  BY SameTrans
<1>2. SameRx(x, y) => y.rx = x.rx /\ y.ackFlag = x.ackFlag /\ y.isr = x.isr /\ y.reset = x.reset
  BY DEF SameRx
<1>3. SameRx(y, z) => z.rx = y.rx /\ z.isr = y.isr /\ z.reset = y.reset
                      /\ (Rested(y) => Rested(z))
  BY DEF SameRx, Rested
<1> QED
  BY <1>1, <1>2, <1>3 DEF After, RxPhysicallyActive

(* The call is answered.                                                   *)
Answered(c, status) ==
  [c EXCEPT !.open = FALSE, !.status = status, !.twice = @ \/ ~ c.open]

Statuses == {"success", "no_ack", "no_access", "aborted"}

LEMMA AnsweredCall ==
  ASSUME NEW c \in Call, NEW status \in Statuses, c.open, ~ c.twice
  PROVE  LET d == Answered(c, status)
         IN /\ d \in Call /\ ~ d.open /\ d.status = status /\ ~ d.twice
            /\ d.sent = c.sent /\ d.acked = c.acked
BY DEF Call, Answered, Statuses

(* txComplete tells the high-level MAC and ends everything that waited for *)
(* the end of the transmit.                                                *)
LEMMA TxComplete ==
  ASSUME NEW s, NEW b, NEW status \in Statuses,
         IsMac(s), Len(s.fifo) <= FifoFrames, ~ s.failed, ~ s.cut, Radio(s),
         s.csp = "idle", "stop" \notin s.mask, s.call.open, ~ s.call.twice,
         StatusFits(s.call, s.ackReq, status),
         s.isr => s.rx = "started", s.newChannel => s.sleep = "awake", Drowsy(s, b),
         b \notin {"prepare", "decide"} \cup Going
  PROVE  LET y == txComplete(s, status)
         IN Good(y, b) /\ After(s, y) /\ y.tx = "no"
<1> DEFINE t == [s EXCEPT !.retransmit = FALSE, !.tx = "no"]
           u == Calm(t)
           v == [u EXCEPT !.newChannel = FALSE]
           w == macRadioUpdateChannel(u)
           call == Answered(w.call, status)
           y == txComplete(s, status)
<1>a. txComplete(s, status) = y
  BY Zenon
<1>b. Shape(s) /\ Ranges(s)
  BY DEF IsMac
<1>1. Shape(t)
  BY <1>b DEF Shape
<1>2. Ranges(t)
  BY <1>b DEF Shape, Ranges, Fields
<1>3. /\ SameRx(s, t) /\ SameRest(s, t) /\ SameRadio(s, t) /\ t.mask = s.mask /\ t.csp = s.csp
      /\ t.tx = "no" /\ t.call = s.call /\ t.ackReq = s.ackReq
  BY <1>b DEF Shape, Fields, SameRx, SameRest, SameRadio
<1>4. y = [w EXCEPT !.call.open = FALSE, !.call.status = status,
                    !.call.twice = @ \/ ~ w.call.open]
  BY DEF txComplete, Calm
<1> HIDE DEF t, y
<1>5. /\ IsMac(u) /\ Same(t, u)
      /\ SameRadio(t, u) \/ (IsDark(u) /\ ~ RxPhysicallyActive(t) /\ ~ TxPhysicallyActive(t))
      /\ u.on /\ u.enable = {} => RxPhysicallyActive(t) \/ TxPhysicallyActive(t)
      /\ u.newPower => t.ackFlag \/ TxPhysicallyActive(t)
  BY <1>1, <1>2, <1>3, CalmFacts DEF IsMac
<1> HIDE DEF u
<1>6. /\ u.tx = "no" /\ u.call = s.call /\ u.ackReq = s.ackReq /\ u.csp = "idle"
      /\ u.mask = s.mask /\ u.sleep = s.sleep /\ u.newChannel = s.newChannel
      /\ ~ u.failed /\ ~ u.cut /\ SameRx(s, u)
  BY <1>3, <1>5 DEF Same, SameTx, SameRest, SameRx
<1>7. ~ TxPhysicallyActive(t) /\ (RxPhysicallyActive(t) <=> RxPhysicallyActive(u))
  BY <1>3, <1>5 DEF Same, SameRx, RxPhysicallyActive, TxPhysicallyActive
<1>8. /\ u.on => s.on
      /\ u.hwOn <=> u.on
      /\ u.fifo = s.fifo \/ u.fifo = <<>>
      /\ ~ u.on => u.fifo = <<>>
      /\ u.fifo = s.fifo \/ (u.fifo = <<>> /\ ~ RxPhysicallyActive(s))
  BY <1>3, <1>5 DEF SameRadio, IsDark, Radio, RxPhysicallyActive, SameRx
<1>9. Radio(u) /\ Len(u.fifo) <= FifoFrames
  BY <1>6, <1>8, EmptyFifo, MacAssumption DEF Radio
<1>10. Shape(u) /\ Ranges(u)
  BY <1>5 DEF IsMac
<1>11. Shape(v)
  BY <1>10 DEF Shape
<1>12. Ranges(v)
  BY <1>10 DEF Shape, Ranges, Fields
<1>13. /\ SameTx(u, v) /\ SameRx(u, v) /\ SameRadio(u, v) /\ v.csp = u.csp /\ v.mask = u.mask
       /\ v.sleep = u.sleep /\ v.enable = u.enable /\ v.newPower = u.newPower
       /\ v.failed = u.failed /\ v.cut = u.cut /\ ~ v.newChannel
  BY <1>10 DEF Shape, Fields, SameTx, SameRx, SameRadio
<1> HIDE DEF v
<1>14. Radio(v) /\ Len(v.fifo) <= FifoFrames /\ ~ v.failed /\ ~ v.cut
  BY <1>6, <1>9, <1>13 DEF SameRadio, Radio
<1>15. Sending(v, b)
  BY <1>6, <1>13 DEF SameTx, Sending
<1>16. Kept(v, b) /\ Drowsy(v, b)
  BY <1>3, <1>5, <1>6, <1>7, <1>13 DEF Kept, Drowsy, SameRest, SameTx, SameRx, SameRadio, RxPhysicallyActive, Same
<1>17. Still(v, b)
  BY <1>11, <1>12, <1>14, <1>15, <1>16 DEF Still, IsMac
<1>18. /\ Sane(w, b) /\ After(u, w)
       /\ w.call = u.call /\ w.ackReq = u.ackReq /\ w.tx = "no" /\ ~ w.newChannel
  <2>1. u.isr => u.rx = "started"
    BY <1>6 DEF SameRx
  <2> QED
    BY <1>5, <1>6, <1>16, <1>17, <2>1, UpdateChannel DEF v
<1> HIDE DEF w
<1>19. After(s, w)
  <2>1. After(s, u)
    BY <1>6, <1>8 DEF After
  <2> QED
    BY <1>18, <2>1, AfterTrans
<1>20. Shape(w) /\ Ranges(w) /\ w.call \in Call /\ w.call.open /\ ~ w.call.twice
  BY <1>6, <1>18 DEF Sane, IsMac, Ranges
<1>21. y = [w EXCEPT !.call = call]
  BY <1>4, <1>20 DEF Shape, Fields, Answered
<1>22. /\ call \in Call /\ ~ call.open /\ call.status = status /\ ~ call.twice
       /\ call.sent = s.call.sent /\ call.acked = s.call.acked
  BY <1>6, <1>18, <1>20, AnsweredCall
<1> HIDE DEF call
<1>23. Shape(y)
  BY <1>20, <1>21 DEF Shape
<1>24. Ranges(y)
  BY <1>20, <1>21, <1>22 DEF Shape, Ranges, Fields
<1>25. /\ SameRx(w, y) /\ SameRest(w, y) /\ SameRadio(w, y) /\ y.csp = w.csp /\ y.mask = w.mask
       /\ y.newPower = w.newPower /\ y.tx = w.tx /\ y.ackReq = w.ackReq /\ y.call = call
  BY <1>20, <1>21 DEF Shape, Fields, SameRx, SameRest, SameRadio
<1>26. Radio(y) /\ Len(y.fifo) <= FifoFrames /\ ~ y.failed /\ ~ y.cut
  BY <1>18, <1>25 DEF SameRadio, SameRest, Radio, Sane
<1>27. Sending(y, b)
  BY <1>18, <1>25 DEF Sane, Sending, SameRest
<1>28. Kept(y, b) /\ Drowsy(y, b)
  BY <1>18, <1>25 DEF Sane, Kept, Drowsy, SameRest, SameRx, SameRadio
<1>29. Told(y)
  BY <1>6, <1>18, <1>22, <1>25 DEF Told, StatusFits
<1>30. Good(y, b)
  BY <1>23, <1>24, <1>26, <1>27, <1>28, <1>29 DEF Good, Sane, IsMac
<1>31. After(s, y)
  <2>1. After(w, y)
    BY <1>25 DEF After, SameRadio
  <2> QED
    BY <1>19, <2>1, AfterTrans
<1> QED
  BY <1>a, <1>18, <1>25, <1>30, <1>31, Zenon

-----------------------------------------------------------------------------
(* The end of a transmit.                                                  *)

(* In the middle of a handler that ends a transmit.                        *)
Mid(s, b) ==
  /\ IsMac(s) /\ Len(s.fifo) <= FifoFrames /\ ~ s.failed /\ ~ s.cut /\ Radio(s)
  /\ s.call.open /\ ~ s.call.twice /\ s.call.status = "none"
  /\ s.isr => s.rx = "started"
  /\ s.sleep = "awake"
  /\ b \notin {"prepare", "decide"} \cup Going

LEMMA MidOf ==
  ASSUME NEW s, NEW b, Good(s, b), s.tx \in {"go", "listen"}, b \notin Going,
         s.isr => s.rx = "started"
  PROVE  Mid(s, b)
<1>1. s.sleep = "awake" /\ b \notin {"prepare", "decide"}
  <2>1. s.sleep \in {"awake", "osc_off", "radio_off"}
    BY DEF Good, Sane, IsMac, Ranges
  <2> QED
    BY <2>1 DEF Good, Sane, Sending
<1> QED
  BY <1>1 DEF Good, Sane, Told, Mid

(* A step inside of such a handler that leaves most of the record alone.   *)
LEMMA MidSame ==
  ASSUME NEW s, NEW y, NEW b, Mid(s, b), Shape(y), Ranges(y), SameRx(s, y), SameRadio(s, y),
         y.sleep = s.sleep, y.failed = s.failed, y.cut = s.cut, y.call = s.call,
         y.csp = s.csp \/ y.csp \in {"idle", "wait"}
  PROVE  Mid(y, b)
<1>1. /\ y.isr = s.isr /\ y.rx = s.rx /\ y.on = s.on /\ y.hwOn = s.hwOn /\ y.fifo = s.fifo
  BY DEF SameRx, SameRadio
<1>2. Radio(y)
  BY <1>1 DEF Mid, Radio
<1> QED
  BY <1>1, <1>2 DEF Mid, IsMac

LEMMA MidTx ==
  ASSUME NEW s, NEW b, Mid(s, b), NEW tx \in {"busy", "done", "listen", "post"}
  PROVE  LET y == [s EXCEPT !.tx = tx]
         IN /\ Mid(y, b) /\ SameRx(s, y) /\ SameRest(s, y) /\ SameRadio(s, y)
            /\ y.tx = tx /\ y.csp = s.csp /\ y.mask = s.mask /\ y.call = s.call
            /\ y.ackReq = s.ackReq /\ y.nb = s.nb /\ y.newPower = s.newPower
<1> DEFINE y == [s EXCEPT !.tx = tx]
<1>1. Shape(s) /\ Ranges(s)
  BY DEF Mid, IsMac
<1>2. Shape(y)
  BY <1>1 DEF Shape
<1>3. Ranges(y)
  BY <1>1 DEF Shape, Ranges, Fields
<1>4. /\ SameRx(s, y) /\ SameRest(s, y) /\ SameRadio(s, y)
      /\ y.tx = tx /\ y.csp = s.csp /\ y.mask = s.mask /\ y.call = s.call
      /\ y.ackReq = s.ackReq /\ y.nb = s.nb /\ y.newPower = s.newPower
  BY <1>1 DEF Shape, Fields, SameRx, SameRest, SameRadio
<1> HIDE DEF y
<1>5. Mid(y, b)
  BY <1>2, <1>3, <1>4, MidSame DEF SameRest
<1> QED
  BY <1>4, <1>5 DEF y

LEMMA Complete ==
  ASSUME NEW s, NEW b, Mid(s, b), NEW status \in Statuses, s.csp = "idle",
         "stop" \notin s.mask, StatusFits(s.call, s.ackReq, status)
  PROVE  LET y == txComplete(s, status)
         IN Good(y, b) /\ After(s, y) /\ y.tx = "no"
BY TxComplete DEF Mid, Drowsy

(* The wait for an ACK ends.                                               *)
LEMMA AckEnds ==
  ASSUME NEW s, NEW b, Mid(s, b), NEW status \in Statuses,
         s.csp \in {"wait", "idle"}, StatusFits(s.call, s.ackReq, status)
  PROVE  LET y == txComplete(macCspTxCancelAckTimeoutCallback([s EXCEPT !.tx = "post"]), status)
         IN Good(y, b) /\ After(s, y) /\ y.tx = "no"
<1> DEFINE t == [s EXCEPT !.tx = "post"]
           mask == t.mask \ {"stop"}
           irq == t.irq \cup {"stop"}
           u == [t EXCEPT !.mask = mask, !.csp = "idle", !.irq = irq]
           y == txComplete(u, status)
<1>1. macCspTxCancelAckTimeoutCallback(t) = u
  BY DEF macCspTxCancelAckTimeoutCallback
<1>2. /\ Mid(t, b) /\ SameRx(s, t) /\ SameRest(s, t) /\ SameRadio(s, t)
      /\ t.mask = s.mask /\ t.call = s.call /\ t.ackReq = s.ackReq
  BY MidTx
<1> HIDE DEF t
<1>3. Shape(t) /\ Ranges(t)
  BY <1>2 DEF Mid, IsMac
<1>4. mask \in SUBSET Interrupts /\ irq \in SUBSET Interrupts
      /\ ("ackdone" \in mask <=> "ackdone" \in s.mask) /\ "stop" \notin mask
  BY <1>2, <1>3 DEF Ranges, Interrupts
<1> HIDE DEF mask, irq
<1>5. Shape(u)
  BY <1>3 DEF Shape
<1>6. Ranges(u)
  BY <1>3, <1>4 DEF Shape, Ranges, Fields
<1>7. /\ SameRx(t, u) /\ SameRadio(t, u) /\ u.csp = "idle" /\ u.mask = mask
      /\ u.sleep = t.sleep /\ u.failed = t.failed /\ u.cut = t.cut /\ u.call = t.call
      /\ u.ackReq = t.ackReq
  BY <1>3 DEF Shape, Fields, SameRx, SameRadio
<1> HIDE DEF u
<1>8. Mid(u, b)
  BY <1>2, <1>5, <1>6, <1>7, MidSame
<1>9. Good(y, b) /\ After(u, y) /\ y.tx = "no"
  BY <1>2, <1>4, <1>7, <1>8, Complete
<1> HIDE DEF y
<1>10. After(s, u)
  <2>1. SameRx(s, u) /\ u.fifo = s.fifo
    BY <1>2, <1>7, SameTrans DEF SameRadio
  <2> QED
    BY <1>4, <1>7, <2>1 DEF After
<1>11. After(s, y)
  BY <1>9, <1>10, AfterTrans
<1> QED
  BY <1>1, <1>9, <1>11, Zenon DEF y, t

(* What the callbacks of the end of a transmit are given.                  *)
LEMMA AckNotReceived ==
  ASSUME NEW s, NEW b, Mid(s, b), s.tx = "listen", s.csp \in {"wait", "idle"},
         s.call.sent = 1
  PROVE  LET y == macTxAckNotReceivedCallback(s)
         IN Good(y, b) /\ After(s, y) /\ y.tx = "no"
<1>1. StatusFits(s.call, s.ackReq, "no_ack")
  BY DEF StatusFits
<1> QED
  BY <1>1, AckEnds DEF macTxAckNotReceivedCallback, Statuses

LEMMA AckReceived ==
  ASSUME NEW s, NEW b, Mid(s, b), s.tx = "listen", s.csp \in {"wait", "idle"},
         s.call.sent = 1, NEW mine \in BOOLEAN, mine => s.call.acked
  PROVE  LET y == macTxAckReceivedCallback(s, mine)
         IN Good(y, b) /\ After(s, y) /\ y.tx = "no"
<1> DEFINE status == IF mine THEN "success" ELSE "no_ack"
<1>1. StatusFits(s.call, s.ackReq, status) /\ status \in Statuses
  BY DEF StatusFits, Statuses
<1>2. macTxAckReceivedCallback(s, mine) =
        txComplete(macCspTxCancelAckTimeoutCallback([s EXCEPT !.tx = "post"]), status)
  BY DEF macTxAckReceivedCallback
<1> HIDE DEF status
<1> QED
  BY <1>1, <1>2, AckEnds

(* The frame is out: the wait for its ACK begins, or the call is answered. *)
LEMMA TxDone ==
  ASSUME NEW s, NEW b, Mid(s, b), s.tx = "go", s.csp = "idle", s.call.sent = 1,
         Heard(s.fifo, s.call.acked), "stop" \notin s.mask
  PROVE  LET y == macTxDoneCallback(s)
         IN Good(y, b) /\ After(s, y) /\ y.tx \in {"no", "listen"}
<1>1. CASE s.ackReq
  <2> DEFINE t == [s EXCEPT !.tx = "listen"]
             mask == t.mask \cup {"stop"}
             irq == t.irq \ {"stop"}
             u == [t EXCEPT !.cspz = "timeout", !.csp = "wait", !.irq = irq, !.mask = mask]
  <2>1. /\ Mid(t, b) /\ SameRx(s, t) /\ SameRest(s, t) /\ SameRadio(s, t) /\ t.tx = "listen"
        /\ t.mask = s.mask /\ t.call = s.call /\ t.ackReq = s.ackReq /\ t.csp = "idle"
    BY MidTx
  <2>2. macTxDoneCallback(s) = macCspTxRequestAckTimeoutCallback(t)
    BY <1>1 DEF macTxDoneCallback
  <2> HIDE DEF t
  <2>3. Assert(t, "stop" \notin t.mask) = t
    BY <2>1, AssertHolds DEF Mid
  <2>4. macCspTxRequestAckTimeoutCallback(t) = u
    BY <2>3 DEF macCspTxRequestAckTimeoutCallback
  <2>5. Shape(t) /\ Ranges(t)
    BY <2>1 DEF Mid, IsMac
  <2>6. mask \in SUBSET Interrupts /\ irq \in SUBSET Interrupts
        /\ ("ackdone" \in mask <=> "ackdone" \in s.mask) /\ "stop" \in mask
    BY <2>1, <2>5 DEF Ranges, Interrupts
  <2> HIDE DEF mask, irq
  <2>7. Shape(u)
    BY <2>5 DEF Shape
  <2>8. Ranges(u)
    BY <2>5, <2>6 DEF Shape, Ranges, Fields
  <2>9. /\ SameRx(t, u) /\ SameRadio(t, u) /\ u.csp = "wait" /\ u.cspz = "timeout"
        /\ u.mask = mask /\ u.tx = t.tx /\ u.newPower = t.newPower
        /\ u.sleep = t.sleep /\ u.failed = t.failed /\ u.cut = t.cut /\ u.call = t.call
        /\ u.ackReq = t.ackReq
    BY <2>5 DEF Shape, Fields, SameRx, SameRadio
  <2> HIDE DEF u
  <2>10. /\ u.on = s.on /\ u.hwOn = s.hwOn /\ u.fifo = s.fifo /\ u.sleep = "awake"
         /\ u.call = s.call /\ u.tx = "listen" /\ ~ u.failed /\ ~ u.cut /\ SameRx(s, u)
    BY <2>1, <2>9, SameTrans DEF SameRadio, Mid
  <2>11. Radio(u) /\ Len(u.fifo) <= FifoFrames
    BY <2>9, <2>10 DEF Radio, Mid
  <2>12. Sending(u, b)
    BY <2>6, <2>9, <2>10 DEF Sending, Mid
  <2>13. Kept(u, b) /\ Drowsy(u, b) /\ Told(u)
    BY <2>10 DEF Kept, Drowsy, Told, StatusFits, Mid
  <2>14. Good(u, b)
    BY <2>7, <2>8, <2>10, <2>11, <2>12, <2>13 DEF Good, Sane, IsMac
  <2>15. After(s, u)
    BY <2>6, <2>9, <2>10 DEF After
  <2> QED
    BY <2>2, <2>4, <2>10, <2>14, <2>15
<1>2. CASE ~ s.ackReq
  <2> DEFINE t == [s EXCEPT !.tx = "done"]
             y == txComplete(t, "success")
  <2>1. /\ Mid(t, b) /\ SameRx(s, t) /\ SameRest(s, t) /\ SameRadio(s, t)
        /\ t.mask = s.mask /\ t.call = s.call /\ t.ackReq = s.ackReq /\ t.csp = "idle"
    BY MidTx
  <2>2. macTxDoneCallback(s) = y
    BY <1>2 DEF macTxDoneCallback
  <2> HIDE DEF t
  <2>3. StatusFits(t.call, t.ackReq, "success")
    BY <1>2, <2>1 DEF StatusFits
  <2>4. Good(y, b) /\ After(t, y) /\ y.tx = "no"
    BY <2>1, <2>3, Complete DEF Statuses
  <2> HIDE DEF y
  <2>5. After(s, t)
    BY <2>1 DEF After, SameRadio
  <2> QED
    BY <2>2, <2>4, <2>5, AfterTrans
<1> QED
  BY <1>1, <1>2

(* The channel was busy: another backoff, or the call is answered.         *)
LEMMA ChannelBusy ==
  ASSUME NEW s, NEW b, Mid(s, b), s.csp = "idle", s.call.sent = 0,
         s.nb <= MaxBackoffs, "stop" \notin s.mask
  PROVE  LET y == macTxChannelBusyCallback(s)
         IN Good(y, b) /\ After(s, y)
<1> DEFINE t == [s EXCEPT !.tx = "busy"]
           u == macRxOffRequest(t)
           nb == u.nb + 1
           v == [u EXCEPT !.nb = nb]
<1>1. /\ Mid(t, b) /\ SameRx(s, t) /\ SameRest(s, t) /\ SameRadio(s, t) /\ t.tx = "busy"
      /\ t.mask = s.mask /\ t.call = s.call /\ t.ackReq = s.ackReq /\ t.csp = "idle"
      /\ t.nb = s.nb
  BY MidTx
<1>2. macTxChannelBusyCallback(s) =
      IF nb > MaxBackoffs THEN txComplete(v, "no_access")
      ELSE macCspTxGoCsma([txCsmaPrep(v) EXCEPT !.tx = "go"])
  BY DEF macTxChannelBusyCallback
<1> HIDE DEF t
<1>3. /\ IsMac(u) /\ Same(t, u)
      /\ SameRadio(t, u) \/ (IsDark(u) /\ ~ RxPhysicallyActive(t))
  BY <1>1, OffRequest DEF Mid
<1> HIDE DEF u
<1>4. Shape(u) /\ Ranges(u) /\ u.nb = s.nb /\ nb \in 0 .. MaxBackoffs + 1
  <2>1. Shape(u) /\ Ranges(u) /\ u.nb = s.nb
    BY <1>1, <1>3 DEF Same, SameTx, IsMac
  <2>2. s.nb \in 0 .. MaxBackoffs + 1
    BY DEF Mid, IsMac, Ranges
  <2> QED
    BY <2>1, <2>2, MacAssumption
<1> HIDE DEF nb
<1>5. Shape(v)
  BY <1>4 DEF Shape
<1>6. Ranges(v)
  BY <1>4 DEF Shape, Ranges, Fields
<1>7. /\ SameRx(u, v) /\ SameRest(u, v) /\ SameRadio(u, v) /\ v.csp = u.csp /\ v.mask = u.mask
      /\ v.call = u.call /\ v.ackReq = u.ackReq /\ v.nb = nb /\ v.newPower = u.newPower
  BY <1>4 DEF Shape, Fields, SameRx, SameRest, SameRadio
<1> HIDE DEF v
<1>8. /\ v.csp = "idle" /\ v.call = s.call /\ v.mask = s.mask /\ v.ackReq = s.ackReq
      /\ SameRx(s, v) /\ SameRest(s, v)
      /\ SameRadio(s, v) \/ (IsDark(v) /\ ~ RxPhysicallyActive(s))
  <2>1. v.csp = "idle" /\ v.call = s.call /\ v.mask = s.mask /\ v.ackReq = s.ackReq
    BY <1>1, <1>3, <1>7 DEF Same, SameTx
  <2>2. SameRx(s, v) /\ SameRest(s, v)
    BY <1>1, <1>3, <1>7, SameTrans, Zenon DEF Same
  <2>3. SameRadio(s, v) \/ (IsDark(v) /\ ~ RxPhysicallyActive(s))
    BY <1>1, <1>3, <1>7 DEF SameRadio, IsDark, RxPhysicallyActive, SameRx
  <2> QED
    BY <2>1, <2>2, <2>3
<1>9. /\ v.fifo = s.fifo \/ (v.fifo = <<>> /\ ~ RxPhysicallyActive(s))
      /\ v.hwOn <=> v.on
      /\ Radio(v) /\ Len(v.fifo) <= FifoFrames
  <2>1. s.sleep = v.sleep
    BY <1>8 DEF SameRest
  <2>2. CASE SameRadio(s, v)
    BY <1>8, <2>1, <2>2 DEF SameRadio, Mid, Radio
  <2>3. CASE IsDark(v) /\ ~ RxPhysicallyActive(s)
    BY <1>8, <2>3, EmptyFifo, MacAssumption DEF IsDark, Radio
  <2> QED
    BY <1>8, <2>2, <2>3
<1>10. Mid(v, b) /\ After(s, v)
  BY <1>5, <1>6, <1>8, <1>9 DEF Mid, IsMac, SameRest, SameRx, After
<1>11. CASE nb > MaxBackoffs
  <2> DEFINE y == txComplete(v, "no_access")
  <2>1. StatusFits(v.call, v.ackReq, "no_access")
    BY <1>8 DEF StatusFits
  <2>2. Good(y, b) /\ After(v, y)
    BY <1>8, <1>10, <2>1, Complete DEF Statuses
  <2>3. macTxChannelBusyCallback(s) = y
    BY <1>2, <1>11
  <2> HIDE DEF y
  <2> QED
    BY <1>10, <2>2, <2>3, AfterTrans
<1>12. CASE ~ (nb > MaxBackoffs)
  <2> DEFINE irq == v.irq \ {"stop", "int"}
             p == [v EXCEPT !.cspz = "busy", !.csp = "loaded", !.irq = irq]
             q == [p EXCEPT !.tx = "go"]
             y == macCspTxGoCsma(q)
  <2>1. Assert(v, "stop" \notin v.mask) = v
    BY <1>8, <1>10, AssertHolds DEF Mid
  <2>2. txCsmaPrep(v) = p
    BY <2>1 DEF txCsmaPrep
  <2>3. macTxChannelBusyCallback(s) = y
    BY <1>2, <1>12, <2>2
  <2>4. Shape(v) /\ Ranges(v) /\ irq \in SUBSET Interrupts /\ "stop" \notin irq
    BY <1>5, <1>6 DEF Ranges
  <2> HIDE DEF irq
  <2>5. Shape(p)
    BY <2>4 DEF Shape
  <2>6. Ranges(p)
    BY <2>4 DEF Shape, Ranges, Fields
  <2>7. /\ SameRx(v, p) /\ SameRadio(v, p) /\ p.mask = v.mask /\ p.call = v.call
        /\ p.cspz = "busy" /\ p.irq = irq /\ p.nb = v.nb /\ p.sleep = v.sleep
        /\ p.failed = v.failed /\ p.cut = v.cut
    BY <2>4 DEF Shape, Fields, SameRx, SameRadio
  <2> HIDE DEF p
  <2>8. Shape(q)
    BY <2>5 DEF Shape
  <2>9. Ranges(q)
    BY <2>5, <2>6 DEF Shape, Ranges, Fields
  <2>10. /\ SameRx(p, q) /\ SameRadio(p, q) /\ q.mask = p.mask /\ q.call = p.call
         /\ q.cspz = "busy" /\ q.irq = irq /\ q.nb = p.nb /\ q.sleep = p.sleep
         /\ q.failed = p.failed /\ q.cut = p.cut /\ q.tx = "go"
    BY <2>5, <2>7 DEF Shape, Fields, SameRx, SameRadio
  <2> HIDE DEF q
  <2>11. /\ SameRx(v, q) /\ q.fifo = v.fifo /\ q.on = v.on /\ q.hwOn = v.hwOn /\ q.mask = v.mask
         /\ q.call = v.call /\ q.nb = nb /\ q.sleep = v.sleep /\ ~ q.failed /\ ~ q.cut
    BY <1>7, <1>10, <2>7, <2>10, SameTrans DEF SameRadio, Mid
  <2>12. /\ IsMac(y) /\ SameTx(q, y) /\ SameRx(q, y) /\ SameRest(q, y)
         /\ y.on /\ y.hwOn /\ y.fifo = q.fifo
         /\ y.csp = "cca" /\ y.mask = q.mask \cup {"stop", "int"}
    BY <1>9, <2>8, <2>9, <2>11, GoCsma DEF IsMac
  <2> HIDE DEF y
  <2>13. /\ y.tx = "go" /\ y.call = s.call /\ y.cspz = "busy" /\ y.irq = irq /\ y.nb = nb
         /\ y.sleep = "awake" /\ ~ y.failed /\ ~ y.cut /\ SameRx(v, y) /\ y.fifo = v.fifo
    <3>1. /\ y.tx = "go" /\ y.call = s.call /\ y.cspz = "busy" /\ y.irq = irq /\ y.nb = nb
          /\ y.sleep = "awake" /\ ~ y.failed /\ ~ y.cut /\ y.fifo = v.fifo
      BY <1>8, <1>10, <2>10, <2>11, <2>12 DEF SameTx, SameRest, Mid
    <3>2. SameRx(v, y)
      BY <2>11, <2>12, SameTrans, Zenon
    <3> QED
      BY <3>1, <3>2
  <2>14. Radio(y) /\ Len(y.fifo) <= FifoFrames
    BY <1>9, <2>12, <2>13 DEF Radio
  <2>15. nb <= MaxBackoffs
    BY <1>4, <1>12, MacAssumption
  <2>16. Sending(y, b)
    BY <1>10, <2>4, <2>12, <2>13, <2>15 DEF Sending, Mid
  <2>17. Kept(y, b) /\ Drowsy(y, b) /\ Told(y)
    BY <1>8, <1>10, <2>13 DEF Kept, Drowsy, Told, StatusFits, Mid
  <2>18. Good(y, b)
    BY <2>12, <2>13, <2>14, <2>16, <2>17 DEF Good, Sane
  <2>19. After(v, y)
    BY <2>11, <2>12, <2>13 DEF After
  <2> QED
    BY <1>10, <2>3, <2>18, <2>19, AfterTrans
<1> QED
  BY <1>11, <1>12

-----------------------------------------------------------------------------
(* The interrupts of the CSP and of the outgoing ACK.                      *)

(* What stays when interrupts are flagged or masked.                       *)
Unflagged(x, y) ==
  /\ SameTx(x, y) /\ SameRx(x, y) /\ SameRadio(x, y) /\ y.csp = x.csp
  /\ y.enable = x.enable /\ y.sleep = x.sleep /\ y.newChannel = x.newChannel
  /\ y.newPower = x.newPower /\ y.failed = x.failed /\ y.cut = x.cut

Flag(s, irq, mask) == [s EXCEPT !.irq = irq, !.mask = mask]

LEMMA Flagged ==
  ASSUME NEW s, IsMac(s), NEW irq \in SUBSET Interrupts, NEW mask \in SUBSET Interrupts
  PROVE  LET y == Flag(s, irq, mask)
         IN IsMac(y) /\ Unflagged(s, y) /\ y.irq = irq /\ y.mask = mask
<1> DEFINE y == [s EXCEPT !.irq = irq, !.mask = mask]
<1>1. Shape(s) /\ Ranges(s)
  BY DEF IsMac
<1>2. Shape(y)
  BY <1>1 DEF Shape
<1>3. Ranges(y)
  BY <1>1 DEF Shape, Ranges, Fields
<1>4. Unflagged(s, y) /\ y.irq = irq /\ y.mask = mask
  BY <1>1 DEF Shape, Fields, Unflagged, SameTx, SameRx, SameRadio
<1> QED
  BY <1>2, <1>3, <1>4 DEF IsMac, Flag

LEMMA MidUnflagged ==
  ASSUME NEW s, NEW y, NEW b, Mid(s, b), IsMac(y), Unflagged(s, y)
  PROVE  Mid(y, b)
BY MidSame DEF Unflagged, SameTx, IsMac

(* The invariant depends on no other flag than that of the CSP's end.      *)
LEMMA GoodUnflagged ==
  ASSUME NEW s, NEW y, NEW b, Good(s, b), IsMac(y), Unflagged(s, y),
         "stop" \in y.mask <=> "stop" \in s.mask, "stop" \in y.irq => "stop" \in s.irq
  PROVE  Good(y, b)
<1>1. /\ y.on = s.on /\ y.hwOn = s.hwOn /\ y.fifo = s.fifo /\ y.csp = s.csp /\ y.sleep = s.sleep
      /\ y.enable = s.enable /\ y.newPower = s.newPower /\ y.rx = s.rx
      /\ y.ackFlag = s.ackFlag /\ y.tx = s.tx /\ y.call = s.call /\ y.ackReq = s.ackReq
      /\ ~ y.failed /\ ~ y.cut
  BY DEF Unflagged, SameTx, SameRx, SameRadio, Good, Sane
<1>2. Sending(y, b)
  BY <1>1, SendingSame DEF Good, Sane, Unflagged
<1>3. Radio(y) /\ Len(y.fifo) <= FifoFrames
  BY <1>1 DEF Good, Sane, Radio
<1>4. Kept(y, b) /\ Drowsy(y, b) /\ Told(y)
  BY <1>1 DEF Good, Sane, Kept, Drowsy, Told
<1> QED
  BY <1>1, <1>2, <1>3, <1>4 DEF Good, Sane

(* The receive goes on after a callback, or has been halted.               *)
LEMMA AfterReceiving ==
  ASSUME NEW s, NEW y, NEW b, Receiving(s, b), After(s, y), ~ s.isr
  PROVE  Receiving(y, b) /\ ~ y.isr /\ y.reset = s.reset
<1>1. CASE SameRx(s, y) /\ ("ackdone" \in y.mask <=> "ackdone" \in s.mask)
           /\ (y.fifo = s.fifo \/ (y.fifo = <<>> /\ ~ RxPhysicallyActive(s)))
  BY <1>1 DEF SameRx, Receiving, RxPhysicallyActive
<1>2. CASE ~ s.isr /\ y.isr = s.isr /\ y.reset = s.reset /\ Rested(y)
  BY <1>2 DEF Rested, Receiving
<1> QED
  BY <1>1, <1>2 DEF After

LEMMA CspIntStep ==
  ASSUME IInv, IsrCspInt
  PROVE  IInv'
<1> DEFINE irq == m.irq \ {"int"}
           mask == m.mask \ {"int"}
           y == Flag(m, irq, mask)
<1>1. irq \in SUBSET Interrupts /\ mask \in SUBSET Interrupts /\ Shape(m) /\ IsMac(m)
      /\ ("stop" \in mask <=> "stop" \in m.mask) /\ ("stop" \in irq <=> "stop" \in m.irq)
      /\ ("ackdone" \in mask <=> "ackdone" \in m.mask)
  BY DEF IInv, Good, Sane, IsMac, Ranges
<1>2. m' = y /\ bg' = bg
  BY <1>1 DEF IsrCspInt, macCspTxIntIsr, Shape, Fields, Flag
<1> HIDE DEF irq, mask
<1>3. IsMac(y) /\ Unflagged(m, y) /\ y.irq = irq /\ y.mask = mask
  BY <1>1, Flagged
<1> HIDE DEF y
<1>4. Good(y, bg)
  BY <1>1, <1>3, GoodUnflagged DEF IInv
<1>5. After(m, y)
  BY <1>1, <1>3 DEF After, Unflagged, SameRadio
<1>6. Receiving(y, bg) /\ ~ y.isr /\ ~ y.reset
  BY <1>5, AfterReceiving DEF IInv
<1> QED
  BY <1>2, <1>4, <1>6 DEF IInv

LEMMA CspStopStep ==
  ASSUME IInv, IsrCspStop
  PROVE  IInv'
<1> DEFINE irq == m.irq \ {"stop"}
           mask == m.mask \ {"stop"}
           t == Flag(m, irq, mask)
<1>0. IsMac(m) /\ Shape(m) /\ Ranges(m) /\ Sending(m, bg) /\ Good(m, bg)
  BY DEF IInv, Good, Sane, IsMac
<1>1. irq \in SUBSET Interrupts /\ mask \in SUBSET Interrupts /\ "stop" \notin mask
      /\ ("ackdone" \in mask <=> "ackdone" \in m.mask)
  BY <1>0 DEF Ranges
<1>2. m' = macCspTxStopIsr([m EXCEPT !.irq = irq]) /\ bg' = bg
  BY DEF IsrCspStop
<1>3. [m EXCEPT !.irq = irq].mask = m.mask
  BY <1>0 DEF Shape, Fields
<1>4. m' = CASE t.cspz = "done"    -> macTxDoneCallback(t)
             [] t.cspz = "busy"    -> macTxChannelBusyCallback(t)
             [] t.cspz = "timeout" -> macTxAckNotReceivedCallback(t)
  BY <1>2, <1>3 DEF macCspTxStopIsr, Flag
<1>5. "stop" \in m.irq /\ "stop" \in m.mask
  BY DEF IsrCspStop, Raised
<1> HIDE DEF irq, mask
<1>6. IsMac(t) /\ Unflagged(m, t) /\ t.irq = irq /\ t.mask = mask
  BY <1>0, <1>1, Flagged
<1> HIDE DEF t
<1>7. t.tx = m.tx /\ t.csp = m.csp /\ t.call = m.call /\ t.cspz = m.cspz /\ t.nb = m.nb
      /\ t.fifo = m.fifo
  BY <1>6 DEF Unflagged, SameTx, SameRadio
<1>8. m.tx \in {"go", "listen"} /\ bg \notin Going
  BY <1>0, <1>5 DEF Sending
<1>9. Mid(t, bg)
  BY <1>0, <1>6, <1>8, MidOf, MidUnflagged DEF IInv
<1>10. After(m, t)
  BY <1>1, <1>6 DEF After, Unflagged, SameRadio
<1>11. Good(m', bg) /\ After(t, m')
  <2>1. CASE m.tx = "go" /\ m.cspz = "done"
    <3>1. m.csp = "idle" /\ m.call.sent = 1 /\ Heard(m.fifo, m.call.acked)
      BY <1>0, <1>8, <2>1 DEF Sending
    <3>2. m' = macTxDoneCallback(t)
      BY <1>4, <1>7, <2>1
    <3> QED
      BY <1>1, <1>6, <1>7, <1>9, <2>1, <3>1, <3>2, TxDone
  <2>2. CASE m.tx = "go" /\ m.cspz = "busy"
    <3>1. m.csp = "idle" /\ m.call.sent = 0 /\ m.nb <= MaxBackoffs
      BY <1>0, <1>5, <1>8, <2>2 DEF Sending
    <3>2. m' = macTxChannelBusyCallback(t)
      BY <1>4, <1>7, <2>2
    <3> QED
      BY <1>1, <1>6, <1>7, <1>9, <3>1, <3>2, ChannelBusy
  <2>3. CASE m.tx = "listen"
    <3>1. m.csp \in {"wait", "idle"} /\ m.call.sent = 1 /\ m.cspz = "timeout"
      BY <1>0, <2>3 DEF Sending
    <3>2. m' = macTxAckNotReceivedCallback(t)
      BY <1>4, <1>7, <3>1
    <3> QED
      BY <1>7, <1>9, <2>3, <3>1, <3>2, AckNotReceived
  <2>4. m.tx = "go" => m.cspz \in {"done", "busy"}
    BY <1>0, <1>8 DEF Sending
  <2> QED
    BY <1>8, <2>1, <2>2, <2>3, <2>4
<1>12. After(m, m')
  BY <1>10, <1>11, AfterTrans
<1>13. Receiving(m', bg) /\ ~ m'.isr /\ ~ m'.reset
  BY <1>12, AfterReceiving DEF IInv
<1> QED
  BY <1>2, <1>11, <1>13 DEF IInv

(* A step that changes no more than how far the receive is.                *)
LEMMA StillSame ==
  ASSUME NEW s, NEW y, NEW b, Still(s, b), Shape(y), Ranges(y), SameTx(s, y), SameRest(s, y),
         SameRadio(s, y), y.csp = s.csp, "stop" \in y.mask <=> "stop" \in s.mask
  PROVE  Still(y, b)
<1>1. /\ y.sleep = s.sleep /\ y.newChannel = s.newChannel /\ ~ y.failed /\ ~ y.cut
      /\ y.irq = s.irq /\ y.on = s.on /\ y.hwOn = s.hwOn /\ y.fifo = s.fifo
  BY DEF SameRest, SameRadio, Still
<1>2. Sending(y, b)
  BY <1>1, SendingSame DEF Still
<1>3. Radio(y) /\ Len(y.fifo) <= FifoFrames /\ Drowsy(y, b)
  BY <1>1 DEF Still, Radio, Drowsy, SameRest
<1> QED
  BY <1>1, <1>2, <1>3 DEF Still, IsMac

(* The ACK that may be going out is called off.                            *)
NoAck(s) == [s EXCEPT !.mask = @ \ {"ackdone"}, !.ackFlag = FALSE]

LEMMA NoAckStill ==
  ASSUME NEW s, NEW b, Still(s, b)
  PROVE  LET y == NoAck(s)
         IN /\ Still(y, b) /\ SameTx(s, y) /\ SameRest(s, y) /\ SameRadio(s, y) /\ ~ y.ackFlag
            /\ y.rx = s.rx /\ y.state = s.state /\ y.got = s.got /\ y.buf = s.buf
            /\ y.isr = s.isr /\ y.reset = s.reset /\ y.newPower = s.newPower
<1> DEFINE mask == s.mask \ {"ackdone"}
           y == [s EXCEPT !.mask = mask, !.ackFlag = FALSE]
<1>1. Shape(s) /\ Ranges(s) /\ mask \in SUBSET Interrupts
      /\ ("stop" \in mask <=> "stop" \in s.mask)
  BY DEF Still, IsMac, Ranges
<1>2. NoAck(s) = y
  BY DEF NoAck
<1> HIDE DEF mask
<1>3. Shape(y)
  BY <1>1 DEF Shape
<1>4. Ranges(y)
  BY <1>1 DEF Shape, Ranges, Fields
<1>5. /\ SameTx(s, y) /\ SameRest(s, y) /\ SameRadio(s, y) /\ ~ y.ackFlag
      /\ y.rx = s.rx /\ y.state = s.state /\ y.got = s.got /\ y.buf = s.buf
      /\ y.isr = s.isr /\ y.reset = s.reset /\ y.newPower = s.newPower
      /\ y.csp = s.csp /\ y.mask = mask
  BY <1>1 DEF Shape, Fields, SameTx, SameRest, SameRadio
<1> HIDE DEF y
<1>6. Still(y, b)
  BY <1>1, <1>3, <1>4, <1>5, StillSame
<1> QED
  BY <1>2, <1>5, <1>6

LEMMA ToldSame ==
  ASSUME NEW s, NEW y, Told(s), y.call = s.call, y.ackReq = s.ackReq,
         y.tx = "no" <=> s.tx = "no"
  PROVE  Told(y)
BY DEF Told

LEMMA AckDoneStep ==
  ASSUME IInv, IsrAckDone
  PROVE  IInv'
<1> DEFINE t == NoAck(m)
<1>0. IsMac(m) /\ Shape(m) /\ Still(m, bg) /\ Told(m) /\ Receiving(m, bg) /\ ~ m.isr /\ ~ m.reset
      /\ bg \in Places
  BY DEF IInv, Good, Sane, IsMac, Still
<1>1. bg' = bg /\ m' = IF t.rx = "no" THEN rxPostRxUpdates(t) ELSE t
  BY <1>0 DEF IsrAckDone, macRxAckTxDoneCallback, Shape, Fields, NoAck
<1>2. /\ Still(t, bg) /\ SameTx(m, t) /\ SameRest(m, t) /\ SameRadio(m, t) /\ ~ t.ackFlag
      /\ t.rx = m.rx /\ t.state = m.state /\ t.got = m.got /\ t.buf = m.buf
      /\ t.isr = m.isr /\ t.reset = m.reset
  BY <1>0, NoAckStill
<1> HIDE DEF t
<1>3. t.call = m.call /\ t.ackReq = m.ackReq /\ t.tx = m.tx /\ t.fifo = m.fifo
  BY <1>2 DEF SameTx, SameRadio
<1>4. CASE t.rx = "no"
  <2>1. /\ Sane(m', bg) /\ SameRx(t, m')
        /\ m'.call = t.call /\ m'.ackReq = t.ackReq /\ (m'.tx = "no" <=> t.tx = "no")
    BY <1>1, <1>2, <1>4, PostRxUpdates
  <2>2. Told(m')
    BY <1>0, <1>3, <2>1, ToldSame
  <2>3. Receiving(m', bg) /\ ~ m'.isr /\ ~ m'.reset
    BY <1>0, <1>2, <1>4, <2>1 DEF Receiving, SameRx
  <2> QED
    BY <1>0, <1>1, <2>1, <2>2, <2>3 DEF IInv, Good
<1>5. CASE t.rx # "no"
  <2>1. m' = t
    BY <1>1, <1>5
  <2>2. Kept(t, bg) /\ Receiving(t, bg) /\ ~ t.isr /\ ~ t.reset
    BY <1>0, <1>2, <1>3, <1>5 DEF Kept, Receiving
  <2>3. Told(t)
    BY <1>0, <1>3, ToldSame
  <2> QED
    BY <1>0, <1>1, <1>2, <2>1, <2>2, <2>3 DEF IInv, Good, Sane, Still
<1> QED
  BY <1>4, <1>5

-----------------------------------------------------------------------------
(* The receive interrupt.                                                  *)

(* What a handler of the receive interrupt leaves behind.                  *)
Received(y, b) == Good(y, b) /\ y.isr /\ (y.reset \/ Receiving(y, b))

LEMMA FrameKinds ==
  ASSUME NEW f \in Frame
  PROVE  /\ f.have \in 1 .. 4 /\ f.good \in BOOLEAN /\ f.kind \in {"data", "ack"}
         /\ f.kind = "ack" => f \in AckFrame /\ f.mine \in BOOLEAN
         /\ f.kind = "data" => f \in DataFrame /\ f.req \in BOOLEAN
<1>1. CASE f \in DataFrame
  BY <1>1 DEF DataFrame
<1>2. CASE f \in AckFrame
  BY <1>2 DEF AckFrame
<1> QED
  BY <1>1, <1>2 DEF Frame

LEMMA WholeTail ==
  ASSUME NEW q \in Seq(Frame), Whole(q), q # <<>>
  PROVE  /\ Tail(q) \in Seq(Frame) /\ Len(Tail(q)) <= Len(q) /\ Whole(Tail(q))
         /\ \A a : Heard(q, a) => Heard(Tail(q), a)
<1> DEFINE w == Tail(q)
<1>1. Len(q) \in Nat \ {0}
  BY EmptySeq
<1>2. w \in Seq(Frame) /\ Len(w) = Len(q) - 1 /\ \A i \in 1 .. Len(w) : w[i] = q[i + 1]
  BY HeadTailProperties
<1> HIDE DEF w
<1>3. \A i \in 1 .. Len(w) : w[i] = q[i + 1] /\ i + 1 \in 1 .. Len(q)
  BY <1>1, <1>2
<1>4. Whole(w)
  <2> SUFFICES ASSUME NEW i \in 1 .. Len(w), w[i].have < 4
               PROVE  i = Len(w)
    BY DEF Whole
  <2>1. i + 1 = Len(q)
    BY <1>3 DEF Whole
  <2> QED
    BY <1>1, <1>2, <2>1
<1>5. \A a : Heard(q, a) => Heard(w, a)
  <2> SUFFICES ASSUME NEW a, Heard(q, a), NEW i \in 1 .. Len(w), w[i].kind = "ack",
                      w[i].good, w[i].mine
               PROVE  a
    BY DEF Heard
  <2> QED
    BY <1>3 DEF Heard
<1> QED
  BY <1>1, <1>2, <1>4, <1>5 DEF w

LEMMA FrameReadGood ==
  ASSUME NEW s, NEW b, Good(s, b), s.fifo # <<>>
  PROVE  LET y == FrameRead(s)
         IN /\ Good(y, b) /\ SameTx(s, y) /\ y.csp = s.csp /\ y.mask = s.mask
            /\ y.rx = s.rx /\ y.ackFlag = s.ackFlag /\ y.state = "start" /\ y.got = 0
            /\ y.buf = s.buf /\ y.isr = s.isr /\ y.reset = s.reset
<1> DEFINE fifo == Tail(s.fifo)
           y == [s EXCEPT !.state = "start", !.got = 0, !.fifo = fifo]
<1>a. Shape(s) /\ Ranges(s)
  BY DEF Good, Sane, IsMac
<1>1. s.fifo \in Seq(Frame) /\ Whole(s.fifo) /\ Len(s.fifo) <= FifoFrames /\ s.on
  BY DEF Good, Sane, IsMac, Ranges, Radio
<1>2. FrameRead(s) = y
  BY <1>a, <1>1 DEF FrameRead, Shape, Fields
<1>b. fifo \in Seq(Frame)
  BY <1>1, WholeTail
<1>3. /\ Len(fifo) <= FifoFrames /\ Whole(fifo)
      /\ \A a : Heard(s.fifo, a) => Heard(fifo, a)
  <2>1. fifo \in Seq(Frame) /\ Len(fifo) <= Len(s.fifo) /\ Whole(fifo)
    BY <1>1, WholeTail
  <2>2. \A a : Heard(s.fifo, a) => Heard(fifo, a)
    BY <1>1, WholeTail
  <2>3. Len(fifo) \in Nat /\ Len(s.fifo) \in Nat
    BY <1>1, <2>1, LenProperties
  <2> HIDE DEF fifo
  <2> QED
    BY <1>1, <2>1, <2>2, <2>3, MacAssumption
<1> HIDE DEF fifo
<1>4. Shape(y)
  BY <1>a DEF Shape
<1>5. Ranges(y)
  BY <1>a, <1>b DEF Shape, Ranges, Fields
<1>6. /\ SameTx(s, y) /\ SameRest(s, y) /\ y.csp = s.csp /\ y.mask = s.mask
      /\ y.rx = s.rx /\ y.ackFlag = s.ackFlag /\ y.state = "start" /\ y.got = 0
      /\ y.buf = s.buf /\ y.isr = s.isr /\ y.reset = s.reset
      /\ y.on = s.on /\ y.hwOn = s.hwOn /\ y.fifo = fifo /\ y.newPower = s.newPower
  BY <1>a DEF Shape, Fields, SameTx, SameRest
<1> HIDE DEF y
<1>7. /\ y.sleep = s.sleep /\ y.newChannel = s.newChannel /\ ~ y.failed /\ ~ y.cut
      /\ y.irq = s.irq /\ y.enable = s.enable /\ y.tx = s.tx /\ y.call = s.call
      /\ y.ackReq = s.ackReq
  BY <1>6 DEF SameTx, SameRest, Good, Sane
<1>8. Sending(y, b)
  BY <1>3, <1>6, <1>7, SendingSame DEF Good, Sane
<1>9. Radio(y) /\ Len(y.fifo) <= FifoFrames
  BY <1>1, <1>3, <1>6, <1>7 DEF Good, Sane, Radio
<1>10. Kept(y, b) /\ Drowsy(y, b) /\ Told(y)
  BY <1>6, <1>7 DEF Good, Sane, Kept, Drowsy, SameRest, Told
<1>11. Good(y, b)
  BY <1>4, <1>5, <1>7, <1>8, <1>9, <1>10 DEF Good, Sane, IsMac
<1> QED
  BY <1>2, <1>6, <1>11

(* The end of a receive; what waits for it also waits for an outgoing ACK. *)
LEMMA RxDone ==
  ASSUME NEW s, NEW b, Still(s, b), Told(s)
  PROVE  LET y == rxDone(s)
         IN /\ Good(y, b) /\ y.rx = "no" /\ y.state = s.state /\ y.got = s.got
            /\ y.buf = s.buf /\ y.isr = s.isr /\ y.reset = s.reset
            /\ y.ackFlag /\ "ackdone" \in s.mask => "ackdone" \in y.mask
            /\ y.ackFlag => s.ackFlag
<1> DEFINE f == IF s.overflow THEN FlushRxFifo(s) ELSE s
           t == [f EXCEPT !.rx = "no"]
           y == rxDone(s)
<1>a. rxDone(s) = y
  BY Zenon
<1>1. y = IF t.ackFlag THEN t ELSE rxPostRxUpdates(t)
  BY DEF rxDone
<1>2. Shape(s) /\ Ranges(s) /\ <<>> \in Seq(Frame)
  BY DEF Still, IsMac
<1>3. Shape(f)
  BY <1>2 DEF Shape, FlushRxFifo
<1>4. Ranges(f)
  <2>1. Ranges(FlushRxFifo(s))
    BY <1>2 DEF Shape, Ranges, Fields, FlushRxFifo
  <2> QED
    BY <1>2, <2>1
<1>5. /\ SameTx(s, f) /\ SameRest(s, f) /\ f.csp = s.csp /\ f.mask = s.mask /\ f.on = s.on
      /\ f.hwOn = s.hwOn /\ SameRx(s, f) /\ f.fifo \in {s.fifo, <<>>}
  <2>1. CASE s.overflow
    BY <1>2, <2>1 DEF Shape, Fields, FlushRxFifo, SameTx, SameRest, SameRx
  <2>2. CASE ~ s.overflow
    BY <2>2 DEF SameTx, SameRest, SameRx
  <2> QED
    BY <2>1, <2>2
<1> HIDE DEF f, y
<1>6. Still(f, b)
  <2>1. /\ Drowsy(f, b) /\ f.sleep = s.sleep /\ f.newChannel = s.newChannel /\ ~ f.failed /\ ~ f.cut
        /\ f.irq = s.irq
    BY <1>5 DEF SameRest, Still, Drowsy
  <2>2. Radio(f) /\ Len(f.fifo) <= FifoFrames /\ (\A a : Heard(s.fifo, a) => Heard(f.fifo, a))
    BY <1>5, <2>1, EmptyFifo, MacAssumption DEF Still, Radio
  <2>3. Sending(f, b)
    BY <1>5, <2>1, <2>2, SendingSame DEF Still
  <2> QED
    BY <1>3, <1>4, <2>1, <2>2, <2>3 DEF Still, IsMac
<1>7. Shape(t)
  BY <1>3 DEF Shape
<1>8. Ranges(t)
  BY <1>3, <1>4 DEF Shape, Ranges, Fields
<1>9. /\ SameTx(f, t) /\ SameRest(f, t) /\ SameRadio(f, t) /\ t.csp = f.csp /\ t.mask = f.mask
      /\ t.rx = "no" /\ t.ackFlag = f.ackFlag /\ t.state = f.state /\ t.got = f.got
      /\ t.buf = f.buf /\ t.isr = f.isr /\ t.reset = f.reset
  BY <1>3 DEF Shape, Fields, SameTx, SameRest, SameRadio
<1> HIDE DEF t
<1>10. Still(t, b)
  BY <1>6, <1>7, <1>8, <1>9, StillSame
<1>11. /\ t.call = s.call /\ t.ackReq = s.ackReq /\ t.tx = s.tx /\ t.mask = s.mask
       /\ t.ackFlag = s.ackFlag /\ t.state = s.state /\ t.got = s.got
       /\ t.buf = s.buf /\ t.isr = s.isr /\ t.reset = s.reset
  BY <1>5, <1>9 DEF SameTx, SameRx
<1>12. CASE t.ackFlag
  <2>1. y = t
    BY <1>1, <1>12
  <2>2. Told(t)
    BY <1>11, ToldSame
  <2>3. Kept(t, b)
    BY <1>12 DEF Kept
  <2>4. Good(y, b)
    BY <1>10, <2>1, <2>2, <2>3 DEF Good, Sane, Still
  <2> QED
    BY <1>a, <1>9, <1>11, <2>1, <2>4
<1>13. CASE ~ t.ackFlag
  <2>1. /\ Sane(y, b) /\ SameRx(t, y)
        /\ y.call = t.call /\ y.ackReq = t.ackReq /\ (y.tx = "no" <=> t.tx = "no")
    BY <1>1, <1>9, <1>10, <1>13, PostRxUpdates
  <2>2. Told(y)
    BY <1>11, <2>1, ToldSame
  <2>3. /\ y.rx = "no" /\ y.state = s.state /\ y.got = s.got /\ ~ y.ackFlag
        /\ y.buf = s.buf /\ y.isr = s.isr /\ y.reset = s.reset
    BY <1>9, <1>11, <1>13, <2>1 DEF SameRx
  <2> QED
    BY <1>a, <2>1, <2>2, <2>3 DEF Good
<1> QED
  BY <1>12, <1>13

(* A transmit whose end is pending is ended first.                         *)
LEMMA ForceTxDone ==
  ASSUME NEW s, NEW b, Good(s, b), s.isr => s.rx = "started"
  PROVE  LET y == macCspForceTxDoneIfPending(s)
         IN Good(y, b) /\ After(s, y)
<1>1. CASE s.cspz = "done" /\ "stop" \in s.mask
  <2> DEFINE u == [s EXCEPT !.mask = @ \ {"stop"}]
             v == IF "int" \in u.mask THEN macCspTxIntIsr(u) ELSE u
             mask == IF "int" \in s.mask THEN s.mask \ {"stop", "int"} ELSE s.mask \ {"stop"}
             t == Flag(s, s.irq, mask)
             y == macTxDoneCallback(t)
  <2>0. IsMac(s) /\ Shape(s) /\ Ranges(s) /\ Sending(s, b)
    BY DEF Good, Sane, IsMac
  <2>1. mask \in SUBSET Interrupts /\ s.irq \in SUBSET Interrupts /\ "stop" \notin mask
        /\ ("ackdone" \in mask <=> "ackdone" \in s.mask)
    BY <2>0 DEF Ranges
  <2>2. v = t
    <3>1. Shape(v) /\ Shape(t)
      BY <2>0 DEF Shape, Flag, macCspTxIntIsr
    <3>2. \A f \in Fields : v[f] = t[f]
      BY <2>0 DEF Shape, Fields, Flag, macCspTxIntIsr
    <3> QED
      BY <3>1, <3>2, Equal
  <2>3. macCspForceTxDoneIfPending(s) = y
    BY <1>1, <2>2 DEF macCspForceTxDoneIfPending
  <2> HIDE DEF mask
  <2>4. IsMac(t) /\ Unflagged(s, t) /\ t.mask = mask
    BY <2>0, <2>1, Flagged
  <2> HIDE DEF t
  <2>5. s.tx = "go" /\ b \notin Going /\ s.csp = "idle" /\ s.call.sent = 1
        /\ Heard(s.fifo, s.call.acked)
    BY <1>1, <2>0 DEF Sending
  <2>6. Mid(t, b)
    BY <2>4, <2>5, MidOf, MidUnflagged
  <2>7. t.tx = "go" /\ t.csp = "idle" /\ t.call = s.call /\ t.fifo = s.fifo /\ SameRx(s, t)
    BY <2>4, <2>5 DEF Unflagged, SameTx, SameRadio
  <2>8. Good(y, b) /\ After(t, y)
    BY <2>1, <2>4, <2>5, <2>6, <2>7, TxDone
  <2> HIDE DEF y
  <2>9. After(s, t)
    BY <2>1, <2>4, <2>7 DEF After
  <2> QED
    BY <2>3, <2>8, <2>9, AfterTrans
<1>2. CASE ~ (s.cspz = "done" /\ "stop" \in s.mask)
  BY <1>2, AfterSelf DEF macCspForceTxDoneIfPending
<1> QED
  BY <1>1, <1>2

(* Within a receive, or at its start.                                      *)
LEMMA GoodStarted ==
  ASSUME NEW s, NEW y, NEW b, Good(s, b), Shape(y), Ranges(y), SameTx(s, y), SameRest(s, y),
         SameRadio(s, y), y.csp = s.csp, "stop" \in y.mask <=> "stop" \in s.mask,
         y.rx = "started"
  PROVE  Good(y, b)
<1>1. Still(s, b) /\ Told(s)
  BY DEF Good, Sane, Still
<1>2. Still(y, b)
  BY <1>1, StillSame
<1>3. Told(y)
  BY <1>1, ToldSame DEF SameTx
<1>4. Kept(y, b)
  BY DEF Kept
<1> QED
  BY <1>2, <1>3, <1>4 DEF Good, Sane, Still

LEMMA RxAck ==
  ASSUME NEW s, NEW b, Good(s, b), s.isr, ~ s.reset, s.rx = "started", s.state = "start",
         ~ s.buf, ~ s.ackFlag, s.fifo # <<>>, s.fifo[1].kind = "ack"
  PROVE  Received(rxAck(s), b)
<1> DEFINE f == s.fifo[1]
           t == FrameRead(s)
           u == IF t.tx # "listen" THEN t
                ELSE IF f.good THEN macTxAckReceivedCallback(t, f.mine)
                               ELSE macTxAckNotReceivedCallback(t)
           y == rxDone(u)
<1>1. /\ Good(t, b) /\ SameTx(s, t) /\ t.csp = s.csp /\ t.rx = s.rx /\ ~ t.ackFlag
      /\ t.state = "start" /\ t.got = 0 /\ ~ t.buf /\ t.isr /\ ~ t.reset
  BY FrameReadGood
<1> HIDE DEF t
<1>2. s.fifo \in Seq(Frame) /\ Len(s.fifo) \in Nat /\ 1 \in 1 .. Len(s.fifo) /\ f \in Frame
  <2>1. s.fifo \in Seq(Frame)
    BY DEF Good, Sane, IsMac, Ranges
  <2> QED
    BY <2>1, EmptySeq, LenProperties, ElementOfSeq
<1>3. f.good \in BOOLEAN /\ f.mine \in BOOLEAN
  <2>1. f \in Frame /\ f.kind = "ack"
    BY <1>2
  <2> HIDE DEF f
  <2> QED
    BY <2>1, FrameKinds
<1>4. rxAck(s) = y
  BY DEF rxAck, t
<1>5. Good(u, b) /\ u.isr /\ (u.reset \/ (u.state = "start" /\ u.got = 0 /\ ~ u.buf
                                         /\ ~ u.ackFlag /\ ~ u.reset))
  <2>1. CASE t.tx # "listen"
    BY <1>1, <2>1
  <2>2. CASE t.tx = "listen"
    <3>1. s.tx = "listen" /\ t.call = s.call
      BY <1>1, <2>2 DEF SameTx
    <3>2. /\ s.csp \in {"wait", "idle"} /\ s.call.sent = 1 /\ Heard(s.fifo, s.call.acked)
          /\ b \notin Going
      BY <3>1 DEF Good, Sane, Sending
    <3>3. f.good /\ f.mine => s.call.acked
      BY <1>2, <3>2 DEF Heard
    <3>4. Mid(t, b)
      BY <1>1, <2>2, <3>2, MidOf
    <3>5. Good(u, b) /\ After(t, u)
      <4>1. CASE f.good
        BY <1>1, <1>3, <2>2, <3>1, <3>2, <3>3, <3>4, <4>1, AckReceived
      <4>2. CASE ~ f.good
        BY <1>1, <2>2, <3>1, <3>2, <3>4, <4>2, AckNotReceived
      <4> QED
        BY <4>1, <4>2
    <3> QED
      BY <1>1, <3>5 DEF After, SameRx
  <2> QED
    BY <2>1, <2>2
<1> HIDE DEF u
<1>6. /\ Good(y, b) /\ y.rx = "no" /\ y.state = u.state /\ y.got = u.got
      /\ y.buf = u.buf /\ y.isr = u.isr /\ y.reset = u.reset
      /\ y.ackFlag => u.ackFlag
  BY <1>5, RxDone DEF Good, Sane, Still
<1> HIDE DEF y
<1>7. y.reset \/ Receiving(y, b)
  BY <1>5, <1>6 DEF Receiving
<1> QED
  BY <1>4, <1>5, <1>6, <1>7 DEF Received

(* The next handler of a receive.                                          *)
ToState(s, state, got) == [s EXCEPT !.state = state, !.got = got]

InState(s, y, b, state, got) ==
  /\ Good(y, b) /\ y.rx = "started" /\ y.ackFlag = s.ackFlag /\ y.mask = s.mask
  /\ y.buf = s.buf /\ y.isr = s.isr /\ y.reset = s.reset /\ y.fifo = s.fifo
  /\ y.state = state /\ y.got = got

LEMMA ToStateGood ==
  ASSUME NEW s, NEW b, Good(s, b), s.rx = "started",
         NEW state \in {"addr", "payload", "fcs", "discard"}, NEW got \in 0 .. 3
  PROVE  InState(s, ToState(s, state, got), b, state, got)
<1> DEFINE y == [s EXCEPT !.state = state, !.got = got]
<1>1. Shape(s) /\ Ranges(s)
  BY DEF Good, Sane, IsMac
<1>2. Shape(y)
  BY <1>1 DEF Shape
<1>3. Ranges(y)
  BY <1>1 DEF Shape, Ranges, Fields
<1>4. /\ SameTx(s, y) /\ SameRest(s, y) /\ SameRadio(s, y) /\ y.csp = s.csp /\ y.mask = s.mask
      /\ y.rx = "started" /\ y.ackFlag = s.ackFlag /\ y.state = state /\ y.got = got
      /\ y.buf = s.buf /\ y.isr = s.isr /\ y.reset = s.reset /\ y.fifo = s.fifo
  BY <1>1 DEF Shape, Fields, SameTx, SameRest, SameRadio
<1> HIDE DEF y
<1>5. Good(y, b)
  BY <1>2, <1>3, <1>4, GoodStarted
<1> QED
  BY <1>4, <1>5 DEF y, ToState, InState

(* What is left of a frame that is not taken in is read and thrown away.   *)
LEMMA RxDiscardFrame ==
  ASSUME NEW s, NEW b, Good(s, b), s.isr, s.rx = "started", s.state = "start",
         ~ s.buf, ~ s.ackFlag, s.fifo # <<>>, s.fifo[1].kind = "data"
  PROVE  Received(rxDiscardFrame(s), b)
<1> DEFINE y == ToState(s, "discard", 1)
<1>a. Assert(s, s.state = "start") = s
  BY AssertHolds DEF Good, Sane
<1>1. rxDiscardFrame(s) = y
  BY <1>a DEF rxDiscardFrame, ToState
<1>2. InState(s, y, b, "discard", 1)
  BY ToStateGood
<1> HIDE DEF y
<1>3. Receiving(y, b)
  BY <1>2 DEF Receiving, InState
<1> QED
  BY <1>1, <1>2, <1>3 DEF Received, InState

(* A frame refused for want of a buffer is not acknowledged.               *)
LEMMA NackFrame ==
  ASSUME NEW q \in Seq(Frame), q # <<>>, q[1].kind = "data", Whole(q), NEW x \in BOOLEAN
  PROVE  LET r == [q EXCEPT ![1].nack = x]
         IN /\ r \in Seq(Frame) /\ Len(r) = Len(q) /\ r # <<>> /\ r[1].kind = "data" /\ Whole(r)
            /\ \A a : Heard(q, a) => Heard(r, a)
<1> DEFINE f == [q[1] EXCEPT !.nack = x]
           r == [q EXCEPT ![1] = f]
<1>1. Len(q) \in Nat \ {0} /\ 1 \in 1 .. Len(q)
  BY EmptySeq
<1>2. q[1] \in Frame
  BY <1>1, ElementOfSeq
<1>3. q[1] \in DataFrame
  BY <1>2, FrameKinds
<1>4. f \in DataFrame /\ f.kind = "data" /\ f.have = q[1].have
  BY <1>3 DEF DataFrame
<1>5. f \in Frame
  BY <1>4 DEF Frame
<1> HIDE DEF f
<1>6. /\ r \in Seq(Frame) /\ Len(r) = Len(q)
      /\ \A j \in 1 .. Len(q) : r[j] = IF j = 1 THEN f ELSE q[j]
  BY <1>1, <1>5, ExceptSeq
<1> HIDE DEF r
<1>7. r # <<>>
  BY <1>1, <1>6, EmptySeq
<1>8. r[1].kind = "data"
  BY <1>1, <1>4, <1>6
<1>9. Whole(r)
  <2> SUFFICES ASSUME NEW i \in 1 .. Len(q), r[i].have < 4
               PROVE  i = Len(q)
    BY <1>6 DEF Whole
  <2>1. q[i].have < 4
    BY <1>4, <1>6
  <2> QED
    BY <2>1 DEF Whole
<1>10. \A a : Heard(q, a) => Heard(r, a)
  <2> SUFFICES ASSUME NEW a, Heard(q, a), NEW i \in 1 .. Len(q), r[i].kind = "ack",
                      r[i].good, r[i].mine
               PROVE  a
    BY <1>6 DEF Heard
  <2>1. r[i] = q[i]
    BY <1>4, <1>6
  <2> QED
    BY <2>1 DEF Heard
<1> QED
  BY <1>6, <1>7, <1>8, <1>9, <1>10 DEF r, f

(* The frame goes into a buffer; ack: its ACK will go out.                 *)
TakeIn(s, ack) == [s EXCEPT !.buf = TRUE, !.ackFlag = ack, !.state = "addr", !.got = 1]

LEMMA TakeInFacts ==
  ASSUME NEW s, Shape(s), Ranges(s), NEW ack \in BOOLEAN
  PROVE  LET y == TakeIn(s, ack)
         IN /\ Shape(y) /\ Ranges(y)
            /\ SameTx(s, y) /\ SameRest(s, y) /\ SameRadio(s, y) /\ y.csp = s.csp
            /\ y.mask = s.mask /\ y.rx = s.rx /\ y.ackFlag = ack /\ y.state = "addr"
            /\ y.got = 1 /\ y.buf /\ y.isr = s.isr /\ y.fifo = s.fifo
<1> DEFINE y == [s EXCEPT !.buf = TRUE, !.ackFlag = ack, !.state = "addr", !.got = 1]
<1>1. Shape(y)
  BY DEF Shape
<1>2. Ranges(y)
  BY DEF Shape, Ranges, Fields
<1>3. /\ SameTx(s, y) /\ SameRest(s, y) /\ SameRadio(s, y) /\ y.csp = s.csp /\ y.mask = s.mask
      /\ y.rx = s.rx /\ y.ackFlag = ack /\ y.state = "addr" /\ y.got = 1
      /\ y.buf /\ y.isr = s.isr /\ y.fifo = s.fifo
  BY DEF Shape, Fields, SameTx, SameRest, SameRadio
<1> QED
  BY <1>1, <1>2, <1>3 DEF TakeIn

LEMMA TakeInReceived ==
  ASSUME NEW s, NEW b, Good(s, b), s.isr, s.rx = "started", s.fifo # <<>>,
         s.fifo[1].kind = "data", NEW ack \in BOOLEAN, ack => "ackdone" \in s.mask
  PROVE  Received(TakeIn(s, ack), b)
<1> DEFINE y == TakeIn(s, ack)
<1>1. Shape(s) /\ Ranges(s)
  BY DEF Good, Sane, IsMac
<1>2. /\ Shape(y) /\ Ranges(y)
      /\ SameTx(s, y) /\ SameRest(s, y) /\ SameRadio(s, y) /\ y.csp = s.csp
      /\ y.mask = s.mask /\ y.rx = s.rx /\ y.ackFlag = ack /\ y.state = "addr"
      /\ y.got = 1 /\ y.buf /\ y.isr = s.isr /\ y.fifo = s.fifo
  BY <1>1, TakeInFacts
<1> HIDE DEF y
<1>3. Good(y, b)
  BY <1>2, GoodStarted
<1>4. Receiving(y, b)
  BY <1>2 DEF Receiving
<1> QED
  BY <1>2, <1>3, <1>4 DEF Received, y

(* The frame at the head of the FIFO changes.                              *)
SetFifo(s, q) == [s EXCEPT !.fifo = q]

LEMMA SetFifoGood ==
  ASSUME NEW s, NEW b, Good(s, b), s.on, NEW q \in Seq(Frame), Len(q) <= FifoFrames, Whole(q),
         \A a : Heard(s.fifo, a) => Heard(q, a)
  PROVE  LET y == SetFifo(s, q)
         IN Good(y, b) /\ SameRx(s, y) /\ y.mask = s.mask /\ y.fifo = q
<1> DEFINE y == [s EXCEPT !.fifo = q]
<1>1. Shape(s) /\ Ranges(s)
  BY DEF Good, Sane, IsMac
<1>2. Shape(y)
  BY <1>1 DEF Shape
<1>3. Ranges(y)
  BY <1>1 DEF Shape, Ranges, Fields
<1>4. /\ SameTx(s, y) /\ SameRx(s, y) /\ SameRest(s, y) /\ y.csp = s.csp /\ y.mask = s.mask
      /\ y.on = s.on /\ y.hwOn = s.hwOn /\ y.newPower = s.newPower /\ y.fifo = q
  BY <1>1 DEF Shape, Fields, SameTx, SameRx, SameRest
<1> HIDE DEF y
<1>5. /\ y.sleep = s.sleep /\ y.newChannel = s.newChannel /\ ~ y.failed /\ ~ y.cut
      /\ y.irq = s.irq /\ y.enable = s.enable /\ y.tx = s.tx /\ y.call = s.call
      /\ y.ackReq = s.ackReq /\ y.rx = s.rx /\ y.ackFlag = s.ackFlag
  BY <1>4 DEF SameTx, SameRx, SameRest, Good, Sane
<1>6. Sending(y, b)
  BY <1>4, <1>5, SendingSame DEF Good, Sane
<1>7. Radio(y) /\ Len(y.fifo) <= FifoFrames
  BY <1>4, <1>5 DEF Good, Sane, Radio
<1>8. Kept(y, b) /\ Drowsy(y, b) /\ Told(y)
  BY <1>4, <1>5 DEF Good, Sane, Kept, Drowsy, Told
<1>9. Good(y, b)
  BY <1>2, <1>3, <1>5, <1>6, <1>7, <1>8 DEF Good, Sane, IsMac
<1> QED
  BY <1>4, <1>9 DEF y, SetFifo

LEMMA RxHeader ==
  ASSUME NEW s, NEW b, Good(s, b), s.isr, ~ s.reset, s.rx = "started", s.state = "start",
         ~ s.buf, ~ s.ackFlag, s.fifo # <<>>, s.fifo[1].kind = "data", NEW alloc \in BOOLEAN
  PROVE  Received(rxHeader(s, alloc), b)
<1> DEFINE t == macTxAckNotReceivedCallback(s)
           nack == t.fifo[1].nack \/ Head(t.fifo).have < 4
           q == [t.fifo EXCEPT ![1].nack = nack]
           y == rxHeader(s, alloc)
<1>a. rxHeader(s, alloc) = y
  BY Zenon
<1>1. Good(t, b) /\ t.isr /\ (t.reset \/ (SameRx(s, t) /\ t.fifo = s.fifo))
  <2>1. CASE s.tx # "listen"
    BY <2>1 DEF macTxAckNotReceivedCallback, SameRx
  <2>2. CASE s.tx = "listen"
    <3>1. s.csp \in {"wait", "idle"} /\ s.call.sent = 1 /\ b \notin Going
      BY <2>2 DEF Good, Sane, Sending
    <3>2. Mid(s, b)
      BY <2>2, <3>1, MidOf
    <3>3. Good(t, b) /\ After(s, t)
      BY <2>2, <3>1, <3>2, AckNotReceived
    <3> HIDE DEF t
    <3> QED
      BY <3>3 DEF After, SameRx, RxPhysicallyActive
  <2> QED
    BY <2>1, <2>2
<1>2. y = IF t.reset THEN t
          ELSE IF t.filter THEN rxDiscardFrame(t)
          ELSE IF ~ alloc THEN rxDiscardFrame(SetFifo(t, q))
          ELSE IF Head(t.fifo).req
          THEN [t EXCEPT !.buf = TRUE, !.ackFlag = TRUE, !.state = "addr", !.got = 1,
                         !.irq = @ \ {"ackdone"}, !.mask = @ \cup {"ackdone"}]
          ELSE TakeIn(t, FALSE)
  BY DEF rxHeader, SetFifo, TakeIn
<1> HIDE DEF t, y
<1>3. CASE t.reset
  BY <1>a, <1>1, <1>2, <1>3 DEF Received
<1>4. CASE ~ t.reset
  <2>1. /\ t.rx = "started" /\ t.state = "start" /\ ~ t.buf /\ ~ t.ackFlag
        /\ t.fifo # <<>> /\ t.fifo[1].kind = "data"
    BY <1>1, <1>4 DEF SameRx
  <2>2. CASE t.filter
    <3>1. y = rxDiscardFrame(t)
      BY <1>2, <1>4, <2>2
    <3> QED
      BY <1>a, <1>1, <2>1, <3>1, RxDiscardFrame
  <2>3. CASE ~ t.filter /\ ~ alloc
    <3> DEFINE u == SetFifo(t, q)
    <3>1. y = rxDiscardFrame(u)
      BY <1>2, <1>4, <2>3
    <3>2. t.fifo \in Seq(Frame) /\ Whole(t.fifo) /\ Len(t.fifo) <= FifoFrames /\ t.on
      BY <1>1, <2>1 DEF Good, Sane, IsMac, Ranges, Radio
    <3>3. nack \in BOOLEAN
      <4>1. Len(t.fifo) \in Nat \ {0}
        BY <2>1, <3>2, EmptySeq
      <4>2. 1 \in 1 .. Len(t.fifo)
        BY <4>1
      <4>3. t.fifo[1] \in Frame
        BY <3>2, <4>2, ElementOfSeq
      <4>4. t.fifo[1] \in DataFrame
        BY <2>1, <4>3, FrameKinds
      <4> QED
        BY <4>4 DEF DataFrame
    <3> HIDE DEF nack
    <3>4. /\ q \in Seq(Frame) /\ Len(q) = Len(t.fifo) /\ q # <<>> /\ q[1].kind = "data"
          /\ Whole(q) /\ \A a : Heard(t.fifo, a) => Heard(q, a)
      BY <2>1, <3>2, <3>3, NackFrame
    <3> HIDE DEF q
    <3>5. Good(u, b) /\ SameRx(t, u) /\ u.fifo = q
      BY <1>1, <3>2, <3>4, SetFifoGood
    <3> HIDE DEF u
    <3>6. u.isr /\ u.rx = "started" /\ u.state = "start" /\ ~ u.buf /\ ~ u.ackFlag
      BY <1>1, <2>1, <3>5 DEF SameRx
    <3> QED
      BY <1>a, <3>1, <3>4, <3>5, <3>6, RxDiscardFrame
  <2>4. CASE ~ t.filter /\ alloc /\ Head(t.fifo).req
    <3> DEFINE irq == t.irq \ {"ackdone"}
               mask == t.mask \cup {"ackdone"}
               u == Flag(t, irq, mask)
               v == [t EXCEPT !.buf = TRUE, !.ackFlag = TRUE, !.state = "addr", !.got = 1,
                              !.irq = irq, !.mask = mask]
    <3>1. IsMac(t) /\ Shape(t) /\ irq \in SUBSET Interrupts /\ mask \in SUBSET Interrupts
          /\ ("stop" \in mask <=> "stop" \in t.mask) /\ ("stop" \in irq => "stop" \in t.irq)
          /\ "ackdone" \in mask
      BY <1>1 DEF Good, Sane, IsMac, Ranges, Interrupts
    <3>2. y = v
      BY <1>2, <1>4, <2>4
    <3> HIDE DEF irq, mask
    <3>3. v = TakeIn(u, TRUE)
      <4>1. Shape(v) /\ Shape(TakeIn(u, TRUE))
        BY <3>1 DEF Shape, TakeIn, Flag
      <4>2. \A f \in Fields : v[f] = TakeIn(u, TRUE)[f]
        BY <3>1 DEF Shape, Fields, TakeIn, Flag
      <4> QED
        BY <4>1, <4>2, Equal
    <3> HIDE DEF v
    <3>4. IsMac(u) /\ Unflagged(t, u) /\ u.irq = irq /\ u.mask = mask
      BY <3>1, Flagged
    <3> HIDE DEF u
    <3>5. Good(u, b)
      BY <1>1, <3>1, <3>4, GoodUnflagged
    <3>6. u.isr /\ u.rx = "started" /\ u.fifo = t.fifo
      BY <1>1, <2>1, <3>4 DEF Unflagged, SameRx, SameRadio
    <3> QED
      BY <1>a, <2>1, <3>1, <3>2, <3>3, <3>4, <3>5, <3>6, TakeInReceived
  <2>5. CASE ~ t.filter /\ alloc /\ ~ Head(t.fifo).req
    <3>1. y = TakeIn(t, FALSE)
      BY <1>2, <1>4, <2>5
    <3> QED
      BY <1>a, <1>1, <2>1, <3>1, TakeInReceived
  <2> QED
    BY <2>2, <2>3, <2>4, <2>5
<1> QED
  BY <1>3, <1>4

(* The handler of the first piece of a frame.                              *)
LEMMA RxStart ==
  ASSUME NEW s, NEW b, Good(s, b), s.isr, ~ s.reset, Receiving(s, b), s.state = "start",
         s.fifo # <<>>, NEW alloc \in BOOLEAN
  PROVE  Received(rxStartIsr(s, alloc), b)
<1> DEFINE a == [s EXCEPT !.rx = "started"]
           f == macCspForceTxDoneIfPending(a)
           t == NoAck(f)
           y == rxStartIsr(s, alloc)
<1>a. rxStartIsr(s, alloc) = y
  BY Zenon
<1>0. IsMac(s) /\ Shape(s) /\ Ranges(s) /\ s.on /\ s.rx = "no" /\ ~ s.buf /\ s.got = 0
  BY DEF Good, Sane, IsMac, Radio, Receiving
<1>1. Assert(s, s.rx = "no") = s
  BY <1>0, AssertHolds
<1>2. y = IF ~ a.on \/ a.fifo = <<>> THEN rxPostRxUpdates([a EXCEPT !.rx = "no"])
          ELSE IF t.reset THEN t
          ELSE IF Head(t.fifo).kind = "ack" THEN rxAck(t)
          ELSE rxHeader(t, alloc)
  BY <1>1 DEF rxStartIsr, NoAck
<1> HIDE DEF y, t
<1>3. Shape(a)
  BY <1>0 DEF Shape
<1>4. Ranges(a)
  BY <1>0 DEF Shape, Ranges, Fields
<1>5. /\ SameTx(s, a) /\ SameRest(s, a) /\ SameRadio(s, a) /\ a.csp = s.csp /\ a.mask = s.mask
      /\ a.rx = "started" /\ a.ackFlag = s.ackFlag /\ a.state = s.state /\ a.got = s.got
      /\ a.buf = s.buf /\ a.isr = s.isr /\ a.reset = s.reset /\ a.on = s.on /\ a.fifo = s.fifo
  BY <1>0 DEF Shape, Fields, SameTx, SameRest, SameRadio
<1> HIDE DEF a
<1>6. Good(a, b)
  BY <1>3, <1>4, <1>5, GoodStarted
<1>7. Good(f, b) /\ After(a, f)
  BY <1>5, <1>6, ForceTxDone
<1> HIDE DEF f
<1>8. /\ f.isr /\ f.rx = "started"
      /\ f.reset \/ (/\ f.state = "start" /\ f.got = 0 /\ ~ f.buf /\ f.fifo = s.fifo)
  BY <1>0, <1>5, <1>7 DEF After, SameRx, RxPhysicallyActive
<1>9. /\ Still(t, b) /\ SameTx(f, t) /\ SameRadio(f, t) /\ ~ t.ackFlag
      /\ t.rx = f.rx /\ t.state = f.state /\ t.got = f.got /\ t.buf = f.buf
      /\ t.isr = f.isr /\ t.reset = f.reset
  BY <1>7, NoAckStill DEF Good, Sane, Still, t
<1>10. Good(t, b)
  <2>1. Told(t)
    BY <1>7, <1>9, ToldSame DEF SameTx, Good
  <2>2. Kept(t, b)
    BY <1>8, <1>9 DEF Kept
  <2> QED
    BY <1>9, <2>1, <2>2 DEF Good, Sane, Still
<1>11. y = IF t.reset THEN t
           ELSE IF Head(t.fifo).kind = "ack" THEN rxAck(t)
           ELSE rxHeader(t, alloc)
  BY <1>0, <1>2, <1>5
<1>12. CASE t.reset
  BY <1>a, <1>8, <1>9, <1>10, <1>11, <1>12 DEF Received
<1>13. CASE ~ t.reset
  <2>1. /\ t.isr /\ t.rx = "started" /\ t.state = "start" /\ t.got = 0 /\ ~ t.buf
        /\ t.fifo # <<>>
    BY <1>8, <1>9, <1>13 DEF SameRadio
  <2>2. t.fifo[1].kind \in {"data", "ack"} /\ Head(t.fifo) = t.fifo[1]
    <3>1. t.fifo \in Seq(Frame)
      BY <1>10 DEF Good, Sane, IsMac, Ranges
    <3>2. Len(t.fifo) \in Nat \ {0}
      BY <2>1, <3>1, EmptySeq
    <3>3. t.fifo[1] \in Frame
      BY <3>1, <3>2, ElementOfSeq
    <3> QED
      BY <3>1, <3>3, FrameKinds
  <2>3. CASE t.fifo[1].kind = "ack"
    <3>1. y = rxAck(t)
      BY <1>11, <1>13, <2>2, <2>3
    <3> QED
      BY <1>a, <1>9, <1>10, <1>13, <2>1, <2>3, <3>1, RxAck
  <2>4. CASE t.fifo[1].kind = "data"
    <3>1. y = rxHeader(t, alloc)
      BY <1>11, <1>13, <2>2, <2>4
    <3> QED
      BY <1>a, <1>9, <1>10, <1>13, <2>1, <2>4, <3>1, RxHeader
  <2> QED
    BY <2>2, <2>3, <2>4
<1> QED
  BY <1>12, <1>13

(* The frame is read out; what waited for the end of the receive is done.  *)
ClearBuf(s) == [s EXCEPT !.buf = FALSE]

LEMMA ClearBufStill ==
  ASSUME NEW s, NEW b, Still(s, b)
  PROVE  LET y == ClearBuf(s)
         IN /\ Still(y, b) /\ SameTx(s, y) /\ ~ y.buf /\ y.mask = s.mask
            /\ y.rx = s.rx /\ y.ackFlag = s.ackFlag /\ y.state = s.state /\ y.got = s.got
            /\ y.isr = s.isr /\ y.reset = s.reset
<1> DEFINE y == [s EXCEPT !.buf = FALSE]
<1>1. Shape(s) /\ Ranges(s)
  BY DEF Still, IsMac
<1>2. Shape(y)
  BY <1>1 DEF Shape
<1>3. Ranges(y)
  BY <1>1 DEF Shape, Ranges, Fields
<1>4. /\ SameTx(s, y) /\ SameRest(s, y) /\ SameRadio(s, y) /\ y.csp = s.csp /\ y.mask = s.mask
      /\ y.rx = s.rx /\ y.ackFlag = s.ackFlag /\ y.state = s.state /\ y.got = s.got
      /\ ~ y.buf /\ y.isr = s.isr /\ y.reset = s.reset
  BY <1>1 DEF Shape, Fields, SameTx, SameRest, SameRadio
<1> HIDE DEF y
<1>5. Still(y, b)
  BY <1>2, <1>3, <1>4, StillSame
<1> QED
  BY <1>4, <1>5 DEF y, ClearBuf

LEMMA RxEnds ==
  ASSUME NEW s, NEW b, Still(s, b), Told(s), s.isr, ~ s.reset, s.state = "start", s.got = 0,
         ~ s.buf, s.ackFlag => "ackdone" \in s.mask \/ b = "clear"
  PROVE  Received(rxDone(s), b)
<1> DEFINE y == rxDone(s)
<1>1. /\ Good(y, b) /\ y.rx = "no" /\ y.state = s.state /\ y.got = s.got
      /\ y.buf = s.buf /\ y.isr = s.isr /\ y.reset = s.reset
      /\ y.ackFlag /\ "ackdone" \in s.mask => "ackdone" \in y.mask
      /\ y.ackFlag => s.ackFlag
  BY RxDone
<1> HIDE DEF y
<1>2. Receiving(y, b)
  BY <1>1 DEF Receiving
<1> QED
  BY <1>1, <1>2 DEF Received, y

LEMMA RxFcs ==
  ASSUME NEW s, NEW b, Good(s, b), s.isr, ~ s.reset, Receiving(s, b), s.state = "fcs"
  PROVE  Received(rxFcsIsr(s), b)
<1> DEFINE t == FrameRead(s)
           u == [t EXCEPT !.rx = "done"]
           v == macRxOffRequest(u)
           w == IF Head(s.fifo).good THEN ClearBuf(v) ELSE ClearBuf(NoAck(t))
<1>0. s.fifo # <<>> /\ (s.ackFlag => "ackdone" \in s.mask \/ b = "clear")
  BY DEF Receiving
<1>1. /\ Good(t, b) /\ SameTx(s, t) /\ t.mask = s.mask /\ t.rx = s.rx /\ t.ackFlag = s.ackFlag
      /\ t.state = "start" /\ t.got = 0 /\ t.buf = s.buf /\ t.isr = s.isr /\ t.reset = s.reset
  BY <1>0, FrameReadGood
<1>2. rxFcsIsr(s) = rxDone(w)
  <2>1. Shape(t)
    BY <1>1 DEF Good, Sane, IsMac
  <2> HIDE DEF t
  <2>2. [t EXCEPT !.mask = @ \ {"ackdone"}, !.ackFlag = FALSE, !.buf = FALSE] = ClearBuf(NoAck(t))
    BY DEF ClearBuf, NoAck
  <2>3. rxFcsIsr(s) = rxDone(IF Head(s.fifo).good THEN ClearBuf(v)
              ELSE [t EXCEPT !.mask = @ \ {"ackdone"}, !.ackFlag = FALSE, !.buf = FALSE])
    BY DEF rxFcsIsr, ClearBuf, t
  <2> QED
    BY <2>2, <2>3
<1> HIDE DEF t
<1>3. Still(t, b) /\ Told(t) /\ Shape(t) /\ Ranges(t)
  BY <1>1 DEF Good, Sane, Still, IsMac
<1>4. CASE Head(s.fifo).good
  <2>1. Shape(u)
    BY <1>3 DEF Shape
  <2>2. Ranges(u)
    BY <1>3 DEF Shape, Ranges, Fields
  <2>3. /\ SameTx(t, u) /\ SameRest(t, u) /\ SameRadio(t, u) /\ u.csp = t.csp /\ u.mask = t.mask
        /\ u.ackFlag = t.ackFlag /\ u.state = t.state /\ u.got = t.got
        /\ u.buf = t.buf /\ u.isr = t.isr /\ u.reset = t.reset
    BY <1>3 DEF Shape, Fields, SameTx, SameRest, SameRadio
  <2> HIDE DEF u
  <2>4. Still(u, b)
    BY <1>3, <2>1, <2>2, <2>3, StillSame
  <2>5. u.csp \in {"strobe", "air"} => TxPhysicallyActive(u)
    BY <2>4, OnTheAir DEF Still, TxPhysicallyActive
  <2>6. /\ IsMac(v) /\ Same(u, v)
        /\ SameRadio(u, v) \/ (IsDark(v) /\ ~ TxPhysicallyActive(u))
    BY <2>4, <2>5, OffRequest DEF Still
  <2> HIDE DEF v
  <2>7. Still(v, b)
    BY <2>4, <2>6, DimStill
  <2>8. /\ v.call = t.call /\ v.ackReq = t.ackReq /\ v.tx = t.tx /\ v.mask = t.mask
        /\ v.ackFlag = t.ackFlag /\ v.state = t.state /\ v.got = t.got
        /\ v.isr = t.isr /\ v.reset = t.reset
    BY <2>3, <2>6 DEF Same, SameTx, SameRx
  <2>9. w = ClearBuf(v)
    BY <1>4
  <2> HIDE DEF w
  <2>10. /\ Still(w, b) /\ SameTx(v, w) /\ ~ w.buf /\ w.mask = v.mask
         /\ w.ackFlag = v.ackFlag /\ w.state = v.state /\ w.got = v.got
         /\ w.isr = v.isr /\ w.reset = v.reset
    BY <2>7, <2>9, ClearBufStill
  <2>11. Told(w)
    BY <1>3, <2>8, <2>10, ToldSame DEF SameTx
  <2> QED
    BY <1>0, <1>1, <1>2, <2>8, <2>10, <2>11, RxEnds
<1>5. CASE ~ Head(s.fifo).good
  <2> DEFINE n == NoAck(t)
  <2>1. /\ Still(n, b) /\ SameTx(t, n) /\ ~ n.ackFlag
        /\ n.state = t.state /\ n.got = t.got /\ n.isr = t.isr /\ n.reset = t.reset
    BY <1>3, NoAckStill
  <2>2. w = ClearBuf(n)
    BY <1>5
  <2> HIDE DEF n, w
  <2>3. /\ Still(w, b) /\ SameTx(n, w) /\ ~ w.buf
        /\ w.ackFlag = n.ackFlag /\ w.state = n.state /\ w.got = n.got
        /\ w.isr = n.isr /\ w.reset = n.reset
    BY <2>1, <2>2, ClearBufStill
  <2>4. Told(w)
    BY <1>3, <2>1, <2>3, ToldSame DEF SameTx
  <2> QED
    BY <1>1, <1>2, <2>1, <2>3, <2>4, RxEnds
<1> QED
  BY <1>4, <1>5

LEMMA RxDiscard ==
  ASSUME NEW s, NEW b, Good(s, b), s.isr, ~ s.reset, Receiving(s, b), s.state = "discard"
  PROVE  Received(rxDiscardIsr(s), b)
<1>0. /\ s.fifo # <<>> /\ (s.ackFlag => "ackdone" \in s.mask \/ b = "clear") /\ ~ s.buf
      /\ s.rx = "started" /\ s.got > 0 /\ s.got \in 0 .. 3 /\ Shape(s) /\ s.fifo[1].kind = "data"
  BY DEF Receiving, Good, Sane, IsMac, Ranges
<1>1. CASE s.got < 3
  <2> DEFINE got == s.got + 1
             y == ToState(s, "discard", got)
             z == [s EXCEPT !.got = got]
  <2>1. got \in 0 .. 3 /\ got > 0
    BY <1>0, <1>1
  <2>2. rxDiscardIsr(s) = z
    BY <1>1 DEF rxDiscardIsr
  <2> HIDE DEF got
  <2>3. z = y
    <3>1. Shape(z) /\ Shape(y)
      BY <1>0 DEF Shape, ToState
    <3>2. \A f \in Fields : z[f] = y[f]
      BY <1>0 DEF Shape, Fields, ToState
    <3> QED
      BY <3>1, <3>2, Equal
  <2>4. InState(s, y, b, "discard", got)
    BY <1>0, <2>1, ToStateGood
  <2> HIDE DEF y, z
  <2>5. Receiving(y, b)
    BY <1>0, <2>1, <2>4 DEF Receiving, InState
  <2> QED
    BY <2>2, <2>3, <2>4, <2>5 DEF Received, InState
<1>2. CASE ~ (s.got < 3)
  <2> DEFINE t == FrameRead(s)
  <2>1. /\ Good(t, b) /\ t.mask = s.mask /\ t.ackFlag = s.ackFlag
        /\ t.state = "start" /\ t.got = 0 /\ t.buf = s.buf /\ t.isr = s.isr /\ t.reset = s.reset
    BY <1>0, FrameReadGood
  <2>2. rxDiscardIsr(s) = rxDone(t)
    BY <1>2 DEF rxDiscardIsr
  <2> HIDE DEF t
  <2> QED
    BY <1>0, <2>1, <2>2, RxEnds DEF Good, Sane, Still
<1> QED
  BY <1>1, <1>2

(* Every handler of the receive interrupt.                                 *)
LEMMA RxHandler ==
  ASSUME NEW s, NEW b, Good(s, b), s.isr, ~ s.reset, Receiving(s, b), s.fifo # <<>>,
         NEW alloc \in BOOLEAN
  PROVE  Received(pFuncRxState(s, alloc), b)
<1> DEFINE y == pFuncRxState(s, alloc)
<1>1. s.state \in {"start", "addr", "payload", "fcs", "discard"}
  BY DEF Good, Sane, IsMac, Ranges
<1>2. CASE s.state = "start"
  <2>1. y = rxStartIsr(s, alloc)
    BY <1>2 DEF pFuncRxState
  <2> QED
    BY <1>2, <2>1, RxStart
<1>3. CASE s.state = "addr"
  <2> DEFINE z == ToState(s, "payload", 2)
  <2>1. y = z
    BY <1>3 DEF pFuncRxState, rxAddrIsr, ToState
  <2>2. InState(s, z, b, "payload", 2)
    <3>1. s.rx = "started"
      BY <1>3 DEF Receiving
    <3> QED
      BY <3>1, ToStateGood
  <2> HIDE DEF z
  <2>3. Receiving(z, b)
    BY <1>3, <2>2 DEF Receiving, InState
  <2> QED
    BY <2>1, <2>2, <2>3 DEF Received, InState
<1>4. CASE s.state = "payload"
  <2> DEFINE z == ToState(s, "fcs", 3)
  <2>1. y = z
    BY <1>4 DEF pFuncRxState, rxPayloadIsr, ToState
  <2>2. InState(s, z, b, "fcs", 3)
    <3>1. s.rx = "started"
      BY <1>4 DEF Receiving
    <3> QED
      BY <3>1, ToStateGood
  <2> HIDE DEF z
  <2>3. Receiving(z, b)
    BY <1>4, <2>2 DEF Receiving, InState
  <2> QED
    BY <2>1, <2>2, <2>3 DEF Received, InState
<1>5. CASE s.state = "fcs"
  <2>1. y = rxFcsIsr(s)
    BY <1>5 DEF pFuncRxState
  <2> QED
    BY <1>5, <2>1, RxFcs
<1>6. CASE s.state = "discard"
  <2>1. y = rxDiscardIsr(s)
    BY <1>6 DEF pFuncRxState
  <2> QED
    BY <1>6, <2>1, RxDiscard
<1> QED
  BY <1>1, <1>2, <1>3, <1>4, <1>5, <1>6

(* A step that touches nothing the invariant depends on.                   *)
LEMMA GoodAlike ==
  ASSUME NEW s, NEW y, NEW b, Good(s, b), Shape(y), Ranges(y), SameTx(s, y), SameRest(s, y),
         SameRadio(s, y), y.csp = s.csp, "stop" \in y.mask <=> "stop" \in s.mask,
         y.rx = s.rx, y.ackFlag = s.ackFlag, y.newPower = s.newPower
  PROVE  Good(y, b)
<1>1. Still(s, b) /\ Told(s) /\ Kept(s, b)
  BY DEF Good, Sane, Still
<1>2. Still(y, b)
  BY <1>1, StillSame
<1>3. Told(y)
  BY <1>1, ToldSame DEF SameTx
<1>4. Kept(y, b)
  BY <1>1 DEF Kept, SameTx, SameRest, SameRadio
<1> QED
  BY <1>2, <1>3, <1>4 DEF Good, Sane, Still

LEMMA IsrGood ==
  ASSUME NEW s, NEW b, Good(s, b), NEW isr \in BOOLEAN
  PROVE  LET y == [s EXCEPT !.isr = isr]
         IN /\ Good(y, b) /\ y.isr = isr /\ y.reset = s.reset /\ y.fifo = s.fifo
            /\ (Receiving(s, b) => Receiving(y, b))
<1> DEFINE y == [s EXCEPT !.isr = isr]
<1>1. Shape(s) /\ Ranges(s)
  BY DEF Good, Sane, IsMac
<1>2. Shape(y)
  BY <1>1 DEF Shape
<1>3. Ranges(y)
  BY <1>1 DEF Shape, Ranges, Fields
<1>4. /\ SameTx(s, y) /\ SameRest(s, y) /\ SameRadio(s, y) /\ y.csp = s.csp /\ y.mask = s.mask
      /\ y.rx = s.rx /\ y.ackFlag = s.ackFlag /\ y.state = s.state /\ y.got = s.got
      /\ y.buf = s.buf /\ y.isr = isr /\ y.reset = s.reset /\ y.newPower = s.newPower
      /\ y.fifo = s.fifo
  BY <1>1 DEF Shape, Fields, SameTx, SameRest, SameRadio
<1> HIDE DEF y
<1>5. Good(y, b)
  BY <1>2, <1>3, <1>4, GoodAlike
<1>6. Receiving(s, b) => Receiving(y, b)
  BY <1>4 DEF Receiving
<1> QED
  BY <1>4, <1>5, <1>6 DEF y

LEMMA ResetCleared ==
  ASSUME NEW s, NEW b, Good(s, b)
  PROVE  LET y == [s EXCEPT !.reset = FALSE]
         IN Good(y, b) /\ y.isr = s.isr /\ ~ y.reset /\ (Rested(s) => Rested(y))
<1> DEFINE y == [s EXCEPT !.reset = FALSE]
<1>1. Shape(s) /\ Ranges(s)
  BY DEF Good, Sane, IsMac
<1>2. Shape(y)
  BY <1>1 DEF Shape
<1>3. Ranges(y)
  BY <1>1 DEF Shape, Ranges, Fields
<1>4. /\ SameTx(s, y) /\ SameRest(s, y) /\ SameRadio(s, y) /\ y.csp = s.csp /\ y.mask = s.mask
      /\ y.rx = s.rx /\ y.ackFlag = s.ackFlag /\ y.state = s.state /\ y.got = s.got
      /\ y.buf = s.buf /\ y.isr = s.isr /\ ~ y.reset /\ y.newPower = s.newPower
  BY <1>1 DEF Shape, Fields, SameTx, SameRest, SameRadio
<1> HIDE DEF y
<1>5. Good(y, b)
  BY <1>2, <1>3, <1>4, GoodAlike
<1>6. Rested(s) => Rested(y)
  BY <1>4 DEF Rested
<1> QED
  BY <1>4, <1>5, <1>6 DEF y

LEMMA RestedReceiving ==
  ASSUME NEW s, NEW b, Rested(s)
  PROVE  Receiving(s, b)
BY DEF Rested, Receiving

LEMMA ThresholdStep ==
  ASSUME IInv, IsrThreshold
  PROVE  IInv'
<1>1. m.fifo # <<>> /\ bg' = bg
  BY DEF IsrThreshold, FIFOP
<1>2. PICK alloc \in BOOLEAN : m' = macRxThresholdIsr(m, alloc)
  BY DEF IsrThreshold
<1> DEFINE s == [m EXCEPT !.isr = TRUE]
           r == pFuncRxState(s, alloc)
           t == [r EXCEPT !.isr = FALSE]
           h == rxHaltCleanupFinalStep(t)
<1>3. Good(s, bg) /\ s.isr /\ ~ s.reset /\ s.fifo = m.fifo /\ Receiving(s, bg)
  BY IsrGood DEF IInv
<1>4. m' = IF t.reset THEN [h EXCEPT !.reset = FALSE] ELSE t
  BY <1>2 DEF macRxThresholdIsr
<1> HIDE DEF s
<1>5. Received(r, bg)
  BY <1>1, <1>3, RxHandler
<1> HIDE DEF r
<1>6. Good(t, bg) /\ ~ t.isr /\ t.reset = r.reset /\ (Receiving(r, bg) => Receiving(t, bg))
  BY <1>5, IsrGood DEF Received
<1> HIDE DEF t
<1>7. CASE t.reset
  <2>1. /\ Sane(h, bg) /\ Rested(h) /\ h.isr = t.isr
        /\ h.call = t.call /\ h.ackReq = t.ackReq /\ (h.tx = "no" <=> t.tx = "no")
    BY <1>6, HaltCleanup DEF Good, Sane, Still
  <2> HIDE DEF h
  <2>2. Good(h, bg)
    BY <1>6, <2>1, ToldSame DEF Good
  <2>3. m' = [h EXCEPT !.reset = FALSE]
    BY <1>4, <1>7
  <2>4. Good(m', bg) /\ m'.isr = h.isr /\ ~ m'.reset /\ Rested(m')
    BY <2>1, <2>2, <2>3, ResetCleared
  <2> QED
    BY <1>1, <1>6, <2>1, <2>4, RestedReceiving DEF IInv
<1>8. CASE ~ t.reset
  <2>1. m' = t
    BY <1>4, <1>8
  <2> QED
    BY <1>1, <1>5, <1>6, <1>8, <2>1 DEF IInv, Received
<1> QED
  BY <1>7, <1>8

LEMMA OverflowStep ==
  ASSUME IInv, IsrOverflow
  PROVE  IInv'
<1> DEFINE t == [m EXCEPT !.rferr = FALSE]
<1>1. Shape(m) /\ Ranges(m) /\ bg' = bg
  BY DEF IInv, Good, Sane, IsMac, IsrOverflow
<1>2. Shape(t)
  BY <1>1 DEF Shape
<1>3. Ranges(t)
  BY <1>1 DEF Shape, Ranges, Fields
<1>4. /\ SameTx(m, t) /\ SameRest(m, t) /\ SameRadio(m, t) /\ t.csp = m.csp /\ t.mask = m.mask
      /\ t.rx = m.rx /\ t.ackFlag = m.ackFlag /\ t.newPower = m.newPower
      /\ t.isr = m.isr /\ t.reset = m.reset
  BY <1>1 DEF Shape, Fields, SameTx, SameRest, SameRadio
<1>5. m' = macRxHaltCleanup(t)
  BY DEF IsrOverflow
<1> HIDE DEF t
<1>6. Good(t, bg) /\ ~ t.isr /\ ~ t.reset
  BY <1>2, <1>3, <1>4, GoodAlike DEF IInv
<1>7. m' = rxHaltCleanupFinalStep(t)
  BY <1>5, <1>6 DEF macRxHaltCleanup
<1>8. /\ Sane(m', bg) /\ Rested(m') /\ m'.isr = t.isr /\ m'.reset = t.reset
      /\ m'.call = t.call /\ m'.ackReq = t.ackReq /\ (m'.tx = "no" <=> t.tx = "no")
  BY <1>6, <1>7, HaltCleanup DEF Good, Sane, Still
<1>9. Told(m')
  BY <1>6, <1>8, ToldSame DEF Good
<1> QED
  BY <1>1, <1>6, <1>8, <1>9, RestedReceiving DEF IInv, Good

-----------------------------------------------------------------------------
(* The background code: macTxFrame.                                        *)

Machine(s) == Shape(s) /\ Ranges(s)

Unpacked(s, b) ==
  /\ Machine(s) /\ Len(s.fifo) <= FifoFrames /\ ~ s.failed /\ ~ s.cut
  /\ Radio(s) /\ Sending(s, b) /\ Kept(s, b) /\ Drowsy(s, b) /\ Told(s)

LEMMA Unpack ==
  ASSUME IInv
  PROVE  /\ Unpacked(m, bg) /\ Machine(m) /\ Receiving(m, bg) /\ ~ m.isr /\ ~ m.reset
         /\ bg \in Places /\ IsMac(m) /\ Good(m, bg)
BY DEF IInv, Good, Sane, IsMac, Unpacked, Machine

LEMMA Pack ==
  ASSUME Unpacked(m', bg'), Receiving(m', bg'), ~ m'.isr, ~ m'.reset, bg' \in Places
  PROVE  IInv'
BY DEF IInv, Good, Sane, IsMac, Unpacked, Machine

NewCall == [open |-> TRUE, sent |-> 0, acked |-> FALSE, twice |-> FALSE, status |-> "none"]

LEMMA NewCallFacts ==
  /\ NewCall \in Call /\ NewCall.open /\ NewCall.sent = 0 /\ ~ NewCall.twice
  /\ NewCall.status = "none"
BY DEF NewCall, Call

Begin(s, retransmit) ==
  [s EXCEPT !.retransmit = retransmit, !.tx = "init", !.call = NewCall]

LEMMA BeginFacts ==
  ASSUME NEW s, Machine(s), NEW retransmit \in BOOLEAN
  PROVE  LET y == Begin(s, retransmit)
         IN /\ Machine(y) /\ SameRx(s, y) /\ SameRest(s, y) /\ SameRadio(s, y)
            /\ y.csp = s.csp /\ y.mask = s.mask /\ y.newPower = s.newPower
            /\ y.tx = "init" /\ y.call = NewCall
<1> DEFINE y == [s EXCEPT !.retransmit = retransmit, !.tx = "init", !.call = NewCall]
<1>1. Shape(y)
  BY DEF Machine, Shape
<1>2. Ranges(y)
  BY NewCallFacts DEF Machine, Shape, Ranges, Fields
<1>3. /\ SameRx(s, y) /\ SameRest(s, y) /\ SameRadio(s, y)
      /\ y.csp = s.csp /\ y.mask = s.mask /\ y.newPower = s.newPower
      /\ y.tx = "init" /\ y.call = NewCall
  BY DEF Machine, Shape, Fields, SameRx, SameRest, SameRadio
<1> QED
  BY <1>1, <1>2, <1>3 DEF Machine, Begin

LEMMA BeginStep ==
  ASSUME IInv, bg = "idle", m.tx = "no", NEW retransmit \in BOOLEAN,
         m' = Begin(m, retransmit), bg' = "prepare"
  PROVE  IInv'
<1> DEFINE y == Begin(m, retransmit)
<1>0. Unpacked(m, bg) /\ Machine(m) /\ Receiving(m, bg) /\ ~ m.isr /\ ~ m.reset
  BY Unpack
<1>1. /\ Machine(y) /\ SameRx(m, y) /\ SameRest(m, y) /\ SameRadio(m, y)
      /\ y.csp = m.csp /\ y.mask = m.mask /\ y.newPower = m.newPower
      /\ y.tx = "init" /\ y.call = NewCall
  BY <1>0, BeginFacts
<1>2. m' = y
  OBVIOUS
<1> HIDE DEF y
<1>3. /\ y.sleep = m.sleep /\ y.newChannel = m.newChannel /\ ~ y.failed /\ ~ y.cut
      /\ y.irq = m.irq /\ y.enable = m.enable /\ y.on = m.on /\ y.hwOn = m.hwOn
      /\ y.fifo = m.fifo /\ y.rx = m.rx /\ y.ackFlag = m.ackFlag
  BY <1>0, <1>1 DEF SameRest, SameRadio, SameRx, Unpacked
<1>4. Radio(y) /\ Len(y.fifo) <= FifoFrames
  BY <1>0, <1>1, <1>3 DEF Unpacked, Radio
<1>5. Sending(y, "prepare")
  BY <1>0, <1>1, <1>3, NewCallFacts DEF Unpacked, Sending, Going
<1>6. Kept(y, "prepare") /\ Drowsy(y, "prepare") /\ Told(y)
  BY <1>0, <1>1, <1>3, NewCallFacts DEF Unpacked, Kept, Drowsy, Told, StatusFits
<1>7. Receiving(y, "prepare") /\ ~ y.isr /\ ~ y.reset
  BY <1>0, <1>1, <1>3 DEF Receiving, SameRx
<1> QED
  BY <1>1, <1>2, <1>3, <1>4, <1>5, <1>6, <1>7, Pack DEF Unpacked, Places

LEMMA TxFrameStep ==
  ASSUME IInv, macTxFrame \/ macTxFrameRetransmit
  PROVE  IInv'
<1>1. Unpacked(m, bg) /\ Machine(m) /\ IsMac(m)
  BY Unpack
<1>2. bg = "idle" /\ ~ m.call.open /\ bg' = "prepare"
  BY DEF macTxFrame, macTxFrameRetransmit, At
<1>3. m.tx = "no"
  BY <1>1, <1>2 DEF Unpacked, Told
<1>4. Assert(m, m.tx = "no") = m
  BY <1>1, <1>3, AssertHolds
<1>5. CASE macTxFrame
  <2> DEFINE r == m.retransmit
             z == [m EXCEPT !.tx = "init", !.call = NewCall]
  <2>1. m' = z
    BY <1>4, <1>5 DEF macTxFrame, NewCall
  <2>2. z = Begin(m, r)
    <3>1. Shape(z) /\ Shape(Begin(m, r))
      BY <1>1 DEF Machine, Shape, Begin
    <3>2. \A f \in Fields : z[f] = Begin(m, r)[f]
      BY <1>1 DEF Machine, Shape, Fields, Begin
    <3> QED
      BY <3>1, <3>2, Equal
  <2>3. r \in BOOLEAN
    BY <1>1 DEF Machine, Ranges
  <2> QED
    BY <1>2, <1>3, <2>1, <2>2, <2>3, BeginStep
<1>6. CASE macTxFrameRetransmit
  <2>1. m' = Begin(m, TRUE)
    BY <1>4, <1>6 DEF macTxFrameRetransmit, NewCall, Begin
  <2> QED
    BY <1>2, <1>3, <2>1, BeginStep
<1> QED
  BY <1>5, <1>6

LEMMA ReceivingPlace ==
  ASSUME NEW s, NEW b, NEW c, Receiving(s, b), b # "clear"
  PROVE  Receiving(s, c)
BY DEF Receiving

(* The CSP program is loaded for a transmit of its own.                    *)
Prepared(s, irq, ackReq) ==
  [s EXCEPT !.cspz = "busy", !.csp = "loaded", !.irq = irq, !.nb = 0, !.ackReq = ackReq]

LEMMA PreparedFacts ==
  ASSUME NEW s, Machine(s), NEW irq \in SUBSET Interrupts, NEW ackReq \in BOOLEAN
  PROVE  LET y == Prepared(s, irq, ackReq)
         IN /\ Machine(y) /\ SameRx(s, y) /\ SameRadio(s, y) /\ y.mask = s.mask
            /\ y.enable = s.enable /\ y.sleep = s.sleep /\ y.newChannel = s.newChannel
            /\ y.newPower = s.newPower /\ y.failed = s.failed /\ y.cut = s.cut
            /\ y.tx = s.tx /\ y.call = s.call /\ y.csp = "loaded" /\ y.cspz = "busy"
            /\ y.nb = 0 /\ y.irq = irq
<1> DEFINE y == [s EXCEPT !.cspz = "busy", !.csp = "loaded", !.irq = irq, !.nb = 0,
                          !.ackReq = ackReq]
<1>1. Shape(y)
  BY DEF Machine, Shape
<1>2. Ranges(y)
  BY MacAssumption DEF Machine, Shape, Ranges, Fields
<1>3. /\ SameRx(s, y) /\ SameRadio(s, y) /\ y.mask = s.mask
      /\ y.enable = s.enable /\ y.sleep = s.sleep /\ y.newChannel = s.newChannel
      /\ y.newPower = s.newPower /\ y.failed = s.failed /\ y.cut = s.cut
      /\ y.tx = s.tx /\ y.call = s.call /\ y.csp = "loaded" /\ y.cspz = "busy"
      /\ y.nb = 0 /\ y.irq = irq
  BY DEF Machine, Shape, Fields, SameRx, SameRadio
<1> QED
  BY <1>1, <1>2, <1>3 DEF Machine, Prepared

LEMMA TxPrepareStep ==
  ASSUME IInv, TxPrepare
  PROVE  IInv'
<1>0. /\ Unpacked(m, bg) /\ Machine(m) /\ Receiving(m, bg) /\ ~ m.isr /\ ~ m.reset /\ IsMac(m)
      /\ bg = "prepare"
  BY Unpack DEF TxPrepare, At
<1>1. /\ m.tx = "init" /\ m.csp = "idle" /\ m.call.sent = 0 /\ "stop" \notin m.mask
      /\ ~ m.newChannel /\ m.call.open /\ ~ m.call.twice /\ m.call.status = "none"
  BY <1>0 DEF Unpacked, Sending, Going, Told
<1>2. CASE m.sleep # "awake"
  <2>1. m' = txComplete(m, "aborted") /\ bg' = "idle"
    BY <1>2 DEF TxPrepare
  <2>2. StatusFits(m.call, m.ackReq, "aborted")
    BY <1>1 DEF StatusFits
  <2>3. Good(m', "idle") /\ After(m, m')
    BY <1>0, <1>1, <2>1, <2>2, TxComplete DEF Unpacked, Drowsy, Statuses, Going
  <2>4. Receiving(m', bg) /\ ~ m'.isr /\ ~ m'.reset
    BY <1>0, <2>3, AfterReceiving
  <2> QED
    BY <1>0, <2>1, <2>3, <2>4, ReceivingPlace DEF IInv, Places
<1>3. CASE m.sleep = "awake"
  <2> DEFINE irq == m.irq \ {"stop", "int"}
             p == [m EXCEPT !.cspz = "busy", !.csp = "loaded", !.irq = irq]
  <2>1. irq \in SUBSET Interrupts /\ "stop" \notin irq /\ m.ackReq \in BOOLEAN
        /\ m.retransmit \in BOOLEAN
    BY <1>0 DEF Machine, Ranges
  <2>2. Assert(m, "stop" \notin m.mask) = m
    BY <1>0, <1>1, AssertHolds
  <2>3. txCsmaPrep(m) = p
    BY <2>2 DEF txCsmaPrep
  <2>4. PICK given \in BOOLEAN :
          m' = [txCsmaPrep(m) EXCEPT !.nb = 0, !.ackReq = IF m.retransmit THEN @ ELSE given]
    BY <1>3 DEF TxPrepare
  <2> DEFINE ackReq == IF m.retransmit THEN m.ackReq ELSE given
             y == Prepared(m, irq, ackReq)
  <2> HIDE DEF irq
  <2>5. m' = y
    <3>1. p.ackReq = m.ackReq
      BY <1>0 DEF Machine, Shape, Fields
    <3> QED
      BY <2>3, <2>4, <3>1 DEF Prepared
  <2>6. ackReq \in BOOLEAN
    BY <2>1
  <2> HIDE DEF ackReq
  <2>7. /\ Machine(y) /\ SameRx(m, y) /\ SameRadio(m, y) /\ y.mask = m.mask
        /\ y.enable = m.enable /\ y.sleep = m.sleep /\ y.newChannel = m.newChannel
        /\ y.newPower = m.newPower /\ y.failed = m.failed /\ y.cut = m.cut
        /\ y.tx = m.tx /\ y.call = m.call /\ y.csp = "loaded" /\ y.cspz = "busy"
        /\ y.nb = 0 /\ y.irq = irq
    BY <1>0, <2>1, <2>6, PreparedFacts
  <2> HIDE DEF y
  <2>8. bg' = "decide"
    BY <1>3 DEF TxPrepare
  <2>9. /\ y.on = m.on /\ y.hwOn = m.hwOn /\ y.fifo = m.fifo /\ y.rx = m.rx
        /\ y.ackFlag = m.ackFlag
    BY <2>7 DEF SameRx, SameRadio
  <2>10. Radio(y) /\ Len(y.fifo) <= FifoFrames /\ ~ y.failed /\ ~ y.cut
    BY <1>0, <2>7, <2>9 DEF Unpacked, Radio
  <2>11. Sending(y, "decide")
    BY <1>1, <1>3, <2>1, <2>7, <2>9, MacAssumption DEF Sending, Going
  <2>12. Kept(y, "decide") /\ Drowsy(y, "decide") /\ Told(y)
    BY <1>0, <1>1, <2>7, <2>9 DEF Unpacked, Kept, Drowsy, Told, StatusFits
  <2>13. Receiving(y, "decide") /\ ~ y.isr /\ ~ y.reset
    BY <1>0, <2>7, <2>9 DEF Receiving, SameRx
  <2> QED
    BY <2>5, <2>7, <2>8, <2>10, <2>11, <2>12, <2>13, Pack DEF Unpacked, Places
<1> QED
  BY <1>2, <1>3

SetTx(s, tx) == [s EXCEPT !.tx = tx]

LEMMA SetTxFacts ==
  ASSUME NEW s, Machine(s), NEW tx \in {"go", "queued"}
  PROVE  LET y == SetTx(s, tx)
         IN /\ Machine(y) /\ SameRx(s, y) /\ SameRest(s, y) /\ SameRadio(s, y) /\ y.tx = tx
            /\ y.csp = s.csp /\ y.mask = s.mask /\ y.call = s.call /\ y.cspz = s.cspz
            /\ y.ackReq = s.ackReq /\ y.nb = s.nb /\ y.newPower = s.newPower
<1> DEFINE y == [s EXCEPT !.tx = tx]
<1>1. Shape(y)
  BY DEF Machine, Shape
<1>2. Ranges(y)
  BY DEF Machine, Shape, Ranges, Fields
<1>3. /\ SameRx(s, y) /\ SameRest(s, y) /\ SameRadio(s, y) /\ y.tx = tx
      /\ y.csp = s.csp /\ y.mask = s.mask /\ y.call = s.call /\ y.cspz = s.cspz
      /\ y.ackReq = s.ackReq /\ y.nb = s.nb /\ y.newPower = s.newPower
  BY DEF Machine, Shape, Fields, SameRx, SameRest, SameRadio
<1> QED
  BY <1>1, <1>2, <1>3 DEF Machine, SetTx

LEMMA TxDecideStep ==
  ASSUME IInv, TxDecide
  PROVE  IInv'
<1> DEFINE free == m.rx = "no" /\ ~ m.ackFlag
           tx == IF free THEN "go" ELSE "queued"
           place == IF free THEN "cancel" ELSE "idle"
           y == SetTx(m, tx)
<1>0. /\ Unpacked(m, bg) /\ Machine(m) /\ Receiving(m, bg) /\ ~ m.isr /\ ~ m.reset
      /\ bg = "decide"
  BY Unpack DEF TxDecide, At
<1>1. m' = y /\ bg' = place
  BY DEF TxDecide, SetTx
<1>2. /\ tx \in {"go", "queued"} /\ (tx = "go" <=> place = "cancel") /\ place \in {"cancel", "idle"}
      /\ (tx = "queued" => m.rx = "started" \/ m.ackFlag)
  BY <1>0 DEF Receiving
<1> HIDE DEF tx, place
<1>3. /\ Machine(y) /\ SameRx(m, y) /\ SameRest(m, y) /\ SameRadio(m, y) /\ y.tx = tx
      /\ y.csp = m.csp /\ y.mask = m.mask /\ y.call = m.call /\ y.cspz = m.cspz
      /\ y.ackReq = m.ackReq /\ y.nb = m.nb /\ y.newPower = m.newPower
  BY <1>0, <1>2, SetTxFacts
<1> HIDE DEF y
<1>4. /\ y.sleep = m.sleep /\ y.newChannel = m.newChannel /\ ~ y.failed /\ ~ y.cut
      /\ y.irq = m.irq /\ y.enable = m.enable /\ y.on = m.on /\ y.hwOn = m.hwOn
      /\ y.fifo = m.fifo /\ y.rx = m.rx /\ y.ackFlag = m.ackFlag
  BY <1>0, <1>3 DEF SameRest, SameRadio, SameRx, Unpacked
<1>5. Radio(y) /\ Len(y.fifo) <= FifoFrames
  BY <1>0, <1>3, <1>4 DEF Unpacked, Radio
<1>6. Sending(y, place)
  BY <1>0, <1>2, <1>3, <1>4 DEF Unpacked, Sending, Going
<1>7. Kept(y, place) /\ Drowsy(y, place) /\ Told(y)
  BY <1>0, <1>2, <1>3, <1>4 DEF Unpacked, Kept, Drowsy, Told, Sending
<1>8. Receiving(y, place) /\ ~ y.isr /\ ~ y.reset
  BY <1>0, <1>3, <1>4 DEF Receiving, SameRx
<1> QED
  BY <1>1, <1>2, <1>3, <1>4, <1>5, <1>6, <1>7, <1>8, Pack DEF Unpacked, Places

(* The transmit goes, a statement at a time.                               *)
LEMMA TxGoCancelStep ==
  ASSUME IInv, TxGoCancel
  PROVE  IInv'
<1> DEFINE mask == m.mask \ {"ackdone"}
           y == Flag(m, m.irq, mask)
           z == [m EXCEPT !.mask = mask]
<1>0. /\ Unpacked(m, bg) /\ Machine(m) /\ Receiving(m, bg) /\ ~ m.isr /\ ~ m.reset /\ IsMac(m)
      /\ bg = "cancel" /\ bg' = "clear" /\ m' = z
  BY Unpack DEF TxGoCancel, At
<1>1. m.irq \in SUBSET Interrupts /\ mask \in SUBSET Interrupts
      /\ ("stop" \in mask <=> "stop" \in m.mask)
  BY <1>0 DEF Machine, Ranges
<1> HIDE DEF mask
<1>2. z = y
  <2>1. Shape(z) /\ Shape(y)
    BY <1>0 DEF Machine, Shape, Flag
  <2>2. \A f \in Fields : z[f] = y[f]
    BY <1>0 DEF Machine, Shape, Fields, Flag
  <2> QED
    BY <2>1, <2>2, Equal
<1>3. IsMac(y) /\ Unflagged(m, y) /\ y.irq = m.irq /\ y.mask = mask
  BY <1>0, <1>1, Flagged
<1> HIDE DEF y, z
<1>4. Good(y, bg)
  BY <1>1, <1>3, GoodUnflagged DEF IInv
<1>5. Good(y, "clear")
  BY <1>0, <1>4 DEF Good, Sane, Sending, Kept, Drowsy, Going
<1>6. Receiving(y, "clear") /\ ~ y.isr /\ ~ y.reset
  BY <1>0, <1>3 DEF Receiving, Unflagged, SameRx, SameRadio
<1> QED
  BY <1>0, <1>2, <1>5, <1>6 DEF IInv, Places

LEMMA TxGoClearStep ==
  ASSUME IInv, TxGoClear
  PROVE  IInv'
<1> DEFINE y == [m EXCEPT !.ackFlag = FALSE]
<1>0. /\ Unpacked(m, bg) /\ Machine(m) /\ Receiving(m, bg) /\ ~ m.isr /\ ~ m.reset
      /\ bg = "clear" /\ bg' = "go" /\ m' = y
  BY Unpack DEF TxGoClear, At
<1>1. Shape(y)
  BY <1>0 DEF Machine, Shape
<1>2. Ranges(y)
  BY <1>0 DEF Machine, Shape, Ranges, Fields
<1>3. /\ SameTx(m, y) /\ SameRest(m, y) /\ SameRadio(m, y) /\ y.csp = m.csp /\ y.mask = m.mask
      /\ y.rx = m.rx /\ ~ y.ackFlag /\ y.state = m.state /\ y.got = m.got /\ y.buf = m.buf
      /\ ~ y.isr /\ ~ y.reset /\ y.fifo = m.fifo
  BY <1>0 DEF Machine, Shape, Fields, SameTx, SameRest, SameRadio
<1> HIDE DEF y
<1>4. m.tx = "go"
  BY <1>0 DEF Unpacked, Sending, Going
<1>5. Still(y, bg)
  BY <1>0, <1>1, <1>2, <1>3, StillSame DEF Unpacked, Still, Machine, IsMac
<1>6. Sending(y, "go")
  BY <1>0, <1>5 DEF Still, Sending, Going
<1>7. Kept(y, "go") /\ Drowsy(y, "go") /\ Told(y)
  BY <1>0, <1>3, <1>4 DEF Unpacked, Kept, Drowsy, Told, SameTx
<1>8. Receiving(y, "go")
  BY <1>0, <1>3 DEF Receiving
<1> QED
  BY <1>0, <1>1, <1>2, <1>3, <1>5, <1>6, <1>7, <1>8, Pack DEF Unpacked, Places, Still, Machine

LEMMA TxGoStartStep ==
  ASSUME IInv, TxGoStart
  PROVE  IInv'
<1> DEFINE y == macCspTxGoCsma(m)
<1>0. /\ Unpacked(m, bg) /\ Machine(m) /\ Receiving(m, bg) /\ ~ m.isr /\ ~ m.reset /\ IsMac(m)
      /\ bg = "go" /\ bg' = "idle" /\ m' = y
  BY Unpack DEF TxGoStart, At
<1>1. m.tx = "go" /\ m.cspz = "busy" /\ "stop" \notin m.irq /\ m.call.sent = 0
      /\ m.nb <= MaxBackoffs /\ m.sleep = "awake" /\ m.hwOn = m.on
  <2>1. m.hwOn \in BOOLEAN /\ m.on \in BOOLEAN
    BY <1>0 DEF Machine, Ranges
  <2> QED
    BY <1>0, <2>1 DEF Unpacked, Sending, Going, Radio
<1>2. /\ IsMac(y) /\ SameTx(m, y) /\ SameRx(m, y) /\ SameRest(m, y)
      /\ y.on /\ y.hwOn /\ y.fifo = m.fifo /\ y.newPower = m.newPower
      /\ y.csp = "cca" /\ y.mask = m.mask \cup {"stop", "int"}
  BY <1>0, <1>1, GoCsma
<1> HIDE DEF y
<1>3. /\ y.sleep = "awake" /\ y.newChannel = m.newChannel /\ ~ y.failed /\ ~ y.cut
      /\ y.irq = m.irq /\ y.tx = "go" /\ y.cspz = "busy" /\ y.nb = m.nb /\ y.call = m.call
      /\ y.ackReq = m.ackReq
  BY <1>0, <1>1, <1>2 DEF SameRest, SameTx, Unpacked
<1>4. Radio(y) /\ Len(y.fifo) <= FifoFrames
  BY <1>0, <1>2, <1>3 DEF Unpacked, Radio
<1>5. Sending(y, "idle")
  BY <1>1, <1>2, <1>3 DEF Sending, Going
<1>6. Kept(y, "idle") /\ Drowsy(y, "idle") /\ Told(y)
  BY <1>0, <1>1, <1>3 DEF Unpacked, Kept, Drowsy, Told
<1>7. Receiving(y, "idle") /\ ~ y.isr /\ ~ y.reset
  BY <1>0, <1>2 DEF Receiving, SameRx
<1> QED
  BY <1>0, <1>2, <1>3, <1>4, <1>5, <1>6, <1>7, Pack DEF Unpacked, Places, Machine, IsMac

-----------------------------------------------------------------------------
(* The background code: the receiver, the channel, the power, the sleep.   *)

Outside == Places \ ({"prepare", "decide"} \cup Going)

(* Outside of macTxFrame it makes no difference where the background is,   *)
(* but for the receiver that is about to be turned off.                    *)
LEMMA SendingPlace ==
  ASSUME NEW s, NEW b \in Outside, NEW c \in Outside, Sending(s, b)
  PROVE  Sending(s, c)
BY DEF Sending, Outside, Places, Going

LEMMA OutsidePlaces ==
  /\ "idle" \in Outside /\ "off" \in Outside /\ "wake" \in Outside
  /\ "clear" \notin Outside
BY DEF Outside, Places, Going

SetEnable(s, enable) == [s EXCEPT !.enable = enable]

LEMMA SetEnableFacts ==
  ASSUME NEW s, Machine(s), NEW enable \in SUBSET Flags
  PROVE  LET y == SetEnable(s, enable)
         IN /\ Machine(y) /\ SameTx(s, y) /\ SameRx(s, y) /\ SameRadio(s, y)
            /\ y.csp = s.csp /\ y.mask = s.mask /\ y.newPower = s.newPower
            /\ y.sleep = s.sleep /\ y.newChannel = s.newChannel
            /\ y.failed = s.failed /\ y.cut = s.cut /\ y.irq = s.irq /\ y.enable = enable
<1> DEFINE y == [s EXCEPT !.enable = enable]
<1>1. Shape(y)
  BY DEF Machine, Shape
<1>2. Ranges(y)
  BY DEF Machine, Shape, Ranges, Fields
<1>3. /\ SameTx(s, y) /\ SameRx(s, y) /\ SameRadio(s, y)
      /\ y.csp = s.csp /\ y.mask = s.mask /\ y.newPower = s.newPower
      /\ y.sleep = s.sleep /\ y.newChannel = s.newChannel
      /\ y.failed = s.failed /\ y.cut = s.cut /\ y.irq = s.irq /\ y.enable = enable
  BY DEF Machine, Shape, Fields, SameTx, SameRx, SameRadio
<1> QED
  BY <1>1, <1>2, <1>3 DEF Machine, SetEnable

(* Other reasons to keep the receiver on; when the last one is taken away  *)
(* the receiver is to be turned off.                                       *)
LEMMA EnableStill ==
  ASSUME NEW s, NEW b \in Outside, NEW c \in Outside, Unpacked(s, b), Receiving(s, b),
         NEW enable \in SUBSET Flags, c # "wake", enable # {} \/ c = "off"
  PROVE  LET y == SetEnable(s, enable)
         IN /\ Unpacked(y, c) /\ Receiving(y, c) /\ y.isr = s.isr /\ y.reset = s.reset
            /\ y.sleep = s.sleep /\ y.enable = enable
<1> DEFINE y == SetEnable(s, enable)
<1>1. /\ Machine(y) /\ SameTx(s, y) /\ SameRx(s, y) /\ SameRadio(s, y)
      /\ y.csp = s.csp /\ y.mask = s.mask /\ y.newPower = s.newPower
      /\ y.sleep = s.sleep /\ y.newChannel = s.newChannel
      /\ y.failed = s.failed /\ y.cut = s.cut /\ y.irq = s.irq /\ y.enable = enable
  BY SetEnableFacts DEF Unpacked
<1> HIDE DEF y
<1>2. /\ y.on = s.on /\ y.hwOn = s.hwOn /\ y.fifo = s.fifo /\ y.rx = s.rx
      /\ y.ackFlag = s.ackFlag /\ ~ y.failed /\ ~ y.cut
  BY <1>1 DEF SameRadio, SameRx, Unpacked
<1>3. Sending(y, b)
  BY <1>1, <1>2, SendingSame DEF Unpacked
<1>4. Sending(y, c)
  BY <1>3, SendingPlace
<1>5. Radio(y) /\ Len(y.fifo) <= FifoFrames
  BY <1>1, <1>2 DEF Unpacked, Radio
<1>6. Kept(y, c) /\ Drowsy(y, c) /\ Told(y)
  BY <1>1, <1>2 DEF Unpacked, Kept, Drowsy, Told, SameTx
<1>7. Receiving(y, b) /\ y.isr = s.isr /\ y.reset = s.reset
  BY <1>1, <1>2 DEF Receiving, SameRx
<1>8. Receiving(y, c)
  BY <1>7, OutsidePlaces, ReceivingPlace
<1> QED
  BY <1>1, <1>2, <1>4, <1>5, <1>6, <1>7, <1>8 DEF Unpacked, y

(* The receiver on, while the radio is awake.                              *)
LEMMA OnStep ==
  ASSUME NEW s, NEW b, Unpacked(s, b), Receiving(s, b), ~ s.isr, ~ s.reset, s.sleep = "awake",
         b \in Places, bg' = b, s.enable # {}, m' = macRxOn(s)
  PROVE  IInv'
<1>1. Sane(s, b) /\ Told(s)
  BY DEF Unpacked, Sane, Machine, IsMac
<1>2. m' = macRxOnRequest(s)
  BY DEF macRxOnRequest
<1>3. Sane(m', b) /\ Same(s, m') /\ m'.fifo = s.fifo
  BY <1>1, <1>2, OnRequest
<1>4. Told(m')
  BY <1>1, <1>3, ToldSame DEF Same, SameTx
<1>5. Receiving(m', b) /\ ~ m'.isr /\ ~ m'.reset
  BY <1>3 DEF Same, SameRx, Receiving
<1> QED
  BY <1>3, <1>4, <1>5 DEF IInv, Good

LEMMA RxEnableStep ==
  ASSUME IInv, NEW f \in Flags, macRxEnable(f)
  PROVE  IInv'
<1> DEFINE enable == m.enable \cup {f}
           y == SetEnable(m, enable)
<1>0. /\ Unpacked(m, bg) /\ Receiving(m, bg) /\ ~ m.isr /\ ~ m.reset /\ Machine(m)
      /\ bg = "idle" /\ bg' = "idle" /\ m.sleep = "awake" /\ m' = macRxOn(y)
  BY Unpack DEF macRxEnable, At, SetEnable
<1>1. enable \in SUBSET Flags /\ enable # {}
  BY <1>0 DEF Machine, Ranges
<1> HIDE DEF enable
<1>2. /\ Unpacked(y, "idle") /\ Receiving(y, "idle") /\ y.isr = m.isr /\ y.reset = m.reset
      /\ y.sleep = m.sleep /\ y.enable = enable
  BY <1>0, <1>1, EnableStill, OutsidePlaces
<1> HIDE DEF y
<1>3. "idle" \in Places
  BY DEF Places
<1> QED
  BY <1>0, <1>1, <1>2, <1>3, OnStep

LEMMA RxSoftEnableStep ==
  ASSUME IInv, NEW f \in Flags, macRxSoftEnable(f)
  PROVE  IInv'
<1> DEFINE enable == m.enable \cup {f}
           y == SetEnable(m, enable)
<1>0. /\ Unpacked(m, bg) /\ Receiving(m, bg) /\ ~ m.isr /\ ~ m.reset /\ Machine(m)
      /\ bg = "idle" /\ bg' = "idle" /\ m' = y
  BY Unpack DEF macRxSoftEnable, At, SetEnable
<1>1. enable \in SUBSET Flags /\ enable # {}
  BY <1>0 DEF Machine, Ranges
<1> HIDE DEF enable
<1>2. /\ Unpacked(y, "idle") /\ Receiving(y, "idle") /\ y.isr = m.isr /\ y.reset = m.reset
  BY <1>0, <1>1, EnableStill, OutsidePlaces
<1> HIDE DEF y
<1> QED
  BY <1>0, <1>2, Pack DEF Places

LEMMA RxDisableStep ==
  ASSUME IInv, NEW f \in Flags, macRxDisable(f)
  PROVE  IInv'
<1> DEFINE enable == m.enable \ {f}
           y == SetEnable(m, enable)
<1>0. /\ Unpacked(m, bg) /\ Receiving(m, bg) /\ ~ m.isr /\ ~ m.reset /\ Machine(m)
      /\ bg = "idle" /\ bg' = "off" /\ m' = y
  BY Unpack DEF macRxDisable, At, SetEnable
<1>1. enable \in SUBSET Flags
  BY <1>0 DEF Machine, Ranges
<1> HIDE DEF enable
<1>2. /\ Unpacked(y, "off") /\ Receiving(y, "off") /\ y.isr = m.isr /\ y.reset = m.reset
  BY <1>0, <1>1, EnableStill, OutsidePlaces
<1> HIDE DEF y
<1> QED
  BY <1>0, <1>2, Pack DEF Places

LEMMA RxDisableOffStep ==
  ASSUME IInv, RxDisableOff
  PROVE  IInv'
<1> DEFINE y == macRxOffRequest(m)
<1>0. /\ Unpacked(m, bg) /\ Receiving(m, bg) /\ ~ m.isr /\ ~ m.reset /\ IsMac(m)
      /\ bg = "off" /\ bg' = "idle" /\ m' = y /\ Still(m, bg)
  BY Unpack DEF RxDisableOff, At, Unpacked, Still
<1>1. (m.csp \in {"strobe", "air"} => TxPhysicallyActive(m))
      /\ (TxPhysicallyActive(m) <=> m.tx \in {"go", "listen"})
  BY <1>0, OnTheAir, Phases DEF Unpacked, TxPhysicallyActive
<1>2. /\ IsMac(y) /\ Same(m, y) /\ y.newPower = m.newPower
      /\ SameRadio(m, y) \/ (IsDark(y) /\ ~ RxPhysicallyActive(m) /\ ~ TxPhysicallyActive(m))
      /\ y.on /\ y.enable = {} => RxPhysicallyActive(m) \/ TxPhysicallyActive(m)
  BY <1>0, <1>1, OffRequest
<1> HIDE DEF y
<1>3. Still(y, bg)
  BY <1>0, <1>2, DimStill
<1>4. Sending(y, "idle")
  BY <1>0, <1>3, OutsidePlaces, SendingPlace DEF Still
<1>5. /\ y.tx = m.tx /\ y.call = m.call /\ y.ackReq = m.ackReq /\ y.rx = m.rx
      /\ y.ackFlag = m.ackFlag /\ y.mask = m.mask /\ y.isr = m.isr /\ y.reset = m.reset
      /\ y.state = m.state /\ y.got = m.got /\ y.buf = m.buf
  BY <1>2 DEF Same, SameTx, SameRx
<1>6. Kept(y, "idle") /\ Drowsy(y, "idle") /\ Told(y)
  BY <1>0, <1>1, <1>2, <1>5 DEF Unpacked, Kept, Drowsy, Told, RxPhysicallyActive
<1>7. Receiving(y, "idle")
  BY <1>0, <1>2, <1>5 DEF Receiving, SameRadio, RxPhysicallyActive
<1> QED
  BY <1>0, <1>3, <1>4, <1>5, <1>6, <1>7, Pack DEF Unpacked, Still, IsMac, Machine, Places

SetNewChannel(s, new) == [s EXCEPT !.newChannel = new]

LEMMA SetNewChannelFacts ==
  ASSUME NEW s, Machine(s), NEW new \in BOOLEAN
  PROVE  LET y == SetNewChannel(s, new)
         IN /\ Machine(y) /\ SameTx(s, y) /\ SameRx(s, y) /\ SameRadio(s, y)
            /\ y.csp = s.csp /\ y.mask = s.mask /\ y.newPower = s.newPower
            /\ y.sleep = s.sleep /\ y.enable = s.enable
            /\ y.failed = s.failed /\ y.cut = s.cut /\ y.irq = s.irq /\ y.newChannel = new
<1> DEFINE y == [s EXCEPT !.newChannel = new]
<1>1. Shape(y)
  BY DEF Machine, Shape
<1>2. Ranges(y)
  BY DEF Machine, Shape, Ranges, Fields
<1>3. /\ SameTx(s, y) /\ SameRx(s, y) /\ SameRadio(s, y)
      /\ y.csp = s.csp /\ y.mask = s.mask /\ y.newPower = s.newPower
      /\ y.sleep = s.sleep /\ y.enable = s.enable
      /\ y.failed = s.failed /\ y.cut = s.cut /\ y.irq = s.irq /\ y.newChannel = new
  BY DEF Machine, Shape, Fields, SameTx, SameRx, SameRadio
<1> QED
  BY <1>1, <1>2, <1>3 DEF Machine, SetNewChannel

LEMMA SetChannelStep ==
  ASSUME IInv, macRadioSetChannel
  PROVE  IInv'
<1> DEFINE t == SetNewChannel(m, TRUE)
           u == SetNewChannel(t, FALSE)
<1>0. /\ Unpacked(m, bg) /\ Receiving(m, bg) /\ ~ m.isr /\ ~ m.reset /\ Machine(m) /\ Good(m, bg)
      /\ bg = "idle" /\ bg' = "idle" /\ m.sleep = "awake"
      /\ m' = IF t.tx = "no" THEN macRadioUpdateChannel(t) ELSE t
  BY Unpack DEF macRadioSetChannel, At, SetNewChannel
<1>1. /\ Machine(t) /\ SameTx(m, t) /\ SameRx(m, t) /\ SameRadio(m, t)
      /\ t.csp = m.csp /\ t.mask = m.mask /\ t.newPower = m.newPower
      /\ t.sleep = m.sleep /\ t.enable = m.enable
      /\ t.failed = m.failed /\ t.cut = m.cut /\ t.irq = m.irq /\ t.newChannel
  BY <1>0, SetNewChannelFacts
<1>2. /\ t.tx = m.tx /\ t.call = m.call /\ t.ackReq = m.ackReq /\ t.on = m.on /\ t.hwOn = m.hwOn
      /\ t.fifo = m.fifo /\ t.rx = m.rx /\ t.ackFlag = m.ackFlag /\ t.isr = m.isr
      /\ t.reset = m.reset /\ t.state = m.state /\ t.got = m.got /\ t.buf = m.buf
      /\ t.nb = m.nb /\ t.cspz = m.cspz
  BY <1>1 DEF SameTx, SameRadio, SameRx
<1>3. CASE m.tx = "no"
  <2>1. m.newChannel = FALSE
    BY <1>0, <1>3 DEF Unpacked, Sending, Machine, Ranges
  <2>2. u = m
    <3>1. Shape(u) /\ Shape(m)
      BY <1>0 DEF Machine, Shape, SetNewChannel
    <3>2. \A f \in Fields : u[f] = m[f]
      BY <1>0, <2>1 DEF Machine, Shape, Fields, SetNewChannel
    <3> QED
      BY <3>1, <3>2, Equal
  <2>3. [t EXCEPT !.newChannel = FALSE] = m
    BY <2>2 DEF SetNewChannel
  <2>4. Still(m, bg) /\ Kept(m, bg)
    BY <1>0 DEF Good, Sane, Still
  <2>5. m' = macRadioUpdateChannel(t)
    BY <1>0, <1>2, <1>3
  <2> HIDE DEF t, u
  <2>6. /\ Sane(m', bg) /\ After(t, m')
        /\ m'.call = t.call /\ m'.ackReq = t.ackReq /\ m'.tx = "no"
    <3>1. IsMac(t)
      BY <1>1 DEF Machine, IsMac
    <3>2. t.tx = "no" /\ (t.isr => t.rx = "started") /\ t.sleep = "awake"
      BY <1>0, <1>1, <1>2, <1>3
    <3>3. Still([t EXCEPT !.newChannel = FALSE], bg) /\ Kept([t EXCEPT !.newChannel = FALSE], bg)
      BY <2>3, <2>4
    <3> QED
      BY <2>5, <3>1, <3>2, <3>3, UpdateChannel
  <2>7. Told(m')
    <3>1. Told(m)
      BY <1>0 DEF Unpacked
    <3> QED
      BY <1>2, <1>3, <2>6, <3>1, ToldSame
  <2>8. Receiving(t, bg) /\ ~ t.isr /\ ~ t.reset
    BY <1>0, <1>1, <1>2 DEF Receiving
  <2>9. Receiving(m', bg) /\ ~ m'.isr /\ ~ m'.reset
    BY <2>6, <2>8, AfterReceiving
  <2> QED
    BY <1>0, <2>6, <2>7, <2>9 DEF IInv, Good, Places
<1>4. CASE m.tx # "no"
  <2>1. m' = t
    BY <1>0, <1>2, <1>4
  <2> HIDE DEF t
  <2>2. Sending(t, "idle")
    BY <1>0, <1>1, <1>2, <1>4 DEF Unpacked, Sending, Going
  <2>3. Radio(t) /\ Len(t.fifo) <= FifoFrames
    BY <1>0, <1>1, <1>2 DEF Unpacked, Radio
  <2>4. Kept(t, "idle") /\ Drowsy(t, "idle") /\ Told(t)
    BY <1>0, <1>1, <1>2 DEF Unpacked, Kept, Drowsy, Told
  <2>5. Receiving(t, "idle") /\ ~ t.isr /\ ~ t.reset
    BY <1>0, <1>1, <1>2 DEF Receiving
  <2>6. ~ t.failed /\ ~ t.cut
    BY <1>0, <1>1 DEF Unpacked
  <2> QED
    BY <1>0, <1>1, <2>1, <2>2, <2>3, <2>4, <2>5, <2>6, Pack DEF Unpacked, Places
<1> QED
  BY <1>3, <1>4

LEMMA SetTxPowerStep ==
  ASSUME IInv, macRadioSetTxPower
  PROVE  IInv'
<1> DEFINE t == [m EXCEPT !.newPower = TRUE]
<1>0. /\ Unpacked(m, bg) /\ Receiving(m, bg) /\ ~ m.isr /\ ~ m.reset /\ Machine(m)
      /\ bg = "idle" /\ bg' = "idle" /\ m' = macRadioUpdateTxPower(t)
  BY Unpack DEF macRadioSetTxPower, At
<1>a. Shape(m) /\ Ranges(m)
  BY <1>0 DEF Machine
<1>1. Shape(t)
  BY <1>a DEF Shape
<1>2. Ranges(t)
  BY <1>a DEF Shape, Ranges, Fields
<1>3. Same(m, t) /\ SameRadio(m, t)
  BY <1>a DEF Shape, Fields, Same, SameTx, SameRx, SameRest, SameRadio
<1> HIDE DEF t
<1>4. Still(m, bg)
  BY <1>0 DEF Unpacked, Still, Machine, IsMac
<1>5. Still(t, bg)
  BY <1>1, <1>2, <1>3, <1>4, StillSame DEF Same
<1>6. /\ IsMac(m') /\ Same(t, m') /\ SameRadio(t, m')
      /\ m'.newPower => t.ackFlag \/ TxPhysicallyActive(t)
  BY <1>0, <1>5, UpdateTxPower DEF Still
<1>7. Still(m', bg)
  BY <1>5, <1>6, StillSame DEF Same, IsMac
<1>8. TxPhysicallyActive(t) <=> t.tx \in {"go", "listen"}
  BY <1>5, Phases DEF Still
<1>9. /\ m'.tx = m.tx /\ m'.call = m.call /\ m'.ackReq = m.ackReq /\ m'.on = m.on
      /\ m'.fifo = m.fifo /\ m'.rx = m.rx /\ m'.ackFlag = m.ackFlag /\ m'.isr = m.isr
      /\ m'.reset = m.reset /\ m'.state = m.state /\ m'.got = m.got /\ m'.buf = m.buf
      /\ m'.enable = m.enable /\ m'.mask = m.mask /\ t.tx = m.tx /\ t.ackFlag = m.ackFlag
  BY <1>3, <1>6 DEF Same, SameTx, SameRx, SameRest, SameRadio
<1>10. Kept(m', bg) /\ Told(m')
  BY <1>0, <1>6, <1>8, <1>9 DEF Unpacked, Kept, Told
<1>11. Receiving(m', bg)
  BY <1>0, <1>9 DEF Receiving
<1> QED
  BY <1>0, <1>7, <1>9, <1>10, <1>11, Pack DEF Unpacked, Still, IsMac, Machine, Places

LEMMA ScanStep ==
  ASSUME IInv, macRadioStartScan \/ macRadioStopScan
  PROVE  IInv'
<1>0. Machine(m) /\ Good(m, bg) /\ Receiving(m, bg) /\ ~ m.isr /\ ~ m.reset /\ bg \in Places
  BY Unpack
<1>1. PICK filter \in BOOLEAN : m' = [m EXCEPT !.filter = filter] /\ bg' = bg
  BY DEF macRadioStartScan, macRadioStopScan
<1> DEFINE y == [m EXCEPT !.filter = filter]
<1>2. Shape(y)
  BY <1>0 DEF Machine, Shape
<1>3. Ranges(y)
  BY <1>0 DEF Machine, Shape, Ranges, Fields
<1>4. /\ SameTx(m, y) /\ SameRx(m, y) /\ SameRest(m, y) /\ SameRadio(m, y) /\ y.csp = m.csp
      /\ y.mask = m.mask /\ y.newPower = m.newPower
  BY <1>0 DEF Machine, Shape, Fields, SameTx, SameRx, SameRest, SameRadio
<1> HIDE DEF y
<1>5. Good(y, bg)
  BY <1>0, <1>2, <1>3, <1>4, GoodAlike DEF SameRx
<1>6. Receiving(y, bg) /\ ~ y.isr /\ ~ y.reset
  BY <1>0, <1>4 DEF Receiving, SameRx, SameRadio
<1> QED
  BY <1>0, <1>1, <1>5, <1>6 DEF IInv, y

SetSleep(s, sleep) == [s EXCEPT !.sleep = sleep]

LEMMA SetSleepFacts ==
  ASSUME NEW s, Machine(s), NEW sleep \in {"awake", "osc_off", "radio_off"}
  PROVE  LET y == SetSleep(s, sleep)
         IN /\ Machine(y) /\ SameTx(s, y) /\ SameRx(s, y) /\ SameRadio(s, y)
            /\ y.csp = s.csp /\ y.mask = s.mask /\ y.newPower = s.newPower
            /\ y.enable = s.enable /\ y.newChannel = s.newChannel
            /\ y.failed = s.failed /\ y.cut = s.cut /\ y.irq = s.irq /\ y.sleep = sleep
<1> DEFINE y == [s EXCEPT !.sleep = sleep]
<1>1. Shape(y)
  BY DEF Machine, Shape
<1>2. Ranges(y)
  BY DEF Machine, Shape, Ranges, Fields
<1>3. /\ SameTx(s, y) /\ SameRx(s, y) /\ SameRadio(s, y)
      /\ y.csp = s.csp /\ y.mask = s.mask /\ y.newPower = s.newPower
      /\ y.enable = s.enable /\ y.newChannel = s.newChannel
      /\ y.failed = s.failed /\ y.cut = s.cut /\ y.irq = s.irq /\ y.sleep = sleep
  BY DEF Machine, Shape, Fields, SameTx, SameRx, SameRadio
<1> QED
  BY <1>1, <1>2, <1>3 DEF Machine, SetSleep

(* The radio sleeps when it is off and no transmit goes; it may always be  *)
(* woken up.                                                               *)
LEMMA SleepStill ==
  ASSUME NEW s, NEW b, Unpacked(s, b), Receiving(s, b),
         NEW sleep \in {"awake", "osc_off", "radio_off"},
         sleep # "awake" => ~ s.on /\ s.tx = "no" /\ s.enable = {}
  PROVE  LET y == SetSleep(s, sleep)
         IN /\ Unpacked(y, b) /\ Receiving(y, b) /\ y.isr = s.isr /\ y.reset = s.reset
            /\ y.sleep = sleep
<1> DEFINE y == SetSleep(s, sleep)
<1>1. /\ Machine(y) /\ SameTx(s, y) /\ SameRx(s, y) /\ SameRadio(s, y)
      /\ y.csp = s.csp /\ y.mask = s.mask /\ y.newPower = s.newPower
      /\ y.enable = s.enable /\ y.newChannel = s.newChannel
      /\ y.failed = s.failed /\ y.cut = s.cut /\ y.irq = s.irq /\ y.sleep = sleep
  BY SetSleepFacts DEF Unpacked
<1> HIDE DEF y
<1>2. /\ y.on = s.on /\ y.hwOn = s.hwOn /\ y.fifo = s.fifo /\ y.rx = s.rx
      /\ y.ackFlag = s.ackFlag /\ ~ y.failed /\ ~ y.cut /\ y.tx = s.tx /\ y.call = s.call
      /\ y.ackReq = s.ackReq /\ y.nb = s.nb /\ y.cspz = s.cspz
  BY <1>1 DEF SameRadio, SameRx, SameTx, Unpacked
<1>3. Sending(y, b)
  BY <1>1, <1>2 DEF Unpacked, Sending
<1>4. Radio(y) /\ Len(y.fifo) <= FifoFrames
  BY <1>1, <1>2 DEF Unpacked, Radio
<1>5. Kept(y, b) /\ Drowsy(y, b) /\ Told(y)
  BY <1>1, <1>2 DEF Unpacked, Kept, Drowsy, Told
<1>6. Receiving(y, b) /\ y.isr = s.isr /\ y.reset = s.reset
  BY <1>1, <1>2 DEF Receiving, SameRx
<1> QED
  BY <1>1, <1>2, <1>3, <1>4, <1>5, <1>6 DEF Unpacked, y

LEMMA SleepStep ==
  ASSUME IInv, NEW state \in {"osc_off", "radio_off"}, macSleep(state)
  PROVE  IInv'
<1> DEFINE t == macRxOff(m)
           y == SetSleep(t, state)
<1>0. /\ Unpacked(m, bg) /\ Receiving(m, bg) /\ ~ m.isr /\ ~ m.reset /\ IsMac(m) /\ bg \in Places
      /\ m.tx = "no" /\ m.rx = "no" /\ m.enable = {} /\ m' = y /\ bg' = bg /\ Still(m, bg) /\ Kept(m, bg)
  BY Unpack DEF macSleep, SetSleep, Unpacked, Still
<1>1. m.csp = "idle"
  BY <1>0 DEF Unpacked, Sending
<1>2. Still(t, bg) /\ Kept(t, bg) /\ Same(m, t) /\ IsDark(t)
  BY <1>0, <1>1, OffStill
<1> HIDE DEF t
<1>3. Told(t)
  BY <1>0, <1>2, ToldSame DEF Unpacked, Same, SameTx
<1>4. Receiving(t, bg) /\ ~ t.isr /\ ~ t.reset /\ t.tx = "no" /\ ~ t.on
  BY <1>0, <1>2 DEF Receiving, Same, SameRx, SameTx, IsDark
<1>5. Unpacked(t, bg)
  BY <1>2, <1>3 DEF Unpacked, Still, IsMac, Machine
<1>6. Unpacked(y, bg) /\ Receiving(y, bg) /\ y.isr = t.isr /\ y.reset = t.reset
  <2>1. t.enable = {}
    BY <1>0, <1>2 DEF Same, SameRest
  <2> QED
    BY <1>4, <1>5, <2>1, SleepStill
<1> HIDE DEF y
<1> QED
  BY <1>0, <1>4, <1>6, Pack

(* From idle to another place outside of macTxFrame.                       *)
LEMMA UnpackedPlace ==
  ASSUME NEW s, NEW b \in {"idle", "wake"}, NEW c \in {"idle", "wake"}, Unpacked(s, b),
         c = "idle" \/ s.sleep = "awake",
         Receiving(s, b)
  PROVE  Unpacked(s, c) /\ Receiving(s, c)
<1>1. Sending(s, c)
  BY OutsidePlaces, SendingPlace DEF Unpacked
<1>2. Kept(s, c) /\ Drowsy(s, c)
  BY DEF Unpacked, Kept, Drowsy
<1>3. Receiving(s, c)
  BY ReceivingPlace
<1> QED
  BY <1>1, <1>2, <1>3 DEF Unpacked

LEMMA WakeUpStep ==
  ASSUME IInv, macSleepWakeUp
  PROVE  IInv'
<1> DEFINE y == SetSleep(m, "awake")
<1>0. /\ Unpacked(m, bg) /\ Receiving(m, bg) /\ ~ m.isr /\ ~ m.reset
      /\ bg = "idle" /\ m' = y /\ bg' = "wake"
  BY Unpack DEF macSleepWakeUp, SetSleep, At
<1>1. /\ Unpacked(y, "idle") /\ Receiving(y, "idle") /\ y.isr = m.isr /\ y.reset = m.reset
      /\ y.sleep = "awake"
  BY <1>0, SleepStill
<1> HIDE DEF y
<1>2. Unpacked(y, "wake") /\ Receiving(y, "wake")
  BY <1>1, UnpackedPlace
<1> QED
  BY <1>0, <1>1, <1>2, Pack DEF Places

(* macRxOnRequest at the end of a step.                                    *)
LEMMA OnRequestStep ==
  ASSUME NEW s, NEW b \in Places, Unpacked(s, b), Receiving(s, b), ~ s.isr, ~ s.reset,
         s.sleep = "awake", bg' = b, m' = macRxOnRequest(s)
  PROVE  IInv'
<1>1. Sane(s, b) /\ Told(s)
  BY DEF Unpacked, Sane, Machine, IsMac
<1>2. Sane(m', b) /\ Same(s, m') /\ m'.fifo = s.fifo
  BY <1>1, OnRequest
<1>3. Told(m')
  BY <1>1, <1>2, ToldSame DEF Same, SameTx
<1>4. Receiving(m', b) /\ ~ m'.isr /\ ~ m'.reset
  BY <1>2 DEF Same, SameRx, Receiving
<1> QED
  BY <1>2, <1>3, <1>4 DEF IInv, Good

LEMMA WakeUpRxOnStep ==
  ASSUME IInv, WakeUpRxOn
  PROVE  IInv'
<1>0. /\ Unpacked(m, bg) /\ Receiving(m, bg) /\ ~ m.isr /\ ~ m.reset
      /\ bg = "wake" /\ bg' = "idle"
      /\ m' = macRxOnRequest(m)
  BY Unpack DEF WakeUpRxOn, At
<1>1. Unpacked(m, "idle") /\ Receiving(m, "idle") /\ "idle" \in Places
  BY <1>0, UnpackedPlace DEF Places
<1>2. CASE m.sleep = "awake"
  BY <1>0, <1>1, <1>2, OnRequestStep
<1>3. CASE m.sleep # "awake"
  <2>1. m' = m
    BY <1>0, <1>3 DEF Unpacked, Drowsy, macRxOnRequest
  <2> QED
    BY <1>0, <1>1, <2>1, Pack
<1> QED
  BY <1>2, <1>3

LEMMA ResetStep ==
  ASSUME IInv, macLowLevelReset
  PROVE  IInv'
<1>0. /\ Unpacked(m, bg) /\ Receiving(m, bg) /\ ~ m.isr /\ ~ m.reset /\ Machine(m)
      /\ bg = "idle" /\ bg' = "idle" /\ m.tx = "no"
  BY Unpack DEF macLowLevelReset
<1>1. CASE m.sleep # "awake"
  <2> DEFINE t == SetSleep(m, "awake")
  <2>1. m' = macRxOnRequest(t)
    BY <1>1 DEF macLowLevelReset, SetSleep
  <2>2. Unpacked(t, "idle") /\ Receiving(t, "idle") /\ t.isr = m.isr /\ t.reset = m.reset
        /\ t.sleep = "awake"
    BY <1>0, SleepStill
  <2> HIDE DEF t
  <2> QED
    BY <1>0, <2>1, <2>2, OnRequestStep DEF Places
<1>2. CASE m.sleep = "awake"
  <2> DEFINE e == [m EXCEPT !.enable = {}, !.on = FALSE]
             u == StrobeOff(e)
             t == [u EXCEPT !.filter = FALSE]
  <2>1. m' = macRxHaltCleanup(t)
    BY <1>2 DEF macLowLevelReset
  <2>a. Shape(m) /\ Ranges(m) /\ <<>> \in Seq(Frame) /\ {} \in SUBSET Flags
    BY <1>0 DEF Machine
  <2>b. m.csp = "idle" /\ m.cut = FALSE
    BY <1>0 DEF Unpacked, Sending, Machine, Ranges
  <2>2. Shape(e)
    BY <2>a DEF Shape
  <2>3. Ranges(e)
    BY <2>a DEF Shape, Ranges, Fields
  <2>4. /\ SameTx(m, e) /\ SameRx(m, e) /\ e.csp = "idle" /\ e.mask = m.mask /\ e.irq = m.irq
        /\ ~ e.on /\ e.enable = {} /\ e.sleep = m.sleep /\ e.newChannel = m.newChannel
        /\ e.newPower = m.newPower /\ e.failed = m.failed /\ e.cut = FALSE
    BY <2>a, <2>b DEF Shape, Fields, SameTx, SameRx
  <2> HIDE DEF e
  <2>5. u = [e EXCEPT !.hwOn = FALSE, !.fifo = <<>>, !.overflow = FALSE, !.acking = FALSE,
                      !.cut = FALSE, !.csp = "idle"]
    BY <2>2, <2>4 DEF StrobeOff, Shape, Fields
  <2> DEFINE w == [e EXCEPT !.hwOn = FALSE, !.fifo = <<>>, !.overflow = FALSE,
                            !.acking = FALSE, !.cut = FALSE, !.csp = "idle"]
  <2>6. Shape(w)
    BY <2>2 DEF Shape
  <2>7. Ranges(w)
    BY <2>2, <2>3, <2>a DEF Shape, Ranges, Fields
  <2>8. /\ SameTx(e, w) /\ SameRx(e, w) /\ w.csp = "idle" /\ w.mask = e.mask /\ w.irq = e.irq
        /\ ~ w.on /\ ~ w.hwOn /\ w.fifo = <<>> /\ w.enable = {} /\ w.sleep = e.sleep
        /\ w.newChannel = e.newChannel /\ w.newPower = e.newPower /\ w.failed = e.failed
        /\ ~ w.cut
    BY <2>2, <2>4 DEF Shape, Fields, SameTx, SameRx
  <2>9. u = w
    BY <2>5
  <2> HIDE DEF u, w
  <2>10. Shape(t)
    BY <2>6, <2>9 DEF Shape
  <2>11. Ranges(t)
    BY <2>6, <2>7, <2>9 DEF Shape, Ranges, Fields
  <2>12. /\ SameTx(w, t) /\ SameRx(w, t) /\ t.csp = "idle" /\ t.mask = w.mask /\ t.irq = w.irq
         /\ ~ t.on /\ ~ t.hwOn /\ t.fifo = <<>> /\ t.enable = {} /\ t.sleep = w.sleep
         /\ t.newChannel = w.newChannel /\ t.newPower = w.newPower /\ t.failed = w.failed
         /\ ~ t.cut
    BY <2>6, <2>8, <2>9 DEF Shape, Fields, SameTx, SameRx
  <2> HIDE DEF t
  <2>13. SameTx(m, t) /\ SameRx(m, t)
    BY <2>4, <2>8, <2>12, SameTrans, Zenon
  <2>14. /\ t.mask = m.mask /\ t.irq = m.irq /\ t.sleep = m.sleep /\ t.newChannel = m.newChannel
         /\ t.newPower = m.newPower /\ ~ t.failed
    BY <1>0, <2>4, <2>8, <2>12 DEF Unpacked
  <2>15. Radio(t) /\ Len(t.fifo) <= FifoFrames
    BY <1>2, <2>12, <2>14, EmptyFifo, MacAssumption DEF Radio
  <2>16. Sending(t, bg)
    <3>1. t.csp = m.csp
      BY <2>b, <2>12
    <3>2. \A a : Heard(m.fifo, a) => Heard(t.fifo, a)
      BY <2>12, EmptyFifo
    <3> QED
      BY <1>0, <2>13, <2>14, <3>1, <3>2, SendingSame DEF Unpacked
  <2>17. Still(t, bg) /\ Kept(t, bg)
    BY <1>0, <2>10, <2>11, <2>12, <2>13, <2>14, <2>15, <2>16
       DEF Still, IsMac, Kept, Drowsy, SameTx, SameRx, Unpacked
  <2>18. ~ t.isr /\ ~ t.reset /\ t.tx = m.tx /\ t.call = m.call /\ t.ackReq = m.ackReq
    BY <1>0, <2>13 DEF SameRx, SameTx
  <2>19. m' = rxHaltCleanupFinalStep(t)
    BY <2>1, <2>18 DEF macRxHaltCleanup
  <2>20. /\ Sane(m', bg) /\ Rested(m') /\ m'.isr = t.isr /\ m'.reset = t.reset
         /\ m'.call = t.call /\ m'.ackReq = t.ackReq /\ (m'.tx = "no" <=> t.tx = "no")
    BY <2>17, <2>19, HaltCleanup
  <2>21. Told(m')
    BY <1>0, <2>18, <2>20, ToldSame DEF Unpacked
  <2> QED
    BY <1>0, <2>18, <2>20, <2>21, RestedReceiving DEF IInv, Good, Places
<1> QED
  BY <1>1, <1>2

-----------------------------------------------------------------------------
(* The radio and its CSP.                                                  *)
Air(s, fifo, csp, cspz, irq, acking, call) ==
  [s EXCEPT !.fifo = fifo, !.csp = csp, !.cspz = cspz, !.irq = irq, !.acking = acking,
            !.call = call]

LEMMA AirFacts ==
  ASSUME NEW s, Machine(s), NEW fifo \in Seq(Frame),
         NEW csp \in {"idle", "loaded", "cca", "strobe", "air", "hung", "wait"},
         NEW cspz \in {"busy", "done", "timeout"}, NEW irq \in SUBSET Interrupts,
         NEW acking \in BOOLEAN, NEW call \in Call
  PROVE  LET y == Air(s, fifo, csp, cspz, irq, acking, call)
         IN /\ Machine(y) /\ SameRx(s, y)
            /\ y.tx = s.tx /\ y.ackReq = s.ackReq /\ y.nb = s.nb /\ y.mask = s.mask
            /\ y.on = s.on /\ y.hwOn = s.hwOn /\ y.enable = s.enable /\ y.sleep = s.sleep
            /\ y.newChannel = s.newChannel /\ y.newPower = s.newPower
            /\ y.failed = s.failed /\ y.cut = s.cut
            /\ y.fifo = fifo /\ y.csp = csp /\ y.cspz = cspz /\ y.irq = irq /\ y.call = call
<1> DEFINE y == [s EXCEPT !.fifo = fifo, !.csp = csp, !.cspz = cspz, !.irq = irq,
                          !.acking = acking, !.call = call]
<1>1. Shape(y)
  BY DEF Machine, Shape
<1>2. Ranges(y)
  BY DEF Machine, Shape, Ranges, Fields
<1>3. /\ SameRx(s, y)
      /\ y.tx = s.tx /\ y.ackReq = s.ackReq /\ y.nb = s.nb /\ y.mask = s.mask
      /\ y.on = s.on /\ y.hwOn = s.hwOn /\ y.enable = s.enable /\ y.sleep = s.sleep
      /\ y.newChannel = s.newChannel /\ y.newPower = s.newPower
      /\ y.failed = s.failed /\ y.cut = s.cut
      /\ y.fifo = fifo /\ y.csp = csp /\ y.cspz = cspz /\ y.irq = irq /\ y.call = call
  BY DEF Machine, Shape, Fields, SameRx
<1> QED
  BY <1>1, <1>2, <1>3 DEF Machine, Air

(* What the radio does leaves the variables of the code alone: it is enough *)
(* to look at the FIFO and at the progress of the transmit.                *)
LEMMA AirStep ==
  ASSUME IInv, bg' = bg, NEW fifo \in Seq(Frame),
         NEW csp \in {"idle", "loaded", "cca", "strobe", "air", "hung", "wait"},
         NEW cspz \in {"busy", "done", "timeout"}, NEW irq \in SUBSET Interrupts,
         NEW acking \in BOOLEAN, NEW call \in Call,
         m' = Air(m, fifo, csp, cspz, irq, acking, call),
         Len(fifo) <= FifoFrames, Whole(fifo), ~ m.on => fifo = <<>>,
         m.fifo # <<>> => fifo # <<>> /\ fifo[1].kind = m.fifo[1].kind,
         csp \in {"cca", "strobe", "air"} => m.on, csp # "hung",
         Sending(m', bg),
         call.open = m.call.open, call.status = m.call.status, call.twice = m.call.twice,
         m.call.status # "none" => call.sent = m.call.sent, m.call.acked => call.acked
  PROVE  IInv'
<1> DEFINE y == Air(m, fifo, csp, cspz, irq, acking, call)
<1>0. Unpacked(m, bg) /\ Machine(m) /\ Receiving(m, bg) /\ ~ m.isr /\ ~ m.reset
      /\ bg \in Places
  BY Unpack
<1>1. /\ Machine(y) /\ SameRx(m, y)
      /\ y.tx = m.tx /\ y.ackReq = m.ackReq /\ y.nb = m.nb /\ y.mask = m.mask
      /\ y.on = m.on /\ y.hwOn = m.hwOn /\ y.enable = m.enable /\ y.sleep = m.sleep
      /\ y.newChannel = m.newChannel /\ y.newPower = m.newPower
      /\ y.failed = m.failed /\ y.cut = m.cut
      /\ y.fifo = fifo /\ y.csp = csp /\ y.cspz = cspz /\ y.irq = irq /\ y.call = call
  BY <1>0, AirFacts
<1>2. m' = y
  OBVIOUS
<1> HIDE DEF y
<1>3. Radio(y)
  BY <1>0, <1>1 DEF Unpacked, Radio
<1>4. Kept(y, bg)
  BY <1>0, <1>1 DEF Unpacked, Kept, SameRx
<1>5. Told(y) /\ Drowsy(y, bg)
  BY <1>0, <1>1 DEF Unpacked, Drowsy, SameRest, Told, StatusFits
<1>6. Receiving(y, bg) /\ ~ y.isr /\ ~ y.reset
  <2>1. m.state # "start" => fifo # <<>> /\ fifo[1].kind = "data"
    BY <1>0 DEF Receiving
  <2> QED
    BY <1>0, <1>1, <2>1 DEF Receiving, SameRx
<1>7. Len(y.fifo) <= FifoFrames /\ ~ y.failed /\ ~ y.cut
  BY <1>0, <1>1 DEF Unpacked
<1>8. Unpacked(y, bg)
  BY <1>1, <1>2, <1>3, <1>4, <1>5, <1>7 DEF Unpacked
<1> QED
  BY <1>0, <1>2, <1>6, <1>8, Pack

(* A record changed field by field is Air of the same fields.              *)
LEMMA AirEqual ==
  ASSUME NEW s, Machine(s), NEW y, Shape(y), NEW fifo, NEW csp, NEW cspz, NEW irq,
         NEW acking, NEW call,
         y.fifo = fifo, y.csp = csp, y.cspz = cspz, y.irq = irq, y.acking = acking,
         y.call = call,
         \A f \in Fields \ {"fifo", "csp", "cspz", "irq", "acking", "call"} : y[f] = s[f]
  PROVE  y = Air(s, fifo, csp, cspz, irq, acking, call)
<1> DEFINE z == Air(s, fifo, csp, cspz, irq, acking, call)
<1>1. Shape(z)
  BY DEF Machine, Shape, Air
<1>2. /\ z.fifo = fifo /\ z.csp = csp /\ z.cspz = cspz /\ z.irq = irq /\ z.acking = acking
      /\ z.call = call
      /\ \A f \in Fields \ {"fifo", "csp", "cspz", "irq", "acking", "call"} : z[f] = s[f]
  BY DEF Machine, Shape, Air, Fields
<1> HIDE DEF z
<1>3. \A f \in Fields : y[f] = z[f]
  BY <1>2
<1>4. y = z
  BY <1>1, <1>3, Equal
<1> QED
  BY <1>4 DEF z

(* What a transmit on its way tells of the rest.                           *)
LEMMA OnItsWay ==
  ASSUME NEW s, NEW b, Sending(s, b), s.csp # "hung"
  PROVE  /\ s.csp \in {"cca", "strobe", "air"} =>
              /\ s.tx = "go" /\ b \notin Going /\ b \notin {"prepare", "decide"}
              /\ s.cspz = "busy" /\ "stop" \notin s.irq
              /\ s.call.sent = IF s.csp = "air" THEN 1 ELSE 0
         /\ s.csp = "wait" => s.tx = "listen"
BY DEF Sending, Going

LEMMA SendingAlike ==
  ASSUME NEW s, NEW y, NEW b, Sending(s, b), y.tx = s.tx, y.nb = s.nb, y.mask = s.mask,
         y.csp = s.csp, y.cspz = s.cspz, y.sleep = s.sleep, y.newChannel = s.newChannel,
         y.call.sent = s.call.sent, "stop" \in y.irq <=> "stop" \in s.irq,
         s.tx \in {"go", "listen"} /\ s.call.sent = 1 /\ s.csp \in {"idle", "wait"}
           /\ Heard(s.fifo, s.call.acked) => Heard(y.fifo, y.call.acked)
  PROVE  Sending(y, b)
BY DEF Sending

LEMMA AckSentStep ==
  ASSUME IInv, AckSent
  PROVE  IInv'
<1>0. Unpacked(m, bg) /\ Machine(m) /\ Shape(m) /\ Ranges(m) /\ bg' = bg
  BY Unpack DEF AckSent, Machine
<1> DEFINE irq == m.irq \cup {"ackdone"}
           acking == FALSE
           y == Air(m, m.fifo, m.csp, m.cspz, irq, acking, m.call)
           z == [m EXCEPT !.acking = acking, !.irq = irq]
<1>1. z = y
  <2>1. Shape(z)
    BY <1>0 DEF Shape
  <2>2. /\ z.fifo = m.fifo /\ z.csp = m.csp /\ z.cspz = m.cspz /\ z.irq = irq
        /\ z.acking = acking /\ z.call = m.call
        /\ \A f \in Fields \ {"fifo", "csp", "cspz", "irq", "acking", "call"} : z[f] = m[f]
    BY <1>0 DEF Shape, Fields
  <2> HIDE DEF z, irq, acking
  <2> QED
    BY <1>0, <2>1, <2>2, AirEqual
<1>2. m' = z
  BY DEF AckSent
<1>3. acking \in BOOLEAN /\ irq \in SUBSET Interrupts /\ ("stop" \in irq <=> "stop" \in m.irq)
  BY <1>0 DEF Ranges, Interrupts
<1>4. /\ m.fifo \in Seq(Frame) /\ m.cspz \in {"busy", "done", "timeout"} /\ m.call \in Call
      /\ m.csp \in {"idle", "loaded", "cca", "strobe", "air", "hung", "wait"}
  BY <1>0 DEF Ranges
<1> HIDE DEF z, irq, acking
<1>5. /\ y.tx = m.tx /\ y.nb = m.nb /\ y.mask = m.mask /\ y.sleep = m.sleep
      /\ y.newChannel = m.newChannel
      /\ y.fifo = m.fifo /\ y.csp = m.csp /\ y.cspz = m.cspz /\ y.irq = irq /\ y.call = m.call
  BY <1>0, <1>3, <1>4, AirFacts
<1> HIDE DEF y
<1>6. Sending(y, bg)
  BY <1>0, <1>3, <1>5, SendingAlike DEF Unpacked
<1>7. /\ Len(m.fifo) <= FifoFrames /\ Whole(m.fifo) /\ (~ m.on => m.fifo = <<>>)
      /\ (m.csp \in {"cca", "strobe", "air"} => m.on) /\ m.csp # "hung"
  BY <1>0 DEF Unpacked, Radio
<1> QED
  BY <1>0, <1>1, <1>2, <1>3, <1>4, <1>6, <1>7, AirStep DEF y

(* The CSP goes on: the FIFO stays as it is.                               *)
LEMMA CspGoes ==
  ASSUME IInv, bg' = bg,
         NEW csp \in {"idle", "loaded", "cca", "strobe", "air", "hung", "wait"},
         NEW cspz \in {"busy", "done", "timeout"}, NEW irq \in SUBSET Interrupts,
         NEW call \in Call, NEW z, m' = z, Shape(z),
         z.csp = csp, z.cspz = cspz, z.irq = irq, z.call = call,
         \A f \in Fields \ {"csp", "cspz", "irq", "call"} : z[f] = m[f],
         csp \in {"cca", "strobe", "air"} => m.on, csp # "hung",
         \A y : /\ y.tx = m.tx /\ y.nb = m.nb /\ y.mask = m.mask /\ y.sleep = m.sleep
                /\ y.newChannel = m.newChannel
                /\ y.fifo = m.fifo /\ y.csp = csp /\ y.cspz = cspz /\ y.irq = irq
                /\ y.call = call
                => Sending(y, bg),
         call.open = m.call.open, call.status = m.call.status, call.twice = m.call.twice,
         m.call.status # "none" => call.sent = m.call.sent, m.call.acked => call.acked
  PROVE  IInv'
<1>0. Unpacked(m, bg) /\ Machine(m) /\ Shape(m) /\ Ranges(m)
  BY Unpack DEF Machine
<1> DEFINE y == Air(m, m.fifo, csp, cspz, irq, m.acking, call)
<1>1. z = y
  <2>1. z.fifo = m.fifo /\ z.acking = m.acking
    BY DEF Fields
  <2> QED
    BY <1>0, <2>1, AirEqual
<1>2. m.fifo \in Seq(Frame) /\ m.acking \in BOOLEAN
  BY <1>0 DEF Ranges
<1>3. /\ y.tx = m.tx /\ y.nb = m.nb /\ y.mask = m.mask /\ y.sleep = m.sleep
      /\ y.newChannel = m.newChannel
      /\ y.fifo = m.fifo /\ y.csp = csp /\ y.cspz = cspz /\ y.irq = irq /\ y.call = call
  BY <1>0, <1>2, AirFacts
<1> HIDE DEF y
<1>4. Sending(y, bg)
  BY <1>3
<1>5. Len(m.fifo) <= FifoFrames /\ Whole(m.fifo) /\ (~ m.on => m.fifo = <<>>)
  BY <1>0 DEF Unpacked, Radio
<1> QED
  BY <1>0, <1>1, <1>2, <1>4, <1>5, AirStep DEF y

LEMMA CcaBusyStep ==
  ASSUME IInv, CcaBusy
  PROVE  IInv'
<1>0. Unpacked(m, bg) /\ Shape(m) /\ Ranges(m) /\ bg' = bg /\ m.csp = "cca"
  BY Unpack DEF CcaBusy, Machine
<1> DEFINE irq == m.irq \cup {"stop"}
           z == [m EXCEPT !.csp = "idle", !.irq = irq]
<1>1. m' = z
  BY DEF CcaBusy
<1>2. Shape(z)
  BY <1>0 DEF Shape
<1>3. /\ z.csp = "idle" /\ z.cspz = m.cspz /\ z.irq = irq /\ z.call = m.call
      /\ \A f \in Fields \ {"csp", "cspz", "irq", "call"} : z[f] = m[f]
  BY <1>0 DEF Shape, Fields
<1>4. irq \in SUBSET Interrupts /\ m.call \in Call /\ m.cspz \in {"busy", "done", "timeout"}
  BY <1>0 DEF Ranges, Interrupts
<1> HIDE DEF z, irq
<1>5. Sending(m, bg)
  BY <1>0 DEF Unpacked
<1>6. /\ m.tx = "go" /\ bg \notin Going /\ bg \notin {"prepare", "decide"}
      /\ m.cspz = "busy" /\ m.call.sent = 0
  BY <1>0, <1>5, OnItsWay
<1>7. ASSUME NEW y, y.tx = m.tx, y.nb = m.nb, y.mask = m.mask, y.sleep = m.sleep,
             y.newChannel = m.newChannel, y.fifo = m.fifo, y.csp = "idle", y.cspz = m.cspz,
             y.irq = irq, y.call = m.call
      PROVE  Sending(y, bg)
  BY <1>5, <1>6, <1>7 DEF Sending
<1> QED
  BY <1>0, <1>1, <1>2, <1>3, <1>4, <1>7, CspGoes

LEMMA CcaClearStep ==
  ASSUME IInv, CcaClear
  PROVE  IInv'
<1>0. Unpacked(m, bg) /\ Shape(m) /\ Ranges(m) /\ bg' = bg /\ m.csp = "cca"
  BY Unpack DEF CcaClear, Machine
<1> DEFINE z == [m EXCEPT !.csp = "strobe"]
<1>1. m' = z
  BY DEF CcaClear
<1>2. Shape(z)
  BY <1>0 DEF Shape
<1>3. /\ z.csp = "strobe" /\ z.cspz = m.cspz /\ z.irq = m.irq /\ z.call = m.call
      /\ \A f \in Fields \ {"csp", "cspz", "irq", "call"} : z[f] = m[f]
  BY <1>0 DEF Shape, Fields
<1>4. /\ m.irq \in SUBSET Interrupts /\ m.call \in Call
      /\ m.cspz \in {"busy", "done", "timeout"}
  BY <1>0 DEF Ranges
<1> HIDE DEF z
<1>5. Sending(m, bg) /\ m.on
  BY <1>0 DEF Unpacked, Radio
<1>6. /\ m.tx = "go" /\ bg \notin Going /\ bg \notin {"prepare", "decide"}
      /\ m.cspz = "busy" /\ "stop" \notin m.irq /\ m.call.sent = 0
  BY <1>0, <1>5, OnItsWay
<1>7. ASSUME NEW y, y.tx = m.tx, y.nb = m.nb, y.mask = m.mask, y.sleep = m.sleep,
             y.newChannel = m.newChannel, y.fifo = m.fifo, y.csp = "strobe", y.cspz = m.cspz,
             y.irq = m.irq, y.call = m.call
      PROVE  Sending(y, bg)
  BY <1>5, <1>6, <1>7 DEF Sending
<1> QED
  BY <1>0, <1>1, <1>2, <1>3, <1>4, <1>5, <1>7, CspGoes

LEMMA AckTimeoutStep ==
  ASSUME IInv, AckTimeout
  PROVE  IInv'
<1>0. Unpacked(m, bg) /\ Shape(m) /\ Ranges(m) /\ bg' = bg /\ m.csp = "wait"
  BY Unpack DEF AckTimeout, Machine
<1> DEFINE irq == m.irq \cup {"stop"}
           z == [m EXCEPT !.csp = "idle", !.irq = irq]
<1>1. m' = z
  BY DEF AckTimeout
<1>2. Shape(z)
  BY <1>0 DEF Shape
<1>3. /\ z.csp = "idle" /\ z.cspz = m.cspz /\ z.irq = irq /\ z.call = m.call
      /\ \A f \in Fields \ {"csp", "cspz", "irq", "call"} : z[f] = m[f]
  BY <1>0 DEF Shape, Fields
<1>4. irq \in SUBSET Interrupts /\ m.call \in Call /\ m.cspz \in {"busy", "done", "timeout"}
  BY <1>0 DEF Ranges, Interrupts
<1> HIDE DEF z, irq
<1>5. Sending(m, bg) /\ m.tx = "listen"
  BY <1>0, OnItsWay DEF Unpacked
<1>7. ASSUME NEW y, y.tx = m.tx, y.nb = m.nb, y.mask = m.mask, y.sleep = m.sleep,
             y.newChannel = m.newChannel, y.fifo = m.fifo, y.csp = "idle", y.cspz = m.cspz,
             y.irq = irq, y.call = m.call
      PROVE  Sending(y, bg)
  BY <1>0, <1>5, <1>7 DEF Sending, Going
<1> QED
  BY <1>0, <1>1, <1>2, <1>3, <1>4, <1>7, CspGoes

LEMMA SentOnce ==
  ASSUME NEW c \in Call
  PROVE  LET d == [c EXCEPT !.sent = 1]
         IN /\ d \in Call /\ d.sent = 1 /\ d.open = c.open /\ d.acked = c.acked
            /\ d.twice = c.twice /\ d.status = c.status
BY DEF Call

LEMMA FrameStartsStep ==
  ASSUME IInv, FrameStarts
  PROVE  IInv'
<1>0. Unpacked(m, bg) /\ Shape(m) /\ Ranges(m) /\ bg' = bg /\ m.csp = "strobe"
  BY Unpack DEF FrameStarts, Machine
<1>a. Sending(m, bg) /\ Radio(m) /\ Told(m)
  BY <1>0 DEF Unpacked
<1>b. /\ m.tx = "go" /\ bg \notin Going /\ bg \notin {"prepare", "decide"}
      /\ m.cspz = "busy" /\ "stop" \notin m.irq /\ m.call.sent = 0
  BY <1>0, <1>a, OnItsWay
<1> DEFINE irq == m.irq \cup {"int"}
           call == [m.call EXCEPT !.sent = 1]
           z == [m EXCEPT !.csp = "air", !.irq = irq, !.call = call]
<1>1. m' = z
  BY <1>b, <1>0 DEF FrameStarts, Shape, Fields
<1>2. Shape(z)
  BY <1>0 DEF Shape
<1>3. /\ z.csp = "air" /\ z.cspz = m.cspz /\ z.irq = irq /\ z.call = call
      /\ \A f \in Fields \ {"csp", "cspz", "irq", "call"} : z[f] = m[f]
  BY <1>0 DEF Shape, Fields
<1>4. irq \in SUBSET Interrupts /\ m.cspz \in {"busy", "done", "timeout"} /\ m.call \in Call
  BY <1>0 DEF Ranges, Interrupts
<1>5. "stop" \notin irq
  BY <1>b
<1>6. /\ call \in Call /\ call.sent = 1 /\ call.open = m.call.open
      /\ call.acked = m.call.acked /\ call.twice = m.call.twice
      /\ call.status = m.call.status
  BY <1>4, SentOnce
<1>7. m.call.status = "none" /\ m.on
  BY <1>0, <1>a, <1>b DEF Told, Radio
<1> HIDE DEF z, irq, call
<1>8. ASSUME NEW y, y.tx = m.tx, y.nb = m.nb, y.mask = m.mask, y.sleep = m.sleep,
             y.newChannel = m.newChannel, y.fifo = m.fifo, y.csp = "air", y.cspz = m.cspz,
             y.irq = irq, y.call = call
      PROVE  Sending(y, bg)
  BY <1>a, <1>b, <1>5, <1>6, <1>8 DEF Sending
<1> QED
  BY <1>0, <1>1, <1>2, <1>3, <1>4, <1>6, <1>7, <1>8, CspGoes

(* When the frame is out and the interrupt of the receiver has been served, *)
(* no whole ACK is left in the FIFO.                                       *)
LEMMA NothingHeard ==
  ASSUME NEW s, NEW b, NEW a, Receiving(s, b), s.fifo \in Seq(Frame), Whole(s.fifo),
         s.got \in 0 .. 3, s.fifo = <<>> \/ ~ (Head(s.fifo).have > s.got)
  PROVE  Heard(s.fifo, a)
<1>1. CASE s.fifo = <<>>
  BY <1>1 DEF Heard
<1>2. CASE s.fifo # <<>>
  <2>1. Len(s.fifo) \in Nat \ {0} /\ 1 \in 1 .. Len(s.fifo)
    BY <1>2, EmptySeq
  <2>2. s.fifo[1] \in Frame /\ Head(s.fifo) = s.fifo[1]
    BY <1>2, <2>1, ElementOfSeq
  <2>3. s.fifo[1].have \in 1 .. 4
    BY <2>2, FrameKinds
  <2>4. s.fifo[1].have <= s.got
    BY <1>2, <2>2, <2>3
  <2>5. Len(s.fifo) = 1
    <3>1. s.fifo[1].have < 4
      BY <2>3, <2>4
    <3> QED
      BY <2>1, <3>1, Zenon DEF Whole
  <2>6. s.state # "start"
    BY <2>3, <2>4 DEF Receiving
  <2>7. s.fifo[1].kind = "data"
    BY <2>6 DEF Receiving
  <2> QED
    BY <2>5, <2>7 DEF Heard
<1> QED
  BY <1>1, <1>2

LEMMA FrameSentStep ==
  ASSUME IInv, FrameSent
  PROVE  IInv'
<1>0. /\ Unpacked(m, bg) /\ Shape(m) /\ Ranges(m) /\ Receiving(m, bg) /\ bg' = bg
      /\ m.csp = "air"
  BY Unpack DEF FrameSent, Machine
<1>a. Sending(m, bg) /\ Radio(m)
  BY <1>0 DEF Unpacked
<1>b. /\ m.tx = "go" /\ bg \notin Going /\ bg \notin {"prepare", "decide"}
      /\ m.call.sent = 1
  BY <1>0, <1>a, OnItsWay
<1> DEFINE irq == m.irq \cup {"stop"}
           z == [m EXCEPT !.csp = "idle", !.cspz = "done", !.irq = irq]
<1>1. m' = z
  BY DEF FrameSent
<1>2. Shape(z)
  BY <1>0 DEF Shape
<1>3. /\ z.csp = "idle" /\ z.cspz = "done" /\ z.irq = irq /\ z.call = m.call
      /\ \A f \in Fields \ {"csp", "cspz", "irq", "call"} : z[f] = m[f]
  BY <1>0 DEF Shape, Fields
<1>4. irq \in SUBSET Interrupts /\ m.call \in Call
  BY <1>0 DEF Ranges, Interrupts
<1> HIDE DEF z, irq
<1>5. Heard(m.fifo, m.call.acked)
  <2>1. m.fifo = <<>> \/ ~ (Head(m.fifo).have > m.got)
    BY DEF FrameSent, FIFOP
  <2>2. m.fifo \in Seq(Frame) /\ m.got \in 0 .. 3 /\ Whole(m.fifo)
    BY <1>0, <1>a DEF Ranges, Radio
  <2> QED
    BY <1>0, <2>1, <2>2, NothingHeard
<1>7. ASSUME NEW y, y.tx = m.tx, y.nb = m.nb, y.mask = m.mask, y.sleep = m.sleep,
             y.newChannel = m.newChannel, y.fifo = m.fifo, y.csp = "idle", y.cspz = "done",
             y.irq = irq, y.call = m.call
      PROVE  Sending(y, bg)
  BY <1>a, <1>b, <1>5, <1>7 DEF Sending
<1> QED
  BY <1>0, <1>1, <1>2, <1>3, <1>4, <1>7, CspGoes

(* A frame that begins behind frames that are whole.                       *)
LEMMA NewFrame ==
  ASSUME NEW q \in Seq(Frame), NEW f \in Frame, \A i \in DOMAIN q : ~ (q[i].have < 4)
  PROVE  LET r == Append(q, f)
         IN /\ r \in Seq(Frame) /\ Len(r) = Len(q) + 1 /\ Whole(r)
            /\ q # <<>> => r # <<>> /\ r[1].kind = q[1].kind
            /\ \A a : Heard(q, a) /\ (f.kind = "ack" /\ f.good /\ f.mine => a) => Heard(r, a)
<1> DEFINE r == Append(q, f)
<1>1. /\ r \in Seq(Frame) /\ Len(r) = Len(q) + 1 /\ Len(q) \in Nat
      /\ \A i \in 1 .. Len(q) : r[i] = q[i]
      /\ r[Len(q) + 1] = f
  BY AppendProperties
<1>2. DOMAIN q = 1 .. Len(q)
  OBVIOUS
<1> HIDE DEF r
<1>3. \A i \in 1 .. Len(r) : i \in 1 .. Len(q) \/ i = Len(q) + 1
  BY <1>1
<1>4. Whole(r)
  BY <1>1, <1>2, <1>3 DEF Whole
<1>5. ASSUME q # <<>>
      PROVE  r # <<>> /\ r[1].kind = q[1].kind
  <2>1. Len(q) # 0
    BY <1>5, EmptySeq
  <2>2. 1 \in 1 .. Len(q)
    BY <1>1, <2>1
  <2>3. r # <<>>
    BY <1>1, EmptySeq
  <2> QED
    BY <1>1, <2>2, <2>3
<1>6. ASSUME NEW a, Heard(q, a), f.kind = "ack" /\ f.good /\ f.mine => a
      PROVE  Heard(r, a)
  <2> SUFFICES ASSUME NEW i \in 1 .. Len(r), r[i].kind = "ack", r[i].good, r[i].mine
               PROVE  a
    BY DEF Heard
  <2>1. CASE i \in 1 .. Len(q)
    BY <1>1, <1>6, <2>1 DEF Heard
  <2>2. CASE i = Len(q) + 1
    BY <1>1, <1>6, <2>2
  <2> QED
    BY <1>3, <2>1, <2>2
<1> QED
  BY <1>1, <1>4, <1>5, <1>6 DEF r

LEMMA Acked ==
  ASSUME NEW c \in Call, NEW x \in BOOLEAN
  PROVE  LET d == [c EXCEPT !.acked = x]
         IN /\ d \in Call /\ d.sent = c.sent /\ d.open = c.open /\ d.acked = x
            /\ d.twice = c.twice /\ d.status = c.status
BY DEF Call

(* A frame is received into a FIFO with room, or with the FIFO full the    *)
(* overflow is signalled.                                                  *)
LEMMA FrameArrivesStep ==
  ASSUME IInv, NEW frame \in Frame, FrameArrives(frame)
  PROVE  IInv'
<1>0. /\ Unpacked(m, bg) /\ Machine(m) /\ Shape(m) /\ Ranges(m) /\ Receiving(m, bg)
      /\ ~ m.isr /\ ~ m.reset /\ bg \in Places /\ Good(m, bg) /\ bg' = bg
  BY Unpack DEF FrameArrives, Machine
<1>a. Sending(m, bg) /\ Radio(m) /\ Told(m) /\ Len(m.fifo) <= FifoFrames
  BY <1>0 DEF Unpacked
<1>b. m.hwOn /\ m.on /\ \A i \in DOMAIN m.fifo : ~ (m.fifo[i].have < 4)
  BY <1>a DEF FrameArrives, Quiet, Arriving, Radio
<1>c. /\ m.fifo \in Seq(Frame) /\ m.cspz \in {"busy", "done", "timeout"} /\ m.call \in Call
      /\ m.csp \in {"idle", "loaded", "cca", "strobe", "air", "hung", "wait"}
      /\ m.irq \in SUBSET Interrupts /\ m.acking \in BOOLEAN
  BY <1>0 DEF Ranges
<1>1. CASE Len(m.fifo) < FifoFrames
  <2> DEFINE new == frame.kind = "ack" /\ frame.good /\ frame.mine /\ m.call.open
                      /\ m.call.sent > 0
             acked == m.call.acked \/ new
             call == [m.call EXCEPT !.acked = acked]
             fifo == Append(m.fifo, frame)
             z == [m EXCEPT !.fifo = fifo, !.call = call]
             y == Air(m, fifo, m.csp, m.cspz, m.irq, m.acking, call)
  <2>1. m' = z
    BY <1>0, <1>1 DEF FrameArrives, Shape, Fields
  <2>2. /\ fifo \in Seq(Frame) /\ Len(fifo) = Len(m.fifo) + 1 /\ Whole(fifo)
        /\ (m.fifo # <<>> => fifo # <<>> /\ fifo[1].kind = m.fifo[1].kind)
        /\ \A x : Heard(m.fifo, x) /\ (frame.kind = "ack" /\ frame.good /\ frame.mine => x)
                    => Heard(fifo, x)
    BY <1>b, <1>c, NewFrame
  <2>3. acked \in BOOLEAN /\ (m.call.acked => acked) /\ (new => acked)
    BY <1>c DEF Call
  <2>4. /\ call \in Call /\ call.sent = m.call.sent /\ call.open = m.call.open
        /\ call.acked = acked /\ call.twice = m.call.twice /\ call.status = m.call.status
    <3> HIDE DEF acked
    <3> QED
      BY <1>c, <2>3, Acked
  <2>5. m.tx \in {"go", "listen"} /\ m.call.sent = 1 /\ Heard(m.fifo, m.call.acked)
          => Heard(fifo, acked)
    <3> SUFFICES ASSUME m.tx \in {"go", "listen"}, m.call.sent = 1,
                        Heard(m.fifo, m.call.acked)
                 PROVE  Heard(fifo, acked)
      OBVIOUS
    <3>1. m.call.open
      BY <1>a DEF Told
    <3>2. frame.kind = "ack" /\ frame.good /\ frame.mine => acked
      BY <3>1, <2>3
    <3>3. Heard(m.fifo, acked)
      BY <2>3 DEF Heard
    <3> HIDE DEF acked, fifo
    <3> QED
      BY <2>2, <3>2, <3>3
  <2>6. Len(fifo) <= FifoFrames
    BY <1>1, <1>c, <2>2, MacAssumption
  <2> HIDE DEF acked, call, fifo
  <2>7. Shape(z)
    BY <1>0 DEF Shape
  <2>8. /\ z.fifo = fifo /\ z.csp = m.csp /\ z.cspz = m.cspz /\ z.irq = m.irq
        /\ z.acking = m.acking /\ z.call = call
        /\ \A f \in Fields \ {"fifo", "csp", "cspz", "irq", "acking", "call"} : z[f] = m[f]
    BY <1>0 DEF Shape, Fields
  <2> HIDE DEF z
  <2>9. z = y
    BY <1>0, <2>7, <2>8, AirEqual
  <2>10. /\ y.tx = m.tx /\ y.nb = m.nb /\ y.mask = m.mask /\ y.sleep = m.sleep
         /\ y.newChannel = m.newChannel /\ y.fifo = fifo /\ y.csp = m.csp
         /\ y.cspz = m.cspz /\ y.irq = m.irq /\ y.call = call
    BY <1>0, <1>c, <2>2, <2>4, AirFacts
  <2> HIDE DEF y
  <2>11. Sending(y, bg)
    <3>1. Heard(m.fifo, m.call.acked) /\ m.tx \in {"go", "listen"} /\ m.call.sent = 1
            => Heard(y.fifo, y.call.acked)
      BY <2>4, <2>5, <2>10
    <3> QED
      BY <1>a, <2>4, <2>10, <3>1, SendingAlike
  <2>12. m.csp # "hung"
    BY <1>a DEF Radio
  <2>13. m' = Air(m, fifo, m.csp, m.cspz, m.irq, m.acking, call)
    BY <2>1, <2>9 DEF y
  <2>14. Sending(m', bg)
    BY <2>1, <2>9, <2>11
  <2>15. m.call.acked => call.acked
    BY <2>3, <2>4
  <2> QED
    BY <1>0, <1>b, <1>c, <2>2, <2>4, <2>6, <2>12, <2>13, <2>14, <2>15, AirStep
<1>2. CASE ~ (Len(m.fifo) < FifoFrames)
  <2> DEFINE y == [m EXCEPT !.overflow = TRUE, !.rferr = TRUE]
  <2>1. m' = y
    BY <1>2 DEF FrameArrives
  <2>2. Shape(y)
    BY <1>0 DEF Shape
  <2>3. Ranges(y)
    BY <1>0 DEF Shape, Ranges, Fields
  <2>4. /\ SameTx(m, y) /\ SameRx(m, y) /\ SameRest(m, y) /\ SameRadio(m, y)
        /\ y.csp = m.csp /\ y.mask = m.mask /\ y.newPower = m.newPower
    BY <1>0 DEF Shape, Fields, SameTx, SameRx, SameRest, SameRadio
  <2> HIDE DEF y
  <2>5. Good(y, bg)
    BY <1>0, <2>2, <2>3, <2>4, GoodAlike DEF SameRx
  <2>6. Receiving(y, bg) /\ ~ y.isr /\ ~ y.reset
    BY <1>0, <2>4 DEF Receiving, SameRx, SameRadio
  <2> QED
    BY <1>0, <2>1, <2>5, <2>6 DEF IInv
<1> QED
  BY <1>1, <1>2

LEMMA ArrivesStep ==
  ASSUME IInv, DataArrives \/ AckArrives
  PROVE  IInv'
<1>1. ASSUME NEW req \in BOOLEAN, NEW good \in BOOLEAN
      PROVE  [kind |-> "data", req |-> req, good |-> good, nack |-> FALSE, have |-> 1] \in Frame
  BY DEF Frame, DataFrame
<1>2. ASSUME NEW mine \in BOOLEAN, NEW good \in BOOLEAN
      PROVE  [kind |-> "ack", mine |-> mine, good |-> good, have |-> 4] \in Frame
  BY DEF Frame, AckFrame
<1>3. PICK frame \in Frame : FrameArrives(frame)
  BY <1>1, <1>2 DEF DataArrives, AckArrives
<1> QED
  BY <1>3, FrameArrivesStep

(* Another piece of the frame that is arriving.                            *)
LEMMA MoreBytes ==
  ASSUME NEW q \in Seq(Frame), Whole(q), NEW i \in DOMAIN q, q[i].have < 4
  PROVE  LET r == [q EXCEPT ![i].have = @ + 1]
         IN /\ r \in Seq(Frame) /\ Len(r) = Len(q) /\ Whole(r)
            /\ q # <<>> /\ r # <<>> /\ r[1].kind = q[1].kind
            /\ q[i].req \in BOOLEAN /\ q[i].good \in BOOLEAN /\ q[i].nack \in BOOLEAN
            /\ \A a : Heard(q, a) => Heard(r, a)
<1> DEFINE f == [q[i] EXCEPT !.have = @ + 1]
           r == [q EXCEPT ![i] = f]
<1>1. Len(q) \in Nat /\ DOMAIN q = 1 .. Len(q) /\ i \in 1 .. Len(q)
  OBVIOUS
<1>2. q[i] \in Frame
  BY <1>1, ElementOfSeq
<1>3. q[i] \in DataFrame
  BY <1>2 DEF Frame, AckFrame
<1>4. f \in DataFrame /\ f.kind = "data" /\ q[i].kind = "data"
  BY <1>3 DEF DataFrame
<1>5. f \in Frame
  BY <1>4 DEF Frame
<1>6. q[i].req \in BOOLEAN /\ q[i].good \in BOOLEAN /\ q[i].nack \in BOOLEAN
  BY <1>3 DEF DataFrame
<1>7. i = Len(q)
  BY <1>1 DEF Whole
<1> HIDE DEF f
<1>8. /\ r \in Seq(Frame) /\ Len(r) = Len(q)
      /\ \A j \in 1 .. Len(q) : r[j] = IF j = i THEN f ELSE q[j]
  BY <1>1, <1>5, ExceptSeq
<1> HIDE DEF r
<1>9. q # <<>> /\ r # <<>> /\ 1 \in 1 .. Len(q)
  <2>1. Len(q) # 0 /\ 1 \in 1 .. Len(q)
    BY <1>1
  <2> QED
    BY <1>8, <2>1, EmptySeq
<1>10. r[1].kind = q[1].kind
  BY <1>4, <1>8, <1>9
<1>11. Whole(r)
  <2> SUFFICES ASSUME NEW j \in 1 .. Len(q), r[j].have < 4
               PROVE  j = Len(q)
    BY <1>8 DEF Whole
  <2>1. CASE j = i
    BY <1>7, <2>1
  <2>2. CASE j # i
    BY <1>8, <2>2 DEF Whole
  <2> QED
    BY <2>1, <2>2
<1>12. \A a : Heard(q, a) => Heard(r, a)
  <2> SUFFICES ASSUME NEW a, Heard(q, a), NEW j \in 1 .. Len(q), r[j].kind = "ack",
                      r[j].good, r[j].mine
               PROVE  a
    BY <1>8 DEF Heard
  <2>1. r[j] = q[j]
    BY <1>4, <1>8
  <2> QED
    BY <2>1 DEF Heard
<1> QED
  BY <1>6, <1>8, <1>9, <1>10, <1>11, <1>12 DEF r, f

LEMMA BytesArriveStep ==
  ASSUME IInv, BytesArrive
  PROVE  IInv'
<1>0. /\ Unpacked(m, bg) /\ Machine(m) /\ Shape(m) /\ Ranges(m) /\ bg' = bg
  BY Unpack DEF BytesArrive, Machine
<1>a. Sending(m, bg) /\ Radio(m) /\ Len(m.fifo) <= FifoFrames
  BY <1>0 DEF Unpacked
<1>b. m.hwOn /\ m.on
  BY <1>a DEF BytesArrive, Radio
<1>c. /\ m.fifo \in Seq(Frame) /\ m.cspz \in {"busy", "done", "timeout"} /\ m.call \in Call
      /\ m.csp \in {"idle", "loaded", "cca", "strobe", "air", "hung", "wait"}
      /\ m.irq \in SUBSET Interrupts
  BY <1>0 DEF Ranges
<1>1. PICK i \in DOMAIN m.fifo :
        LET f == m.fifo[i]
        IN /\ f.have < 4
           /\ m' = [m EXCEPT !.fifo[i].have = @ + 1,
                             !.acking = f.have = 3 /\ f.req /\ f.good /\ ~ f.nack]
  BY DEF BytesArrive
<1> DEFINE fifo == [m.fifo EXCEPT ![i].have = @ + 1]
           acking == m.fifo[i].have = 3 /\ m.fifo[i].req /\ m.fifo[i].good /\ ~ m.fifo[i].nack
           z == [m EXCEPT !.fifo = fifo, !.acking = acking]
           y == Air(m, fifo, m.csp, m.cspz, m.irq, acking, m.call)
<1>2. m' = z
  BY <1>0, <1>1 DEF Shape, Fields
<1>3. /\ fifo \in Seq(Frame) /\ Len(fifo) = Len(m.fifo) /\ Whole(fifo)
      /\ m.fifo # <<>> /\ fifo # <<>> /\ fifo[1].kind = m.fifo[1].kind
      /\ \A a : Heard(m.fifo, a) => Heard(fifo, a)
  BY <1>a, <1>c, <1>1, MoreBytes DEF Radio
<1>4. acking \in BOOLEAN
  OBVIOUS
<1> HIDE DEF fifo, acking
<1>5. Shape(z)
  BY <1>0 DEF Shape
<1>6. /\ z.fifo = fifo /\ z.csp = m.csp /\ z.cspz = m.cspz /\ z.irq = m.irq
      /\ z.acking = acking /\ z.call = m.call
      /\ \A f \in Fields \ {"fifo", "csp", "cspz", "irq", "acking", "call"} : z[f] = m[f]
  BY <1>0 DEF Shape, Fields
<1> HIDE DEF z
<1>7. z = y
  BY <1>0, <1>5, <1>6, AirEqual
<1>8. /\ y.tx = m.tx /\ y.nb = m.nb /\ y.mask = m.mask /\ y.sleep = m.sleep
      /\ y.newChannel = m.newChannel /\ y.fifo = fifo /\ y.csp = m.csp
      /\ y.cspz = m.cspz /\ y.irq = m.irq /\ y.call = m.call
  BY <1>0, <1>c, <1>3, <1>4, AirFacts
<1> HIDE DEF y
<1>9. Sending(y, bg)
  BY <1>a, <1>3, <1>8, SendingAlike
<1>10. m' = Air(m, fifo, m.csp, m.cspz, m.irq, acking, m.call)
  BY <1>2, <1>7 DEF y
<1>11. Sending(m', bg)
  BY <1>2, <1>7, <1>9
<1>12. m.csp # "hung" /\ Len(fifo) <= FifoFrames
  BY <1>a, <1>3 DEF Radio
<1> QED
  BY <1>0, <1>b, <1>c, <1>3, <1>4, <1>10, <1>11, <1>12, AirStep

-----------------------------------------------------------------------------
(* The specification.                                                      *)
LEMMA InitHolds ==
  ASSUME Init
  PROVE  IInv
<1>1. Shape(m)
  BY DEF Init, Shape, Fields
<1>2. /\ m.tx = "no" /\ m.ackReq = FALSE /\ m.retransmit = FALSE /\ m.nb = 0
      /\ m.rx = "no" /\ m.ackFlag = FALSE /\ m.state = "start" /\ m.got = 0 /\ m.buf = FALSE
      /\ m.isr = FALSE /\ m.reset = FALSE /\ m.on = FALSE /\ m.enable = {}
      /\ m.filter = FALSE /\ m.sleep = "awake" /\ m.newChannel = FALSE
      /\ m.newPower = FALSE /\ m.hwOn = FALSE /\ m.overflow = FALSE /\ m.rferr = FALSE
      /\ m.acking = FALSE /\ m.fifo = <<>> /\ m.csp = "idle" /\ m.cspz = "busy"
      /\ m.irq = {} /\ m.mask = {} /\ m.failed = FALSE /\ m.cut = FALSE
      /\ m.call = [open |-> FALSE, sent |-> 0, acked |-> FALSE, twice |-> FALSE,
                   status |-> "none"]
  BY DEF Init
<1>3. bg = "idle"
  BY DEF Init
<1>4. m.call \in Call /\ ~ m.call.open /\ ~ m.call.twice /\ m.call.status = "none"
  BY <1>2 DEF Call
<1>5. Ranges(m)
  <2>1. 0 \in 0 .. MaxBackoffs + 1 /\ 0 \in 0 .. 3
    BY MacAssumption
  <2>2. {} \in SUBSET Flags /\ {} \in SUBSET Interrupts /\ <<>> \in Seq(Frame)
    OBVIOUS
  <2>3. /\ m.nb \in 0 .. MaxBackoffs + 1 /\ m.got \in 0 .. 3 /\ m.enable \in SUBSET Flags
        /\ m.irq \in SUBSET Interrupts /\ m.mask \in SUBSET Interrupts
        /\ m.fifo \in Seq(Frame)
    BY <1>2, <2>1, <2>2, Zenon
  <2> QED
    BY <1>2, <1>4, <2>3 DEF Ranges
<1>6. Radio(m) /\ Len(m.fifo) <= FifoFrames
  BY <1>2, MacAssumption DEF Radio, Whole
<1>7. Sending(m, bg)
  BY <1>2, <1>3 DEF Sending, Going
<1>8. Kept(m, bg) /\ Drowsy(m, bg) /\ Told(m)
  BY <1>2, <1>4 DEF Kept, Drowsy, Told, StatusFits
<1>9. Receiving(m, bg) /\ ~ m.isr /\ ~ m.reset
  BY <1>2 DEF Receiving
<1> QED
  BY <1>1, <1>2, <1>3, <1>5, <1>6, <1>7, <1>8, <1>9
  DEF IInv, Good, Sane, IsMac, Places

LEMMA StutterStep ==
  ASSUME IInv, UNCHANGED vars
  PROVE  IInv'
<1>1. m' = m /\ bg' = bg
  BY DEF vars
<1> QED
  BY <1>1 DEF IInv

LEMMA InterruptStep ==
  ASSUME IInv, Interrupt
  PROVE  IInv'
BY CspIntStep, CspStopStep, AckDoneStep, ThresholdStep, OverflowStep DEF Interrupt

LEMMA ContinueStep ==
  ASSUME IInv, Continue
  PROVE  IInv'
BY TxPrepareStep, TxDecideStep, TxGoCancelStep, TxGoClearStep, TxGoStartStep,
   RxDisableOffStep, WakeUpRxOnStep
DEF Continue

LEMMA TransmitterStep ==
  ASSUME IInv, Transmitter
  PROVE  IInv'
BY CcaBusyStep, CcaClearStep, FrameStartsStep, FrameSentStep, AckTimeoutStep DEF Transmitter

LEMMA NextStep ==
  ASSUME IInv, Next
  PROVE  IInv'
<1>1. CASE Interrupt
  BY <1>1, InterruptStep
<1>2. CASE Continue
  BY <1>2, ContinueStep
<1>3. CASE Transmitter
  BY <1>3, TransmitterStep
<1>4. CASE macTxFrame \/ macTxFrameRetransmit
  BY <1>4, TxFrameStep
<1>5. ASSUME NEW f \in Flags, macRxEnable(f) \/ macRxSoftEnable(f) \/ macRxDisable(f)
      PROVE  IInv'
  BY <1>5, RxEnableStep, RxSoftEnableStep, RxDisableStep
<1>6. CASE macRadioSetChannel
  BY <1>6, SetChannelStep
<1>7. CASE macRadioSetTxPower
  BY <1>7, SetTxPowerStep
<1>8. CASE macRadioStartScan \/ macRadioStopScan
  BY <1>8, ScanStep
<1>9. ASSUME NEW state \in {"osc_off", "radio_off"}, macSleep(state)
      PROVE  IInv'
  BY <1>9, SleepStep
<1>10. CASE macSleepWakeUp
  BY <1>10, WakeUpStep
<1>11. CASE macLowLevelReset
  BY <1>11, ResetStep
<1>12. CASE DataArrives \/ AckArrives
  BY <1>12, ArrivesStep
<1>13. CASE BytesArrive
  BY <1>13, BytesArriveStep
<1>14. CASE AckSent
  BY <1>14, AckSentStep
<1> QED
  BY <1>1, <1>2, <1>3, <1>4, <1>5, <1>6, <1>7, <1>8, <1>9, <1>10, <1>11, <1>12, <1>13, <1>14
  DEF Next

(* IInv holds in every state that can be reached, for every number of      *)
(* backoffs, size of the FIFO and set of reasons to keep the receiver on.  *)
THEOREM Inductive == Spec => []IInv
<1>1. Init => IInv
  BY InitHolds
<1>2. IInv /\ [Next]_vars => IInv'
  BY NextStep, StutterStep
<1> QED
  BY <1>1, <1>2, PTL DEF Spec

LEMMA TypesFollow == IInv => TypeOK
<1> SUFFICES ASSUME IInv
             PROVE  TypeOK
  OBVIOUS
<1>1. /\ Ranges(m) /\ Sending(m, bg) /\ Receiving(m, bg) /\ ~ m.isr /\ ~ m.reset
      /\ Len(m.fifo) <= FifoFrames /\ bg \in Places
  BY DEF IInv, Good, Sane, IsMac
<1>2. m.tx \in {"no", "init", "queued", "go", "listen"}
  BY <1>1 DEF Sending
<1>3. m.rx \in {"no", "started"}
  BY <1>1 DEF Receiving
<1>4. m.fifo \in Seq(DataFrame \cup AckFrame)
  BY <1>1 DEF Ranges, Frame
<1> QED
  BY <1>1, <1>2, <1>3, <1>4 DEF TypeOK, Ranges, Places

(* The variables of the low-level MAC and the registers of the radio keep  *)
(* their ranges: in particular no state between two steps has a transmit   *)
(* that is half finished or a clean-up that was put off and forgotten.     *)
THEOREM TypeCorrect == Spec => []TypeOK
BY Inductive, TypesFollow, PTL

LEMMA AssertsFollow == IInv => NoAssertFails
BY DEF IInv, Good, Sane, NoAssertFails

(* No assertion of the code fails: no receive is begun on top of another,  *)
(* no transmit on top of another or in the middle of a receive, no channel *)
(* is changed during a transmit, no program is loaded over one that runs.  *)
THEOREM AssertionsHold == Spec => []NoAssertFails
BY Inductive, AssertsFollow, PTL

LEMMA ReceiveStateFollows == IInv => ReceiveStateCoherent
BY DEF IInv, Receiving, ReceiveStateCoherent

(* The handler that waits for the next piece of a frame fits what the      *)
(* receiver holds, whatever interrupts came in between.                    *)
THEOREM ReceiveStateFits == Spec => []ReceiveStateCoherent
BY Inductive, ReceiveStateFollows, PTL

LEMMA NothingForgottenFollows == IInv => NothingForgotten
BY DEF IInv, Good, Sane, Radio, Sending, Kept, NothingForgotten

(* What is put off is always done: a queued transmit, the receiver to be   *)
(* turned off, a new power and a new channel each have somebody who will   *)
(* see to them.                                                            *)
THEOREM PutOffIsRemembered == Spec => []NothingForgotten
BY Inductive, NothingForgottenFollows, PTL

LEMMA StatusFollows == IInv => StatusTrue
BY DEF IInv, Good, Told, StatusFits, StatusTrue

(* The status that the high-level MAC is given for a transmit is true, and *)
(* it is given once.                                                       *)
THEOREM StatusIsTrue == Spec => []StatusTrue
BY Inductive, StatusFollows, PTL

LEMMA NotCutFollows == IInv => FrameNotCut
BY DEF IInv, Good, Sane, FrameNotCut

(* Turning the receiver off never cuts off a frame that is on the air.     *)
THEOREM NoFrameIsCut == Spec => []FrameNotCut
BY Inductive, NotCutFollows, PTL
=============================================================================
