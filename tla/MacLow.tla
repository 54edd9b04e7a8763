-------------------------------- MODULE MacLow --------------------------------
(***************************************************************************)
(* The low-level MAC of src/Components/mac/low_level/srf04: transmitting   *)
(* with CSMA (mac_tx.c and the programs of single_chip/mac_csp_tx.c),      *)
(* receiving out of the radio's FIFO (mac_rx.c), and keeping the receiver  *)
(* on no longer than needed (mac_rx_onoff.c, mac_sleep.c, mac_radio.c).    *)
(*                                                                         *)
(* Three parties share the record m.  The background code calls the        *)
(* functions; an interrupt can come between any two of its critical        *)
(* sections and is served before the next.  The RF interrupts (mac_mcu.c)  *)
(* run to their end before anything else runs, so a handler is one step,   *)
(* written as the composition of the functions it calls.  The radio and    *)
(* its command strobe processor (CSP) go on by themselves.                 *)
(***************************************************************************)
EXTENDS Naturals, Sequences

CONSTANTS
  Flags,          \* reasons to keep the receiver on (MAC_RX_... flags)
  MaxBackoffs,    \* macPib.maxCsmaBackoffs
  FifoFrames      \* bound: frames the receive FIFO holds

ASSUME MacAssumption == MaxBackoffs \in Nat /\ FifoFrames \in Nat \ {0}

VARIABLES
  m,    \* the variables of the low-level MAC and the registers of the radio
  bg    \* where the background code is: idle or inside a function

vars == <<m, bg>>

(* A frame in the receive FIFO: have counts the pieces that have arrived   *)
(* (header, addresses, payload, FCS; an ACK is one piece).  mine: an ACK   *)
(* with the sequence number of the frame last sent.                        *)
DataFrame == [kind : {"data"}, req : BOOLEAN, good : BOOLEAN,
              nack : BOOLEAN, have : 1 .. 4]
AckFrame  == [kind : {"ack"}, mine : BOOLEAN, good : BOOLEAN, have : {4}]

Interrupts == {"int", "stop", "ackdone"}

(* History: the last macTxFrame, how often its frame went out, whether its *)
(* ACK came in, and the status macTxCompleteCallback was given.            *)
Call == [open : BOOLEAN, sent : 0 .. 2, acked : BOOLEAN, twice : BOOLEAN,
         status : {"none", "success", "no_ack", "no_access", "aborted"}]

(* The variables of the code, the registers of the radio and the history   *)
(* keep their ranges between two steps.                                    *)
TypeOK ==
  /\ m.tx \in {"no", "init", "queued", "go", "listen"}
  /\ m.ackReq \in BOOLEAN /\ m.retransmit \in BOOLEAN
  /\ m.nb \in 0 .. MaxBackoffs + 1
  /\ m.rx \in {"no", "started"} /\ m.ackFlag \in BOOLEAN
  /\ m.state \in {"start", "addr", "payload", "fcs", "discard"}
  /\ m.got \in 0 .. 3 /\ m.buf \in BOOLEAN
  /\ ~ m.isr /\ ~ m.reset
  /\ m.on \in BOOLEAN /\ m.enable \subseteq Flags /\ m.filter \in BOOLEAN
  /\ m.sleep \in {"awake", "osc_off", "radio_off"}
  /\ m.newChannel \in BOOLEAN /\ m.newPower \in BOOLEAN
  /\ m.hwOn \in BOOLEAN /\ m.overflow \in BOOLEAN /\ m.rferr \in BOOLEAN
  /\ m.acking \in BOOLEAN
  /\ m.fifo \in Seq(DataFrame \cup AckFrame) /\ Len(m.fifo) <= FifoFrames
  /\ m.csp \in {"idle", "loaded", "cca", "strobe", "air", "hung", "wait"}
  /\ m.cspz \in {"busy", "done", "timeout"}
  /\ m.irq \subseteq Interrupts /\ m.mask \subseteq Interrupts
  /\ m.failed \in BOOLEAN /\ m.cut \in BOOLEAN /\ m.call \in Call
  /\ bg \in {"idle", "prepare", "decide", "cancel", "clear", "go", "off", "wake"}

(* After macLowLevelInit and macLowLevelReset.  The last three fields are  *)
(* history: an assertion of the code failed, a transmit was cut off on the *)
(* air, the last call.                                                     *)
Init ==
  /\ m = [tx |-> "no", ackReq |-> FALSE, retransmit |-> FALSE, nb |-> 0,
          rx |-> "no", ackFlag |-> FALSE, state |-> "start", got |-> 0, buf |-> FALSE,
          isr |-> FALSE, reset |-> FALSE,
          on |-> FALSE, enable |-> {}, filter |-> FALSE, sleep |-> "awake",
          newChannel |-> FALSE, newPower |-> FALSE,
          hwOn |-> FALSE, overflow |-> FALSE, rferr |-> FALSE, acking |-> FALSE,
          fifo |-> <<>>, csp |-> "idle", cspz |-> "busy", irq |-> {}, mask |-> {},
          failed |-> FALSE, cut |-> FALSE,
          call |-> [open |-> FALSE, sent |-> 0, acked |-> FALSE, twice |-> FALSE,
                    status |-> "none"]]
  /\ bg = "idle"

(* MAC_ASSERT.                                                             *)
Assert(s, ok) == [s EXCEPT !.failed = @ \/ ~ ok]

-----------------------------------------------------------------------------
(* The receiver on and off.                                                *)

(* SRFOFF and SFLUSHRX: a transmit on the air ends there and then, one     *)
(* that has not begun never begins.                                        *)
StrobeOff(s) ==
  [s EXCEPT !.hwOn = FALSE, !.fifo = <<>>, !.overflow = FALSE, !.acking = FALSE,
            !.cut = @ \/ s.csp \in {"strobe", "air"},
            !.csp = IF @ = "strobe" THEN "hung" ELSE @]

FlushRxFifo(s) == [s EXCEPT !.fifo = <<>>, !.overflow = FALSE]

RxPhysicallyActive(s) == s.rx = "started" \/ s.ackFlag
TxPhysicallyActive(s) == s.tx \in {"go", "done", "listen", "post"}

macRxOn(s) == IF s.on THEN s ELSE [s EXCEPT !.on = TRUE, !.hwOn = TRUE]

macRxOff(s) == IF s.on THEN StrobeOff([s EXCEPT !.on = FALSE]) ELSE s

macRxOnRequest(s) == IF s.enable # {} THEN macRxOn(s) ELSE s

(* Mutant of macRxOffRequest: the transmit is not looked at.               *)
macRxOffRequest_RxOnly(s) ==
  IF s.enable = {} /\ ~ RxPhysicallyActive(s) THEN macRxOff(s) ELSE s

macRxOffRequest(s) ==
  IF s.enable = {} /\ ~ RxPhysicallyActive(s) /\ ~ TxPhysicallyActive(s)
  THEN macRxOff(s) ELSE s

(* A new power waits for the transmit or the outgoing ACK to end.          *)
macRadioUpdateTxPower(s) ==
  IF s.ackFlag \/ TxPhysicallyActive(s) THEN s ELSE [s EXCEPT !.newPower = FALSE]

-----------------------------------------------------------------------------
(* Starting a transmit.                                                    *)

(* cspPrepForTxProgram and the load of the CSMA program.                   *)
txCsmaPrep(s) ==
  [Assert(s, "stop" \notin s.mask) EXCEPT
     !.cspz = "busy", !.csp = "loaded", !.irq = @ \ {"stop", "int"}]

macCspTxGoCsma(s) ==
  [macRxOn([s EXCEPT !.mask = @ \cup {"stop", "int"}]) EXCEPT !.csp = "cca"]

(* An ACK that may be going out is of no interest any more.                *)
txGo(s) == macCspTxGoCsma([s EXCEPT !.mask = @ \ {"ackdone"}, !.ackFlag = FALSE])

(* Mutant of macTxStartQueuedFrame: the queued frame is left where it is.  *)
macTxStartQueuedFrame_Never(s) == Assert(s, s.rx = "no" /\ ~ s.ackFlag)

macTxStartQueuedFrame(s) ==
  LET t == Assert(s, s.rx = "no" /\ ~ s.ackFlag)
  IN IF t.tx = "queued" THEN txGo([t EXCEPT !.tx = "go"]) ELSE t

-----------------------------------------------------------------------------
(* The end of a receive.                                                   *)

rxPostRxUpdates(s) ==
  macTxStartQueuedFrame(macRadioUpdateTxPower(macRxOffRequest(s)))

(* Mutant of rxHaltCleanupFinalStep: the receive state is not set back.    *)
rxHaltCleanupFinalStep_KeepState(s) ==
  LET t == [FlushRxFifo(s) EXCEPT !.mask = @ \ {"ackdone"}, !.buf = FALSE, !.got = 0]
  IN IF t.rx # "no" \/ t.ackFlag
     THEN rxPostRxUpdates([t EXCEPT !.rx = "no", !.ackFlag = FALSE])
     ELSE t

rxHaltCleanupFinalStep(s) ==
  LET t == [FlushRxFifo(s) EXCEPT !.mask = @ \ {"ackdone"}, !.buf = FALSE,
                                  !.state = "start", !.got = 0]
  IN IF t.rx # "no" \/ t.ackFlag
     THEN rxPostRxUpdates([t EXCEPT !.rx = "no", !.ackFlag = FALSE])
     ELSE t

(* In the middle of the receive interrupt the clean-up is put off to its   *)
(* end (macRxThresholdIsr).                                                *)
macRxHaltCleanup(s) ==
  IF s.isr THEN [s EXCEPT !.reset = TRUE] ELSE rxHaltCleanupFinalStep(s)

(* A new channel stops the receive in progress.                            *)
macRadioUpdateChannel(s) ==
  LET t == Assert(s, s.tx = "no")
  IN IF t.newChannel
     THEN macRxOnRequest(macRxHaltCleanup(macRxOff([t EXCEPT !.newChannel = FALSE])))
     ELSE t

(* Nothing is left in the FIFO of the frame just read.                     *)
FrameRead(s) ==
  [s EXCEPT !.state = "start", !.got = 0,
            !.fifo = IF @ = <<>> THEN @ ELSE Tail(@)]

(* Mutant of rxDone: the updates do not wait for the outgoing ACK.         *)
rxDone_NoWait(s) ==
  rxPostRxUpdates([(IF s.overflow THEN FlushRxFifo(s) ELSE s) EXCEPT !.rx = "no"])

rxDone(s) ==
  LET t == [(IF s.overflow THEN FlushRxFifo(s) ELSE s) EXCEPT !.rx = "no"]
  IN IF t.ackFlag THEN t ELSE rxPostRxUpdates(t)

-----------------------------------------------------------------------------
(* The end of a transmit.                                                  *)

txComplete(s, status) ==
  LET t == macRadioUpdateChannel(macRadioUpdateTxPower(macRxOffRequest(
             [s EXCEPT !.retransmit = FALSE, !.tx = "no"])))
  IN [t EXCEPT !.call.open = FALSE, !.call.status = status,
               !.call.twice = @ \/ ~ t.call.open]

(* The next backoff starts with the receiver off, if nothing needs it.     *)
macTxChannelBusyCallback(s) ==
  LET t == macRxOffRequest([s EXCEPT !.tx = "busy"])
  IN IF t.nb + 1 > MaxBackoffs
     THEN txComplete([t EXCEPT !.nb = @ + 1], "no_access")
     ELSE macCspTxGoCsma([txCsmaPrep([t EXCEPT !.nb = @ + 1]) EXCEPT !.tx = "go"])

macCspTxRequestAckTimeoutCallback(s) ==
  [Assert(s, "stop" \notin s.mask) EXCEPT
     !.cspz = "timeout", !.csp = "wait", !.irq = @ \ {"stop"}, !.mask = @ \cup {"stop"}]

(* Stopping the CSP raises the flag of the interrupt just masked.          *)
macCspTxCancelAckTimeoutCallback(s) ==
  [s EXCEPT !.mask = @ \ {"stop"}, !.csp = "idle", !.irq = @ \cup {"stop"}]

macTxDoneCallback(s) ==
  IF s.tx # "go" THEN s
  ELSE IF s.ackReq
       THEN macCspTxRequestAckTimeoutCallback([s EXCEPT !.tx = "listen"])
       ELSE txComplete([s EXCEPT !.tx = "done"], "success")

(* Mutant of macTxAckReceivedCallback: any sequence number will do.        *)
macTxAckReceivedCallback_AnySeq(s, mine) ==
  IF s.tx # "listen" THEN s
  ELSE txComplete(macCspTxCancelAckTimeoutCallback([s EXCEPT !.tx = "post"]), "success")

macTxAckReceivedCallback(s, mine) ==
  IF s.tx # "listen" THEN s
  ELSE txComplete(macCspTxCancelAckTimeoutCallback([s EXCEPT !.tx = "post"]),
                  IF mine THEN "success" ELSE "no_ack")

macTxAckNotReceivedCallback(s) ==
  IF s.tx # "listen" THEN s
  ELSE txComplete(macCspTxCancelAckTimeoutCallback([s EXCEPT !.tx = "post"]), "no_ack")

-----------------------------------------------------------------------------
(* The interrupts of the CSP and of the outgoing ACK (macMcuRfIsr).        *)

macCspTxIntIsr(s) == [s EXCEPT !.mask = @ \ {"int"}]

macCspTxStopIsr(s) ==
  LET t == [s EXCEPT !.mask = @ \ {"stop"}]
  IN CASE t.cspz = "done"    -> macTxDoneCallback(t)
       [] t.cspz = "busy"    -> macTxChannelBusyCallback(t)
       [] t.cspz = "timeout" -> macTxAckNotReceivedCallback(t)

(* A transmit whose end has not been served yet is served before a receive *)
(* begins.                                                                 *)
macCspForceTxDoneIfPending(s) ==
  IF s.cspz = "done" /\ "stop" \in s.mask
  THEN LET t == [s EXCEPT !.mask = @ \ {"stop"}]
       IN macTxDoneCallback(IF "int" \in t.mask THEN macCspTxIntIsr(t) ELSE t)
  ELSE s

macRxAckTxDoneCallback(s) ==
  LET t == [s EXCEPT !.ackFlag = FALSE]
  IN IF t.rx = "no" THEN rxPostRxUpdates(t) ELSE t

Raised(i) == i \in m.irq /\ i \in m.mask

IsrCspInt ==
  /\ Raised("int")
  /\ m' = macCspTxIntIsr([m EXCEPT !.irq = @ \ {"int"}])
  /\ UNCHANGED bg

IsrCspStop ==
  /\ Raised("stop") /\ ~ Raised("int")
  /\ m' = macCspTxStopIsr([m EXCEPT !.irq = @ \ {"stop"}])
  /\ UNCHANGED bg

IsrAckDone ==
  /\ Raised("ackdone") /\ ~ Raised("stop") /\ ~ Raised("int")
  /\ m' = macRxAckTxDoneCallback([m EXCEPT !.mask = @ \ {"ackdone"}])
  /\ UNCHANGED bg

-----------------------------------------------------------------------------
(* The receive interrupt: one handler for each piece of a frame.           *)

rxDiscardFrame(s) ==
  [Assert(s, s.state = "start") EXCEPT !.state = "discard", !.got = 1]

(* An ACK is dealt with at once.                                           *)
rxAck(s) ==
  LET f == Head(s.fifo)
      t == FrameRead(s)
  IN rxDone(IF t.tx # "listen" THEN t
            ELSE IF f.good THEN macTxAckReceivedCallback(t, f.mine)
                           ELSE macTxAckNotReceivedCallback(t))

(* Any other frame ends the wait for an ACK; it is discarded by the filter *)
(* of a scan or for want of a buffer, and its ACK is then called off.      *)
rxHeader(s, alloc) ==
  LET t == macTxAckNotReceivedCallback(s)
  IN IF t.reset THEN t
     ELSE IF t.filter THEN rxDiscardFrame(t)
     ELSE IF ~ alloc
     THEN rxDiscardFrame([t EXCEPT !.fifo[1].nack = @ \/ Head(t.fifo).have < 4])
     ELSE IF Head(t.fifo).req
     THEN [t EXCEPT !.buf = TRUE, !.ackFlag = TRUE, !.state = "addr", !.got = 1,
                    !.irq = @ \ {"ackdone"}, !.mask = @ \cup {"ackdone"}]
     ELSE [t EXCEPT !.buf = TRUE, !.ackFlag = FALSE, !.state = "addr", !.got = 1]

(* The receiver may have been turned off since the interrupt was raised.   *)
(* When the transmit that is forced to its end sets a new channel, the     *)
(* frame is flushed.  The code still reads the empty FIFO and goes on with *)
(* what it gets until the clean-up undoes it; which bytes an empty FIFO    *)
(* gives is the radio's, so this stretch, with the assertion on the length *)
(* (mac_rx.c:492), is left out.                                            *)
rxStartIsr(s, alloc) ==
  LET a == [Assert(s, s.rx = "no") EXCEPT !.rx = "started"]
      t == [macCspForceTxDoneIfPending(a) EXCEPT
              !.mask = @ \ {"ackdone"}, !.ackFlag = FALSE]
  IN IF ~ a.on \/ a.fifo = <<>> THEN rxPostRxUpdates([a EXCEPT !.rx = "no"])
     ELSE IF t.reset THEN t
     ELSE IF Head(t.fifo).kind = "ack" THEN rxAck(t)
     ELSE rxHeader(t, alloc)

rxAddrIsr(s) == [s EXCEPT !.state = "payload", !.got = 2]

rxPayloadIsr(s) == [s EXCEPT !.state = "fcs", !.got = 3]

(* Mutant of rxFcsIsr: the ACK of a bad frame is still waited for.         *)
rxFcsIsr_BadFcs(s) ==
  LET t == FrameRead(s)
  IN rxDone(IF Head(s.fifo).good
            THEN [macRxOffRequest([t EXCEPT !.rx = "done"]) EXCEPT !.buf = FALSE]
            ELSE [t EXCEPT !.buf = FALSE])

(* A good frame is passed up with its buffer; no ACK goes out for a bad    *)
(* one.                                                                    *)
rxFcsIsr(s) ==
  LET t == FrameRead(s)
  IN rxDone(IF Head(s.fifo).good
            THEN [macRxOffRequest([t EXCEPT !.rx = "done"]) EXCEPT !.buf = FALSE]
            ELSE [t EXCEPT !.mask = @ \ {"ackdone"}, !.ackFlag = FALSE, !.buf = FALSE])

rxDiscardIsr(s) ==
  IF s.got < 3 THEN [s EXCEPT !.got = @ + 1] ELSE rxDone(FrameRead(s))

pFuncRxState(s, alloc) ==
  CASE s.state = "start"   -> rxStartIsr(s, alloc)
    [] s.state = "addr"    -> rxAddrIsr(s)
    [] s.state = "payload" -> rxPayloadIsr(s)
    [] s.state = "fcs"     -> rxFcsIsr(s)
    [] s.state = "discard" -> rxDiscardIsr(s)

macRxThresholdIsr(s, alloc) ==
  LET t == [pFuncRxState([s EXCEPT !.isr = TRUE], alloc) EXCEPT !.isr = FALSE]
  IN IF t.reset THEN [rxHaltCleanupFinalStep(t) EXCEPT !.reset = FALSE] ELSE t

FIFOP == m.fifo # <<>> /\ Head(m.fifo).have > m.got

IsrThreshold ==
  /\ FIFOP
  /\ \E alloc \in BOOLEAN : m' = macRxThresholdIsr(m, alloc)
  /\ UNCHANGED bg

(* macMcuRfErrIsr and macRxFifoOverflowIsr.                                *)
IsrOverflow ==
  /\ m.rferr
  /\ m' = macRxHaltCleanup([m EXCEPT !.rferr = FALSE])
  /\ UNCHANGED bg

Interrupted == FIFOP \/ m.rferr \/ \E i \in Interrupts : Raised(i)

-----------------------------------------------------------------------------
(* The background code.                                                    *)

At(place) == bg = place /\ ~ Interrupted

(* The high-level MAC sends one frame at a time, and sends it again only   *)
(* when the last attempt failed.                                           *)
macTxFrame ==
  /\ At("idle") /\ ~ m.call.open
  /\ m' = [Assert(m, m.tx = "no") EXCEPT
             !.tx = "init",
             !.call = [open |-> TRUE, sent |-> 0, acked |-> FALSE, twice |-> FALSE,
                       status |-> "none"]]
  /\ bg' = "prepare"

macTxFrameRetransmit ==
  /\ At("idle") /\ ~ m.call.open /\ m.call.status \in {"no_ack", "no_access"}
  /\ m' = [Assert(m, m.tx = "no") EXCEPT
             !.retransmit = TRUE, !.tx = "init",
             !.call = [open |-> TRUE, sent |-> 0, acked |-> FALSE, twice |-> FALSE,
                       status |-> "none"]]
  /\ bg' = "prepare"

(* Mutant of TxPrepare: the backoffs of the last transmit still count.     *)
TxPrepare_KeepNb ==
  /\ At("prepare")
  /\ IF m.sleep # "awake"
     THEN m' = txComplete(m, "aborted") /\ bg' = "idle"
     ELSE /\ \E ackReq \in BOOLEAN :
               m' = [txCsmaPrep(m) EXCEPT !.ackReq = IF m.retransmit THEN @ ELSE ackReq]
          /\ bg' = "decide"

(* macSleep may have come before the transmit was marked.                  *)
TxPrepare ==
  /\ At("prepare")
  /\ IF m.sleep # "awake"
     THEN m' = txComplete(m, "aborted") /\ bg' = "idle"
     ELSE /\ \E ackReq \in BOOLEAN :
               m' = [txCsmaPrep(m) EXCEPT
                       !.nb = 0, !.ackReq = IF m.retransmit THEN @ ELSE ackReq]
          /\ bg' = "decide"

(* The transmit goes, or waits for the end of the receive.                 *)
TxDecide ==
  /\ At("decide")
  /\ IF m.rx = "no" /\ ~ m.ackFlag
     THEN m' = [m EXCEPT !.tx = "go"] /\ bg' = "cancel"
     ELSE m' = [m EXCEPT !.tx = "queued"] /\ bg' = "idle"

(* txGo outside of the critical section, a statement at a time.            *)
TxGoCancel ==
  /\ At("cancel")
  /\ m' = [m EXCEPT !.mask = @ \ {"ackdone"}]
  /\ bg' = "clear"

TxGoClear ==
  /\ At("clear")
  /\ m' = [m EXCEPT !.ackFlag = FALSE]
  /\ bg' = "go"

TxGoStart ==
  /\ At("go")
  /\ m' = macCspTxGoCsma(m)
  /\ bg' = "idle"

(* The receiver is used only while the radio is awake.                     *)
macRxEnable(f) ==
  /\ At("idle") /\ m.sleep = "awake"
  /\ m' = macRxOn([m EXCEPT !.enable = @ \cup {f}])
  /\ UNCHANGED bg

macRxSoftEnable(f) ==
  /\ At("idle")
  /\ m' = [m EXCEPT !.enable = @ \cup {f}]
  /\ UNCHANGED bg

macRxDisable(f) ==
  /\ At("idle")
  /\ m' = [m EXCEPT !.enable = @ \ {f}]
  /\ bg' = "off"

RxDisableOff ==
  /\ At("off")
  /\ m' = macRxOffRequest(m)
  /\ bg' = "idle"

macRadioSetChannel ==
  /\ At("idle") /\ m.sleep = "awake"
  /\ LET t == [m EXCEPT !.newChannel = TRUE]
     IN m' = IF t.tx = "no" THEN macRadioUpdateChannel(t) ELSE t
  /\ UNCHANGED bg

macRadioSetTxPower ==
  /\ At("idle")
  /\ m' = macRadioUpdateTxPower([m EXCEPT !.newPower = TRUE])
  /\ UNCHANGED bg

macRadioStartScan ==
  /\ At("idle") /\ m.sleep = "awake" /\ ~ m.filter
  /\ m' = [m EXCEPT !.filter = TRUE]
  /\ UNCHANGED bg

macRadioStopScan ==
  /\ At("idle")
  /\ m' = [m EXCEPT !.filter = FALSE]
  /\ UNCHANGED bg

(* Also called out of an interrupt, so anywhere in the background code.    *)
macSleep(state) ==
  /\ m.sleep = "awake" /\ ~ m.filter /\ ~ Interrupted
  /\ m.rx = "no" /\ ~ m.ackFlag /\ m.tx = "no" /\ m.enable = {}
  /\ m' = [macRxOff(m) EXCEPT !.sleep = state]
  /\ UNCHANGED bg

macSleepWakeUp ==
  /\ At("idle") /\ m.sleep # "awake"
  /\ m' = [m EXCEPT !.sleep = "awake"]
  /\ bg' = "wake"

WakeUpRxOn ==
  /\ At("wake")
  /\ m' = macRxOnRequest(m)
  /\ bg' = "idle"

(* Called with the interrupts off, and between two transmits.              *)
macLowLevelReset ==
  /\ bg = "idle" /\ m.tx = "no"
  /\ m' = IF m.sleep = "awake"
          THEN macRxHaltCleanup(
                 [StrobeOff([m EXCEPT !.enable = {}, !.on = FALSE]) EXCEPT !.filter = FALSE])
          ELSE macRxOnRequest([m EXCEPT !.sleep = "awake"])
  /\ UNCHANGED bg

-----------------------------------------------------------------------------
(* The radio.  It answers a data frame that asks for it, arrives whole and *)
(* was not refused, and receives nothing while it transmits.               *)

Arriving == \E i \in DOMAIN m.fifo : m.fifo[i].have < 4
Quiet == m.hwOn /\ ~ Arriving /\ ~ m.acking /\ m.csp \notin {"strobe", "air"}

(* FIFO full: the frame is lost and the overflow is signalled.             *)
FrameArrives(frame) ==
  /\ Quiet /\ ~ m.overflow /\ ~ m.rferr
  /\ m' = IF Len(m.fifo) < FifoFrames
          THEN [m EXCEPT !.fifo = Append(@, frame),
                         !.call.acked = @ \/ (frame.kind = "ack" /\ frame.good /\ frame.mine
                                              /\ m.call.open /\ m.call.sent > 0)]
          ELSE [m EXCEPT !.overflow = TRUE, !.rferr = TRUE]
  /\ UNCHANGED bg

DataArrives ==
  \E req, good \in BOOLEAN :
    FrameArrives([kind |-> "data", req |-> req, good |-> good, nack |-> FALSE, have |-> 1])

AckArrives ==
  \E mine, good \in BOOLEAN : FrameArrives([kind |-> "ack", mine |-> mine, good |-> good, have |-> 4])

(* The ACK of a frame goes out behind its last byte.  The header interrupt *)
(* has come long before: a frame takes longer than any critical section    *)
(* (the same holds for a frame that is sent, FrameSent).                   *)
BytesArrive ==
  /\ m.hwOn /\ Arriving
  /\ \E i \in DOMAIN m.fifo :
       LET f == m.fifo[i]
       IN /\ f.have < 4
          /\ f.have = 3 => m.got > 0 /\ i = 1
          /\ m' = [m EXCEPT !.fifo[i].have = @ + 1,
                            !.acking = f.have = 3 /\ f.req /\ f.good /\ ~ f.nack]
  /\ UNCHANGED bg

AckSent ==
  /\ m.acking
  /\ m' = [m EXCEPT !.acking = FALSE, !.irq = @ \cup {"ackdone"}]
  /\ UNCHANGED bg

(* The CSP: the channel is sampled; the frame starts; it is out; or the    *)
(* time for the ACK is over.                                               *)
CcaBusy ==
  /\ m.csp = "cca"
  /\ m' = [m EXCEPT !.csp = "idle", !.irq = @ \cup {"stop"}]
  /\ UNCHANGED bg

CcaClear ==
  /\ m.csp = "cca" /\ Quiet
  /\ m' = [m EXCEPT !.csp = "strobe"]
  /\ UNCHANGED bg

FrameStarts ==
  /\ m.csp = "strobe"
  /\ m' = [m EXCEPT !.csp = "air", !.irq = @ \cup {"int"}, !.call.sent = @ + 1]
  /\ UNCHANGED bg

FrameSent ==
  /\ m.csp = "air" /\ ~ FIFOP
  /\ m' = [m EXCEPT !.csp = "idle", !.cspz = "done", !.irq = @ \cup {"stop"}]
  /\ UNCHANGED bg

AckTimeout ==
  /\ m.csp = "wait"
  /\ m' = [m EXCEPT !.csp = "idle", !.irq = @ \cup {"stop"}]
  /\ UNCHANGED bg

Interrupt == IsrCspInt \/ IsrCspStop \/ IsrAckDone \/ IsrThreshold \/ IsrOverflow

Continue ==
  TxPrepare \/ TxDecide \/ TxGoCancel \/ TxGoClear \/ TxGoStart
  \/ RxDisableOff \/ WakeUpRxOn

Transmitter == CcaBusy \/ CcaClear \/ FrameStarts \/ FrameSent \/ AckTimeout

Next ==
  \/ Interrupt \/ Continue \/ Transmitter
  \/ macTxFrame \/ macTxFrameRetransmit
  \/ \E f \in Flags : macRxEnable(f) \/ macRxSoftEnable(f) \/ macRxDisable(f)
  \/ macRadioSetChannel \/ macRadioSetTxPower \/ macRadioStartScan \/ macRadioStopScan
  \/ \E state \in {"osc_off", "radio_off"} : macSleep(state)
  \/ macSleepWakeUp \/ macLowLevelReset
  \/ DataArrives \/ AckArrives \/ BytesArrive \/ AckSent

Spec == Init /\ [][Next]_vars

(* The interrupts are served and leave the background code some time; it   *)
(* then comes out of the function it is in.  The interrupt of an outgoing  *)
(* ACK is not passed over for ever: it comes before the header of the next *)
(* frame is there.  The radio and its CSP go on.                           *)
Fairness ==
  /\ []<>(~ Interrupted) /\ SF_vars(Continue) /\ SF_vars(IsrAckDone)
  /\ WF_vars(Transmitter) /\ WF_vars(BytesArrive) /\ WF_vars(AckSent)

FairSpec == Spec /\ Fairness

-----------------------------------------------------------------------------
(* No MAC_ASSERT fails: no receive on top of a receive, no transmit on top *)
(* of a transmit or in the middle of a receive, no channel change during a *)
(* transmit, no CSP program loaded over one that runs.                     *)
NoAssertFails == ~ m.failed

(* The handler that is up for the next piece of a frame fits what macRx    *)
(* holds: a buffer exactly while a frame is read into it, a receive marked *)
(* active exactly while the frame is in the middle.                        *)
ReceiveStateCoherent ==
  /\ m.buf <=> m.state \in {"addr", "payload", "fcs"}
  /\ m.rx = "started" <=> m.state # "start"
  /\ m.ackFlag /\ m.rx = "no" => "ackdone" \in m.mask \/ bg = "clear"

(* What has been put off is remembered by somebody: a queued transmit, the *)
(* receiver to be turned off and a new power by the receive, the ACK or    *)
(* the transmit they wait for, a new channel by the transmit.              *)
NothingForgotten ==
  LET receiving == m.rx = "started" \/ m.ackFlag
  IN /\ m.tx = "queued" => receiving
     /\ m.on /\ m.enable = {} => receiving \/ m.tx \in {"go", "listen"} \/ bg = "off"
     /\ m.newPower => receiving \/ m.tx \in {"go", "listen"}
     /\ m.newChannel => m.tx # "no"
     /\ m.sleep # "awake" => ~ m.hwOn

(* The status given to the high-level MAC is true: success means that the  *)
(* frame went out, once, and was acknowledged if it asked for that; no     *)
(* access and aborted mean that it never went out.  Every call is answered *)
(* once.                                                                   *)
StatusTrue ==
  /\ m.call.status = "success" => m.call.sent = 1 /\ (m.ackReq => m.call.acked)
  /\ m.call.status = "no_ack" => m.call.sent = 1
  /\ m.call.status \in {"no_access", "aborted"} => m.call.sent = 0
  /\ ~ m.call.twice

(* Turning the receiver off never cuts off a frame that is on the air.     *)
FrameNotCut == ~ m.cut

(* Every transmit is answered.                                             *)
TxCompletes == m.call.open ~> ~ m.call.open
=============================================================================
