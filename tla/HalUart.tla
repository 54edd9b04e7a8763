-------------------------------- MODULE HalUart --------------------------------
(***************************************************************************)
(* The serial port of src/Components/hal/target/CC2530EB/_hal_uart_dma.c.  *)
(* Transmit: the program writes into one of two buffers (txSel) while the  *)
(* DMA sends the other; the interrupt at the end of the DMA frees the      *)
(* other buffer, and a poll of the main loop swaps the two and starts the  *)
(* DMA again, not before the last byte has left the data register.         *)
(* Receive: the DMA fills a ring that the poll watches; the call-back      *)
(* (MT_UartProcessZToolData) is called when the line has been idle or much *)
(* has come in, and empties the ring.                                      *)
(*                                                                         *)
(* The interrupt can come between any two critical sections of the         *)
(* background code.  What HalUARTWrite is given at once is one item: the   *)
(* driver takes all of it or nothing.  Only differences of the sleep timer *)
(* ST0 are used, so its shadows are kept as their ages, modulo Wrap.       *)
(***************************************************************************)
EXTENDS Naturals, Sequences, FiniteSetsExt

CONSTANTS
  Bytes,      \* bytes received
  Items,      \* items written
  TxMax,      \* HAL_UART_DMA_TX_MAX, in items
  RxMax,      \* HAL_UART_DMA_RX_MAX
  High,       \* HAL_UART_DMA_HIGH
  Full,       \* HAL_UART_DMA_FULL
  IdleTicks,  \* HAL_UART_DMA_IDLE
  TxTick,     \* ticks of the sleep timer a character takes
  Wrap,       \* 256: the shadows are uint8
  ChunkMax    \* bound: bytes one call-back finds, at most the 128 of its buf

None == "none"

ASSUME UartAssumption ==
  /\ {TxMax, RxMax, High, Full, IdleTicks, TxTick, ChunkMax} \subseteq Nat \ {0}
  /\ Wrap \in Nat /\ TxTick + 1 < Wrap /\ IdleTicks < Wrap
  /\ None \notin Items \cup Bytes

VARIABLES
  u,      \* dmaCfg and the registers of the DMA and the UART
  at,     \* where the background code is
  wr,     \* the locals of HalUARTWriteDMA: [item, sel, idx]
  owed,   \* history: items accepted and not yet on the line
  unread  \* history: bytes received and not yet read

uartVars == <<u, at, wr, owed, unread>>

NoWrite == [item |-> None, sel |-> 0, idx |-> 0]

UartTypeOK ==
  /\ u.txBuf \in [0 .. 1 -> Seq(Items)] /\ \A i \in 0 .. 1 : Len(u.txBuf[i]) <= TxMax
  /\ u.txSel \in 0 .. 1 /\ u.armed \in BOOLEAN /\ u.irq \in BOOLEAN
  /\ u.sent \in 0 .. TxMax /\ u.txMT \in BOOLEAN
  /\ u.txShdwValid \in BOOLEAN /\ u.txAge \in 0 .. Wrap - 1 /\ u.txDMAPending \in BOOLEAN
  /\ u.dbuf \in Items \cup {None} /\ u.dbufAge \in 0 .. TxTick
  /\ u.rxBuf \in [0 .. RxMax - 1 -> Bytes \cup {None}]
  /\ u.rxHead \in 0 .. RxMax - 1 /\ u.rxTail \in 0 .. RxMax - 1 /\ u.rxDma \in 0 .. RxMax - 1
  /\ u.rxTick \in 0 .. IdleTicks /\ u.rxAge \in 0 .. Wrap - 1
  /\ u.evt \in BOOLEAN /\ u.chunk \in Seq(Bytes) /\ Len(u.chunk) <= ChunkMax

(* HalUARTInitDMA and HalUARTOpenDMA.                                      *)
UartInit ==
  /\ u = [txBuf |-> [i \in 0 .. 1 |-> <<>>], txSel |-> 0, armed |-> FALSE, irq |-> FALSE,
          sent |-> 0, txMT |-> FALSE, txShdwValid |-> FALSE, txAge |-> 0, txDMAPending |-> FALSE,
          dbuf |-> None, dbufAge |-> 0,
          rxBuf |-> [i \in 0 .. RxMax - 1 |-> None], rxHead |-> 0, rxTail |-> 0, rxDma |-> 0,
          rxTick |-> 0, rxAge |-> 0, evt |-> FALSE, chunk |-> <<>>]
  /\ at = "idle" /\ wr = NoWrite /\ owed = <<>> /\ unread = <<>>

-----------------------------------------------------------------------------
(* HalUARTWriteDMA.                                                        *)

(* Mutant of WriteBegin: the room is looked for in the other buffer.       *)
WriteBegin_OtherRoom(item, from) ==
  /\ at = from
  /\ Len(u.txBuf[1 - u.txSel]) + 1 <= TxMax
  /\ wr' = [item |-> item, sel |-> u.txSel, idx |-> Len(u.txBuf[u.txSel])]
  /\ at' = "write" /\ UNCHANGED <<u, owed, unread>>

(* All or none.                                                            *)
WriteBegin(item, from) ==
  /\ at = from
  /\ Len(u.txBuf[u.txSel]) + 1 <= TxMax
  /\ wr' = [item |-> item, sel |-> u.txSel, idx |-> Len(u.txBuf[u.txSel])]
  /\ at' = "write" /\ UNCHANGED <<u, owed, unread>>

WriteFull == Len(u.txBuf[u.txSel]) + 1 > TxMax

(* The copy is made again should the buffers have been swapped meanwhile.  *)
WriteCommit(to) ==
  /\ at = "write"
  /\ LET s == u.txSel
         idx == IF s = wr.sel THEN wr.idx ELSE Len(u.txBuf[s])
     IN u' = [u EXCEPT !.txBuf[s] = Append(SubSeq(@, 1, idx), wr.item),
                       !.txDMAPending = @ \/ u.txBuf[1 - s] = <<>>]
  /\ owed' = Append(owed, wr.item)
  /\ wr' = NoWrite /\ at' = to /\ UNCHANGED unread

-----------------------------------------------------------------------------
(* HalUARTPollDMA.                                                         *)

NewRxByte(i) == u.rxBuf[i] # None

(* Steps from the head over new bytes; a full ring ends where it began.    *)
findTail ==
  LET old == {k \in 0 .. RxMax - 1 : ~ NewRxByte((u.rxHead + k) % RxMax)}
  IN (u.rxHead + IF old = {} THEN 0 ELSE Min(old)) % RxMax

HalUARTRxAvailDMA ==
  IF NewRxByte(u.rxHead) THEN Cardinality({i \in DOMAIN u.rxBuf : NewRxByte(i)}) ELSE 0

(* The idle timer starts again when bytes have come in.  Its shadow is set *)
(* again only with the first of them.                                      *)
IdleTimer ==
  IF ~ NewRxByte(u.rxHead) THEN [u EXCEPT !.rxTick = 0, !.rxAge = 0]
  ELSE IF u.rxTail # findTail
  THEN [u EXCEPT !.rxTail = findTail, !.rxTick = IdleTicks,
                 !.rxAge = IF u.rxTick = 0 THEN 0 ELSE @]
  ELSE [u EXCEPT !.rxTick = IF @ > u.rxAge THEN @ - u.rxAge ELSE 0, !.rxAge = 0]

PollReceive ==
  /\ at = "idle"
  /\ LET t == IdleTimer
         cnt == HalUARTRxAvailDMA
     IN u' = [t EXCEPT !.evt = \/ cnt >= Full \/ cnt >= High
                               \/ cnt > 0 /\ t.rxTick = 0
                               \/ t.txMT,
                       !.txMT = FALSE]
  /\ at' = "shadow" /\ UNCHANGED <<wr, owed, unread>>

(* Mutant of PollShadow: the time since the interrupt is not waited for.   *)
PollShadow_NoWait ==
  /\ at = "shadow"
  /\ u' = [u EXCEPT !.txShdwValid = FALSE, !.txAge = 0]
  /\ at' = "poll" /\ UNCHANGED <<wr, owed, unread>>

(* The data register is free once a character's time has passed.           *)
PollShadow ==
  /\ at = "shadow"
  /\ u' = IF u.txShdwValid /\ u.txAge > TxTick THEN [u EXCEPT !.txShdwValid = FALSE, !.txAge = 0] ELSE u
  /\ at' = "poll" /\ UNCHANGED <<wr, owed, unread>>

(* Mutant of HalUARTIsrDMA: what was written meanwhile is not marked.      *)
HalUARTIsrDMA_NoPending(s) ==
  [s EXCEPT !.irq = FALSE, !.txBuf[1 - s.txSel] = <<>>, !.txMT = TRUE,
            !.txShdwValid = TRUE, !.txAge = 0, !.sent = 0]

HalUARTIsrDMA(s) ==
  [s EXCEPT !.irq = FALSE, !.txBuf[1 - s.txSel] = <<>>, !.txMT = TRUE,
            !.txShdwValid = TRUE, !.txAge = 0, !.sent = 0,
            !.txDMAPending = @ \/ s.txBuf[s.txSel] # <<>>]

(* The DMA's first byte goes into the data register at once.               *)
Fire(s) ==
  [s EXCEPT !.txDMAPending = FALSE, !.txSel = 1 - @, !.sent = 1,
            !.dbuf = Head(s.txBuf[s.txSel]), !.dbufAge = 0,
            !.armed = Len(s.txBuf[s.txSel]) > 1, !.irq = Len(s.txBuf[s.txSel]) = 1]

(* Otherwise, with something written and the DMA at rest, the poll runs    *)
(* the interrupt's code itself, and sets the shadow anew.                  *)
PollTransmit ==
  /\ at = "poll"
  /\ u' = IF u.txDMAPending /\ ~ u.txShdwValid THEN Fire(u)
          ELSE IF u.txBuf[u.txSel] # <<>> /\ ~ u.armed /\ ~ u.irq THEN HalUARTIsrDMA(u)
          ELSE u
  /\ at' = IF u.evt THEN "callback" ELSE "idle"
  /\ UNCHANGED <<wr, owed, unread>>

(* HalUARTReadDMA, called for one byte at a time until the ring is empty.  *)

(* Mutant of CallbackRead: the slot that was read still looks new.         *)
CallbackRead_NotCleared ==
  /\ at = "callback" /\ NewRxByte(u.rxHead)
  /\ u' = [u EXCEPT !.chunk = Append(@, u.rxBuf[u.rxHead]), !.rxHead = (@ + 1) % RxMax]
  /\ unread' = SubSeq(unread, 2, Len(unread))
  /\ UNCHANGED <<at, wr, owed>>

CallbackRead ==
  /\ at = "callback" /\ NewRxByte(u.rxHead)
  /\ u' = [u EXCEPT !.chunk = Append(@, u.rxBuf[u.rxHead]),
                    !.rxBuf[u.rxHead] = None, !.rxHead = (@ + 1) % RxMax]
  /\ unread' = SubSeq(unread, 2, Len(unread))
  /\ UNCHANGED <<at, wr, owed>>

(* The chunk is handed on as one message.                                  *)
CallbackEnd ==
  /\ at = "callback" /\ ~ NewRxByte(u.rxHead)
  /\ u' = [u EXCEPT !.chunk = <<>>, !.evt = FALSE]
  /\ at' = "idle" /\ UNCHANGED <<wr, owed, unread>>

-----------------------------------------------------------------------------
(* The interrupt, the DMA, the UART and the time.                          *)

IsrDMA ==
  /\ u.irq
  /\ u' = HalUARTIsrDMA(u)
  /\ UNCHANGED <<at, wr, owed, unread>>

DmaNext ==
  /\ u.armed /\ u.dbuf = None
  /\ LET b == u.txBuf[1 - u.txSel]
     IN u' = [u EXCEPT !.dbuf = b[u.sent + 1], !.dbufAge = 0, !.sent = @ + 1,
                       !.armed = u.sent + 1 < Len(b), !.irq = u.sent + 1 = Len(b)]
  /\ UNCHANGED <<at, wr, owed, unread>>

(* The data register is emptied within the time of a character.            *)
UartTakes ==
  /\ u.dbuf # None
  /\ u' = [u EXCEPT !.dbuf = None, !.dbufAge = 0]
  /\ owed' = IF owed # <<>> /\ Head(owed) = u.dbuf THEN Tail(owed) ELSE owed
  /\ UNCHANGED <<at, wr, unread>>

(* The host leaves room in the ring, and stops before a call-back has read *)
(* more than its buffer holds.                                             *)
ByteArrives(b) ==
  /\ u.rxBuf[u.rxDma] = None /\ Len(unread) + Len(u.chunk) < ChunkMax
  /\ u' = [u EXCEPT !.rxBuf[u.rxDma] = b, !.rxDma = (@ + 1) % RxMax]
  /\ unread' = Append(unread, b)
  /\ UNCHANGED <<at, wr, owed>>

Tick ==
  /\ u.dbuf # None => u.dbufAge < TxTick
  /\ u' = [u EXCEPT !.txAge = IF u.txShdwValid THEN (@ + 1) % Wrap ELSE 0,
                    !.rxAge = IF u.rxTick > 0 THEN (@ + 1) % Wrap ELSE 0,
                    !.dbufAge = IF u.dbuf # None THEN @ + 1 ELSE 0]
  /\ UNCHANGED <<at, wr, owed, unread>>

Background == PollReceive \/ PollShadow \/ PollTransmit \/ CallbackRead

UartHardware == IsrDMA \/ DmaNext \/ UartTakes \/ Tick

-----------------------------------------------------------------------------
(* No accepted item is lost, doubled, overtaken or overwritten: what is    *)
(* owed is in the data register, in the rest of the buffer the DMA sends   *)
(* and in the buffer that is being filled, in this order.                  *)
WritesExact ==
  owed = (IF u.dbuf = None THEN <<>> ELSE <<u.dbuf>>)
         \o (IF u.armed THEN SubSeq(u.txBuf[1 - u.txSel], u.sent + 1, Len(u.txBuf[1 - u.txSel]))
                        ELSE <<>>)
         \o u.txBuf[u.txSel]

(* No byte is lost or overtaken: the ring holds what has not been read, in *)
(* the order in which it came, from the head on.                           *)
ReadsExact ==
  /\ Len(unread) <= RxMax
  /\ \A i \in 1 .. RxMax :
       u.rxBuf[(u.rxHead + (i - 1)) % RxMax] = IF i <= Len(unread) THEN unread[i] ELSE None
===============================================================================
