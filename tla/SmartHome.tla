------------------------------ MODULE SmartHome ------------------------------
(***************************************************************************)
(* The application src/Projects/zstack/Samples/SmartHome/Source/App.c on   *)
(* the gateway and on the lamps, with the gateway's serial port (HalUart)  *)
(* under it.  The gateway turns serial commands into broadcasts; a lamp    *)
(* obeys and broadcasts what it did; the gateway tells the serial host.    *)
(* All nodes run the same program and the radio reaches all of them.       *)
(*                                                                         *)
(* On the gateway the main loop alternates between the poll of the serial  *)
(* port and the tasks: messages come into the task's queue between them,   *)
(* and the task handles all it finds.  The radio may lose a broadcast for  *)
(* any of the nodes, delay it and change the order; AF_DataRequest may     *)
(* refuse it, and the program does not look.                               *)
(***************************************************************************)
EXTENDS HalUart, Bags

CONSTANTS
  Lamps,     \* the other nodes
  MaxBytes,  \* bound: bytes the serial host sends
  MaxKeys    \* bound: changes of the keys

Did == [openLight |-> "didOpenLight", closeLight |-> "didCloseLight",
        openCurtain |-> "didOpenCurtain", closeCurtain |-> "didCloseCurtain"]

Reports == {Did[c] : c \in DOMAIN Did}

ASSUME SmartHomeAssumption ==
  /\ {MaxBytes, MaxKeys} \subseteq Nat
  /\ Reports \cup {"key4", "key5"} \subseteq Items

VARIABLES
  inbox,   \* the gateway's messages: [bytes] from the serial port,
           \* [writes] what a broadcast or the keys make it tell the host
  air,     \* broadcasts on their way: a bag of [to, cmd]
  lamp,    \* of each lamp: the bit of the light, the turns of the motor
  inputs   \* [bytes, keys] received so far

homeVars == <<u, at, wr, owed, unread, inbox, air, lamp, inputs>>

Nodes == Lamps \cup {"gate"}
Broadcasts == [to : Nodes, cmd : DOMAIN Did \cup Reports]

HomeTypeOK ==
  /\ UartTypeOK
  /\ at \in {"idle", "shadow", "poll", "callback", "app", "write"}
  /\ \A i \in DOMAIN inbox : inbox[i].bytes \in Seq(Bytes) /\ inbox[i].writes \in Seq(Items)
  /\ BagToSet(air) \subseteq Broadcasts
  /\ lamp \in [Lamps -> [light : 0 .. 1, turns : 0 .. MaxBytes]]
  /\ inputs \in [bytes : 0 .. MaxBytes, keys : 0 .. MaxKeys]

HomeInit ==
  /\ UartInit
  /\ inbox = <<>> /\ air = EmptyBag
  /\ lamp = [n \in Lamps |-> [light |-> 0, turns |-> 0]]
  /\ inputs = [bytes |-> 0, keys |-> 0]

(* App_SendBroadcastMessage: whoever gets it.                              *)
Broadcast(from, cmd, got) == SetToBag([to : got \ {from}, cmd : {cmd}])

Serial(chunk) == [bytes |-> chunk, writes |-> <<>>]
Tell(items) == [bytes |-> <<>>, writes |-> items]

-----------------------------------------------------------------------------
(* The lamps: openLight, closeLight, openCurtain, closeCurtain.            *)

(* Both curtain commands write the whole port, and turn the same way.      *)
Obey(l, cmd) ==
  IF cmd = "openLight" THEN [l EXCEPT !.light = 1]
  ELSE IF cmd = "closeLight" THEN [l EXCEPT !.light = 0]
  ELSE [light |-> 0, turns |-> l.turns + 1]

(* processZigbeeBroadcast on a lamp: a command is obeyed and answered, the *)
(* other lamps' reports go to a serial port nobody is at.                  *)
LampReceives(m) ==
  /\ m.to \in Lamps /\ BagIn(m, air)
  /\ IF m.cmd \in DOMAIN Did
     THEN \E got \in SUBSET Nodes :
            /\ lamp' = [lamp EXCEPT ![m.to] = Obey(@, m.cmd)]
            /\ air' = (air (-) SetToBag({m})) (+) Broadcast(m.to, Did[m.cmd], got)
     ELSE /\ air' = air (-) SetToBag({m})
          /\ UNCHANGED lamp
  /\ UNCHANGED <<uartVars, inbox, inputs>>

-----------------------------------------------------------------------------
(* The gateway.                                                            *)

(* The radio's task queues what came in; the gateway is sent reports only. *)
GateReceives(m) ==
  /\ m.to = "gate" /\ BagIn(m, air) /\ at = "idle"
  /\ air' = air (-) SetToBag({m})
  /\ inbox' = Append(inbox, Tell(IF m.cmd \in Reports THEN <<m.cmd>> ELSE <<>>))
  /\ UNCHANGED <<uartVars, lamp, inputs>>

(* processKeyChange: each of the two keys that is down is told.            *)
KeysChange(items) ==
  /\ at = "idle" /\ inputs.keys < MaxKeys
  /\ inbox' = Append(inbox, Tell(items))
  /\ inputs' = [inputs EXCEPT !.keys = @ + 1]
  /\ UNCHANGED <<uartVars, air, lamp>>

(* MT_UartProcessZToolData: all bytes the ring held make one message.      *)
SerialMessage ==
  /\ CallbackEnd
  /\ inbox' = IF u.chunk = <<>> THEN inbox ELSE Append(inbox, Serial(u.chunk))
  /\ UNCHANGED <<air, lamp, inputs>>

SerialByte(b) ==
  /\ inputs.bytes < MaxBytes
  /\ ByteArrives(b)
  /\ inputs' = [inputs EXCEPT !.bytes = @ + 1]
  /\ UNCHANGED <<inbox, air, lamp>>

(* App_ProcessEvent, from SYS_EVENT_MSG to the empty queue.                *)
AppStart ==
  /\ at = "idle" /\ inbox # <<>>
  /\ at' = "app" /\ UNCHANGED <<u, wr, owed, unread, inbox, air, lamp, inputs>>

(* processSerialMsg obeys the first byte of the message, if it knows it.   *)
AppSerial ==
  /\ at = "app" /\ inbox # <<>> /\ Head(inbox).bytes # <<>>
  /\ LET first == Head(Head(inbox).bytes)
     IN IF first \in DOMAIN Did
        THEN \E got \in SUBSET Nodes : air' = air (+) Broadcast("gate", first, got)
        ELSE air' = air
  /\ inbox' = Tail(inbox)
  /\ UNCHANGED <<uartVars, lamp, inputs>>

DropWrite == [inbox EXCEPT ![1].writes = Tail(@)]

(* HalUARTWrite, and its refusal, which no caller looks at.                *)
AppWrite ==
  /\ inbox # <<>> /\ Head(inbox).writes # <<>>
  /\ WriteBegin(Head(Head(inbox).writes), "app")
  /\ inbox' = DropWrite
  /\ UNCHANGED <<air, lamp, inputs>>

AppWriteRefused ==
  /\ at = "app" /\ inbox # <<>> /\ Head(inbox).writes # <<>> /\ WriteFull
  /\ inbox' = DropWrite
  /\ UNCHANGED <<uartVars, air, lamp, inputs>>

AppWritten ==
  /\ WriteCommit("app") /\ UNCHANGED <<inbox, air, lamp, inputs>>

AppDone ==
  /\ at = "app" /\ inbox # <<>>
  /\ Head(inbox).bytes = <<>> /\ Head(inbox).writes = <<>>
  /\ inbox' = Tail(inbox)
  /\ UNCHANGED <<uartVars, air, lamp, inputs>>

AppEnd ==
  /\ at = "app" /\ inbox = <<>>
  /\ at' = "idle" /\ UNCHANGED <<u, wr, owed, unread, inbox, air, lamp, inputs>>

App == \/ AppStart \/ AppSerial \/ AppWrite \/ AppWriteRefused \/ AppWritten
       \/ AppDone \/ AppEnd

Port == (Background \/ UartHardware) /\ UNCHANGED <<inbox, air, lamp, inputs>>

Receive == \E m \in BagToSet(air) : LampReceives(m) \/ GateReceives(m)

Inputs ==
  \/ \E b \in Bytes : SerialByte(b)
  \/ \E items \in {<<"key5">>, <<"key4">>, <<"key5", "key4">>} : KeysChange(items)

HomeNext == App \/ SerialMessage \/ Port \/ Receive \/ Inputs

-----------------------------------------------------------------------------
(* Fairness: the loop, the hardware and the radio go on.                   *)
Rest == UNCHANGED <<inbox, air, lamp, inputs>>

HomeFairness ==
  /\ WF_homeVars(Background /\ Rest) /\ WF_homeVars(SerialMessage)
  /\ WF_homeVars(IsrDMA /\ Rest) /\ WF_homeVars(DmaNext /\ Rest)
  /\ WF_homeVars(UartTakes /\ Rest) /\ WF_homeVars(Tick /\ Rest)
  /\ SF_homeVars(AppStart) /\ WF_homeVars(App)
  /\ WF_homeVars(\E m \in BagToSet(air) : LampReceives(m))
  /\ SF_homeVars(\E m \in BagToSet(air) : GateReceives(m))

HomeSpec == HomeInit /\ [][HomeNext]_homeVars /\ HomeFairness

-----------------------------------------------------------------------------
(* The driver, under interrupts, loses, doubles and overtakes nothing that *)
(* it has accepted or received.                                            *)
PortExact == WritesExact /\ ReadsExact

OnAir(n, cmd) ==
  IF BagIn([to |-> n, cmd |-> cmd], air) THEN air[[to |-> n, cmd |-> cmd]] ELSE 0

(* The bytes of the messages in the queue.                                 *)
Unhandled == UNION {{i} \X DOMAIN inbox[i].bytes : i \in DOMAIN inbox}

(* A command from the serial host turns no motor twice, whichever way the  *)
(* bytes are cut into messages: each lamp's turns, and what can still      *)
(* become one, came in as bytes.                                           *)
AtMostOnce ==
  \A n \in Lamps :
    lamp[n].turns + OnAir(n, "openCurtain") + OnAir(n, "closeCurtain") + Len(u.chunk)
                  + Len(unread) + Cardinality(Unhandled)
    <= inputs.bytes

(* A poll that sees the idle timer run, the sleep timer not having turned  *)
(* by a multiple of Wrap since the last one; a poll that comes more than a *)
(* character after the last interrupt of the transmitter.  Nothing in the  *)
(* code makes either come.                                                 *)
LineSeen == u.rxTick > 0 => u.rxAge > 0
CharacterPassed == u.txShdwValid => u.txAge > TxTick

(* Once the inputs end, everything comes to rest: no message stays in the  *)
(* queue and no broadcast runs round for ever.  If polls that see the idle *)
(* timer run recur, no byte stays in the ring (HalUARTPollDMA).  If polls  *)
(* recur that come a character after the transmitter's last interrupt, all *)
(* that was accepted leaves on the line, whatever was written between the  *)
(* DMA's interrupt and the poll (HalUARTWriteDMA, HalUARTIsrDMA).          *)
Settles ==
  /\ <>[](u.chunk = <<>> /\ inbox = <<>> /\ air = EmptyBag)
  /\ []<><<PollReceive /\ LineSeen>>_homeVars => <>[](unread = <<>>)
  /\ []<><<PollShadow /\ CharacterPassed>>_homeVars => <>[](owed = <<>>)
===============================================================================
