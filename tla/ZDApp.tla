--------------------------------- MODULE ZDApp ---------------------------------
(***************************************************************************)
(* How a device of src/Components/stack/zdo/ZDApp.c (and ZDObject.c)       *)
(* starts, joins, resumes, rejoins and leaves a network, in the builds of  *)
(* the repository: no security, stochastic addresses, two discoveries      *)
(* before a join.                                                          *)
(*                                                                         *)
(* ZDApp is one OSAL task: its event loop handles, in one call, either all *)
(* its messages or the first event in a fixed order.  The network layer    *)
(* (a closed library) is asked for discoveries, joins and so on, may       *)
(* refuse, and answers later, in any order, by the call-backs of ZDApp.    *)
(* These share one variable, nwkStatus, with the handlers that run after   *)
(* them.  The power may fail between any two steps; what then remains is   *)
(* in non-volatile items.  Delays are left out: a running timer expires at *)
(* any time.                                                               *)
(***************************************************************************)
EXTENDS Naturals, Sequences, FiniteSets

CONSTANTS
  Nets,             \* networks, by their extended PAN id
  Types,            \* logical types of the node
  NumDiscAttempts,  \* NUM_DISC_ATTEMPTS
  MaxResumeRetry,   \* MAX_RESUME_RETRY
  DiscWrap,         \* 256: zdoDiscCounter is a uint8
  EnergySteps,      \* raises of the energy threshold before 0xff
  InsecureJoin,     \* AIB_apsUseInsecureJoin, TRUE by default
  MaxMsgs,          \* bound: messages queued for ZDApp
  MaxResets,        \* bound: power failures
  MaxTroubles       \* bound: moves, leaves, messages dropped, early losses of the parent

ASSUME ZDAppAssumption ==
  /\ Types \subseteq {"COORDINATOR", "ROUTER", "DEVICE"}
  /\ {NumDiscAttempts, MaxResumeRetry, EnergySteps, MaxMsgs, MaxResets,
      MaxTroubles} \subseteq Nat /\ MaxResumeRetry > 0
  /\ DiscWrap \in Nat /\ NumDiscAttempts + 1 < DiscWrap
  /\ InsecureJoin \in BOOLEAN

None == "none"

ASSUME NoneAssumption == None \notin Nets

VARIABLES
  conf,  \* the build and the configured type: [type, nvRestore]
  at,    \* "boot", "hold" (between the two writes of a start on hold), "run",
         \* "loop" (the event loop has more messages)
  d,     \* the variables of ZDApp, its messages, events and timers
  nv,    \* the non-volatile items: [net, new, leave]
  app,   \* the application: its ZDO_STATE_CHANGE message, the state it knows
  air,   \* the network in reach (or None), and what has happened from outside
  hist   \* [told: the network to leave for good, torn, dropped]

vars == <<conf, at, d, nv, app, air, hist>>

Joined == {"END_DEVICE", "ROUTER", "ZB_COORD"}
DevStates == Joined \cup {"HOLD", "INIT", "NWK_DISC", "NWK_JOINING", "NWK_REJOIN",
                          "NWK_ORPHAN", "COORD_STARTING"}

(* The events of ZDApp, in the order in which its event loop looks at them.*)
Order == <<"NETWORK_INIT", "NETWORK_START", "ROUTER_START", "STATE_CHANGE",
           "NWK_UPDATE_NV", "DEVICE_RESET">>

Events == {Order[i] : i \in DOMAIN Order}

Timers == {"NETWORK_INIT", "NWK_UPDATE_NV", "DEVICE_RESET"}

Requests == {"form", "resume", "disc", "join", "rejoin", "orphan", "router"}

Modes == {"HARD", "JOIN", "REJOIN", "RESUME"}
Msgs == {"DISC_FOUND", "DISC_FAILED", "JOIN_IND", "JOIN_REQ"}

Device ==
  [devState : DevStates, mode : Modes, retry : 0 .. MaxResumeRetry, disc : 0 .. DiscWrap - 1,
   nwkStatus : BOOLEAN, energy : 0 .. EnergySteps, nib : Nets \cup {None},
   epid : Nets \cup {None}, events : SUBSET Events, timers : SUBSET Timers,
   asked : SUBSET Requests, msgs : Seq(Msgs)]

(* Types; and a device that resumes or rejoins knows a network, and looks  *)
(* for no other.                                                           *)
TypeOK ==
  /\ conf \in [type : Types, nvRestore : BOOLEAN]
  /\ at \in {"boot", "hold", "run", "loop"}
  /\ d \in Device /\ Len(d.msgs) <= MaxMsgs
  /\ nv \in [net : Nets \cup {None}, new : BOOLEAN, leave : {"init", "set", "set+ra"}]
  /\ app \in [msg : DevStates \cup {None}, state : DevStates \cup {None}]
  /\ air \in [net : Nets \cup {None}, resets : 0 .. MaxResets, troubles : 0 .. MaxTroubles]
  /\ hist \in [told : Nets \cup {None}, torn : BOOLEAN, dropped : BOOLEAN]
  /\ d.mode \in {"RESUME", "REJOIN"} => d.nib # None /\ d.epid = d.nib

(* The variables as the start-up code of the compiler leaves them.         *)
Fresh(type) ==
  [devState |-> "INIT", mode |-> IF type = "COORDINATOR" THEN "HARD" ELSE "JOIN",
   retry |-> 0, disc |-> 1, nwkStatus |-> TRUE, energy |-> 0, nib |-> None, epid |-> None,
   events |-> {}, timers |-> {}, asked |-> {}, msgs |-> <<>>]

Init ==
  /\ conf \in [type : Types, nvRestore : BOOLEAN]
  /\ at = "boot" /\ d = Fresh(conf.type)
  /\ nv = [net |-> None, new |-> FALSE, leave |-> "init"]
  /\ app = [msg |-> None, state |-> None]
  /\ air \in [net : Nets \cup {None}, resets : {0}, troubles : {0}]
  /\ hist = [told |-> None, torn |-> FALSE, dropped |-> FALSE]

-----------------------------------------------------------------------------
(* Small steps of the handlers, on the record d.                           *)
Raise(x, e) == [x EXCEPT !.events = @ \cup {e}]
StartTimer(x, e) == [x EXCEPT !.timers = @ \cup {e}]

ZDApp_NetworkInit(x) == StartTimer(x, "NETWORK_INIT")
ZDApp_NVUpdate(x) == IF conf.nvRestore THEN StartTimer(x, "NWK_UPDATE_NV") ELSE x

(* A request that the network layer refuses is tried again later.          *)
Ask(x, request, ok) ==
  IF ok THEN [x EXCEPT !.asked = @ \cup {request}] ELSE ZDApp_NetworkInit(x)

StartRouter(x, ok) ==
  IF ok /\ conf.type = "ROUTER" THEN [x EXCEPT !.asked = @ \cup {"router"}] ELSE x

ZDO_StartDevice(x, ok) ==
  CASE conf.type = "COORDINATOR" ->
         Ask([x EXCEPT !.devState = "COORD_STARTING"],
             IF x.mode = "HARD" THEN "form" ELSE "resume", ok)
    [] conf.type # "COORDINATOR" /\ x.mode \in {"JOIN", "REJOIN"} ->
         Ask([x EXCEPT !.devState = "NWK_DISC"], "disc", ok)
    [] OTHER ->  \* a router fakes the orphan scan, which nobody can refuse
         Ask([x EXCEPT !.devState = "NWK_ORPHAN"], "orphan", ok \/ conf.type = "ROUTER")

(* The mode after a failed resume: rejoin the network known, if any.       *)
NextMode(x) == IF x.nib = None THEN "JOIN" ELSE "REJOIN"

-----------------------------------------------------------------------------
(* ZDApp_ProcessOSALMsg: the three messages, each from d to d.             *)

(* Mutant of DiscCnf: the counter stops below the number of attempts.      *)
DiscCnf_Saturates(x, found, ok) ==
  IF x.devState # "NWK_DISC" THEN x
  ELSE IF found /\ x.disc > NumDiscAttempts THEN
    CASE x.mode = "JOIN" -> Ask([x EXCEPT !.devState = "NWK_JOINING"], "join", ok)
      [] x.mode = "REJOIN" -> Ask([x EXCEPT !.devState = "NWK_REJOIN"], "rejoin", ok)
      [] OTHER -> x
  ELSE ZDApp_NetworkInit([x EXCEPT !.disc = IF @ < NumDiscAttempts THEN @ + 1 ELSE @])

DiscCnf(x, found, ok) ==
  IF x.devState # "NWK_DISC" THEN x
  ELSE IF found /\ x.disc > NumDiscAttempts THEN
    CASE x.mode = "JOIN" -> Ask([x EXCEPT !.devState = "NWK_JOINING"], "join", ok)
      [] x.mode = "REJOIN" -> Ask([x EXCEPT !.devState = "NWK_REJOIN"], "rejoin", ok)
      [] OTHER -> x
  ELSE ZDApp_NetworkInit([x EXCEPT !.disc = (@ + 1) % DiscWrap])

JoinSucceeded(x, ok) ==
  Raise(StartRouter([x EXCEPT !.devState = "END_DEVICE"], ok), "STATE_CHANGE")

(* A join, or the faked orphan scan of a router, has failed.               *)
JoinFailed(x) ==
  LET resume == x.mode = "RESUME"
      retry == IF resume THEN x.retry + 1 ELSE x.retry
  IN ZDApp_NetworkInit(
       [x EXCEPT !.retry = retry, !.disc = 1,
                 !.mode = IF resume /\ retry >= MaxResumeRetry THEN NextMode(x) ELSE @])

(* An orphan scan or a rejoin has failed.                                  *)
RejoinFailed(x) ==
  LET resume == x.mode = "RESUME"
      retry == IF resume THEN x.retry + 1 ELSE x.retry
  IN ZDApp_NetworkInit(
       [x EXCEPT !.retry = retry,
                 !.mode = IF resume /\ retry <= MaxResumeRetry THEN NextMode(x)
                          ELSE IF resume /\ InsecureJoin THEN "JOIN" ELSE @])

Joining(x) ==
  \/ x.devState = "NWK_JOINING"
  \/ x.devState = "NWK_ORPHAN" /\ conf.type = "ROUTER"

ZDApp_ProcessNetworkJoin(x, ok) ==
  CASE Joining(x) \/ x.devState \in {"NWK_ORPHAN", "NWK_REJOIN"} ->
         IF x.nwkStatus THEN JoinSucceeded(x, ok)
         ELSE IF Joining(x) THEN JoinFailed(x) ELSE RejoinFailed(x)
    [] OTHER -> Raise(x, "STATE_CHANGE")  \* taken for an address conflict

(* Mutant of JoinReq: the network to look for is left as it was.           *)
JoinReq_AnyNetwork(x) ==
  Raise([x EXCEPT !.retry = 0, !.mode = "RESUME"], "NETWORK_INIT")

(* Contact with the parent is lost.  Does not stop a retry timer.          *)
JoinReq(x) ==
  Raise([x EXCEPT !.retry = 0, !.mode = "RESUME", !.epid = x.nib], "NETWORK_INIT")

(* A coordinator ignores them all.                                         *)
Process(msg, x, ok) ==
  IF conf.type = "COORDINATOR" THEN x
  ELSE CASE msg = "DISC_FOUND" -> DiscCnf(x, TRUE, ok)
         [] msg = "DISC_FAILED" -> DiscCnf(x, FALSE, ok)
         [] msg = "JOIN_IND" -> ZDApp_ProcessNetworkJoin(x, ok)
         [] msg = "JOIN_REQ" -> JoinReq(x)

-----------------------------------------------------------------------------
(* ZDApp_event_loop.  ok: the network layer accepts what it is asked; got: *)
(* there is heap for the message to the application.  Nothing comes        *)
(* between the messages that one call receives.                            *)
Receive(ok) ==
  /\ at \in {"run", "loop"} /\ d.msgs # <<>>
  /\ d' = Process(Head(d.msgs), [d EXCEPT !.msgs = Tail(@)], ok)
  /\ at' = IF Tail(d.msgs) = <<>> THEN "run" ELSE "loop"
  /\ UNCHANGED <<conf, nv, app, air, hist>>

First(e) ==
  /\ at = "run" /\ d.msgs = <<>> /\ e \in d.events
  /\ \A i, j \in DOMAIN Order : Order[i] = e /\ j < i => Order[j] \notin d.events

Done(e) == [d EXCEPT !.events = @ \ {e}]

NetworkInit(ok) ==
  /\ First("NETWORK_INIT")
  /\ d' = ZDO_StartDevice(Done("NETWORK_INIT"), ok)
  /\ UNCHANGED <<conf, at, nv, app, air, hist>>

ZDApp_NetworkStartEvt ==
  /\ First("NETWORK_START")
  /\ LET x == Done("NETWORK_START")
     IN d' = IF d.nwkStatus
             THEN Raise([x EXCEPT !.devState = IF @ = "COORD_STARTING" THEN "ZB_COORD" ELSE @],
                        "STATE_CHANGE")
             ELSE IF d.energy < EnergySteps
             THEN Raise([x EXCEPT !.energy = @ + 1], "NETWORK_INIT")
             ELSE Raise([x EXCEPT !.devState = "INIT"], "STATE_CHANGE")
  /\ UNCHANGED <<conf, at, nv, app, air, hist>>

RouterStart ==
  /\ First("ROUTER_START")
  /\ d' = Raise([Done("ROUTER_START") EXCEPT
                   !.devState = IF d.nwkStatus /\ @ = "END_DEVICE" THEN "ROUTER" ELSE @],
                "STATE_CHANGE")
  /\ UNCHANGED <<conf, at, nv, app, air, hist>>

(* Mutant of ZDO_UpdateNwkStatus: without heap, the news is forgotten.     *)
ZDO_UpdateNwkStatus_Forgets(got) ==
  /\ First("STATE_CHANGE")
  /\ d' = Done("STATE_CHANGE")
  /\ app' = IF got \/ app.msg # None THEN [app EXCEPT !.msg = d.devState] ELSE app
  /\ UNCHANGED <<conf, at, nv, air, hist>>

(* A message that still waits is changed in place.                         *)
ZDO_UpdateNwkStatus(got) ==
  /\ First("STATE_CHANGE")
  /\ IF got \/ app.msg # None
     THEN d' = Done("STATE_CHANGE") /\ app' = [app EXCEPT !.msg = d.devState]
     ELSE UNCHANGED <<d, app>>
  /\ UNCHANGED <<conf, at, nv, air, hist>>

ZDApp_SaveNetworkStateEvt ==
  /\ First("NWK_UPDATE_NV")
  /\ d' = Done("NWK_UPDATE_NV")
  /\ nv' = [nv EXCEPT !.net = d.nib, !.new = FALSE]
  /\ UNCHANGED <<conf, at, app, air, hist>>

Trouble == air.troubles < MaxTroubles /\ air' = [air EXCEPT !.troubles = @ + 1]

(* The memory is lost.                                                     *)
Reset ==
  /\ at' = "boot" /\ d' = Fresh(conf.type) /\ app' = [msg |-> None, state |-> None]
  /\ UNCHANGED conf

DeviceReset == First("DEVICE_RESET") /\ Reset /\ UNCHANGED <<nv, air, hist>>

Expire(e) ==
  /\ at = "run" /\ e \in d.timers
  /\ d' = Raise([d EXCEPT !.timers = @ \ {e}], e)
  /\ UNCHANGED <<conf, at, nv, app, air, hist>>

ZDAppTask(ok) ==
  \/ Receive(ok) \/ NetworkInit(ok) \/ ZDApp_NetworkStartEvt \/ RouterStart
  \/ ZDO_UpdateNwkStatus(ok) \/ ZDApp_SaveNetworkStateEvt \/ DeviceReset

(* The application reads its message (App_ProcessEvent).                   *)
AppReads ==
  /\ at = "run" /\ app.msg # None
  /\ app' = [msg |-> None, state |-> app.msg]
  /\ UNCHANGED <<conf, at, d, nv, air, hist>>

-----------------------------------------------------------------------------
(* ZDOInitDevice, with the defaults of the build: no network commissioned  *)
(* in AIB_apsUseExtendedPANID (ZDAppDetermineDeviceType would start with a *)
(* rejoin) and no key pressed to bypass the start or the restore.          *)
Restorable == conf.nvRestore /\ ~nv.new /\ nv.net # None

Start ==
  /\ at = "boot" /\ nv.leave # "set"
  /\ d' = IF Restorable
          THEN Raise([d EXCEPT !.mode = "RESUME", !.nib = nv.net, !.epid = nv.net],
                     "NETWORK_INIT")
          ELSE ZDApp_NetworkInit(d)
  /\ nv' = [nv EXCEPT !.leave = "init",
                      !.net = IF conf.nvRestore /\ ~Restorable THEN None ELSE @]
  /\ at' = "run"
  /\ UNCHANGED <<conf, app, air, hist>>

(* After a leave for good the device holds: ZDApp_LeaveCtrlStartup writes  *)
(* one item, ZDOInitDevice then another.                                   *)
StartOnHold ==
  /\ at = "boot" /\ nv.leave = "set"
  /\ nv' = [nv EXCEPT !.leave = "init"]
  /\ d' = [d EXCEPT !.devState = "HOLD"] /\ at' = "hold"
  /\ UNCHANGED <<conf, app, air, hist>>

(* Mutant of Hold: the option is not written.                              *)
Hold_NoOption ==
  /\ at = "hold"
  /\ d' = Raise(d, "STATE_CHANGE") /\ at' = "run"
  /\ UNCHANGED <<conf, nv, app, air, hist>>

Hold ==
  /\ at = "hold"
  /\ nv' = [nv EXCEPT !.new = TRUE]
  /\ d' = Raise(d, "STATE_CHANGE") /\ at' = "run"
  /\ UNCHANGED <<conf, app, air, hist>>

Boot == Start \/ StartOnHold \/ Hold

(* The items stay.  ZDApp_SaveNetworkStateEvt writes two of them, and the  *)
(* power may fail when only the first is written.                          *)
PowerFails ==
  /\ air.resets < MaxResets
  /\ air' = [air EXCEPT !.resets = @ + 1]
  /\ hist' = [hist EXCEPT !.torn = @ \/ at = "hold"]
  /\ Reset
  /\ \/ UNCHANGED nv
     \/ First("NWK_UPDATE_NV") /\ nv' = [nv EXCEPT !.net = d.nib]

-----------------------------------------------------------------------------
(* The call-backs of the network layer.  ZDApp_SendMsg drops its message   *)
(* without heap.                                                           *)
ZDApp_SendMsg(x, msg, sent, told) ==
  /\ at = "run" /\ Len(d.msgs) < MaxMsgs
  /\ d' = IF sent THEN [x EXCEPT !.msgs = Append(@, msg)] ELSE x
  /\ hist' = [hist EXCEPT !.dropped = @ \/ ~sent, !.told = told]

Answered(request) == [d EXCEPT !.asked = @ \ {request}]

(* Only a network that ZDO_UseExtendedPANID names, if it names one.        *)
Suits(net) == net # None /\ d.epid \in {net, None}

ZDO_NetworkDiscoveryConfirmCB(found, sent) ==
  /\ "disc" \in d.asked /\ (found => Suits(air.net))
  /\ ZDApp_SendMsg(Answered("disc"), IF found THEN "DISC_FOUND" ELSE "DISC_FAILED", sent,
                   hist.told)
  /\ IF sent THEN UNCHANGED air ELSE Trouble
  /\ UNCHANGED <<conf, at, nv, app>>

(* Whom a request can succeed with; the scan of a router is faked.         *)
Reaches(request) ==
  CASE request = "join" -> Suits(air.net)
    [] request = "rejoin" -> air.net = d.epid
    [] request = "orphan" -> conf.type = "ROUTER" \/ air.net = d.nib

ZDO_JoinConfirmCB(request, success, sent) ==
  /\ request \in d.asked /\ (success => Reaches(request))
  /\ LET x == [Answered(request) EXCEPT !.nwkStatus = success,
                                        !.nib = IF success /\ request = "join" THEN air.net ELSE @]
     IN ZDApp_SendMsg(IF success THEN ZDApp_NVUpdate(x) ELSE x, "JOIN_IND", sent,
                      IF success /\ request = "join" THEN None ELSE hist.told)
  /\ IF sent THEN UNCHANGED air ELSE Trouble
  /\ UNCHANGED <<conf, at, nv, app>>

(* The identity of a new network is the coordinator's own.                 *)
ZDO_NetworkFormationConfirmCB(request, success) ==
  /\ at = "run" /\ request \in d.asked
  /\ \E net \in Nets :
       d' = Raise([Answered(request) EXCEPT
                     !.nwkStatus = success,
                     !.nib = IF success /\ request = "form" THEN net ELSE @], "NETWORK_START")
  /\ hist' = [hist EXCEPT !.told = IF success /\ request = "form" THEN None ELSE @]
  /\ UNCHANGED <<conf, at, nv, app, air>>

ZDO_StartRouterConfirmCB(success) ==
  /\ at = "run" /\ "router" \in d.asked
  /\ d' = Raise([Answered("router") EXCEPT !.nwkStatus = success], "ROUTER_START")
  /\ UNCHANGED <<conf, at, nv, app, air, hist>>

InNetwork == at = "run" /\ d.devState \in Joined

(* ZDO_AddrChangeIndicationCB, and ZDO_JoinIndicationCB for a child.       *)
ZDO_AddrChangeIndicationCB ==
  /\ InNetwork
  /\ d' = Raise(ZDApp_NVUpdate(d), "STATE_CHANGE")
  /\ UNCHANGED <<conf, at, nv, app, air, hist>>

ZDO_JoinIndicationCB ==
  /\ InNetwork /\ conf.type # "DEVICE"
  /\ d' = ZDApp_NVUpdate(d)
  /\ UNCHANGED <<conf, at, nv, app, air, hist>>

(* ZDO_LeaveCnf and ZDO_LeaveInd, for this device: ZDApp_LeaveReset.       *)
Leave(rejoin) ==
  /\ InNetwork /\ Trouble
  /\ nv' = [nv EXCEPT !.leave = IF rejoin THEN "set+ra" ELSE "set"]
  /\ d' = StartTimer(d, "DEVICE_RESET")
  /\ hist' = [hist EXCEPT !.told = IF rejoin THEN None ELSE d.nib]
  /\ UNCHANGED <<conf, at, app>>

(* A device loses its parent, sometimes though the network is still there. *)
ZDO_SyncIndicationCB(sent) ==
  /\ InNetwork /\ conf.type = "DEVICE"
  /\ ZDApp_SendMsg(d, "JOIN_REQ", sent, hist.told)
  /\ IF sent /\ air.net # d.nib THEN UNCHANGED air ELSE Trouble
  /\ UNCHANGED <<conf, at, nv, app>>

(* The network goes out of reach, or another comes into it.                *)
Move ==
  /\ air.troubles < MaxTroubles
  /\ \E net \in (Nets \cup {None}) \ {air.net} :
       air' = [air EXCEPT !.net = net, !.troubles = @ + 1]
  /\ UNCHANGED <<conf, at, d, nv, app, hist>>

JoinRequests == {"join", "rejoin", "orphan"}

CallBack(success, sent) ==
  \/ ZDO_NetworkDiscoveryConfirmCB(success, sent)
  \/ \E request \in JoinRequests : ZDO_JoinConfirmCB(request, success, sent)
  \/ \E request \in {"form", "resume"} : ZDO_NetworkFormationConfirmCB(request, success)
  \/ ZDO_StartRouterConfirmCB(success)

Outside ==
  \/ ZDO_AddrChangeIndicationCB \/ ZDO_JoinIndicationCB
  \/ \E rejoin \in BOOLEAN : Leave(rejoin)
  \/ \E sent \in BOOLEAN : ZDO_SyncIndicationCB(sent)
  \/ Move \/ PowerFails

Next ==
  \/ Boot \/ AppReads \/ Outside
  \/ \E ok \in BOOLEAN : ZDAppTask(ok)
  \/ \E e \in Timers : Expire(e)
  \/ \E success, sent \in BOOLEAN : CallBack(success, sent)

-----------------------------------------------------------------------------
(* The program goes on, timers expire and the network layer answers.       *)
Running ==
  /\ WF_vars(Boot) /\ WF_vars(AppReads)
  /\ WF_vars(\E ok \in BOOLEAN : ZDAppTask(ok))
  /\ \A e \in Timers : WF_vars(Expire(e))
  /\ WF_vars(\E success, sent \in BOOLEAN : CallBack(success, sent))

(* Whoever asks again and again is now and then accepted, heard and        *)
(* answered well, where that is possible, and there is heap now and then.  *)
(* Beacons do not come only while zdoDiscCounter makes the device ignore   *)
(* them.                                                                   *)
Luck ==
  /\ SF_vars(Receive(TRUE) /\ d'.asked # d.asked)
  /\ SF_vars(NetworkInit(TRUE)) /\ SF_vars(ZDO_UpdateNwkStatus(TRUE))
  /\ SF_vars(ZDO_NetworkDiscoveryConfirmCB(TRUE, TRUE) /\ d.disc > NumDiscAttempts)
  /\ \A request \in JoinRequests : SF_vars(ZDO_JoinConfirmCB(request, TRUE, TRUE))

RunningSpec == Init /\ [][Next]_vars /\ Running
Spec == RunningSpec /\ Luck

-----------------------------------------------------------------------------
(* A device told to leave a network for good does not restore it from the  *)
(* items, whenever the power fails, unless it fails between the two writes *)
(* of a start on hold.                                                     *)
LeaveIsFinal ==
  [][at = "boot" /\ at' = "run" /\ ~hist.torn /\ hist.told # None
       => d'.nib # hist.told]_vars

(* A device does not stay in a network, or on hold, with an application    *)
(* that believes it to be elsewhere, though its message may be refused for *)
(* want of heap, overtaken by the next state or changed while it waits.    *)
AppLearnsState ==
  []<>(d.devState \in Joined \cup {"HOLD"} => app.state = d.devState)

Dormant == conf.type = "COORDINATOR" /\ d.devState = "INIT" /\ d.energy = EnergySteps

(* Once the network in reach stays (moves are bounded), and whatever was   *)
(* lost, refused, restarted or answered late before, a device gets into a  *)
(* network for good (which one is not asked); unless there is none, or it  *)
(* holds, is a coordinator that has tried all its energy levels, looks for *)
(* another network or has lost a call-back for want of heap.               *)
Joins ==
  <>[](\/ InNetwork \/ d.devState = "HOLD" \/ Dormant
       \/ air.net = None \/ d.epid \notin {air.net, None} \/ hist.dropped)

(* "Do a normal join to the network after certain times of rejoin retries" *)
(* (ZDApp.c): a device whose rejoins fail again and again does not go on   *)
(* with them for ever.                                                     *)
RejoinFails == d.devState = "NWK_REJOIN" /\ ~d.nwkStatus /\ d.msgs = <<"JOIN_IND">>

FallsBackToJoin == ~([]<>RejoinFails /\ <>[](d.mode = "REJOIN"))
===============================================================================
