----------------------------- MODULE ZDAppProofs -----------------------------
(***************************************************************************)
(* Proofs about ZDApp, for any networks, node types and bounds: types; a   *)
(* rejoin looks for the network the device knows; a network left for good  *)
(* is not restored; and the fallback to a join is dead code.               *)
(*                                                                         *)
(* Sound says of the record d what the handlers rely on: what was asked    *)
(* fits the type and the mode, and whoever resumes, rejoins, is joined or  *)
(* has a successful answer waiting knows a network.  It is a predicate of  *)
(* a record, so that each handler has a lemma of its own.                  *)
(***************************************************************************)
EXTENDS ZDApp, SequenceTheorems, TLAPS

Waits(x, msg) == \E i \in 1 .. Len(x.msgs) : x.msgs[i] = msg

Sound(x) ==
  /\ x \in Device
  /\ x.mode \in {"RESUME", "REJOIN"} => x.nib # None /\ x.epid = x.nib
  /\ x.mode = "RESUME" => x.retry < MaxResumeRetry
  /\ x.mode = "HARD" => conf.type = "COORDINATOR"
  /\ "form" \in x.asked => x.mode = "HARD"
  /\ "resume" \in x.asked => conf.type = "COORDINATOR"
  /\ "router" \in x.asked => conf.type = "ROUTER"
  /\ "rejoin" \in x.asked => x.nib # None
  /\ "orphan" \in x.asked => x.nib # None
  /\ x.devState \in {"NWK_ORPHAN", "NWK_REJOIN"} => x.nib # None
  /\ x.devState = "COORD_STARTING" => conf.type = "COORDINATOR"
  /\ x.devState \in Joined /\ conf.type = "DEVICE" => x.nib # None
  /\ Waits(x, "JOIN_IND") /\ x.nwkStatus /\ conf.type = "DEVICE" => x.nib # None
  /\ Waits(x, "JOIN_REQ") => x.nib # None

(* Before the start the memory is as the reset left it.                    *)
Forgotten == at \in {"boot", "hold"} => d.nib = None /\ d.retry = 0 /\ d.asked = {} /\ d.msgs = <<>>

Unrestorable == ~ conf.nvRestore \/ nv.new \/ nv.net # hist.told

(* What remains of a leave for good: the order in the item, the start on   *)
(* hold, or memory and items that do not name the network.                 *)
Left ==
  hist.told # None /\ ~ hist.torn =>
    \/ nv.leave = "set"
    \/ at = "hold"
    \/ d.nib # hist.told /\ Unrestorable

IInv == TypeOK /\ Sound(d) /\ Forgotten /\ Left

-----------------------------------------------------------------------------
(* Small steps on the record.                                              *)
LEMMA RaiseSound ==
  ASSUME NEW x, Sound(x), NEW e \in Events
  PROVE  /\ Sound(Raise(x, e))
         /\ Raise(x, e).nib = x.nib /\ Raise(x, e).msgs = x.msgs
BY DEF Sound, Device, Raise, Waits

LEMMA StartTimerSound ==
  ASSUME NEW x, Sound(x), NEW e \in Timers
  PROVE  /\ Sound(StartTimer(x, e))
         /\ StartTimer(x, e).nib = x.nib /\ StartTimer(x, e).msgs = x.msgs
BY DEF Sound, Device, StartTimer, Waits

LEMMA EventNames ==
  /\ {"NETWORK_INIT", "NETWORK_START", "ROUTER_START", "STATE_CHANGE",
      "NWK_UPDATE_NV", "DEVICE_RESET"} \subseteq Events
  /\ Timers \subseteq Events
<1>1. DOMAIN Order = 1 .. 6
  BY DEF Order
<1>2. /\ Order[1] = "NETWORK_INIT" /\ Order[2] = "NETWORK_START" /\ Order[3] = "ROUTER_START"
      /\ Order[4] = "STATE_CHANGE" /\ Order[5] = "NWK_UPDATE_NV" /\ Order[6] = "DEVICE_RESET"
  BY DEF Order
<1> QED
  BY <1>1, <1>2 DEF Events, Timers

LEMMA NetworkInitSound ==
  ASSUME NEW x, Sound(x)
  PROVE  /\ Sound(ZDApp_NetworkInit(x))
         /\ ZDApp_NetworkInit(x).nib = x.nib /\ ZDApp_NetworkInit(x).msgs = x.msgs
<1>1. "NETWORK_INIT" \in Timers
  BY DEF Timers
<1> QED
  BY <1>1, StartTimerSound DEF ZDApp_NetworkInit

LEMMA NVUpdateSound ==
  ASSUME NEW x, Sound(x)
  PROVE  /\ Sound(ZDApp_NVUpdate(x))
         /\ ZDApp_NVUpdate(x).nib = x.nib /\ ZDApp_NVUpdate(x).msgs = x.msgs
<1>1. "NWK_UPDATE_NV" \in Timers
  BY DEF Timers
<1> QED
  BY <1>1, StartTimerSound DEF ZDApp_NVUpdate

(* What may be asked, of whom and when.                                    *)
Fits(x, request) ==
  /\ request \in Requests
  /\ request = "form" => x.mode = "HARD"
  /\ request = "resume" => conf.type = "COORDINATOR"
  /\ request = "router" => conf.type = "ROUTER"
  /\ request \in {"rejoin", "orphan"} => x.nib # None

LEMMA AskSound ==
  ASSUME NEW x, Sound(x), NEW request, Fits(x, request), NEW ok \in BOOLEAN
  PROVE  /\ Sound(Ask(x, request, ok))
         /\ Ask(x, request, ok).nib = x.nib /\ Ask(x, request, ok).msgs = x.msgs
<1>1. CASE ok
  <2> DEFINE y == [x EXCEPT !.asked = @ \cup {request}]
  <2>1. y \in Device /\ y.asked = x.asked \cup {request}
    BY DEF Sound, Device, Fits
  <2>2. /\ y.mode = x.mode /\ y.nib = x.nib /\ y.epid = x.epid /\ y.retry = x.retry
        /\ y.devState = x.devState /\ y.msgs = x.msgs /\ y.nwkStatus = x.nwkStatus
    BY DEF Sound, Device
  <2>3. Sound(y)
    BY <2>1, <2>2 DEF Sound, Fits, Waits
  <2> QED
    BY <1>1, <2>2, <2>3 DEF Ask
<1>2. CASE ~ ok
  BY <1>2, NetworkInitSound DEF Ask
<1> QED
  BY <1>1, <1>2

(* A new state of the device, and what it needs.                           *)
LEMMA DevStateSound ==
  ASSUME NEW x, Sound(x), NEW s \in DevStates,
         s \in {"NWK_ORPHAN", "NWK_REJOIN"} => x.nib # None,
         s = "COORD_STARTING" => conf.type = "COORDINATOR",
         s \in Joined /\ conf.type = "DEVICE" => x.nib # None
  PROVE  LET y == [x EXCEPT !.devState = s]
         IN /\ Sound(y) /\ y.nib = x.nib /\ y.msgs = x.msgs /\ y.mode = x.mode
            /\ y.asked = x.asked /\ y.events = x.events /\ y.nwkStatus = x.nwkStatus
BY DEF Sound, Device, Waits

LEMMA StartDeviceSound ==
  ASSUME NEW x, Sound(x), NEW ok \in BOOLEAN
  PROVE  /\ Sound(ZDO_StartDevice(x, ok))
         /\ ZDO_StartDevice(x, ok).nib = x.nib /\ ZDO_StartDevice(x, ok).msgs = x.msgs
<1>1. {"COORD_STARTING", "NWK_DISC", "NWK_ORPHAN"} \subseteq DevStates
      /\ {"COORD_STARTING", "NWK_DISC", "NWK_ORPHAN"} \cap Joined = {}
  BY DEF DevStates, Joined
<1>2. CASE conf.type = "COORDINATOR"
  <2> DEFINE y == [x EXCEPT !.devState = "COORD_STARTING"]
             r == IF x.mode = "HARD" THEN "form" ELSE "resume"
  <2>1. Sound(y) /\ y.nib = x.nib /\ y.msgs = x.msgs /\ y.mode = x.mode
    BY <1>1, <1>2, DevStateSound
  <2>2. Fits(y, r)
    BY <1>2, <2>1 DEF Fits, Requests
  <2> HIDE DEF y, r
  <2>3. /\ Sound(Ask(y, r, ok)) /\ Ask(y, r, ok).nib = y.nib /\ Ask(y, r, ok).msgs = y.msgs
    BY <2>1, <2>2, AskSound
  <2> QED
    BY <1>2, <2>1, <2>3 DEF ZDO_StartDevice, y, r
<1>3. CASE conf.type # "COORDINATOR" /\ x.mode \in {"JOIN", "REJOIN"}
  <2> DEFINE y == [x EXCEPT !.devState = "NWK_DISC"]
  <2>1. Sound(y) /\ y.nib = x.nib /\ y.msgs = x.msgs /\ y.mode = x.mode
    BY <1>1, DevStateSound
  <2>2. Fits(y, "disc")
    BY DEF Fits, Requests
  <2> HIDE DEF y
  <2>3. /\ Sound(Ask(y, "disc", ok)) /\ Ask(y, "disc", ok).nib = y.nib
        /\ Ask(y, "disc", ok).msgs = y.msgs
    BY <2>1, <2>2, AskSound
  <2> QED
    BY <1>3, <2>1, <2>3 DEF ZDO_StartDevice, y
<1>4. CASE conf.type # "COORDINATOR" /\ x.mode \notin {"JOIN", "REJOIN"}
  <2> DEFINE y == [x EXCEPT !.devState = "NWK_ORPHAN"]
             sure == ok \/ conf.type = "ROUTER"
  <2>0. x.nib # None
    BY <1>4 DEF Sound, Device, Modes
  <2>1. Sound(y) /\ y.nib = x.nib /\ y.msgs = x.msgs /\ y.mode = x.mode
    BY <1>1, <2>0, DevStateSound
  <2>2. Fits(y, "orphan") /\ sure \in BOOLEAN
    BY <2>0, <2>1 DEF Fits, Requests
  <2> HIDE DEF y, sure
  <2>3. /\ Sound(Ask(y, "orphan", sure)) /\ Ask(y, "orphan", sure).nib = y.nib
        /\ Ask(y, "orphan", sure).msgs = y.msgs
    BY <2>1, <2>2, AskSound
  <2> QED
    BY <1>4, <2>1, <2>3 DEF ZDO_StartDevice, y, sure
<1> QED
  BY <1>2, <1>3, <1>4

-----------------------------------------------------------------------------
(* The messages, and what each finds.                                      *)
LEMMA DiscCnfSound ==
  ASSUME NEW x, Sound(x), conf.type # "COORDINATOR", NEW found \in BOOLEAN, NEW ok \in BOOLEAN
  PROVE  /\ Sound(DiscCnf(x, found, ok))
         /\ DiscCnf(x, found, ok).nib = x.nib /\ DiscCnf(x, found, ok).msgs = x.msgs
<1> DEFINE heard == found /\ x.disc > NumDiscAttempts
           y == [x EXCEPT !.devState = "NWK_JOINING"]
           z == [x EXCEPT !.devState = "NWK_REJOIN"]
           w == [x EXCEPT !.disc = (@ + 1) % DiscWrap]
<1>1. {"NWK_JOINING", "NWK_REJOIN"} \subseteq DevStates
      /\ {"NWK_JOINING", "NWK_REJOIN"} \cap Joined = {}
  BY DEF DevStates, Joined
<1>2. CASE x.devState # "NWK_DISC"
  BY <1>2 DEF DiscCnf
<1>3. CASE x.devState = "NWK_DISC" /\ heard /\ x.mode = "JOIN"
  <2>1. Sound(y) /\ y.nib = x.nib /\ y.msgs = x.msgs
    BY <1>1, DevStateSound
  <2>2. Fits(y, "join")
    BY DEF Fits, Requests
  <2> HIDE DEF y
  <2>3. /\ Sound(Ask(y, "join", ok)) /\ Ask(y, "join", ok).nib = y.nib
        /\ Ask(y, "join", ok).msgs = y.msgs
    BY <2>1, <2>2, AskSound
  <2> QED
    BY <1>3, <2>1, <2>3 DEF DiscCnf, y
<1>4. CASE x.devState = "NWK_DISC" /\ heard /\ x.mode = "REJOIN"
  <2>1. x.nib # None
    BY <1>4 DEF Sound
  <2>2. Sound(z) /\ z.nib = x.nib /\ z.msgs = x.msgs
    BY <1>1, <2>1, DevStateSound
  <2>3. Fits(z, "rejoin")
    BY <2>1, <2>2 DEF Fits, Requests
  <2> HIDE DEF z
  <2>4. /\ Sound(Ask(z, "rejoin", ok)) /\ Ask(z, "rejoin", ok).nib = z.nib
        /\ Ask(z, "rejoin", ok).msgs = z.msgs
    BY <2>2, <2>3, AskSound
  <2> QED
    BY <1>4, <2>2, <2>4 DEF DiscCnf, z
<1>5. CASE x.devState = "NWK_DISC" /\ heard /\ x.mode \notin {"JOIN", "REJOIN"}
  BY <1>5 DEF DiscCnf
<1>6. CASE x.devState = "NWK_DISC" /\ ~ heard
  <2>1. x.disc \in Nat /\ DiscWrap \in Nat /\ DiscWrap > 0
    BY ZDAppAssumption DEF Sound, Device
  <2>2. (x.disc + 1) % DiscWrap \in 0 .. DiscWrap - 1
    BY <2>1
  <2>3. Sound(w) /\ w.nib = x.nib /\ w.msgs = x.msgs
    BY <2>2 DEF Sound, Device, Waits
  <2> HIDE DEF w
  <2>4. /\ Sound(ZDApp_NetworkInit(w)) /\ ZDApp_NetworkInit(w).nib = w.nib
        /\ ZDApp_NetworkInit(w).msgs = w.msgs
    BY <2>3, NetworkInitSound
  <2> QED
    BY <1>6, <2>3, <2>4 DEF DiscCnf, w
<1> QED
  BY <1>2, <1>3, <1>4, <1>5, <1>6

LEMMA JoinSucceededSound ==
  ASSUME NEW x, Sound(x), conf.type = "DEVICE" => x.nib # None, NEW ok \in BOOLEAN
  PROVE  /\ Sound(JoinSucceeded(x, ok))
         /\ JoinSucceeded(x, ok).nib = x.nib /\ JoinSucceeded(x, ok).msgs = x.msgs
<1> DEFINE y == [x EXCEPT !.devState = "END_DEVICE"]
           z == StartRouter(y, ok)
<1>1. Sound(y) /\ y.nib = x.nib /\ y.msgs = x.msgs
  BY DevStateSound DEF DevStates, Joined
<1> HIDE DEF y
<1>2. Sound(z) /\ z.nib = y.nib /\ z.msgs = y.msgs
  BY <1>1 DEF StartRouter, Sound, Device, Requests, Waits
<1> HIDE DEF z
<1>3. /\ Sound(Raise(z, "STATE_CHANGE")) /\ Raise(z, "STATE_CHANGE").nib = z.nib
      /\ Raise(z, "STATE_CHANGE").msgs = z.msgs
  BY <1>2, RaiseSound, EventNames
<1> QED
  BY <1>1, <1>2, <1>3 DEF JoinSucceeded, y, z

(* A resume that fails counts, and changes the mode when it counts to      *)
(* MaxResumeRetry at the latest: it never counts beyond.                   *)
LEMMA JoinFailedSound ==
  ASSUME NEW x, Sound(x)
  PROVE  /\ Sound(JoinFailed(x))
         /\ JoinFailed(x).nib = x.nib /\ JoinFailed(x).msgs = x.msgs
<1> DEFINE resume == x.mode = "RESUME"
           retry == IF resume THEN x.retry + 1 ELSE x.retry
           mode == IF resume /\ retry >= MaxResumeRetry THEN NextMode(x) ELSE x.mode
           y == [x EXCEPT !.retry = retry, !.disc = 1, !.mode = mode]
<1>1. MaxResumeRetry \in Nat /\ 1 \in 0 .. DiscWrap - 1
  BY ZDAppAssumption
<1>2. /\ retry \in 0 .. MaxResumeRetry
      /\ mode \in Modes
      /\ mode = "RESUME" => retry < MaxResumeRetry
      /\ mode \in {"RESUME", "REJOIN"} => x.nib # None /\ x.epid = x.nib
      /\ mode = "HARD" <=> x.mode = "HARD"
  BY <1>1 DEF Sound, Device, NextMode, Modes
<1> HIDE DEF mode, retry
<1>3. Sound(y) /\ y.nib = x.nib /\ y.msgs = x.msgs
  BY <1>1, <1>2 DEF Sound, Device, Waits
<1> HIDE DEF y
<1>4. /\ Sound(ZDApp_NetworkInit(y)) /\ ZDApp_NetworkInit(y).nib = y.nib
      /\ ZDApp_NetworkInit(y).msgs = y.msgs
  BY <1>3, NetworkInitSound
<1>5. JoinFailed(x) = ZDApp_NetworkInit(y)
  BY DEF JoinFailed, y, mode, retry, Sound, Device
<1> QED
  BY <1>3, <1>4, <1>5

LEMMA RejoinFailedSound ==
  ASSUME NEW x, Sound(x)
  PROVE  /\ Sound(RejoinFailed(x))
         /\ RejoinFailed(x).nib = x.nib /\ RejoinFailed(x).msgs = x.msgs
<1> DEFINE resume == x.mode = "RESUME"
           retry == IF resume THEN x.retry + 1 ELSE x.retry
           mode == IF resume /\ retry <= MaxResumeRetry THEN NextMode(x)
                   ELSE IF resume /\ InsecureJoin THEN "JOIN" ELSE x.mode
           y == [x EXCEPT !.retry = retry, !.mode = mode]
<1>1. MaxResumeRetry \in Nat
  BY ZDAppAssumption
<1>2. /\ retry \in 0 .. MaxResumeRetry
      /\ mode \in Modes
      /\ mode # "RESUME"
      /\ mode = "REJOIN" => x.nib # None /\ x.epid = x.nib
      /\ mode = "HARD" <=> x.mode = "HARD"
  BY <1>1 DEF Sound, Device, NextMode, Modes
<1> HIDE DEF mode, retry
<1>3. Sound(y) /\ y.nib = x.nib /\ y.msgs = x.msgs
  BY <1>1, <1>2 DEF Sound, Device, Waits
<1> HIDE DEF y
<1>4. /\ Sound(ZDApp_NetworkInit(y)) /\ ZDApp_NetworkInit(y).nib = y.nib
      /\ ZDApp_NetworkInit(y).msgs = y.msgs
  BY <1>3, NetworkInitSound
<1>5. RejoinFailed(x) = ZDApp_NetworkInit(y)
  BY DEF RejoinFailed, y, mode, retry, Sound, Device
<1> QED
  BY <1>3, <1>4, <1>5

LEMMA NetworkJoinSound ==
  ASSUME NEW x, Sound(x), x.nwkStatus /\ conf.type = "DEVICE" => x.nib # None,
         NEW ok \in BOOLEAN
  PROVE  /\ Sound(ZDApp_ProcessNetworkJoin(x, ok))
         /\ ZDApp_ProcessNetworkJoin(x, ok).nib = x.nib
         /\ ZDApp_ProcessNetworkJoin(x, ok).msgs = x.msgs
<1> DEFINE joining == Joining(x) \/ x.devState \in {"NWK_ORPHAN", "NWK_REJOIN"}
<1>1. CASE joining /\ x.nwkStatus
  BY <1>1, JoinSucceededSound DEF ZDApp_ProcessNetworkJoin
<1>2. CASE joining /\ ~ x.nwkStatus
  BY <1>2, JoinFailedSound, RejoinFailedSound DEF ZDApp_ProcessNetworkJoin
<1>3. CASE ~ joining
  <2>1. ZDApp_ProcessNetworkJoin(x, ok) = Raise(x, "STATE_CHANGE")
    BY <1>3 DEF ZDApp_ProcessNetworkJoin
  <2> QED
    BY <2>1, RaiseSound, EventNames
<1> QED
  BY <1>1, <1>2, <1>3

LEMMA JoinReqSound ==
  ASSUME NEW x, Sound(x), conf.type # "COORDINATOR", x.nib # None
  PROVE  /\ Sound(JoinReq(x)) /\ JoinReq(x).nib = x.nib /\ JoinReq(x).msgs = x.msgs
<1> DEFINE y == [x EXCEPT !.retry = 0, !.mode = "RESUME", !.epid = x.nib]
<1>1. 0 < MaxResumeRetry /\ 0 \in 0 .. MaxResumeRetry /\ "RESUME" \in Modes
  BY ZDAppAssumption DEF Modes
<1>2. "form" \notin x.asked /\ x \in Device /\ x.nib \in Nets \cup {None}
  BY DEF Sound, Device
<1>3. y \in Device
  BY <1>1, <1>2 DEF Device
<1>4. /\ y.mode = "RESUME" /\ y.nib = x.nib /\ y.epid = x.nib /\ y.retry = 0
      /\ y.devState = x.devState /\ y.asked = x.asked /\ y.nwkStatus = x.nwkStatus
      /\ y.msgs = x.msgs
  BY <1>2 DEF Device
<1> HIDE DEF y
<1>5. \A m : Waits(y, m) = Waits(x, m)
  BY <1>4 DEF Waits
<1>6. Sound(y)
  BY <1>1, <1>2, <1>3, <1>4, <1>5 DEF Sound
<1>7. /\ Sound(Raise(y, "NETWORK_INIT")) /\ Raise(y, "NETWORK_INIT").nib = y.nib
      /\ Raise(y, "NETWORK_INIT").msgs = y.msgs
  BY <1>6, RaiseSound, EventNames
<1> QED
  BY <1>4, <1>7 DEF JoinReq, y

(* One message of the queue: what Sound says of those that wait is what    *)
(* its handler needs.                                                      *)
LEMMA ProcessSound ==
  ASSUME Sound(d), d.msgs # <<>>, NEW ok \in BOOLEAN
  PROVE  LET x == [d EXCEPT !.msgs = Tail(@)]
             y == Process(Head(d.msgs), x, ok)
         IN Sound(y) /\ y.nib = d.nib /\ y.msgs = Tail(d.msgs)
<1> DEFINE x == [d EXCEPT !.msgs = Tail(@)]
           msg == Head(d.msgs)
<1>1. d \in Device /\ d.msgs \in Seq(Msgs)
  BY DEF Sound, Device
<1>2. /\ Tail(d.msgs) \in Seq(Msgs) /\ msg \in Msgs
      /\ Len(Tail(d.msgs)) = Len(d.msgs) - 1 /\ Len(d.msgs) \in Nat \ {0}
      /\ \A i \in 1 .. Len(Tail(d.msgs)) : Tail(d.msgs)[i] = d.msgs[i + 1]
      /\ msg = d.msgs[1]
  BY <1>1, HeadTailProperties
<1>3. Waits(d, msg)
  BY <1>2 DEF Waits
<1>4. x \in Device /\ x.msgs = Tail(d.msgs)
  BY <1>1, <1>2 DEF Device
<1>5. /\ x.mode = d.mode /\ x.nib = d.nib /\ x.epid = d.epid /\ x.retry = d.retry
      /\ x.devState = d.devState /\ x.asked = d.asked /\ x.nwkStatus = d.nwkStatus
  BY <1>1 DEF Device
<1>6. ASSUME NEW m, Waits(x, m) PROVE Waits(d, m)
  BY <1>2, <1>4, <1>6 DEF Waits
<1>7. Sound(x)
  BY <1>4, <1>5, <1>6 DEF Sound
<1>8. /\ msg = "JOIN_IND" /\ x.nwkStatus /\ conf.type = "DEVICE" => x.nib # None
      /\ msg = "JOIN_REQ" => x.nib # None
  BY <1>3, <1>5 DEF Sound
<1> HIDE DEF x, msg
<1>9. Sound(Process(msg, x, ok)) /\ Process(msg, x, ok).nib = x.nib
      /\ Process(msg, x, ok).msgs = x.msgs
  <2>1. CASE conf.type = "COORDINATOR"
    BY <2>1, <1>7 DEF Process
  <2>2. CASE conf.type # "COORDINATOR" /\ msg = "DISC_FOUND"
    BY <2>2, <1>7, DiscCnfSound DEF Process
  <2>3. CASE conf.type # "COORDINATOR" /\ msg = "DISC_FAILED"
    BY <2>3, <1>7, DiscCnfSound DEF Process
  <2>4. CASE conf.type # "COORDINATOR" /\ msg = "JOIN_IND"
    BY <2>4, <1>7, <1>8, NetworkJoinSound DEF Process
  <2>5. CASE conf.type # "COORDINATOR" /\ msg = "JOIN_REQ"
    BY <2>5, <1>7, <1>8, JoinReqSound DEF Process
  <2> QED
    BY <1>2, <2>1, <2>2, <2>3, <2>4, <2>5 DEF Msgs
<1> QED
  BY <1>4, <1>5, <1>9 DEF x, msg

-----------------------------------------------------------------------------
(* The steps.  Sound of the next record is Sound, at the next state.       *)
LEMMA SoundNext ==
  ASSUME NEW x, Sound(x), conf' = conf, d' = x
  PROVE  Sound(d)'
<1>1. \A m : Waits(d, m)' = Waits(x, m)
  BY DEF Waits
<1> HIDE DEF Waits
<1> QED
  BY <1>1 DEF Sound

Apps == [msg : DevStates \cup {None}, state : DevStates \cup {None}]
Airs == [net : Nets \cup {None}, resets : 0 .. MaxResets, troubles : 0 .. MaxTroubles]
Hists == [told : Nets \cup {None}, torn : BOOLEAN, dropped : BOOLEAN]

(* A step of the running program that writes no item: either it forgets    *)
(* that it was told to leave, or it keeps its network.                     *)
LEMMA MemoryStep ==
  ASSUME IInv, at \in {"run", "loop"}, at' \in {"run", "loop"},
         conf' = conf, nv' = nv, app' \in Apps, air' \in Airs, hist' \in Hists,
         NEW x, d' = x, Sound(x), Len(x.msgs) <= MaxMsgs,
         \/ hist'.told = None
         \/ hist'.told = hist.told /\ hist'.torn = hist.torn /\ x.nib = d.nib
  PROVE  IInv'
<1>1. Sound(d)'
  BY SoundNext
<1>2. TypeOK'
  BY DEF IInv, TypeOK, Sound, Apps, Airs, Hists
<1>3. Forgotten'
  BY DEF Forgotten
<1>4. Left'
  BY DEF IInv, Left, Unrestorable
<1> QED
  BY <1>1, <1>2, <1>3, <1>4 DEF IInv

LEMMA FreshSound ==
  ASSUME conf.type \in Types
  PROVE  Sound(Fresh(conf.type)) /\ Fresh(conf.type).nib = None
         /\ Fresh(conf.type).retry = 0 /\ Fresh(conf.type).asked = {} /\ Fresh(conf.type).msgs = <<>>
<1> DEFINE x == Fresh(conf.type)
<1>1. x \in Device
  BY ZDAppAssumption DEF Fresh, Device, DevStates, Modes, Joined
<1>2. /\ x.devState = "INIT" /\ x.mode = (IF conf.type = "COORDINATOR" THEN "HARD" ELSE "JOIN")
      /\ x.nib = None /\ x.retry = 0 /\ x.asked = {} /\ x.msgs = <<>>
  BY DEF Fresh
<1> HIDE DEF x
<1>3. \A m : ~ Waits(x, m)
  BY <1>2 DEF Waits
<1>4. Sound(x)
  BY <1>1, <1>2, <1>3 DEF Sound, Joined
<1> QED
  BY <1>2, <1>4 DEF x

LEMMA InitIInv == Init => IInv
<1> SUFFICES ASSUME Init PROVE IInv
  OBVIOUS
<1>1. Sound(d) /\ d.nib = None /\ d.retry = 0 /\ d.asked = {} /\ d.msgs = <<>>
  BY FreshSound DEF Init
<1>2. TypeOK
  BY <1>1, ZDAppAssumption DEF Init, TypeOK, Sound
<1> QED
  BY <1>1, <1>2 DEF IInv, Init, Forgotten, Left

LEMMA Receives ==
  ASSUME IInv, NEW ok \in BOOLEAN, Receive(ok)
  PROVE  IInv'
<1> DEFINE x == Process(Head(d.msgs), [d EXCEPT !.msgs = Tail(@)], ok)
<1>1. Sound(d) /\ d.msgs # <<>>
  BY DEF IInv, Receive
<1>2. Sound(x) /\ x.nib = d.nib /\ x.msgs = Tail(d.msgs)
  BY <1>1, ProcessSound
<1>3. Len(Tail(d.msgs)) <= MaxMsgs
  <2>1. d.msgs \in Seq(Msgs) /\ Len(d.msgs) <= MaxMsgs /\ MaxMsgs \in Nat
    BY ZDAppAssumption DEF IInv, TypeOK, Device
  <2> QED
    BY <1>1, <2>1, HeadTailProperties
<1>4. /\ at \in {"run", "loop"} /\ at' \in {"run", "loop"} /\ d' = x
      /\ conf' = conf /\ nv' = nv /\ app' = app /\ air' = air /\ hist' = hist
  BY DEF Receive
<1> HIDE DEF x
<1> QED
  BY <1>2, <1>3, <1>4, MemoryStep DEF IInv, TypeOK, Apps, Airs, Hists

(* One event done with.                                                    *)
LEMMA DoneSound ==
  ASSUME IInv, NEW e
  PROVE  Sound(Done(e)) /\ Done(e).nib = d.nib /\ Done(e).msgs = d.msgs
         /\ Len(d.msgs) <= MaxMsgs /\ Done(e).devState = d.devState /\ Done(e).energy = d.energy
BY DEF IInv, TypeOK, Sound, Device, Done, Waits

LEMMA InitsNetwork ==
  ASSUME IInv, NEW ok \in BOOLEAN, NetworkInit(ok)
  PROVE  IInv'
<1> DEFINE x == Done("NETWORK_INIT")
           y == ZDO_StartDevice(x, ok)
<1>1. Sound(x) /\ x.nib = d.nib /\ x.msgs = d.msgs /\ Len(d.msgs) <= MaxMsgs
  BY DoneSound
<1> HIDE DEF x
<1>2. Sound(y) /\ y.nib = d.nib /\ y.msgs = d.msgs
  BY <1>1, StartDeviceSound
<1>3. at = "run" /\ d' = y /\ UNCHANGED <<conf, at, nv, app, air, hist>>
  BY DEF NetworkInit, First, x
<1> HIDE DEF y
<1> QED
  BY <1>1, <1>2, <1>3, MemoryStep DEF IInv, TypeOK, Apps, Airs, Hists

LEMMA StartsNetwork ==
  ASSUME IInv, ZDApp_NetworkStartEvt
  PROVE  IInv'
<1> DEFINE x == Done("NETWORK_START")
           joined == IF x.devState = "COORD_STARTING" THEN "ZB_COORD" ELSE x.devState
           y1 == [x EXCEPT !.devState = joined]
           louder == x.energy + 1
           y2 == [x EXCEPT !.energy = louder]
           y3 == [x EXCEPT !.devState = "INIT"]
<1>1. /\ Sound(x) /\ x.nib = d.nib /\ x.msgs = d.msgs /\ Len(d.msgs) <= MaxMsgs
      /\ x.energy = d.energy
  BY DoneSound
<1>2. /\ at = "run" /\ UNCHANGED <<conf, at, nv, app, air, hist>>
      /\ \/ d' = Raise(y1, "STATE_CHANGE")
         \/ d.energy < EnergySteps /\ d' = Raise(y2, "NETWORK_INIT")
         \/ d' = Raise(y3, "STATE_CHANGE")
  BY DEF ZDApp_NetworkStartEvt, First
<1> HIDE DEF x
<1>3. Sound(y1) /\ y1.nib = x.nib /\ y1.msgs = x.msgs
  <2>1. /\ joined \in DevStates
        /\ joined \in {"NWK_ORPHAN", "NWK_REJOIN"} => x.nib # None
        /\ joined = "COORD_STARTING" => conf.type = "COORDINATOR"
        /\ joined \in Joined /\ conf.type = "DEVICE" => x.nib # None
    BY <1>1 DEF Sound, Device, DevStates, Joined
  <2> HIDE DEF joined
  <2> QED
    BY <1>1, <2>1, DevStateSound
<1>4. d.energy < EnergySteps => Sound(y2) /\ y2.nib = x.nib /\ y2.msgs = x.msgs
  <2>1. EnergySteps \in Nat /\ x.energy \in 0 .. EnergySteps
    BY <1>1, ZDAppAssumption DEF Sound, Device
  <2>2. d.energy < EnergySteps => louder \in 0 .. EnergySteps
    BY <1>1, <2>1
  <2> HIDE DEF louder
  <2> QED
    BY <1>1, <2>2 DEF Sound, Device, Waits
<1>5. Sound(y3) /\ y3.nib = x.nib /\ y3.msgs = x.msgs
  BY <1>1, DevStateSound DEF DevStates, Joined
<1> HIDE DEF y1, y2, y3
<1>6. Sound(d') /\ d'.nib = d.nib /\ d'.msgs = d.msgs
  <2>1. CASE d' = Raise(y1, "STATE_CHANGE")
    BY <2>1, <1>1, <1>3, RaiseSound, EventNames
  <2>2. CASE d.energy < EnergySteps /\ d' = Raise(y2, "NETWORK_INIT")
    BY <2>2, <1>1, <1>4, RaiseSound, EventNames
  <2>3. CASE d' = Raise(y3, "STATE_CHANGE")
    BY <2>3, <1>1, <1>5, RaiseSound, EventNames
  <2> QED
    BY <1>2, <2>1, <2>2, <2>3
<1> QED
  BY <1>1, <1>2, <1>6, MemoryStep DEF IInv, TypeOK, Apps, Airs, Hists
LEMMA StartsRouter ==
  ASSUME IInv, RouterStart
  PROVE  IInv'
<1> DEFINE x == Done("ROUTER_START")
           state == IF d.nwkStatus /\ x.devState = "END_DEVICE" THEN "ROUTER" ELSE x.devState
           y == [x EXCEPT !.devState = state]
<1>1. Sound(x) /\ x.nib = d.nib /\ x.msgs = d.msgs /\ Len(d.msgs) <= MaxMsgs
  BY DoneSound
<1>2. at = "run" /\ UNCHANGED <<conf, at, nv, app, air, hist>> /\ d' = Raise(y, "STATE_CHANGE")
  BY DEF RouterStart, First
<1> HIDE DEF x
<1>3. Sound(y) /\ y.nib = x.nib /\ y.msgs = x.msgs
  <2>1. /\ state \in DevStates
        /\ state \in {"NWK_ORPHAN", "NWK_REJOIN"} => x.nib # None
        /\ state = "COORD_STARTING" => conf.type = "COORDINATOR"
        /\ state \in Joined /\ conf.type = "DEVICE" => x.nib # None
    BY <1>1 DEF Sound, Device, DevStates, Joined
  <2> HIDE DEF state
  <2> QED
    BY <1>1, <2>1, DevStateSound
<1> HIDE DEF y
<1>4. Sound(d') /\ d'.nib = d.nib /\ d'.msgs = d.msgs
  BY <1>1, <1>2, <1>3, RaiseSound, EventNames
<1> QED
  BY <1>1, <1>2, <1>4, MemoryStep DEF IInv, TypeOK, Apps, Airs, Hists

LEMMA TellsApp ==
  ASSUME IInv, NEW got \in BOOLEAN, ZDO_UpdateNwkStatus(got)
  PROVE  IInv'
<1>1. /\ at = "run" /\ UNCHANGED <<conf, at, nv, air, hist>>
      /\ d' \in {d, Done("STATE_CHANGE")}
      /\ app' \in {app, [app EXCEPT !.msg = d.devState]}
  BY DEF ZDO_UpdateNwkStatus, First
<1>2. app' \in Apps
  BY <1>1 DEF IInv, TypeOK, Device, Apps
<1>3. Sound(d') /\ d'.nib = d.nib /\ d'.msgs = d.msgs /\ Len(d.msgs) <= MaxMsgs
  BY <1>1, DoneSound DEF IInv
<1> QED
  BY <1>1, <1>2, <1>3, MemoryStep DEF IInv, TypeOK, Airs, Hists

(* The items name the network of the memory, which is not the one to leave.*)
LEMMA Saves ==
  ASSUME IInv, ZDApp_SaveNetworkStateEvt
  PROVE  IInv'
<1>1. /\ at = "run" /\ UNCHANGED <<conf, at, app, air, hist>>
      /\ d' = Done("NWK_UPDATE_NV") /\ nv' = [nv EXCEPT !.net = d.nib, !.new = FALSE]
  BY DEF ZDApp_SaveNetworkStateEvt, First
<1>2. Sound(d') /\ d'.nib = d.nib /\ d'.msgs = d.msgs /\ Len(d.msgs) <= MaxMsgs
  BY <1>1, DoneSound
<1>3. Sound(d)'
  BY <1>1, <1>2, SoundNext
<1>4. nv' \in [net : Nets \cup {None}, new : BOOLEAN, leave : {"init", "set", "set+ra"}]
      /\ nv'.leave = nv.leave /\ nv'.net = d.nib
  BY <1>1 DEF IInv, TypeOK, Device
<1>5. TypeOK'
  BY <1>1, <1>2, <1>4, <1>3 DEF IInv, TypeOK, Sound
<1>6. Forgotten' /\ Left'
  BY <1>1, <1>2, <1>4 DEF IInv, Forgotten, Left, Unrestorable
<1> QED
  BY <1>3, <1>5, <1>6 DEF IInv

(* A reset: what it loses is what could have named the network to leave.   *)
LEMMA Resets ==
  ASSUME IInv, Reset, air' \in Airs, hist' \in Hists, hist'.told = hist.told,
         hist'.torn = (hist.torn \/ at = "hold"),
         nv' = nv \/ (at = "run" /\ nv' = [nv EXCEPT !.net = d.nib])
  PROVE  IInv'
<1> DEFINE x == Fresh(conf.type)
<1>1. Sound(x) /\ x.nib = None /\ x.retry = 0 /\ x.asked = {} /\ x.msgs = <<>>
  BY FreshSound DEF IInv, TypeOK
<1>2. /\ at' = "boot" /\ d' = x /\ app' = [msg |-> None, state |-> None]
      /\ conf' = conf
  BY DEF Reset
<1> HIDE DEF x
<1>3. Sound(d)'
  BY <1>1, <1>2, SoundNext
<1>4. /\ nv' \in [net : Nets \cup {None}, new : BOOLEAN, leave : {"init", "set", "set+ra"}]
      /\ nv'.leave = nv.leave /\ nv'.new = nv.new
      /\ nv'.net = nv.net \/ (at = "run" /\ nv'.net = d.nib)
  BY DEF IInv, TypeOK, Device
<1>5. TypeOK'
  BY <1>1, <1>2, <1>3, <1>4, ZDAppAssumption DEF IInv, TypeOK, Sound, Airs, Hists
<1>6. Forgotten' /\ Left'
  BY <1>1, <1>2, <1>4 DEF IInv, Forgotten, Left, Unrestorable
<1> QED
  BY <1>3, <1>5, <1>6 DEF IInv

LEMMA Expires ==
  ASSUME IInv, NEW e \in Timers, Expire(e)
  PROVE  IInv'
<1> DEFINE x == [d EXCEPT !.timers = @ \ {e}]
<1>1. Sound(x) /\ x.nib = d.nib /\ x.msgs = d.msgs /\ Len(d.msgs) <= MaxMsgs
  BY DEF IInv, TypeOK, Sound, Device, Waits
<1>2. at = "run" /\ UNCHANGED <<conf, at, nv, app, air, hist>> /\ d' = Raise(x, e)
  BY DEF Expire
<1> HIDE DEF x
<1>3. Sound(d') /\ d'.nib = d.nib /\ d'.msgs = d.msgs
  BY <1>1, <1>2, RaiseSound, EventNames
<1> QED
  BY <1>1, <1>2, <1>3, MemoryStep DEF IInv, TypeOK, Apps, Airs, Hists

-----------------------------------------------------------------------------
(* The start.                                                              *)
LEMMA Starts ==
  ASSUME IInv, Start
  PROVE  IInv' /\ (~ hist.torn /\ hist.told # None => d'.nib # hist.told)
<1> DEFINE y == [d EXCEPT !.mode = "RESUME", !.nib = nv.net, !.epid = nv.net]
<1>1. /\ at = "boot" /\ at' = "run" /\ nv.leave # "set" /\ UNCHANGED <<conf, app, air, hist>>
      /\ d' = IF Restorable THEN Raise(y, "NETWORK_INIT") ELSE ZDApp_NetworkInit(d)
      /\ nv' = [nv EXCEPT !.leave = "init",
                          !.net = IF conf.nvRestore /\ ~ Restorable THEN None ELSE @]
  BY DEF Start
<1>2. /\ Sound(d) /\ d.nib = None /\ d.retry = 0 /\ d.asked = {} /\ d.msgs = <<>>
      /\ nv \in [net : Nets \cup {None}, new : BOOLEAN, leave : {"init", "set", "set+ra"}]
  BY <1>1 DEF IInv, Forgotten, TypeOK
<1>3. d.devState \notin {"NWK_ORPHAN", "NWK_REJOIN"}
  BY <1>2 DEF Sound
<1>4. CASE Restorable
  <2>1. nv.net # None /\ nv.net \in Nets \cup {None}
    BY <1>2, <1>4 DEF Restorable
  <2>2. /\ y.mode = "RESUME" /\ y.nib = nv.net /\ y.epid = nv.net /\ y.retry = 0
        /\ y.asked = {} /\ y.msgs = <<>> /\ y.devState = d.devState
    BY <1>2 DEF Sound, Device
  <2>3. y \in Device
    BY <1>2, <2>1 DEF Sound, Device, Modes
  <2> HIDE DEF y
  <2>4. \A m : ~ Waits(y, m)
    BY <2>2 DEF Waits
  <2>5. Sound(y)
    BY <1>2, <2>1, <2>2, <2>3, <2>4, ZDAppAssumption DEF Sound
  <2>6. Sound(d') /\ d'.nib = nv.net /\ d'.msgs = <<>>
    BY <1>1, <1>4, <2>2, <2>5, RaiseSound, EventNames
  <2>7. /\ nv'.net = nv.net /\ nv'.new = nv.new /\ nv'.leave = "init"
        /\ nv' \in [net : Nets \cup {None}, new : BOOLEAN, leave : {"init", "set", "set+ra"}]
    BY <1>1, <1>2, <1>4
  <2>8. Sound(d)'
    BY <1>1, <2>6, SoundNext
  <2>9. TypeOK'
    BY <1>1, <2>6, <2>7, <2>8, ZDAppAssumption DEF IInv, TypeOK, Sound
  <2>10. ~ hist.torn /\ hist.told # None => nv.net # hist.told
    BY <1>1, <1>4 DEF IInv, Left, Unrestorable, Restorable
  <2>11. Forgotten' /\ Left'
    BY <1>1, <2>6, <2>7, <2>10 DEF Forgotten, Left, Unrestorable
  <2> QED
    BY <2>6, <2>8, <2>9, <2>10, <2>11 DEF IInv
<1>5. CASE ~ Restorable
  <2>1. Sound(d') /\ d'.nib = None /\ d'.msgs = <<>>
    BY <1>1, <1>2, <1>5, NetworkInitSound
  <2>2. /\ nv'.net \in {nv.net, None} /\ nv'.new = nv.new /\ nv'.leave = "init"
        /\ nv' \in [net : Nets \cup {None}, new : BOOLEAN, leave : {"init", "set", "set+ra"}]
    BY <1>1, <1>2, <1>5
  <2>3. Sound(d)'
    BY <1>1, <2>1, SoundNext
  <2>4. TypeOK'
    BY <1>1, <2>1, <2>2, <2>3, ZDAppAssumption DEF IInv, TypeOK, Sound
  <2>5. Forgotten' /\ Left'
    BY <1>1, <2>1, <2>2 DEF IInv, Forgotten, Left, Unrestorable
  <2> QED
    BY <2>1, <2>3, <2>4, <2>5 DEF IInv
<1> QED
  BY <1>4, <1>5

LEMMA StartsOnHold ==
  ASSUME IInv, StartOnHold
  PROVE  IInv'
<1> DEFINE x == [d EXCEPT !.devState = "HOLD"]
<1>1. /\ at = "boot" /\ at' = "hold" /\ UNCHANGED <<conf, app, air, hist>>
      /\ d' = x /\ nv' = [nv EXCEPT !.leave = "init"]
  BY DEF StartOnHold
<1>2. /\ Sound(d) /\ d.nib = None /\ d.retry = 0 /\ d.asked = {} /\ d.msgs = <<>>
  BY <1>1 DEF IInv, Forgotten
<1>3. Sound(x) /\ x.nib = None /\ x.retry = 0 /\ x.asked = {} /\ x.msgs = <<>>
  BY <1>2 DEF Sound, Device, DevStates, Joined, Waits
<1> HIDE DEF x
<1>4. Sound(d)'
  BY <1>1, <1>3, SoundNext
<1>5. TypeOK'
  BY <1>1, <1>3, <1>4, ZDAppAssumption DEF IInv, TypeOK, Sound
<1> QED
  BY <1>1, <1>3, <1>4, <1>5 DEF IInv, Forgotten, Left

LEMMA Holds ==
  ASSUME IInv, Hold
  PROVE  IInv'
<1>1. /\ at = "hold" /\ at' = "run" /\ UNCHANGED <<conf, app, air, hist>>
      /\ d' = Raise(d, "STATE_CHANGE") /\ nv' = [nv EXCEPT !.new = TRUE]
  BY DEF Hold
<1>2. /\ Sound(d) /\ d.nib = None /\ d.msgs = <<>>
  BY <1>1 DEF IInv, Forgotten
<1>3. Sound(d') /\ d'.nib = None /\ d'.msgs = <<>>
  BY <1>1, <1>2, RaiseSound, EventNames
<1>4. Sound(d)'
  BY <1>1, <1>3, SoundNext
<1>5. nv' \in [net : Nets \cup {None}, new : BOOLEAN, leave : {"init", "set", "set+ra"}]
      /\ nv'.new = TRUE
  BY <1>1 DEF IInv, TypeOK
<1>6. TypeOK'
  BY <1>1, <1>3, <1>4, <1>5, ZDAppAssumption DEF IInv, TypeOK, Sound
<1> QED
  BY <1>1, <1>3, <1>4, <1>5, <1>6 DEF IInv, Forgotten, Left, Unrestorable
-----------------------------------------------------------------------------
(* The call-backs of the network layer.                                    *)
LEMMA SendsMsg ==
  ASSUME IInv, NEW x, Sound(x), x.msgs = d.msgs, NEW msg \in Msgs, NEW sent \in BOOLEAN,
         NEW told \in Nets \cup {None}, ZDApp_SendMsg(x, msg, sent, told),
         told = None \/ (told = hist.told /\ x.nib = d.nib),
         msg = "JOIN_IND" /\ x.nwkStatus /\ conf.type = "DEVICE" => x.nib # None,
         msg = "JOIN_REQ" => x.nib # None,
         UNCHANGED <<conf, at, nv, app>>, air' \in Airs
  PROVE  IInv'
<1> DEFINE y == [x EXCEPT !.msgs = Append(@, msg)]
<1>1. /\ at = "run" /\ d' = (IF sent THEN y ELSE x) /\ Len(d.msgs) < MaxMsgs
      /\ hist' = [hist EXCEPT !.dropped = @ \/ ~ sent, !.told = told]
  BY DEF ZDApp_SendMsg
<1>2. hist' \in Hists /\ hist'.told = told /\ hist'.torn = hist.torn
  BY <1>1 DEF IInv, TypeOK, Hists
<1>3. x \in Device /\ x.msgs \in Seq(Msgs) /\ MaxMsgs \in Nat
  BY ZDAppAssumption DEF Sound, Device
<1>4. /\ Append(x.msgs, msg) \in Seq(Msgs)
      /\ Len(Append(x.msgs, msg)) = Len(x.msgs) + 1
      /\ \A i \in 1 .. Len(x.msgs) : Append(x.msgs, msg)[i] = x.msgs[i]
      /\ Append(x.msgs, msg)[Len(x.msgs) + 1] = msg
      /\ Len(x.msgs) \in Nat
  BY <1>3
<1>5. Sound(y) /\ y.nib = x.nib /\ y.msgs = Append(x.msgs, msg)
  <2>1. y \in Device /\ y.msgs = Append(x.msgs, msg)
    BY <1>3, <1>4 DEF Device
  <2>2. /\ y.mode = x.mode /\ y.nib = x.nib /\ y.epid = x.epid /\ y.retry = x.retry
        /\ y.devState = x.devState /\ y.asked = x.asked /\ y.nwkStatus = x.nwkStatus
    BY <1>3 DEF Device
  <2> HIDE DEF y
  <2>3. ASSUME NEW m, Waits(y, m) PROVE m = msg \/ Waits(x, m)
    <3>1. PICK i \in 1 .. Len(y.msgs) : y.msgs[i] = m
      BY <2>3 DEF Waits
    <3>2. CASE i = Len(x.msgs) + 1
      BY <3>1, <3>2, <2>1, <1>4
    <3>3. CASE i \in 1 .. Len(x.msgs)
      BY <3>1, <3>3, <2>1, <1>4 DEF Waits
    <3> QED
      BY <3>1, <3>2, <3>3, <2>1, <1>4
  <2> QED
    BY <2>1, <2>2, <2>3 DEF Sound
<1> HIDE DEF y
<1>6. Sound(d') /\ d'.nib = x.nib /\ Len(d'.msgs) <= MaxMsgs
  BY <1>1, <1>3, <1>4, <1>5
<1> QED
  BY <1>1, <1>2, <1>6, MemoryStep DEF IInv, TypeOK, Apps

LEMMA AnsweredSound ==
  ASSUME IInv, NEW request
  PROVE  LET x == Answered(request)
         IN /\ Sound(x) /\ x.msgs = d.msgs /\ x.nib = d.nib /\ x.nwkStatus = d.nwkStatus
            /\ x.asked = d.asked \ {request} /\ x.devState = d.devState /\ x.mode = d.mode
            /\ Len(d.msgs) <= MaxMsgs
BY DEF IInv, TypeOK, Answered, Sound, Device, Waits

LEMMA TroubleType ==
  ASSUME IInv, Trouble \/ air' = air
  PROVE  air' \in Airs
<1>1. MaxTroubles \in Nat
  BY ZDAppAssumption
<1> QED
  BY <1>1 DEF IInv, TypeOK, Trouble, Airs

LEMMA DiscoveryConfirmed ==
  ASSUME IInv, NEW found \in BOOLEAN, NEW sent \in BOOLEAN,
         ZDO_NetworkDiscoveryConfirmCB(found, sent)
  PROVE  IInv'
<1> DEFINE x == Answered("disc")
           msg == IF found THEN "DISC_FOUND" ELSE "DISC_FAILED"
<1>1. Sound(x) /\ x.msgs = d.msgs /\ x.nib = d.nib
  BY AnsweredSound
<1>2. /\ ZDApp_SendMsg(x, msg, sent, hist.told)
      /\ UNCHANGED <<conf, at, nv, app>> /\ air' \in Airs
  BY TroubleType DEF ZDO_NetworkDiscoveryConfirmCB
<1>3. msg \in Msgs /\ msg # "JOIN_IND" /\ msg # "JOIN_REQ"
  BY DEF Msgs
<1>4. hist.told \in Nets \cup {None}
  BY DEF IInv, TypeOK
<1> HIDE DEF x, msg
<1> QED
  BY <1>1, <1>2, <1>3, <1>4, SendsMsg

(* A join that succeeds names the network; a rejoin or an orphan scan was  *)
(* asked for one that was known.                                           *)
LEMMA JoinConfirmed ==
  ASSUME IInv, NEW request \in JoinRequests, NEW success \in BOOLEAN, NEW sent \in BOOLEAN,
         ZDO_JoinConfirmCB(request, success, sent)
  PROVE  IInv'
<1> DEFINE joined == success /\ request = "join"
           a == Answered(request)
           net == IF joined THEN air.net ELSE a.nib
           x == [a EXCEPT !.nwkStatus = success, !.nib = net]
           y == IF success THEN ZDApp_NVUpdate(x) ELSE x
           told == IF joined THEN None ELSE hist.told
<1>1. /\ request \in d.asked /\ (success => Reaches(request))
      /\ ZDApp_SendMsg(y, "JOIN_IND", sent, told)
      /\ UNCHANGED <<conf, at, nv, app>> /\ air' \in Airs
  BY TroubleType DEF ZDO_JoinConfirmCB
<1>2. /\ Sound(a) /\ a.msgs = d.msgs /\ a.nib = d.nib /\ Sound(d)
  BY AnsweredSound DEF IInv
<1>3. air.net \in Nets \cup {None} /\ hist.told \in Nets \cup {None}
  BY DEF IInv, TypeOK
<1>4. joined => air.net # None /\ d.epid \in {air.net, None}
  BY <1>1 DEF Reaches, Suits
<1>5. success => net # None
  BY <1>1, <1>2, <1>4 DEF Sound, JoinRequests
<1>6. a.mode \in {"RESUME", "REJOIN"} => net # None /\ a.epid = net
  <2>1. a.epid = d.epid /\ a.mode = d.mode
    BY DEF Answered, IInv, Sound, Device
  <2> QED
    BY <2>1, <1>2, <1>3, <1>4 DEF Sound
<1>7. a.nib # None => net # None
  BY <1>4
<1>8. net \in Nets \cup {None}
  BY <1>2, <1>3 DEF Sound, Device
<1> HIDE DEF a, net
<1>9. Sound(x) /\ x.msgs = d.msgs /\ x.nib = net /\ x.nwkStatus = success
  <2>1. x \in Device
    BY <1>2, <1>8 DEF Sound, Device
  <2>2. /\ x.mode = a.mode /\ x.nib = net /\ x.epid = a.epid /\ x.retry = a.retry
        /\ x.devState = a.devState /\ x.asked = a.asked /\ x.nwkStatus = success
        /\ x.msgs = a.msgs
    BY <1>2 DEF Sound, Device
  <2> HIDE DEF x
  <2>3. \A m : Waits(x, m) = Waits(a, m)
    BY <2>2 DEF Waits
  <2> QED
    BY <2>1, <2>2, <2>3, <1>2, <1>5, <1>6, <1>7 DEF Sound
<1> HIDE DEF x
<1>10. Sound(y) /\ y.msgs = d.msgs /\ y.nib = net
  BY <1>9, NVUpdateSound
<1>11. y.nwkStatus = success
  <2>1. x \in Device
    BY <1>9 DEF Sound
  <2>2. StartTimer(x, "NWK_UPDATE_NV").nwkStatus = x.nwkStatus
    BY <2>1 DEF StartTimer, Device
  <2>3. ZDApp_NVUpdate(x) \in {x, StartTimer(x, "NWK_UPDATE_NV")}
    BY DEF ZDApp_NVUpdate
  <2>4. y \in {x, StartTimer(x, "NWK_UPDATE_NV")}
    BY <2>3
  <2> QED
    BY <1>9, <2>2, <2>4
<1>12. told = None \/ (told = hist.told /\ y.nib = d.nib)
  BY <1>10, <1>2 DEF net
<1> HIDE DEF y, told
<1>13. told \in Nets \cup {None} /\ "JOIN_IND" \in Msgs
  BY <1>3 DEF told, Msgs
<1> QED
  BY <1>1, <1>5, <1>10, <1>11, <1>12, <1>13, SendsMsg
LEMMA FormationConfirmed ==
  ASSUME IInv, NEW request \in {"form", "resume"}, NEW success \in BOOLEAN,
         ZDO_NetworkFormationConfirmCB(request, success)
  PROVE  IInv'
<1> DEFINE formed == success /\ request = "form"
           a == Answered(request)
<1>1. PICK net \in Nets :
        d' = Raise([a EXCEPT !.nwkStatus = success, !.nib = IF formed THEN net ELSE @],
                   "NETWORK_START")
  BY DEF ZDO_NetworkFormationConfirmCB
<1> DEFINE nib == IF formed THEN net ELSE a.nib
           x == [a EXCEPT !.nwkStatus = success, !.nib = nib]
<1>2. /\ request \in d.asked /\ at = "run" /\ UNCHANGED <<conf, at, nv, app, air>>
      /\ hist' = [hist EXCEPT !.told = IF formed THEN None ELSE @]
      /\ d' = Raise(x, "NETWORK_START")
  BY <1>1 DEF ZDO_NetworkFormationConfirmCB
<1>3. /\ Sound(a) /\ a.msgs = d.msgs /\ a.nib = d.nib /\ Sound(d) /\ a.mode = d.mode
      /\ Len(d.msgs) <= MaxMsgs
  BY AnsweredSound DEF IInv
<1>4. /\ conf.type = "COORDINATOR"
      /\ formed => a.mode = "HARD"
  BY <1>2, <1>3 DEF Sound
<1>5. nib \in Nets \cup {None} /\ (a.nib # None => nib # None) /\ (~ formed => nib = a.nib)
  BY <1>3, NoneAssumption DEF Sound, Device
<1> HIDE DEF a, nib
<1>6. Sound(x) /\ x.msgs = d.msgs /\ x.nib = nib
  <2>1. x \in Device
    BY <1>3, <1>5 DEF Sound, Device
  <2>2. /\ x.mode = a.mode /\ x.nib = nib /\ x.epid = a.epid /\ x.retry = a.retry
        /\ x.devState = a.devState /\ x.asked = a.asked /\ x.msgs = a.msgs
    BY <1>3 DEF Sound, Device
  <2> HIDE DEF x
  <2>3. \A m : Waits(x, m) = Waits(a, m)
    BY <2>2 DEF Waits
  <2> QED
    BY <2>1, <2>2, <2>3, <1>3, <1>4, <1>5 DEF Sound
<1> HIDE DEF x
<1>7. Sound(d') /\ d'.nib = nib /\ d'.msgs = d.msgs
  BY <1>2, <1>6, RaiseSound, EventNames
<1>8. /\ hist' \in Hists
      /\ hist'.told = None \/ (hist'.told = hist.told /\ hist'.torn = hist.torn /\ ~ formed)
  BY <1>2 DEF IInv, TypeOK, Hists
<1> QED
  BY <1>2, <1>3, <1>5, <1>7, <1>8, MemoryStep DEF IInv, TypeOK, Apps, Airs

LEMMA RouterConfirmed ==
  ASSUME IInv, NEW success \in BOOLEAN, ZDO_StartRouterConfirmCB(success)
  PROVE  IInv'
<1> DEFINE a == Answered("router")
           x == [a EXCEPT !.nwkStatus = success]
<1>1. /\ Sound(a) /\ a.msgs = d.msgs /\ a.nib = d.nib /\ a.asked = d.asked \ {"router"}
      /\ Len(d.msgs) <= MaxMsgs
  BY AnsweredSound
<1>2. /\ at = "run" /\ "router" \in d.asked /\ UNCHANGED <<conf, at, nv, app, air, hist>>
      /\ d' = Raise(x, "ROUTER_START")
  BY DEF ZDO_StartRouterConfirmCB
<1>3. conf.type = "ROUTER"
  BY <1>2 DEF IInv, Sound
<1> HIDE DEF a
<1>4. Sound(x) /\ x.msgs = a.msgs /\ x.nib = a.nib
  BY <1>1, <1>3 DEF Sound, Device, Waits
<1> HIDE DEF x
<1>5. Sound(d') /\ d'.nib = d.nib /\ d'.msgs = d.msgs
  BY <1>1, <1>2, <1>4, RaiseSound, EventNames
<1> QED
  BY <1>1, <1>2, <1>5, MemoryStep DEF IInv, TypeOK, Apps, Airs, Hists

(* A new address, or a new child, is to be saved.                          *)
LEMMA Indicated ==
  ASSUME IInv, ZDO_AddrChangeIndicationCB \/ ZDO_JoinIndicationCB
  PROVE  IInv'
<1> DEFINE x == ZDApp_NVUpdate(d)
<1>1. /\ at = "run" /\ UNCHANGED <<conf, at, nv, app, air, hist>>
      /\ d' \in {x, Raise(x, "STATE_CHANGE")}
  BY DEF ZDO_AddrChangeIndicationCB, ZDO_JoinIndicationCB, InNetwork
<1>2. Sound(x) /\ x.nib = d.nib /\ x.msgs = d.msgs /\ Len(d.msgs) <= MaxMsgs
  BY NVUpdateSound DEF IInv, TypeOK
<1> HIDE DEF x
<1>3. Sound(d') /\ d'.nib = d.nib /\ d'.msgs = d.msgs
  <2>1. CASE d' = x
    BY <1>2, <2>1
  <2>2. CASE d' = Raise(x, "STATE_CHANGE")
    <3>1. "STATE_CHANGE" \in Events
      BY EventNames
    <3>2. /\ Sound(Raise(x, "STATE_CHANGE")) /\ Raise(x, "STATE_CHANGE").nib = x.nib
          /\ Raise(x, "STATE_CHANGE").msgs = x.msgs
      BY <1>2, <3>1, RaiseSound
    <3> QED
      BY <1>2, <2>2, <3>2
  <2> QED
    BY <1>1, <2>1, <2>2
<1>4. app' \in Apps /\ air' \in Airs /\ hist' \in Hists
  BY <1>1 DEF IInv, TypeOK, Apps, Airs, Hists
<1>5. Len(d'.msgs) <= MaxMsgs
  BY <1>2, <1>3
<1> HIDE DEF IInv
<1> QED
  BY <1>1, <1>3, <1>4, <1>5, MemoryStep

LEMMA Leaves ==
  ASSUME IInv, NEW rejoin \in BOOLEAN, Leave(rejoin)
  PROVE  IInv'
<1>1. /\ at = "run" /\ UNCHANGED <<conf, at, app>> /\ air' \in Airs
      /\ d' = StartTimer(d, "DEVICE_RESET")
      /\ nv' = [nv EXCEPT !.leave = IF rejoin THEN "set+ra" ELSE "set"]
      /\ hist' = [hist EXCEPT !.told = IF rejoin THEN None ELSE d.nib]
  BY TroubleType DEF Leave, InNetwork
<1>2. /\ Sound(d') /\ d'.nib = d.nib /\ d'.msgs = d.msgs /\ Len(d.msgs) <= MaxMsgs
      /\ d.nib \in Nets \cup {None}
  BY <1>1, StartTimerSound DEF IInv, TypeOK, Timers, Device
<1>3. Sound(d)'
  BY <1>1, <1>2, SoundNext
<1>4. /\ nv' \in [net : Nets \cup {None}, new : BOOLEAN, leave : {"init", "set", "set+ra"}]
      /\ hist' \in Hists
      /\ hist'.told # None => nv'.leave = "set"
  BY <1>1, <1>2 DEF IInv, TypeOK, Hists
<1>5. TypeOK'
  BY <1>1, <1>2, <1>3, <1>4 DEF IInv, TypeOK, Sound, Airs, Hists
<1> QED
  BY <1>1, <1>3, <1>4, <1>5 DEF IInv, Forgotten, Left

LEMMA SyncIndicated ==
  ASSUME IInv, NEW sent \in BOOLEAN, ZDO_SyncIndicationCB(sent)
  PROVE  IInv'
<1>1. /\ ZDApp_SendMsg(d, "JOIN_REQ", sent, hist.told)
      /\ UNCHANGED <<conf, at, nv, app>> /\ air' \in Airs
      /\ d.devState \in Joined /\ conf.type = "DEVICE"
  BY TroubleType DEF ZDO_SyncIndicationCB, InNetwork
<1>2. Sound(d) /\ d.nib # None /\ hist.told \in Nets \cup {None} /\ "JOIN_REQ" \in Msgs
  BY <1>1 DEF IInv, TypeOK, Sound, Msgs
<1> QED
  BY <1>1, <1>2, SendsMsg

(* Steps that leave the device alone.                                      *)
LEMMA Bystanders ==
  ASSUME IInv, AppReads \/ Move \/ UNCHANGED vars
  PROVE  IInv'
<1>1. UNCHANGED <<conf, at, d, nv, hist>>
  BY DEF AppReads, Move, vars
<1>2. app' \in Apps
  <2>1. app \in Apps
    BY DEF IInv, TypeOK, Apps
  <2>2. app' = app \/ app' = [msg |-> None, state |-> app.msg]
    BY DEF AppReads, Move, vars
  <2>3. [msg |-> None, state |-> app.msg] \in Apps
    BY <2>1 DEF Apps
  <2> QED
    BY <2>1, <2>2, <2>3
<1>3. air' \in Airs
  <2>1. MaxTroubles \in Nat /\ air \in Airs
    BY ZDAppAssumption DEF IInv, TypeOK, Airs
  <2>2. CASE Move
    <3>1. PICK net \in Nets \cup {None} : air' = [air EXCEPT !.net = net, !.troubles = @ + 1]
      BY <2>2 DEF Move
    <3>2. air.troubles < MaxTroubles
      BY <2>2 DEF Move
    <3>3. [air EXCEPT !.net = net, !.troubles = @ + 1] \in Airs
      <4>1. air.troubles + 1 \in 0 .. MaxTroubles
        BY <2>1, <3>2 DEF Airs
      <4> DEFINE n == air.troubles + 1
      <4> HIDE DEF n
      <4>2. [air EXCEPT !.net = net, !.troubles = n] \in Airs
        BY <2>1, <4>1 DEF Airs, n
      <4> QED
        BY <4>2 DEF n
    <3> QED
      BY <3>1, <3>3
  <2>3. CASE AppReads \/ UNCHANGED vars
    BY <2>1, <2>3 DEF AppReads, vars
  <2> QED
    BY <2>2, <2>3
<1>4. Sound(d)'
  BY <1>1, SoundNext DEF IInv
<1>5. TypeOK'
  BY <1>1, <1>2, <1>3 DEF IInv, TypeOK, Apps, Airs
<1> QED
  BY <1>1, <1>4, <1>5 DEF IInv, Forgotten, Left, Unrestorable

LEMMA ResetSteps ==
  ASSUME IInv, PowerFails \/ DeviceReset
  PROVE  IInv'
<1>1. Reset
  BY DEF PowerFails, DeviceReset
<1>2. /\ air' \in Airs /\ hist' \in Hists /\ hist'.told = hist.told
      /\ hist'.torn = (hist.torn \/ at = "hold")
      /\ nv' = nv \/ (at = "run" /\ nv' = [nv EXCEPT !.net = d.nib])
  <2>1. CASE DeviceReset
    BY <2>1 DEF DeviceReset, First, IInv, TypeOK, Airs, Hists
  <2>2. CASE PowerFails
    <3>1. MaxResets \in Nat /\ air \in Airs /\ hist \in Hists
      BY ZDAppAssumption DEF IInv, TypeOK, Airs, Hists
    <3>2. /\ air.resets < MaxResets /\ air' = [air EXCEPT !.resets = @ + 1]
          /\ hist' = [hist EXCEPT !.torn = @ \/ at = "hold"]
      BY <2>2 DEF PowerFails
    <3>3. air' \in Airs
      BY <3>1, <3>2 DEF Airs
    <3>4. hist' \in Hists /\ hist'.told = hist.told /\ hist'.torn = (hist.torn \/ at = "hold")
      BY <3>1, <3>2 DEF Hists
    <3>5. nv' = nv \/ (at = "run" /\ nv' = [nv EXCEPT !.net = d.nib])
      BY <2>2 DEF PowerFails, First
    <3> QED
      BY <3>3, <3>4, <3>5
  <2> QED
    BY <2>1, <2>2
<1> QED
  BY <1>1, <1>2, Resets

-----------------------------------------------------------------------------
LEMMA NextIInv == IInv /\ [Next]_vars => IInv'
<1> SUFFICES ASSUME IInv, [Next]_vars PROVE IInv'
  OBVIOUS
<1>1. CASE Boot
  BY <1>1, Starts, StartsOnHold, Holds DEF Boot
<1>2. CASE AppReads \/ Move \/ UNCHANGED vars
  BY <1>2, Bystanders
<1>3. CASE ZDO_AddrChangeIndicationCB \/ ZDO_JoinIndicationCB
  BY <1>3, Indicated
<1>4. ASSUME NEW rejoin \in BOOLEAN, Leave(rejoin) PROVE IInv'
  BY <1>4, Leaves
<1>5. ASSUME NEW sent \in BOOLEAN, ZDO_SyncIndicationCB(sent) PROVE IInv'
  BY <1>5, SyncIndicated
<1>6. ASSUME NEW ok \in BOOLEAN, ZDAppTask(ok) PROVE IInv'
  BY <1>6, Receives, InitsNetwork, StartsNetwork, StartsRouter, TellsApp, Saves, ResetSteps
     DEF ZDAppTask
<1>7. ASSUME NEW e \in Timers, Expire(e) PROVE IInv'
  BY <1>7, Expires
<1>8. ASSUME NEW success \in BOOLEAN, NEW sent \in BOOLEAN, CallBack(success, sent) PROVE IInv'
  BY <1>8, DiscoveryConfirmed, JoinConfirmed, FormationConfirmed, RouterConfirmed DEF CallBack
<1>9. CASE PowerFails
  BY <1>9, ResetSteps
<1> QED
  BY <1>1, <1>2, <1>3, <1>4, <1>5, <1>6, <1>7, <1>8, <1>9 DEF Next, Outside

LEMMA Invariance == Spec => []IInv
<1>1. Init => IInv
  BY InitIInv
<1>2. IInv /\ [Next]_vars => IInv'
  BY NextIInv
<1> QED
  BY <1>1, <1>2, PTL DEF Spec, RunningSpec

(* Types; and a device that resumes or rejoins knows a network and looks   *)
(* for no other: every failed attempt leaves ZDApp with one to look for.   *)
THEOREM ZDAppTypes == Spec => []TypeOK
<1>1. IInv => TypeOK
  BY DEF IInv
<1> QED
  BY <1>1, Invariance, PTL

(* Only a start brings the device from the reset to its event loop.        *)
LEMMA OnlyStartRuns ==
  ASSUME IInv, [Next]_vars, at = "boot", at' = "run"
  PROVE  Start
BY DEF Next, vars, Boot, StartOnHold, Hold, AppReads, Outside, ZDO_AddrChangeIndicationCB,
       ZDO_JoinIndicationCB, InNetwork, Leave, ZDO_SyncIndicationCB, Move, PowerFails, Reset,
       ZDAppTask, Receive, NetworkInit, ZDApp_NetworkStartEvt, RouterStart, First,
       ZDO_UpdateNwkStatus, ZDApp_SaveNetworkStateEvt, DeviceReset, Expire, CallBack,
       ZDO_NetworkDiscoveryConfirmCB, ZDO_JoinConfirmCB, ZDApp_SendMsg,
       ZDO_NetworkFormationConfirmCB, ZDO_StartRouterConfirmCB

(* A device told to leave a network for good does not restore it, however  *)
(* often and wherever the power fails but between the two writes of a      *)
(* start on hold (ZDApp_LeaveCtrlStartup, ZDOInitDevice).                  *)
THEOREM LeftForGood == Spec => LeaveIsFinal
<1> DEFINE Kept == at = "boot" /\ at' = "run" /\ ~ hist.torn /\ hist.told # None
                     => d'.nib # hist.told
<1>1. IInv /\ [Next]_vars => Kept
  BY OnlyStartRuns, Starts
<1> QED
  BY <1>1, Invariance, PTL DEF Spec, RunningSpec, LeaveIsFinal

(* "Do a normal join to the network after certain times of rejoin retries" *)
(* is the branch of ZDApp_ProcessNetworkJoin for a resume that has failed  *)
(* more than MAX_RESUME_RETRY times.  None ever has: the mode is changed   *)
(* before the count gets there, so the branch is dead.                     *)
ResumesCounted == d.mode = "RESUME" => d.retry < MaxResumeRetry

THEOREM FallbackIsDead == Spec => []ResumesCounted
<1>1. IInv => ResumesCounted
  BY DEF IInv, Sound, ResumesCounted
<1> QED
  BY <1>1, Invariance, PTL
===============================================================================
