------------------------- MODULE CallSession_proofs -------------------------
(***************************************************************************)
(* What holds of a call session for every set of phones, addresses and     *)
(* conferences and any number of inputs: its types, and the invariants     *)
(* that tie the call state to the ringer, the tone generator, the audio    *)
(* job and the conference id.                                              *)
(***************************************************************************)
EXTENDS CallSession, TLAPS

-----------------------------------------------------------------------------
(* The helpers of the handlers keep their variables' types. *)

(* Taking work from the queue, appending to it and concatenating to it     *)
(* leave a sequence of work.                                               *)
LEMMA FinishType ==
  ASSUME NEW p \in Phone, queue \in [Phone -> Seq(Intent)], queue[p] # <<>>, Finish(p)
  PROVE  queue' \in [Phone -> Seq(Intent)]
  BY DEF Finish

LEMMA EnqueueType ==
  ASSUME NEW p \in Phone, queue \in [Phone -> Seq(Intent)],
         NEW w \in Intent, Enqueue(p, w)
  PROVE  queue' \in [Phone -> Seq(Intent)]
  BY DEF Enqueue

LEMMA HeadType ==
  ASSUME NEW p \in Phone, queue \in [Phone -> Seq(Intent)], queue[p] # <<>>
  PROVE  /\ Head(queue[p]).act \in Act
         /\ Head(queue[p]).peers \in SUBSET Addr
         /\ Head(queue[p]).conf \in Conf \cup {NoConf}
<1>1. Head(queue[p]) \in Intent
  OBVIOUS
<1>. QED  BY <1>1 DEF Intent

(* Sending and taking a request leave counts of requests.                  *)
LEMMA SendType ==
  ASSUME NEW p \in Phone, rest \in [Phone -> [Request -> Nat]],
         NEW r \in Request, Send(p, r)
  PROVE  rest' \in [Phone -> [Request -> Nat]]
  BY DEF Send

LEMMA TakenType ==
  ASSUME NEW p \in Phone, rest \in [Phone -> [Request -> Nat]],
         NEW r \in Request, Taken(p, r)
  PROVE  rest' \in [Phone -> [Request -> Nat]]
  BY DEF Taken

(* The requests the session and its screen send.                           *)
LEMMA RequestType ==
  /\ \A a \in SUBSET Addr : /\ Req("dial", a, NoConf) \in Request
                            /\ Req("accept", a, NoConf) \in Request
  /\ Req("deny", {}, NoConf) \in Request
  /\ Req("busy", {}, NoConf) \in Request
  /\ Req("drop", {}, NoConf) \in Request
  /\ \A c \in Conf \cup {NoConf} : /\ Req("ccDial", {}, c) \in Request
                                   /\ Req("ccDrop", {}, c) \in Request
  BY DEF Req, Request

(* The work that a message or a response becomes.                          *)
LEMMA WorkType ==
  ASSUME NEW act \in Act, NEW a \in SUBSET Addr, NEW c \in Conf \cup {NoConf}
  PROVE  Work(act, a, c) \in Intent
  BY DEF Work, Intent

LEMMA MessageWorkType ==
  ASSUME NEW m \in Message
  PROVE  MessageWork(m) \in Intent
  BY DEF Message, MessageWork, Intent, Work, Act, AtMostOne

LEMMA ResponseWorkType ==
  ASSUME NEW r \in Request, NEW joined \in SUBSET Addr
  PROVE  ResponseWork(r, joined) \in Seq(Intent)
<1>1. \A i \in Intent : <<i>> \in Seq(Intent)
  OBVIOUS
<1>2. r.peers \in SUBSET Addr /\ r.conf \in Conf \cup {NoConf}
  BY DEF Request
<1>3. {"OUTGOING_CALL", "ANSWER_CALL", "START_CONFERENCE", "STOP_CONFERENCE"} \subseteq Act
  BY DEF Act
<1>4. /\ Work("OUTGOING_CALL", {}, NoConf) \in Intent
      /\ Work("ANSWER_CALL", r.peers, NoConf) \in Intent
      /\ Work("START_CONFERENCE", joined, r.conf) \in Intent
      /\ Work("STOP_CONFERENCE", {}, r.conf) \in Intent
  BY <1>2, <1>3, WorkType
<1>5. <<>> \in Seq(Intent)
  OBVIOUS
<1>. QED  BY <1>1, <1>4, <1>5 DEF ResponseWork

(* A screen that is started, closed or changed is a screen.                *)
LEMMA StartScreenType ==
  ASSUME SessionAssumption, NEW p \in Phone, screen \in [Phone -> Screen],
         NEW k \in ScreenKind, NEW a \in SUBSET Addr, NEW c \in Conf \cup {NoConf},
         StartScreen(p, k, a, c)
  PROVE  screen' \in [Phone -> Screen]
  BY DEF StartScreen, Screen, SessionAssumption

LEMMA ClosedType ==
  ASSUME NEW s \in Screen
  PROVE  Closed(s) \in Screen
  BY DEF Closed, Screen, NoScreen, ScreenKind

LEMMA CloseScreenType ==
  ASSUME NEW p \in Phone, screen \in [Phone -> Screen], CloseScreen(p) \/ TellScreen(p)
  PROVE  screen' \in [Phone -> Screen]
  BY ClosedType DEF CloseScreen, TellScreen

(* Ending a call leaves a state, a conference id and a job.                *)
LEMMA EndCallType ==
  ASSUME NEW p \in Phone, TypeOK, EndCall(p)
  PROVE  /\ callState' \in [Phone -> CallState]
         /\ recipientId' \in [Phone -> Conf \cup {NoConf}]
         /\ callJob' \in [Phone -> [live : BOOLEAN, peers : SUBSET Addr]]
<1>1. NoJob \in [live : BOOLEAN, peers : SUBSET Addr]
  BY DEF NoJob
<1>. QED  BY <1>1 DEF EndCall, TypeOK, CallState

LEMMA AlertType ==
  ASSUME NEW p \in Phone, alert \in [Phone -> SUBSET {"player", "vibrator"}],
         StartRinger(p) \/ EndRinger(p)
  PROVE  alert' \in [Phone -> SUBSET {"player", "vibrator"}]
  BY DEF StartRinger, EndRinger

LEMMA RememberType ==
  ASSUME NEW p \in Phone, glitch \in [Phone -> SUBSET Glitch],
         NEW races \in SUBSET Glitch, Remember(p, races)
  PROVE  glitch' \in [Phone -> SUBSET Glitch]
  BY DEF Remember

LEMMA RaceType ==
  ASSUME NEW p \in Phone
  PROVE  Reused(p) \in SUBSET Glitch /\ Silenced(p) \in SUBSET Glitch
  BY DEF Reused, Silenced, Glitch

-----------------------------------------------------------------------------
(* Type correctness. *)

(* Every handler of the job service keeps the types.                       *)
LEMMA HandleKeepsTypes ==
  ASSUME SessionAssumption, TypeOK, NEW p \in Phone, Handle(p), inputs' = inputs
  PROVE  TypeOK'
<1>. USE DEF TypeOK
<1>0. queue[p] # <<>>
  BY DEF Handle, Doing, HandleIncomingCall, HandleOutgoingCall, HandleCallConnected,
         HandleDenyCall, HandleRemoteBusy, HandleHangup, HandleStartConference,
         HandleEndConference, HandlePeer
<1>h. /\ Peers(p) \in SUBSET Addr
      /\ Head(queue[p]).conf \in Conf \cup {NoConf}
  BY <1>0, HeadType DEF Peers
<1>s. {"LISTENING", "CALLING", "INCOMING", "IN_CALL", "IN_CONFERENCE_CALL"} = CallState
  BY DEF CallState
<1>1. CASE HandleIncomingCall(p)
  <2>1. queue' \in [Phone -> Seq(Intent)]
    BY <1>0, <1>1, FinishType DEF HandleIncomingCall
  <2>2. screen' \in [Phone -> Screen]
    BY <1>1, <1>h, StartScreenType DEF HandleIncomingCall, ScreenKind
  <2>3. alert' \in [Phone -> SUBSET {"player", "vibrator"}]
    BY <1>1, AlertType DEF HandleIncomingCall
  <2>4. glitch' \in [Phone -> SUBSET Glitch]
    BY <1>1, RememberType, RaceType DEF HandleIncomingCall
  <2>5. rest' \in [Phone -> [Request -> Nat]]
    BY <1>1, SendType, RequestType DEF HandleIncomingCall
  <2>6. callState' \in [Phone -> CallState]
    BY <1>1, <1>s DEF HandleIncomingCall
  <2>. QED  BY <1>1, <2>1, <2>2, <2>3, <2>4, <2>5, <2>6 DEF HandleIncomingCall
<1>2. CASE HandleOutgoingCall(p)
  <2>1. queue' \in [Phone -> Seq(Intent)]
    BY <1>0, <1>2, FinishType DEF HandleOutgoingCall
  <2>2. screen' \in [Phone -> Screen]
    BY <1>2, StartScreenType DEF HandleOutgoingCall, ScreenKind
  <2>3. glitch' \in [Phone -> SUBSET Glitch]
    <3>1. Reused(p) \cup (IF callState[p] = "LISTENING" THEN {} ELSE {"overtaken"})
            \in SUBSET Glitch
      BY RaceType DEF Glitch
    <3>. QED  BY <1>2, <3>1, RememberType DEF HandleOutgoingCall
  <2>. QED  BY <1>2, <1>s, <2>1, <2>2, <2>3 DEF HandleOutgoingCall
<1>3. CASE HandleCallConnected(p)
  <2>1. queue' \in [Phone -> Seq(Intent)]
    BY <1>0, <1>3, FinishType DEF HandleCallConnected
  <2>2. alert' \in [Phone -> SUBSET {"player", "vibrator"}]
    BY <1>3, AlertType DEF HandleCallConnected
  <2>3. glitch' \in [Phone -> SUBSET Glitch]
    BY <1>3, RememberType, RaceType DEF HandleCallConnected
  <2>4. callJob' \in [Phone -> [live : BOOLEAN, peers : SUBSET Addr]]
    <3>1. [live |-> TRUE, peers |-> Peers(p)] \in [live : BOOLEAN, peers : SUBSET Addr]
      BY <1>h
    <3>. QED  BY <1>3, <3>1, ZenonT(30) DEF HandleCallConnected
  <2>. QED  BY <1>3, <1>s, <2>1, <2>2, <2>3, <2>4 DEF HandleCallConnected, StopTone
<1>4. CASE HandleDenyCall(p)
  <2>1. queue' \in [Phone -> Seq(Intent)]
    BY <1>0, <1>4, FinishType DEF HandleDenyCall
  <2>2. alert' \in [Phone -> SUBSET {"player", "vibrator"}]
    BY <1>4, AlertType DEF HandleDenyCall
  <2>3. glitch' \in [Phone -> SUBSET Glitch]
    BY <1>4, RememberType, RaceType DEF HandleDenyCall
  <2>4. screen' \in [Phone -> Screen]
    BY <1>4, CloseScreenType DEF HandleDenyCall
  <2>5. /\ callState' \in [Phone -> CallState]
        /\ recipientId' \in [Phone -> Conf \cup {NoConf}]
        /\ callJob' \in [Phone -> [live : BOOLEAN, peers : SUBSET Addr]]
    BY <1>4, EndCallType DEF HandleDenyCall
  <2>. QED  BY <1>4, <2>1, <2>2, <2>3, <2>4, <2>5 DEF HandleDenyCall, StopTone
<1>5. CASE HandleRemoteBusy(p)
  <2>1. queue' \in [Phone -> Seq(Intent)]
    BY <1>0, <1>5, FinishType DEF HandleRemoteBusy
  <2>2. screen' \in [Phone -> Screen]
    <3>1. Closed(screen[p]) \in Screen
      BY ClosedType
    <3>2. Busy(screen[p]) \in Screen
      BY <3>1 DEF Busy, Screen, ScreenKind
    <3>3. screen' = screen \/ screen' = [screen EXCEPT ![p] = Busy(screen[p])]
      BY <1>5 DEF HandleRemoteBusy
    <3>. QED  BY <3>2, <3>3
  <2>3. /\ callState' \in [Phone -> CallState]
        /\ recipientId' \in [Phone -> Conf \cup {NoConf}]
        /\ callJob' \in [Phone -> [live : BOOLEAN, peers : SUBSET Addr]]
    BY <1>5, EndCallType DEF HandleRemoteBusy
  <2>. QED  BY <1>5, <2>1, <2>2, <2>3 DEF HandleRemoteBusy
<1>6. CASE HandleHangup(p)
  <2>1. queue' \in [Phone -> Seq(Intent)]
    <3>1. Work("LOCAL_HANGUP", {}, NoConf) \in Intent
      BY WorkType DEF Act
    <3>2. Tail(queue[p]) \in Seq(Intent)
      BY <1>0
    <3>3. Append(Tail(queue[p]), Work("LOCAL_HANGUP", {}, NoConf)) \in Seq(Intent)
      BY <3>1, <3>2
    <3>. QED  BY <1>6, <3>2, <3>3 DEF HandleHangup, Finish
  <2>2. alert' \in [Phone -> SUBSET {"player", "vibrator"}]
    BY <1>6, AlertType DEF HandleHangup
  <2>3. glitch' \in [Phone -> SUBSET Glitch]
    BY <1>6, RememberType, RaceType DEF HandleHangup
  <2>4. rest' \in [Phone -> [Request -> Nat]]
    BY <1>6, SendType, RequestType DEF HandleHangup
  <2>5. /\ callState' \in [Phone -> CallState]
        /\ recipientId' \in [Phone -> Conf \cup {NoConf}]
        /\ callJob' \in [Phone -> [live : BOOLEAN, peers : SUBSET Addr]]
    BY <1>6, EndCallType DEF HandleHangup
  <2>. QED  BY <1>6, <2>1, <2>2, <2>3, <2>4, <2>5 DEF HandleHangup, StopTone
<1>7. CASE HandleStartConference(p)
  <2>1. queue' \in [Phone -> Seq(Intent)]
    BY <1>0, <1>7, FinishType DEF HandleStartConference
  <2>2. screen' \in [Phone -> Screen]
    BY <1>7, <1>h, StartScreenType DEF HandleStartConference, ScreenKind
  <2>3. glitch' \in [Phone -> SUBSET Glitch]
    BY <1>7, RememberType, RaceType DEF HandleStartConference
  <2>4. callJob' \in [Phone -> [live : BOOLEAN, peers : SUBSET Addr]]
    <3>1. [live |-> TRUE, peers |-> Peers(p)] \in [live : BOOLEAN, peers : SUBSET Addr]
      BY <1>h
    <3>2. \/ callJob' = callJob
          \/ callJob' = [callJob EXCEPT ![p] = [live |-> TRUE, peers |-> Peers(p)]]
      BY <1>7 DEF HandleStartConference
    <3>. QED  BY <3>1, <3>2
  <2>. QED  BY <1>7, <1>h, <1>s, <2>1, <2>2, <2>3, <2>4 DEF HandleStartConference
<1>8. CASE HandleEndConference(p)
  <2>1. queue' \in [Phone -> Seq(Intent)]
    BY <1>0, <1>8, FinishType DEF HandleEndConference
  <2>2. /\ callState' \in [Phone -> CallState]
        /\ recipientId' \in [Phone -> Conf \cup {NoConf}]
        /\ callJob' \in [Phone -> [live : BOOLEAN, peers : SUBSET Addr]]
    BY <1>8, EndCallType DEF HandleEndConference
  <2>. QED  BY <1>8, <2>1, <2>2 DEF HandleEndConference
<1>9. CASE HandlePeer(p)
  <2>1. queue' \in [Phone -> Seq(Intent)]
    BY <1>0, <1>9, FinishType DEF HandlePeer
  <2>2. peerJobs' \in [Phone -> [join : SUBSET Addr, leave : SUBSET Addr]]
    BY <1>9, <1>h DEF HandlePeer
  <2>. QED  BY <1>9, <2>1, <2>2 DEF HandlePeer
<1>. QED  BY <1>1, <1>2, <1>3, <1>4, <1>5, <1>6, <1>7, <1>8, <1>9 DEF Handle

(* Every input of the user and the broker keeps them ...                   *)
LEMMA UserKeepsTypes ==
  ASSUME SessionAssumption, TypeOK, NEW p \in Phone, User(p) \/ Broker(p),
         inputs' \in [Phone -> Nat]
  PROVE  TypeOK'
<1>. USE DEF TypeOK
<1>w. /\ Work("LOCAL_HANGUP", {}, NoConf) \in Intent
      /\ Work("DENY_CALL", {}, NoConf) \in Intent
  BY WorkType DEF Act
<1>1. CASE \E a \in Addr : Dial(p, a)
  <2>. PICK a \in Addr : Dial(p, a)
    BY <1>1
  <2>1. rest' \in [Phone -> [Request -> Nat]]
    <3>1. Req("dial", {a}, NoConf) \in Request
      BY RequestType
    <3>. QED  BY <3>1, SendType DEF Dial
  <2>. QED  BY <2>1 DEF Dial
<1>2. CASE \E c \in Conf : DialConference(p, c)
  <2>1. rest' \in [Phone -> [Request -> Nat]]
    BY <1>2, RequestType, SendType DEF DialConference
  <2>. QED  BY <1>2, <2>1 DEF DialConference
<1>3. CASE PressHangup(p)
  BY <1>3, <1>w, EnqueueType, CloseScreenType DEF PressHangup
<1>4. CASE PressAnswer(p)
  <2>1. rest' \in [Phone -> [Request -> Nat]]
    <3>1. screen[p].peers \in SUBSET Addr
      BY DEF Screen
    <3>. QED  BY <1>4, <3>1, RequestType, SendType DEF PressAnswer
  <2>2. screen' \in [Phone -> Screen]
    <3>1. [screen[p] EXCEPT !.kind = "ANSWERED"] \in Screen
      <4>1. screen[p] \in Screen
        OBVIOUS
      <4>. QED  BY <4>1 DEF Screen, ScreenKind
    <3>. QED  BY <1>4, <3>1 DEF PressAnswer
  <2>. QED  BY <1>4, <2>1, <2>2 DEF PressAnswer
<1>5. CASE PressDecline(p)
  <2>1. rest' \in [Phone -> [Request -> Nat]]
    BY <1>5, RequestType, SendType DEF PressDecline
  <2>2. queue' \in [Phone -> Seq(Intent)]
    BY <1>5, <1>w, EnqueueType DEF PressDecline
  <2>. QED  BY <1>5, <2>1, <2>2, CloseScreenType DEF PressDecline
<1>6. CASE LeaveScreen(p)
  <2>1. NoScreen \in Screen
    BY DEF NoScreen, Screen, ScreenKind
  <2>2. glitch' \in [Phone -> SUBSET Glitch]
    BY <1>6, RememberType DEF LeaveScreen, Glitch
  <2>. QED  BY <1>6, <2>1, <2>2 DEF LeaveScreen
<1>7. CASE \E mode \in RingerModes : SetRingerMode(p, mode)
  BY <1>7 DEF SetRingerMode
<1>8. CASE Broker(p)
  <2>. PICK m \in Message : OnMessage(p, m)
    BY <1>8 DEF Broker
  <2>1. queue' \in [Phone -> Seq(Intent)]
    BY MessageWorkType, EnqueueType DEF OnMessage
  <2>2. screen' \in [Phone -> Screen]
    BY CloseScreenType DEF OnMessage
  <2>. QED  BY <2>1, <2>2 DEF OnMessage
<1>. QED  BY <1>1, <1>2, <1>3, <1>4, <1>5, <1>6, <1>7, <1>8 DEF User

(* ... and so does every response and every step of Android.               *)
LEMMA ResponseKeepsTypes ==
  ASSUME TypeOK, NEW p \in Phone, NEW r \in Request, NEW joined \in SUBSET Addr,
         OnResponse(p, r, joined), rest' \in [Phone -> [Request -> Nat]], inputs' = inputs
  PROVE  TypeOK'
<1>1. queue[p] \o ResponseWork(r, joined) \in Seq(Intent)
  BY ResponseWorkType DEF TypeOK
<1>. QED  BY <1>1 DEF OnResponse, TypeOK

LEMMA HttpKeepsTypes ==
  ASSUME SessionAssumption, TypeOK, NEW p \in Phone, Http(p), inputs' = inputs
  PROVE  TypeOK'
<1>. USE DEF TypeOK
<1>. PICK r \in Request :
       \/ Taken(p, r) /\ \E joined \in SUBSET Addr : OnResponse(p, r, joined)
       \/ OnFailure(p, r)
  BY DEF Http
<1>1. rest' \in [Phone -> [Request -> Nat]]
  BY TakenType DEF OnFailure
<1>2. CASE \E joined \in SUBSET Addr : OnResponse(p, r, joined)
  BY <1>1, <1>2, ResponseKeepsTypes
<1>3. CASE OnFailure(p, r)
  BY <1>1, <1>3 DEF OnFailure
<1>. QED  BY <1>2, <1>3

LEMMA AndroidKeepsTypes ==
  ASSUME SessionAssumption, TypeOK, NEW p \in Phone, Android(p), inputs' = inputs
  PROVE  TypeOK'
<1>. USE DEF TypeOK
<1>1. CASE GrantPermission(p)
  <2>1. screen' \in [Phone -> Screen]
    <3>1. [screen[p] EXCEPT !.shown = TRUE] \in Screen
      <4>1. screen[p] \in Screen
        OBVIOUS
      <4>. QED  BY <4>1 DEF Screen
    <3>. QED  BY <1>1, <3>1 DEF GrantPermission
  <2>2. callJob' \in [Phone -> [live : BOOLEAN, peers : SUBSET Addr]]
    <3>1. screen[p].peers \in SUBSET Addr
      BY DEF Screen
    <3>2. [live |-> TRUE, peers |-> screen[p].peers] \in [live : BOOLEAN, peers : SUBSET Addr]
      BY <3>1
    <3>. QED  BY <1>1, <3>2 DEF GrantPermission
  <2>3. glitch' \in [Phone -> SUBSET Glitch]
    <3>1. {} \in SUBSET Glitch /\ {"latePermission"} \in SUBSET Glitch
      BY DEF Glitch
    <3>. QED  BY <1>1, <3>1, RememberType DEF GrantPermission
  <2>. QED  BY <1>1, <2>1, <2>2, <2>3 DEF GrantPermission
<1>2. CASE FinishScreen(p)
  <2>1. NoScreen \in Screen
    BY DEF NoScreen, Screen, ScreenKind
  <2>. QED  BY <1>2, <2>1 DEF FinishScreen
<1>3. CASE \E kind \in {"join", "leave"} : RunPeerJob(p, kind)
  <2>. PICK kind \in {"join", "leave"} : RunPeerJob(p, kind)
    BY <1>3
  <2>1. peerJobs' \in [Phone -> [join : SUBSET Addr, leave : SUBSET Addr]]
    <3>1. [peerJobs[p] EXCEPT ![kind] = {}] \in [join : SUBSET Addr, leave : SUBSET Addr]
      <4>1. peerJobs[p] \in [join : SUBSET Addr, leave : SUBSET Addr]
        OBVIOUS
      <4>2. CASE kind = "join"
        BY <4>1, <4>2
      <4>3. CASE kind = "leave"
        BY <4>1, <4>3
      <4>. QED  BY <4>2, <4>3
    <3>. QED  BY <3>1 DEF RunPeerJob
  <2>. QED  BY <2>1 DEF RunPeerJob
<1>. QED  BY <1>1, <1>2, <1>3 DEF Android

(* TypeOK is an invariant: whatever user, broker, server and Android do,   *)
(* the job service finds only work it knows and answers it with requests   *)
(* and screens that exist.                                                 *)
THEOREM TypeCorrect == Spec => []TypeOK
<1>1. Init => TypeOK
  BY SessionAssumption DEF Init, TypeOK, CallState, NoJob, NoScreen, Screen, ScreenKind,
     Intent, Glitch
<1>2. TypeOK /\ [Next]_vars => TypeOK'
  <2>. SUFFICES ASSUME TypeOK, [Next]_vars PROVE TypeOK'
    OBVIOUS
  <2>1. CASE UNCHANGED vars
    BY <2>1 DEF vars, TypeOK
  <2>2. CASE \E p \in Phone : Input(p)
    <3>1. inputs' \in [Phone -> Nat]
      BY <2>2 DEF Input, TypeOK
    <3>. QED  BY <2>2, <3>1, SessionAssumption, UserKeepsTypes DEF Input
  <2>3. CASE \E p \in Phone : Step(p)
    BY <2>3, SessionAssumption, HandleKeepsTypes, HttpKeepsTypes, AndroidKeepsTypes DEF Step
  <2>. QED  BY <2>1, <2>2, <2>3 DEF Next
<1>. QED  BY <1>1, <1>2, PTL DEF Spec

-----------------------------------------------------------------------------
(* The ringer. *)

(* One step of one phone keeps the alert of every phone in order.          *)
LEMMA AlertStep ==
  ASSUME TypeOK, AlertOnlyWhileRinging, NEW p \in Phone, Input(p) \/ Step(p)
  PROVE  AlertOnlyWhileRinging'
<1>. /\ alert \in [Phone -> SUBSET {"player", "vibrator"}]
     /\ callState \in [Phone -> CallState]
     /\ glitch \in [Phone -> SUBSET Glitch]
  BY DEF TypeOK
<1>. USE DEF AlertOnlyWhileRinging, Untouched
<1>1. CASE HandleIncomingCall(p)
  BY <1>1 DEF HandleIncomingCall, StartRinger, Remember
<1>2. CASE HandleOutgoingCall(p)
  BY <1>2 DEF HandleOutgoingCall, Remember
<1>3. CASE HandleCallConnected(p)
  BY <1>3 DEF HandleCallConnected, EndRinger, Silenced, Remember
<1>4. CASE HandleDenyCall(p)
  BY <1>4 DEF HandleDenyCall, EndRinger, EndCall, Silenced, Remember
<1>5. CASE HandleRemoteBusy(p)
  BY <1>5 DEF HandleRemoteBusy, EndCall
<1>6. CASE HandleHangup(p)
  BY <1>6 DEF HandleHangup, EndRinger, EndCall, Silenced, Remember
<1>7. CASE HandleStartConference(p)
  BY <1>7 DEF HandleStartConference, Remember
<1>8. CASE HandleEndConference(p)
  BY <1>8 DEF HandleEndConference, EndCall
<1>9. CASE HandlePeer(p)
  BY <1>9 DEF HandlePeer
<1>10. CASE User(p) \/ Broker(p)
  BY <1>10 DEF User, Broker, Dial, DialConference, PressHangup, PressAnswer, PressDecline,
     LeaveScreen, SetRingerMode, OnMessage, Remember
<1>11. CASE Http(p) \/ Android(p)
  BY <1>11 DEF Http, OnResponse, OnFailure, Android, GrantPermission, FinishScreen,
     RunPeerJob, Remember
<1>. QED
  BY <1>1, <1>2, <1>3, <1>4, <1>5, <1>6, <1>7, <1>8, <1>9, <1>10, <1>11
     DEF Input, Step, Handle

(* A phone whose alert still sounds outside INCOMING has been through one  *)
(* of the two races that AlertOnlyWhileRinging names, for any number of    *)
(* phones, messages and inputs.                                            *)
THEOREM AlertEnds == Spec => []AlertOnlyWhileRinging
<1>1. Init => AlertOnlyWhileRinging
  BY DEF Init, AlertOnlyWhileRinging
<1>2. TypeOK /\ AlertOnlyWhileRinging /\ [Next]_vars => AlertOnlyWhileRinging'
  <2>1. CASE UNCHANGED vars
    BY <2>1 DEF vars, AlertOnlyWhileRinging, Untouched
  <2>2. CASE Next
    BY <2>2, AlertStep DEF Next
  <2>. QED  BY <2>1, <2>2
<1>. QED  BY <1>1, <1>2, TypeCorrect, PTL DEF Spec

-----------------------------------------------------------------------------
(* The tone generator. *)

LEMMA RingbackStep ==
  ASSUME TypeOK, RingbackExactlyWhileCalling, NEW p \in Phone, Input(p) \/ Step(p)
  PROVE  RingbackExactlyWhileCalling'
<1>. /\ tone \in [Phone -> {"none", "ringback", "busy"}]
     /\ callState \in [Phone -> CallState]
  BY DEF TypeOK
<1>. USE DEF RingbackExactlyWhileCalling
<1>1. CASE HandleIncomingCall(p)
  BY <1>1 DEF HandleIncomingCall
<1>2. CASE HandleOutgoingCall(p)
  BY <1>2 DEF HandleOutgoingCall
<1>3. CASE HandleCallConnected(p)
  BY <1>3 DEF HandleCallConnected, StopTone
<1>4. CASE HandleDenyCall(p)
  BY <1>4 DEF HandleDenyCall, StopTone, EndCall
<1>5. CASE HandleRemoteBusy(p)
  BY <1>5 DEF HandleRemoteBusy, EndCall
<1>6. CASE HandleHangup(p)
  BY <1>6 DEF HandleHangup, StopTone, EndCall
<1>7. CASE HandleStartConference(p)
  BY <1>7 DEF HandleStartConference
<1>8. CASE HandleEndConference(p)
  BY <1>8 DEF HandleEndConference, EndCall
<1>9. CASE HandlePeer(p)
  BY <1>9 DEF HandlePeer
<1>10. CASE User(p) \/ Broker(p)
  BY <1>10 DEF User, Broker, Dial, DialConference, PressHangup, PressAnswer, PressDecline,
     LeaveScreen, SetRingerMode, OnMessage
<1>11. CASE Http(p) \/ Android(p)
  BY <1>11 DEF Http, OnResponse, OnFailure, Android, GrantPermission, FinishScreen, RunPeerJob
<1>. QED
  BY <1>1, <1>2, <1>3, <1>4, <1>5, <1>6, <1>7, <1>8, <1>9, <1>10, <1>11
     DEF Input, Step, Handle

(* The ringback generator exists exactly in CALLING, without exception:    *)
(* even the unguarded handleOutgoingCall keeps the two in step.            *)
THEOREM RingbackMatchesState == Spec => []RingbackExactlyWhileCalling
<1>1. Init => RingbackExactlyWhileCalling
  BY DEF Init, RingbackExactlyWhileCalling
<1>2. TypeOK /\ RingbackExactlyWhileCalling /\ [Next]_vars => RingbackExactlyWhileCalling'
  <2>1. CASE UNCHANGED vars
    BY <2>1 DEF vars, RingbackExactlyWhileCalling
  <2>2. CASE Next
    BY <2>2, RingbackStep DEF Next
  <2>. QED  BY <2>1, <2>2
<1>. QED  BY <1>1, <1>2, TypeCorrect, PTL DEF Spec

-----------------------------------------------------------------------------
(* The audio job. *)

LEMMA AudioStep ==
  ASSUME TypeOK, AudioExactlyInCall, NEW p \in Phone, Input(p) \/ Step(p)
  PROVE  AudioExactlyInCall'
<1>. /\ callJob \in [Phone -> [live : BOOLEAN, peers : SUBSET Addr]]
     /\ callState \in [Phone -> CallState]
     /\ glitch \in [Phone -> SUBSET Glitch]
  BY DEF TypeOK
<1>. USE DEF AudioExactlyInCall, Untouched
<1>1. CASE HandleIncomingCall(p)
  BY <1>1 DEF HandleIncomingCall, Remember
<1>2. CASE HandleOutgoingCall(p)
  BY <1>2 DEF HandleOutgoingCall, Remember
<1>3. CASE HandleCallConnected(p)
  BY <1>3 DEF HandleCallConnected, Remember
<1>4. CASE HandleDenyCall(p)
  BY <1>4 DEF HandleDenyCall, EndCall, NoJob, Remember
<1>5. CASE HandleRemoteBusy(p)
  BY <1>5 DEF HandleRemoteBusy, EndCall, NoJob
<1>6. CASE HandleHangup(p)
  BY <1>6 DEF HandleHangup, EndCall, NoJob, Remember
<1>7. CASE HandleStartConference(p)
  BY <1>7 DEF HandleStartConference, Remember
<1>8. CASE HandleEndConference(p)
  BY <1>8 DEF HandleEndConference, EndCall, NoJob
<1>9. CASE HandlePeer(p)
  BY <1>9 DEF HandlePeer
<1>10. CASE User(p) \/ Broker(p)
  BY <1>10 DEF User, Broker, Dial, DialConference, PressHangup, PressAnswer, PressDecline,
     LeaveScreen, SetRingerMode, OnMessage, Remember
<1>11. CASE GrantPermission(p)
  <2>1. CASE screen[p].kind = "CONFERENCE"
    <3>1. callJob' = [callJob EXCEPT ![p] = [live |-> TRUE, peers |-> screen[p].peers]]
      BY <1>11, <2>1 DEF GrantPermission
    <3>2. callState' = callState
      BY <1>11 DEF GrantPermission
    <3>3. \A q \in Phone : glitch[q] \subseteq glitch'[q]
      BY <1>11 DEF GrantPermission, Remember
    <3>4. "latePermission" \in glitch'[p] \/ callState[p] = "IN_CONFERENCE_CALL"
      BY <1>11, <2>1 DEF GrantPermission, Remember
    <3>. QED  BY <3>1, <3>2, <3>3, <3>4
  <2>2. CASE screen[p].kind # "CONFERENCE"
    BY <1>11, <2>2 DEF GrantPermission
  <2>. QED  BY <2>1, <2>2
<1>12. CASE Http(p) \/ FinishScreen(p) \/ \E kind \in {"join", "leave"} : RunPeerJob(p, kind)
  BY <1>12 DEF Http, OnResponse, OnFailure, FinishScreen, RunPeerJob
<1>. QED
  BY <1>1, <1>2, <1>3, <1>4, <1>5, <1>6, <1>7, <1>8, <1>9, <1>10, <1>11, <1>12
     DEF Input, Step, Handle, Android

(* Audio is scheduled in every connected call, and only during calls,      *)
(* unless one of the two races AudioExactlyInCall names has happened.      *)
THEOREM AudioMatchesState == Spec => []AudioExactlyInCall
<1>1. Init => AudioExactlyInCall
  <2>. SUFFICES ASSUME Init, NEW p \in Phone
                PROVE  callState[p] = "LISTENING" /\ callJob[p].live = FALSE
    BY DEF AudioExactlyInCall
  <2>. QED  BY DEF Init, NoJob
<1>2. TypeOK /\ AudioExactlyInCall /\ [Next]_vars => AudioExactlyInCall'
  <2>1. CASE UNCHANGED vars
    BY <2>1 DEF vars, AudioExactlyInCall, Untouched
  <2>2. CASE Next
    BY <2>2, AudioStep DEF Next
  <2>. QED  BY <2>1, <2>2
<1>. QED  BY <1>1, <1>2, TypeCorrect, PTL DEF Spec

-----------------------------------------------------------------------------
(* The conference id. ConferenceKnown is not inductive: an id reaches the  *)
(* session through a ccDial request and the START_CONFERENCE work that its *)
(* response becomes, so both must carry one.                               *)

(* All START_CONFERENCE work of a queue names a conference.                *)
Named(s) == \A i \in 1 .. Len(s) : s[i].act = "START_CONFERENCE" => s[i].conf \in Conf

ConferenceWorkKnown ==
  \A p \in Phone : Named(queue[p]) /\ rest[p][Req("ccDial", {}, NoConf)] = 0

ConferenceInv == ConferenceKnown /\ ConferenceWorkKnown

(* What is in a queue after work is taken from it or put into it.          *)
LEMMA TailElements ==
  ASSUME NEW S, NEW s \in Seq(S), s # <<>>, NEW i \in 1 .. Len(Tail(s))
  PROVE  i + 1 \in 1 .. Len(s) /\ Tail(s)[i] = s[i + 1]
  OBVIOUS

LEMMA AppendElements ==
  ASSUME NEW S, NEW s \in Seq(S), NEW w \in S, NEW i \in 1 .. Len(Append(s, w))
  PROVE  Append(s, w)[i] = w \/ (i \in 1 .. Len(s) /\ Append(s, w)[i] = s[i])
  OBVIOUS

LEMMA ConcatElements ==
  ASSUME NEW S, NEW s \in Seq(S), NEW t \in Seq(S), NEW i \in 1 .. Len(s \o t)
  PROVE  \/ i \in 1 .. Len(s) /\ (s \o t)[i] = s[i]
         \/ i - Len(s) \in 1 .. Len(t) /\ (s \o t)[i] = t[i - Len(s)]
  OBVIOUS

LEMMA FinishKeepsNamed ==
  ASSUME NEW p \in Phone, queue \in [Phone -> Seq(Intent)], queue[p] # <<>>,
         \A q \in Phone : Named(queue[q]), Finish(p)
  PROVE  \A q \in Phone : Named(queue'[q])
<1>1. Named(Tail(queue[p]))
  BY TailElements DEF Named
<1>. QED  BY <1>1 DEF Finish

LEMMA EnqueueKeepsNamed ==
  ASSUME NEW p \in Phone, queue \in [Phone -> Seq(Intent)], NEW w \in Intent,
         w.act = "START_CONFERENCE" => w.conf \in Conf,
         \A q \in Phone : Named(queue[q]), Enqueue(p, w)
  PROVE  \A q \in Phone : Named(queue'[q])
<1>1. Named(Append(queue[p], w))
  BY AppendElements DEF Named
<1>. QED  BY <1>1 DEF Enqueue

LEMMA ConcatKeepsNamed ==
  ASSUME NEW p \in Phone, queue \in [Phone -> Seq(Intent)], NEW t \in Seq(Intent),
         Named(t), \A q \in Phone : Named(queue[q]),
         queue' = [queue EXCEPT ![p] = @ \o t]
  PROVE  \A q \in Phone : Named(queue'[q])
<1>1. Named(queue[p] \o t)
  BY ConcatElements DEF Named
<1>. QED  BY <1>1

LEMMA SendElsewhere ==
  ASSUME NEW p \in Phone, rest \in [Phone -> [Request -> Nat]], NEW r \in Request,
         NEW s \in Request, r # s, Send(p, r), NEW q \in Phone
  PROVE  rest'[q][s] = rest[q][s]
  BY DEF Send

LEMMA TakenKeepsNone ==
  ASSUME NEW p \in Phone, rest \in [Phone -> [Request -> Nat]], NEW r \in Request,
         NEW s \in Request, Taken(p, r), NEW q \in Phone, rest[q][s] = 0
  PROVE  rest'[q][s] = 0
  BY DEF Taken

LEMMA ConferenceStep ==
  ASSUME TypeOK, ConferenceInv, NEW p \in Phone, Input(p) \/ Step(p)
  PROVE  ConferenceInv'
<1>. DEFINE dialled == Req("ccDial", {}, NoConf)
            dropped == Req("ccDrop", {}, NoConf)
<1>t. /\ queue \in [Phone -> Seq(Intent)]
      /\ rest \in [Phone -> [Request -> Nat]]
      /\ callState \in [Phone -> CallState]
      /\ recipientId \in [Phone -> Conf \cup {NoConf}]
      /\ NoConf \notin Conf
  BY SessionAssumption DEF TypeOK
<1>q. \A q \in Phone : Named(queue[q])
  BY DEF ConferenceInv, ConferenceWorkKnown
<1>r. /\ dialled \in Request /\ dropped \in Request
      /\ \A q \in Phone : rest[q][dialled] = 0 /\ rest[q][dropped] = 0
  BY RequestType DEF ConferenceInv, ConferenceWorkKnown, ConferenceKnown
<1>s. \A q \in Phone :
        /\ callState[q] = "IN_CONFERENCE_CALL" => recipientId[q] # NoConf
        /\ callState[q] = "LISTENING" => recipientId[q] = NoConf
  BY DEF ConferenceInv, ConferenceKnown
<1>g. SUFFICES /\ \A q \in Phone : Named(queue'[q])
               /\ \A q \in Phone : rest'[q][dialled] = 0 /\ rest'[q][dropped] = 0
               /\ \A q \in Phone :
                    /\ callState'[q] = "IN_CONFERENCE_CALL" => recipientId'[q] # NoConf
                    /\ callState'[q] = "LISTENING" => recipientId'[q] = NoConf
  BY DEF ConferenceInv, ConferenceWorkKnown, ConferenceKnown
<1>1. CASE HandleIncomingCall(p)
  <2>1. \A q \in Phone : Named(queue'[q])
    BY <1>1, <1>t, <1>q, FinishKeepsNamed DEF HandleIncomingCall, Doing
  <2>2. \A q \in Phone : rest'[q][dialled] = 0 /\ rest'[q][dropped] = 0
    <3>1. /\ Req("busy", {}, NoConf) \in Request
          /\ Req("busy", {}, NoConf) # dialled
          /\ Req("busy", {}, NoConf) # dropped
      BY RequestType DEF Req
    <3>. QED  BY <1>1, <1>t, <1>r, <3>1, SendElsewhere DEF HandleIncomingCall
  <2>. QED  BY <1>1, <1>t, <1>s, <2>1, <2>2 DEF HandleIncomingCall
<1>2. CASE HandleOutgoingCall(p)
  <2>1. \A q \in Phone : Named(queue'[q])
    BY <1>2, <1>t, <1>q, FinishKeepsNamed DEF HandleOutgoingCall, Doing
  <2>. QED  BY <1>2, <1>t, <1>s, <1>r, <2>1 DEF HandleOutgoingCall
<1>3. CASE HandleCallConnected(p)
  <2>1. \A q \in Phone : Named(queue'[q])
    BY <1>3, <1>t, <1>q, FinishKeepsNamed DEF HandleCallConnected, Doing
  <2>. QED  BY <1>3, <1>t, <1>s, <1>r, <2>1 DEF HandleCallConnected
<1>4. CASE HandleDenyCall(p)
  <2>1. \A q \in Phone : Named(queue'[q])
    BY <1>4, <1>t, <1>q, FinishKeepsNamed DEF HandleDenyCall, Doing
  <2>. QED  BY <1>4, <1>t, <1>s, <1>r, <2>1 DEF HandleDenyCall, EndCall
<1>5. CASE HandleRemoteBusy(p)
  <2>1. \A q \in Phone : Named(queue'[q])
    BY <1>5, <1>t, <1>q, FinishKeepsNamed DEF HandleRemoteBusy, Doing
  <2>. QED  BY <1>5, <1>t, <1>s, <1>r, <2>1 DEF HandleRemoteBusy, EndCall
<1>6. CASE HandleHangup(p)
  <2>1. \A q \in Phone : Named(queue'[q])
    <3>1. queue[p] # <<>>
      BY <1>6 DEF HandleHangup, Doing
    <3>2. CASE Finish(p)
      BY <1>t, <1>q, <3>1, <3>2, FinishKeepsNamed
    <3>3. CASE queue' = [queue EXCEPT ![p] =
                           Append(Tail(@), Work("LOCAL_HANGUP", {}, NoConf))]
      <4>1. Work("LOCAL_HANGUP", {}, NoConf) \in Intent
        BY WorkType DEF Act
      <4>2. Tail(queue[p]) \in Seq(Intent) /\ Named(Tail(queue[p]))
        BY <1>t, <1>q, <3>1, TailElements DEF Named
      <4>3. Named(Append(Tail(queue[p]), Work("LOCAL_HANGUP", {}, NoConf)))
        BY <4>1, <4>2, AppendElements DEF Named, Work
      <4>. QED  BY <1>t, <1>q, <3>3, <4>3
    <3>. QED  BY <1>6, <3>2, <3>3 DEF HandleHangup
  <2>2. \A q \in Phone : rest'[q][dialled] = 0 /\ rest'[q][dropped] = 0
    <3>1. /\ Req("drop", {}, NoConf) \in Request
          /\ Req("drop", {}, NoConf) # dialled
          /\ Req("drop", {}, NoConf) # dropped
      BY RequestType DEF Req
    <3>2. callState[p] = "IN_CONFERENCE_CALL" =>
            /\ Req("ccDrop", {}, recipientId[p]) \in Request
            /\ Req("ccDrop", {}, recipientId[p]) # dialled
            /\ Req("ccDrop", {}, recipientId[p]) # dropped
      BY <1>t, <1>s, RequestType DEF Req
    <3>. QED  BY <1>6, <1>t, <1>r, <3>1, <3>2, SendElsewhere, ZenonT(30) DEF HandleHangup
  <2>. QED  BY <1>6, <1>t, <1>s, <2>1, <2>2 DEF HandleHangup, EndCall
<1>7. CASE HandleStartConference(p)
  <2>1. \A q \in Phone : Named(queue'[q])
    BY <1>7, <1>t, <1>q, FinishKeepsNamed DEF HandleStartConference, Doing
  <2>2. Head(queue[p]).conf \in Conf
    BY <1>7, <1>t, <1>q DEF HandleStartConference, Doing, Named
  <2>. QED  BY <1>7, <1>t, <1>s, <1>r, <2>1, <2>2 DEF HandleStartConference
<1>8. CASE HandleEndConference(p)
  <2>1. \A q \in Phone : Named(queue'[q])
    BY <1>8, <1>t, <1>q, FinishKeepsNamed DEF HandleEndConference, Doing
  <2>. QED  BY <1>8, <1>t, <1>s, <1>r, <2>1 DEF HandleEndConference, EndCall
<1>9. CASE HandlePeer(p)
  <2>1. \A q \in Phone : Named(queue'[q])
    BY <1>9, <1>t, <1>q, FinishKeepsNamed DEF HandlePeer, Doing
  <2>. QED  BY <1>9, <1>t, <1>s, <1>r, <2>1 DEF HandlePeer
<1>10. CASE User(p)
  <2>1. \A q \in Phone : Named(queue'[q])
    <3>1. /\ Work("LOCAL_HANGUP", {}, NoConf) \in Intent
          /\ Work("DENY_CALL", {}, NoConf) \in Intent
          /\ Work("LOCAL_HANGUP", {}, NoConf).act # "START_CONFERENCE"
          /\ Work("DENY_CALL", {}, NoConf).act # "START_CONFERENCE"
      BY WorkType DEF Work, Act
    <3>2. CASE PressHangup(p) \/ PressDecline(p)
      BY <1>t, <1>q, <3>1, <3>2, EnqueueKeepsNamed DEF PressHangup, PressDecline
    <3>3. CASE UNCHANGED queue
      BY <1>q, <3>3
    <3>. QED
      BY <1>10, <3>2, <3>3
         DEF User, Dial, DialConference, PressAnswer, LeaveScreen, SetRingerMode
  <2>2. \A q \in Phone : rest'[q][dialled] = 0 /\ rest'[q][dropped] = 0
    <3>1. CASE \E r \in Request : r # dialled /\ r # dropped /\ Send(p, r)
      BY <1>t, <1>r, <3>1, SendElsewhere
    <3>2. CASE UNCHANGED rest
      BY <1>r, <3>2
    <3>3. ASSUME NEW a \in Addr, Dial(p, a)
          PROVE  \E r \in Request : r # dialled /\ r # dropped /\ Send(p, r)
      <4>1. {a} \in SUBSET Addr
        OBVIOUS
      <4>2. Req("dial", {a}, NoConf) # dialled /\ Req("dial", {a}, NoConf) # dropped
        BY DEF Req
      <4>. QED  BY <3>3, <4>1, <4>2, RequestType DEF Dial
    <3>4. ASSUME NEW c \in Conf, DialConference(p, c)
          PROVE  \E r \in Request : r # dialled /\ r # dropped /\ Send(p, r)
      <4>1. Req("ccDial", {}, c) # dialled /\ Req("ccDial", {}, c) # dropped
        BY <1>t DEF Req
      <4>. QED  BY <3>4, <4>1, RequestType DEF DialConference
    <3>5. ASSUME PressAnswer(p) \/ PressDecline(p)
          PROVE  \E r \in Request : r # dialled /\ r # dropped /\ Send(p, r)
      <4>1. screen[p].peers \in SUBSET Addr
        BY DEF TypeOK, Screen
      <4>2. \A a \in SUBSET Addr : /\ Req("accept", a, NoConf) # dialled
                                   /\ Req("accept", a, NoConf) # dropped
        BY DEF Req
      <4>3. Req("deny", {}, NoConf) # dialled /\ Req("deny", {}, NoConf) # dropped
        BY DEF Req
      <4>. QED  BY <3>5, <4>1, <4>2, <4>3, RequestType DEF PressAnswer, PressDecline
    <3>. QED
      BY <1>10, <3>1, <3>2, <3>3, <3>4, <3>5
         DEF User, PressHangup, LeaveScreen, SetRingerMode
  <2>. QED
    BY <1>10, <1>s, <2>1, <2>2 DEF User, Dial, DialConference, PressHangup, PressAnswer,
       PressDecline, LeaveScreen, SetRingerMode
<1>11. CASE Broker(p)
  <2>. PICK m \in Message : OnMessage(p, m)
    BY <1>11 DEF Broker
  <2>1. MessageWork(m) \in Intent /\ MessageWork(m).act # "START_CONFERENCE"
    BY MessageWorkType DEF MessageWork, Work, Message
  <2>2. \A q \in Phone : Named(queue'[q])
    BY <1>t, <1>q, <2>1, EnqueueKeepsNamed DEF OnMessage
  <2>. QED  BY <1>s, <1>r, <2>2 DEF OnMessage
<1>12. CASE Http(p)
  <2>. PICK r \in Request :
         \/ Taken(p, r) /\ \E joined \in SUBSET Addr : OnResponse(p, r, joined)
         \/ OnFailure(p, r)
    BY <1>12 DEF Http
  <2>1. Taken(p, r)
    BY DEF OnFailure
  <2>2. \A q \in Phone : rest'[q][dialled] = 0 /\ rest'[q][dropped] = 0
    BY <1>t, <1>r, <2>1, TakenKeepsNone
  <2>3. \A q \in Phone : Named(queue'[q])
    <3>1. CASE UNCHANGED queue
      BY <1>q, <3>1
    <3>2. ASSUME NEW joined \in SUBSET Addr, OnResponse(p, r, joined)
          PROVE  \A q \in Phone : Named(queue'[q])
      <4>1. r # dialled
        BY <1>r, <2>1 DEF Taken
      <4>2. r.api = "ccDial" => r.conf \in Conf
        BY <4>1 DEF Request, Req
      <4>3. Named(ResponseWork(r, joined))
        BY <4>2 DEF Named, ResponseWork, Work
      <4>. QED  BY <1>t, <1>q, <3>2, <4>3, ResponseWorkType, ConcatKeepsNamed DEF OnResponse
    <3>. QED  BY <3>1, <3>2 DEF OnFailure
  <2>. QED  BY <1>s, <2>2, <2>3 DEF OnResponse, OnFailure
<1>13. CASE Android(p)
  BY <1>13, <1>q, <1>r, <1>s DEF Android, GrantPermission, FinishScreen, RunPeerJob
<1>. QED
  BY <1>1, <1>2, <1>3, <1>4, <1>5, <1>6, <1>7, <1>8, <1>9, <1>10, <1>11, <1>12, <1>13
     DEF Input, Step, Handle

(* A session in a conference always knows which one, and never asks the    *)
(* server to drop a conference it cannot name.                             *)
THEOREM ConferenceAlwaysKnown == Spec => []ConferenceKnown
<1>1. Init => ConferenceInv
  <2>. SUFFICES ASSUME Init PROVE ConferenceInv
    OBVIOUS
  <2>1. \A p \in Phone : Named(queue[p])
    BY DEF Init, Named
  <2>2. \A p \in Phone : /\ rest[p][Req("ccDial", {}, NoConf)] = 0
                         /\ rest[p][Req("ccDrop", {}, NoConf)] = 0
    BY RequestType DEF Init
  <2>. QED  BY <2>1, <2>2 DEF Init, ConferenceInv, ConferenceWorkKnown, ConferenceKnown
<1>2. TypeOK /\ ConferenceInv /\ [Next]_vars => ConferenceInv'
  <2>1. CASE UNCHANGED vars
    BY <2>1 DEF vars, ConferenceInv, ConferenceWorkKnown, ConferenceKnown, Named
  <2>2. CASE Next
    BY <2>2, ConferenceStep DEF Next
  <2>. QED  BY <2>1, <2>2
<1>3. ConferenceInv => ConferenceKnown
  BY DEF ConferenceInv
<1>. QED  BY <1>1, <1>2, <1>3, TypeCorrect, PTL DEF Spec

-----------------------------------------------------------------------------
(* The call screen. RingingHasScreen is not inductive: a screen that is    *)
(* closing is still there, so the invariant adds that the screen stays.    *)

Ends(s) == \E i \in 1 .. Len(s) : s[i].act \in EndingWork

RingingInv ==
  \A p \in Phone :
    callState[p] = "INCOMING" /\ Untouched(p, {"reusedScreen", "leftScreen"})
      => \/ screen[p].kind \in {"INCOMING", "ANSWERED"} /\ ~screen[p].closing
         \/ Ends(queue[p])

(* Work that ends a call stays queued until it is handled.                 *)
LEMMA FinishKeepsEnds ==
  ASSUME NEW p \in Phone, queue \in [Phone -> Seq(Intent)], queue[p] # <<>>, Finish(p),
         Head(queue[p]).act \notin EndingWork, NEW q \in Phone, Ends(queue[q])
  PROVE  Ends(queue'[q])
<1>1. CASE q = p
  <2>. PICK i \in 1 .. Len(queue[p]) : queue[p][i].act \in EndingWork
    BY <1>1 DEF Ends
  <2>1. i # 1
    OBVIOUS
  <2>2. i - 1 \in 1 .. Len(Tail(queue[p])) /\ Tail(queue[p])[i - 1] = queue[p][i]
    BY <2>1
  <2>3. queue'[p] = Tail(queue[p])
    BY DEF Finish
  <2>. QED  BY <1>1, <2>2, <2>3 DEF Ends
<1>2. CASE q # p
  BY <1>2 DEF Finish
<1>. QED  BY <1>1, <1>2

LEMMA ConcatKeepsEnds ==
  ASSUME NEW s \in Seq(Intent), NEW t \in Seq(Intent), Ends(s)
  PROVE  Ends(s \o t)
<1>. PICK i \in 1 .. Len(s) : s[i].act \in EndingWork
  BY DEF Ends
<1>1. i \in 1 .. Len(s \o t) /\ (s \o t)[i] = s[i]
  OBVIOUS
<1>. QED  BY <1>1 DEF Ends

LEMMA AppendEnds ==
  ASSUME NEW s \in Seq(Intent), NEW w \in Intent, Ends(s) \/ w.act \in EndingWork
  PROVE  Ends(Append(s, w))
<1>1. CASE Ends(s)
  <2>. PICK i \in 1 .. Len(s) : s[i].act \in EndingWork
    BY <1>1 DEF Ends
  <2>1. i \in 1 .. Len(Append(s, w)) /\ Append(s, w)[i] = s[i]
    OBVIOUS
  <2>. QED  BY <2>1 DEF Ends
<1>2. CASE w.act \in EndingWork
  <2>1. /\ Len(s) + 1 \in 1 .. Len(Append(s, w))
        /\ Append(s, w)[Len(s) + 1] = w
    OBVIOUS
  <2>. QED  BY <1>2, <2>1 DEF Ends
<1>. QED  BY <1>1, <1>2

LEMMA RingingStep ==
  ASSUME TypeOK, RingingInv, NEW p \in Phone, Input(p) \/ Step(p)
  PROVE  RingingInv'
<1>t. /\ queue \in [Phone -> Seq(Intent)]
      /\ callState \in [Phone -> CallState]
      /\ glitch \in [Phone -> SUBSET Glitch]
      /\ screen \in [Phone -> Screen]
  BY DEF TypeOK
<1>. SUFFICES ASSUME NEW q \in Phone,
                     callState'[q] = "INCOMING",
                     glitch'[q] \cap {"reusedScreen", "leftScreen"} = {}
              PROVE  \/ /\ screen'[q].kind \in {"INCOMING", "ANSWERED"}
                        /\ ~screen'[q].closing
                     \/ Ends(queue'[q])
  BY DEF RingingInv, Untouched
<1>i. callState[q] = "INCOMING" /\ glitch[q] \cap {"reusedScreen", "leftScreen"} = {}
        => \/ screen[q].kind \in {"INCOMING", "ANSWERED"} /\ ~screen[q].closing
           \/ Ends(queue[q])
  BY DEF RingingInv, Untouched
<1>o. CASE q # p /\ Handle(p)
  <2>1. /\ callState'[q] = callState[q] /\ queue'[q] = queue[q]
        /\ screen'[q] = screen[q] /\ glitch[q] = glitch'[q]
    BY <1>o, <1>t DEF Handle, HandleIncomingCall, HandleOutgoingCall, HandleCallConnected,
       HandleDenyCall, HandleRemoteBusy, HandleHangup, HandleStartConference,
       HandleEndConference, HandlePeer, Finish, StartScreen, CloseScreen, TellScreen,
       EndCall, Remember
  <2>. QED  BY <2>1, <1>i
<1>1. CASE q = p /\ HandleIncomingCall(p)
  <2>0. queue[p] # <<>> /\ Head(queue[p]).act \notin EndingWork
    BY <1>1 DEF HandleIncomingCall, Doing, EndingWork
  <2>1. CASE callState[p] = "LISTENING"
    <3>1. /\ StartScreen(p, "INCOMING", Peers(p), NoConf)
          /\ Remember(p, Reused(p))
      BY <1>1, <1>t, <2>1 DEF HandleIncomingCall
    <3>2. screen[p].kind = "NONE"
      BY <1>1, <1>t, <3>1 DEF Remember, Reused
    <3>. QED  BY <1>1, <1>t, <3>1, <3>2 DEF StartScreen
  <2>2. CASE callState[p] # "LISTENING"
    <3>1. UNCHANGED <<callState, screen, glitch>>
      BY <1>1, <2>2 DEF HandleIncomingCall
    <3>2. Ends(queue[q]) => Ends(queue'[q])
      BY <1>1, <1>t, <2>0, FinishKeepsEnds DEF HandleIncomingCall
    <3>. QED  BY <1>i, <3>1, <3>2
  <2>. QED  BY <2>1, <2>2
<1>2. CASE q = p /\ HandleOutgoingCall(p)
  BY <1>2, <1>t DEF HandleOutgoingCall
<1>3. CASE q = p /\ (HandleCallConnected(p) \/ HandleDenyCall(p) \/ HandleHangup(p))
  BY <1>3, <1>t DEF HandleCallConnected, HandleDenyCall, HandleHangup, EndCall
<1>4. CASE q = p /\ (\/ HandleRemoteBusy(p) \/ HandleStartConference(p)
                     \/ HandleEndConference(p) \/ HandlePeer(p))
  <2>0. queue[p] # <<>> /\ Head(queue[p]).act \notin EndingWork
    BY <1>4 DEF HandleRemoteBusy, HandleStartConference, HandleEndConference, HandlePeer,
       Doing, EndingWork
  <2>1. Finish(p)
    BY <1>4 DEF HandleRemoteBusy, HandleStartConference, HandleEndConference, HandlePeer
  <2>2. UNCHANGED <<callState, screen, glitch>>
    BY <1>4, <1>t DEF HandleRemoteBusy, HandleStartConference, HandleEndConference,
       HandlePeer, EndCall
  <2>3. Ends(queue[q]) => Ends(queue'[q])
    BY <1>4, <1>t, <2>0, <2>1, FinishKeepsEnds
  <2>. QED  BY <1>i, <2>2, <2>3
<1>5. CASE User(p) \/ Broker(p)
  <2>1. callState' = callState
    BY <1>5 DEF User, Broker, Dial, DialConference, PressHangup, PressAnswer, PressDecline,
       LeaveScreen, SetRingerMode, OnMessage
  <2>2. CASE UNCHANGED <<queue, screen, glitch>>
    BY <1>i, <2>1, <2>2
  <2>3. CASE PressHangup(p) \/ PressDecline(p)
    <3>1. PICK w \in Intent : w.act \in EndingWork /\ Enqueue(p, w)
      <4>1. /\ Work("LOCAL_HANGUP", {}, NoConf) \in Intent
            /\ Work("DENY_CALL", {}, NoConf) \in Intent
            /\ Work("LOCAL_HANGUP", {}, NoConf).act \in EndingWork
            /\ Work("DENY_CALL", {}, NoConf).act \in EndingWork
        BY WorkType DEF Work, Act, EndingWork
      <4>. QED  BY <2>3, <4>1 DEF PressHangup, PressDecline
    <3>2. CASE q = p
      <4>1. queue'[p] = Append(queue[p], w)
        BY <1>t, <3>1 DEF Enqueue
      <4>2. Ends(Append(queue[p], w))
        BY <1>t, <3>1, AppendEnds
      <4>. QED  BY <3>2, <4>1, <4>2
    <3>3. CASE q # p
      BY <1>t, <1>i, <2>1, <2>3, <3>3 DEF PressHangup, PressDecline, Enqueue, CloseScreen
    <3>. QED  BY <3>2, <3>3
  <2>4. CASE PressAnswer(p)
    <3>1. /\ UNCHANGED <<queue, glitch>>
          /\ screen' = [screen EXCEPT ![p].kind = "ANSWERED"]
      BY <2>4 DEF PressAnswer
    <3>2. /\ screen'[q].kind \in {screen[q].kind, "ANSWERED"}
          /\ screen'[q].closing = screen[q].closing
      BY <1>t, <3>1 DEF Screen
    <3>. QED  BY <1>i, <2>1, <3>1, <3>2
  <2>5. CASE LeaveScreen(p)
    <3>1. UNCHANGED queue
      BY <2>5 DEF LeaveScreen
    <3>2. q # p
      BY <1>t, <2>5 DEF LeaveScreen, Remember
    <3>3. screen'[q] = screen[q] /\ glitch'[q] = glitch[q]
      BY <1>t, <2>5, <3>2 DEF LeaveScreen, Remember
    <3>. QED  BY <1>i, <2>1, <3>1, <3>3
  <2>6. CASE Broker(p)
    <3>. PICK m \in Message : OnMessage(p, m)
      BY <2>6 DEF Broker
    <3>1. MessageWork(m) \in Intent /\ glitch' = glitch
      BY MessageWorkType DEF OnMessage
    <3>2. CASE q # p
      <4>1. queue'[q] = queue[q] /\ screen'[q] = screen[q]
        BY <1>t, <3>2 DEF OnMessage, Enqueue, CloseScreen, TellScreen
      <4>. QED  BY <1>i, <2>1, <3>1, <4>1
    <3>3. CASE q = p
      <4>1. queue'[p] = Append(queue[p], MessageWork(m))
        BY <1>t DEF OnMessage, Enqueue
      <4>2. Ends(queue[p]) \/ MessageWork(m).act \in EndingWork
              => Ends(Append(queue[p], MessageWork(m)))
        BY <1>t, <3>1, AppendEnds
      <4>3. CASE m.topic = "callDrop"
        <5>1. MessageWork(m).act \in EndingWork
          BY <4>3 DEF MessageWork, Work, EndingWork
        <5>. QED  BY <3>3, <4>1, <4>2, <5>1
      <4>4. CASE m.topic # "callDrop"
        <5>1. screen' = screen
          BY <4>4 DEF OnMessage
        <5>. QED  BY <1>i, <2>1, <3>1, <3>3, <4>1, <4>2, <5>1
      <4>. QED  BY <4>3, <4>4
    <3>. QED  BY <3>2, <3>3
  <2>7. CASE \/ \E a \in Addr : Dial(p, a)
             \/ \E c \in Conf : DialConference(p, c)
             \/ \E mode \in RingerModes : SetRingerMode(p, mode)
    BY <2>2, <2>7 DEF Dial, DialConference, SetRingerMode
  <2>. QED  BY <1>5, <2>3, <2>4, <2>5, <2>6, <2>7 DEF User
<1>6. CASE Http(p)
  <2>. PICK r \in Request :
         \/ Taken(p, r) /\ \E joined \in SUBSET Addr : OnResponse(p, r, joined)
         \/ OnFailure(p, r)
    BY <1>6 DEF Http
  <2>1. UNCHANGED <<callState, screen, glitch>>
    BY DEF OnResponse, OnFailure
  <2>2. Ends(queue[q]) => Ends(queue'[q])
    <3>1. ASSUME NEW joined \in SUBSET Addr, OnResponse(p, r, joined)
          PROVE  Ends(queue[q]) => Ends(queue'[q])
      <4>1. ResponseWork(r, joined) \in Seq(Intent)
        BY ResponseWorkType
      <4>2. queue'[q] = IF q = p THEN queue[q] \o ResponseWork(r, joined) ELSE queue[q]
        BY <1>t, <3>1 DEF OnResponse
      <4>. QED  BY <1>t, <4>1, <4>2, ConcatKeepsEnds
    <3>2. CASE UNCHANGED queue
      BY <3>2
    <3>. QED  BY <3>1, <3>2 DEF OnFailure
  <2>. QED  BY <1>i, <2>1, <2>2
<1>7. CASE Android(p)
  <2>1. UNCHANGED <<callState, queue>>
    BY <1>7 DEF Android, GrantPermission, FinishScreen, RunPeerJob
  <2>2. glitch[q] \subseteq glitch'[q]
    BY <1>7, <1>t DEF Android, GrantPermission, FinishScreen, RunPeerJob, Remember
  <2>3. \/ screen'[q].kind = screen[q].kind /\ screen'[q].closing = screen[q].closing
        \/ screen[q].closing
    <3>1. CASE GrantPermission(p)
      <4>1. screen' = [screen EXCEPT ![p].shown = TRUE]
        BY <3>1 DEF GrantPermission
      <4>. QED  BY <1>t, <4>1 DEF Screen
    <3>2. CASE FinishScreen(p)
      BY <1>t, <3>2 DEF FinishScreen
    <3>3. CASE \E kind \in {"join", "leave"} : RunPeerJob(p, kind)
      BY <3>3 DEF RunPeerJob
    <3>. QED  BY <1>7, <3>1, <3>2, <3>3 DEF Android
  <2>. QED  BY <1>i, <2>1, <2>2, <2>3
<1>. QED
  BY <1>o, <1>1, <1>2, <1>3, <1>4, <1>5, <1>6, <1>7 DEF Input, Step, Handle

(* A ringing phone shows the screen on which the call can be answered or   *)
(* declined, or has work queued that ends the ringing, unless the user     *)
(* left the screen or it met the screen of an earlier call.                *)
THEOREM RingingAlwaysHasScreen == Spec => []RingingHasScreen
<1>1. Init => RingingInv
  BY DEF Init, RingingInv
<1>2. TypeOK /\ RingingInv /\ [Next]_vars => RingingInv'
  <2>1. CASE UNCHANGED vars
    BY <2>1 DEF vars, RingingInv, Untouched
  <2>2. CASE Next
    BY <2>2, RingingStep DEF Next
  <2>. QED  BY <2>1, <2>2
<1>3. RingingInv => RingingHasScreen
  BY DEF RingingInv, RingingHasScreen, Ends
<1>. QED  BY <1>1, <1>2, <1>3, TypeCorrect, PTL DEF Spec

=============================================================================
