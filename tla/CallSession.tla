---------------------------- MODULE CallSession ----------------------------
(***************************************************************************)
(* The call session of a TinyTalk phone: the job service that owns the     *)
(* call state (voicecall/CallSessionService), the REST requests it sends   *)
(* and the call-backs that come back as work (command/RestApi), the MQTT   *)
(* messages that become work (command/MqttClientService) and the call      *)
(* screen (voicecall/VoiceCallScreenActivity).                             *)
(*                                                                         *)
(* Everything the session does is work taken from one FIFO queue by one    *)
(* thread; user, broker and HTTP call-backs only append to that queue.     *)
(* Every variable is a function on Phone, so that the same handlers serve  *)
(* one phone against an open environment (Spec below) and several phones   *)
(* joined by the server (module VoiceCall).                                *)
(***************************************************************************)
EXTENDS Naturals, Sequences

CONSTANTS
  Phone,        \* the phones whose sessions are modelled
  Addr,         \* the host addresses a message can carry
  Conf,         \* conference ids
  NoConf,       \* "no conference id" (null or empty)
  RingerModes,  \* the ringer modes the user switches between
  ScreenLag,    \* TRUE: the screen waits for the permission and closes late
  MaxInputs     \* bound: how many inputs the environment gives each phone

ASSUME SessionAssumption ==
  /\ NoConf \notin Conf
  /\ RingerModes \subseteq {"normal", "vibrate", "silent"}
  /\ RingerModes # {}
  /\ ScreenLag \in BOOLEAN
  /\ MaxInputs \in Nat

VARIABLES
  callState,    \* CallSessionService.callState
  queue,        \* pending work of the job service, oldest first
  recipientId,  \* conference the session believes it is in
  alert,        \* what alerts the user: ringtone player, vibrator
  tone,         \* the tone generator: none, ringback or busy
  ringerMode,   \* AudioManager.getRingerMode()
  callJob,      \* the scheduled audio job CALL_JOB_ID and its peers
  peerJobs,     \* the pending PEER_JOIN and PEER_LEAVE jobs
  screen,       \* the call screen
  rest,         \* REST requests in flight, counted
  glitch,       \* history only: which races the phone has been through
  inputs        \* bound only: inputs the environment has given

vars == <<callState, queue, recipientId, alert, tone, ringerMode, callJob,
          peerJobs, screen, rest, glitch, inputs>>

-----------------------------------------------------------------------------
CallState == {"LISTENING", "CALLING", "INCOMING", "IN_CALL", "IN_CONFERENCE_CALL"}

Act == {"INCOMING_CALL", "OUTGOING_CALL", "ANSWER_CALL", "CALL_CONNECTED",
        "DENY_CALL", "REMOTE_BUSY", "LOCAL_HANGUP", "REMOTE_HANGUP",
        "START_CONFERENCE", "STOP_CONFERENCE", "PEER_JOIN", "PEER_LEAVE"}

(* An address is a set with at most one element: {} is the empty string.   *)
(* The participants of a conference are a set of any size.                 *)
Intent == [act : Act, peers : SUBSET Addr, conf : Conf \cup {NoConf}]

Request == [api : {"dial", "accept"}, peers : SUBSET Addr, conf : {NoConf}]
  \cup [api : {"deny", "busy", "drop"}, peers : {{}}, conf : {NoConf}]
  \cup [api : {"ccDial", "ccDrop"}, peers : {{}}, conf : Conf \cup {NoConf}]

AtMostOne == {{}} \cup {{a} : a \in Addr}
Message == [topic : {"dial", "accept"}, peers : AtMostOne, conf : {NoConf}]
  \cup [topic : {"deny", "busy", "callDrop"}, peers : {{}}, conf : {NoConf}]
  \cup [topic : {"ccNewJoin", "ccCallDrop"}, peers : AtMostOne \ {{}}, conf : Conf]

ScreenKind == {"NONE", "INCOMING", "OUTGOING", "CONFERENCE", "ANSWERED", "BUSY"}
Screen == [kind : ScreenKind, peers : SUBSET Addr, conf : Conf \cup {NoConf},
           shown : BOOLEAN, closing : BOOLEAN]

(* Races that the handlers let through; "glitch" collects those that have  *)
(* happened, so that the invariants can say exactly what each one breaks:  *)
(*   overtaken       an OUTGOING_CALL handled outside LISTENING            *)
(*   silenced        an alert ended while the ringer mode was silent       *)
(*   latePermission  a conference's audio job scheduled outside it         *)
(*   reusedScreen    a call that found another call's screen still there   *)
(*   leftScreen      the user left a call screen with the back button      *)
Glitch == {"overtaken", "silenced", "latePermission", "reusedScreen", "leftScreen"}

Work(act, peers, conf) == [act |-> act, peers |-> peers, conf |-> conf]
Req(api, peers, conf) == [api |-> api, peers |-> peers, conf |-> conf]
NoScreen == [kind |-> "NONE", peers |-> {}, conf |-> NoConf,
             shown |-> FALSE, closing |-> FALSE]
NoJob == [live |-> FALSE, peers |-> {}]

TypeOK ==
  /\ callState \in [Phone -> CallState]
  /\ queue \in [Phone -> Seq(Intent)]
  /\ recipientId \in [Phone -> Conf \cup {NoConf}]
  /\ alert \in [Phone -> SUBSET {"player", "vibrator"}]
  /\ tone \in [Phone -> {"none", "ringback", "busy"}]
  /\ ringerMode \in [Phone -> RingerModes]
  /\ callJob \in [Phone -> [live : BOOLEAN, peers : SUBSET Addr]]
  /\ peerJobs \in [Phone -> [join : SUBSET Addr, leave : SUBSET Addr]]
  /\ screen \in [Phone -> Screen]
  /\ rest \in [Phone -> [Request -> Nat]]
  /\ glitch \in [Phone -> SUBSET Glitch]
  /\ inputs \in [Phone -> Nat]

Init ==
  /\ callState = [p \in Phone |-> "LISTENING"]
  /\ queue = [p \in Phone |-> <<>>]
  /\ recipientId = [p \in Phone |-> NoConf]
  /\ alert = [p \in Phone |-> {}]
  /\ tone = [p \in Phone |-> "none"]
  /\ ringerMode \in [Phone -> RingerModes]
  /\ callJob = [p \in Phone |-> NoJob]
  /\ peerJobs = [p \in Phone |-> [join |-> {}, leave |-> {}]]
  /\ screen = [p \in Phone |-> NoScreen]
  /\ rest = [p \in Phone |-> [r \in Request |-> 0]]
  /\ glitch = [p \in Phone |-> {}]
  /\ inputs = [p \in Phone |-> 0]

-----------------------------------------------------------------------------
(* What the handlers share. *)

Doing(p, acts) == queue[p] # <<>> /\ Head(queue[p]).act \in acts
Peers(p) == Head(queue[p]).peers
Finish(p) == queue' = [queue EXCEPT ![p] = Tail(@)]
Send(p, r) == rest' = [rest EXCEPT ![p][r] = @ + 1]
Remember(p, races) == glitch' = [glitch EXCEPT ![p] = @ \cup races]

(* The activity is singleTop and does not override onNewIntent: a screen   *)
(* that is already there keeps its own intent.                             *)
StartScreen(p, kind, peers, conf) ==
  screen' = [screen EXCEPT ![p] =
    IF @.kind # "NONE" THEN @
    ELSE [kind |-> kind, peers |-> peers, conf |-> conf,
          shown |-> ~ScreenLag, closing |-> FALSE]]

Reused(p) == IF screen[p].kind = "NONE" THEN {} ELSE {"reusedScreen"}

(* delayedFinish: the screen stays usable until the delay has passed.      *)
Closed(s) ==
  IF s.kind = "NONE" \/ ~ScreenLag THEN NoScreen ELSE [s EXCEPT !.closing = TRUE]

(* A busy signal hides the end-call button, which the permission, granted  *)
(* later, would show again.                                                *)
Busy(s) == IF Closed(s).shown THEN [Closed(s) EXCEPT !.kind = "BUSY"] ELSE Closed(s)

CloseScreen(p) == screen' = [screen EXCEPT ![p] = Closed(@)]

(* The session and the broker close the screen by a local broadcast, which *)
(* misses a screen that is not started yet or is in the background.        *)
TellScreen(p) == CloseScreen(p) \/ (ScreenLag /\ UNCHANGED screen)

(* The vibrator is started in every ringer mode, the player in one.        *)
StartRinger(p) ==
  alert' = [alert EXCEPT ![p] = @ \cup {"vibrator"} \cup
              (IF ringerMode[p] = "normal" THEN {"player"} ELSE {})]

(* Mutant of EndRinger: the ringtone stops, the vibrator does not.         *)
EndRinger_PlayerOnly(p) == alert' = [alert EXCEPT ![p] = @ \ {"player"}]

(* In silent mode endRinger stops nothing.                                 *)
EndRinger(p) ==
  alert' = [alert EXCEPT ![p] = IF ringerMode[p] = "silent" THEN @ ELSE {}]

Silenced(p) ==
  IF ringerMode[p] = "silent" /\ alert[p] # {} THEN {"silenced"} ELSE {}

(* Mutant of StopTone: it knows the busy tone only.                        *)
StopTone_BusyOnly(p) ==
  tone' = [tone EXCEPT ![p] = IF @ = "busy" THEN "none" ELSE @]

StopTone(p) == tone' = [tone EXCEPT ![p] = "none"]

(* Mutant of EndCall: the audio of a conference goes on.                   *)
EndCall_KeepsConferenceAudio(p) ==
  /\ callState' = [callState EXCEPT ![p] = "LISTENING"]
  /\ recipientId' = [recipientId EXCEPT ![p] = NoConf]
  /\ callJob' = IF callState[p] = "IN_CALL"
                THEN [callJob EXCEPT ![p] = NoJob] ELSE callJob

(* Mutant of EndCall: the id of the conference is kept.                    *)
EndCall_KeepsRecipient(p) ==
  /\ callState' = [callState EXCEPT ![p] = "LISTENING"]
  /\ callJob' = IF callState[p] \in {"IN_CALL", "IN_CONFERENCE_CALL"}
                THEN [callJob EXCEPT ![p] = NoJob] ELSE callJob
  /\ UNCHANGED recipientId

(* endCall cancels the audio job only when the session is in a call.       *)
EndCall(p) ==
  /\ callState' = [callState EXCEPT ![p] = "LISTENING"]
  /\ recipientId' = [recipientId EXCEPT ![p] = NoConf]
  /\ callJob' = IF callState[p] \in {"IN_CALL", "IN_CONFERENCE_CALL"}
                THEN [callJob EXCEPT ![p] = NoJob]
                ELSE callJob

-----------------------------------------------------------------------------
(* The handlers of onHandleWork. *)

HandleIncomingCall(p) ==
  /\ Doing(p, {"INCOMING_CALL"})
  /\ Finish(p)
  /\ \/ /\ Peers(p) # {}
        /\ callState[p] = "LISTENING"
        /\ StartScreen(p, "INCOMING", Peers(p), NoConf)
        /\ callState' = [callState EXCEPT ![p] = "INCOMING"]
        /\ StartRinger(p)
        /\ Remember(p, Reused(p))
        /\ UNCHANGED rest
     \/ /\ Peers(p) # {}
        /\ callState[p] = "IN_CALL"
        /\ Send(p, Req("busy", {}, NoConf))
        /\ UNCHANGED <<callState, alert, screen, glitch>>
     \/ /\ Peers(p) = {} \/ callState[p] \notin {"LISTENING", "IN_CALL"}
        /\ UNCHANGED <<callState, alert, screen, glitch, rest>>
  /\ UNCHANGED <<recipientId, tone, ringerMode, callJob, peerJobs>>

(* No guard on the state: the dial response may find any state.            *)
HandleOutgoingCall(p) ==
  /\ Doing(p, {"OUTGOING_CALL"})
  /\ Finish(p)
  /\ StartScreen(p, "OUTGOING", {}, NoConf)
  /\ callState' = [callState EXCEPT ![p] = "CALLING"]
  /\ tone' = [tone EXCEPT ![p] = "ringback"]
  /\ Remember(p, Reused(p) \cup
                 (IF callState[p] = "LISTENING" THEN {} ELSE {"overtaken"}))
  /\ UNCHANGED <<recipientId, alert, ringerMode, callJob, peerJobs, rest>>

HandleCallConnected(p) ==
  /\ Doing(p, {"ANSWER_CALL", "CALL_CONNECTED"})
  /\ Peers(p) # {}
  /\ Finish(p)
  /\ \/ /\ callState[p] \in {"CALLING", "INCOMING"}
        /\ EndRinger(p)
        /\ StopTone(p)
        /\ callState' = [callState EXCEPT ![p] = "IN_CALL"]
        /\ callJob' = [callJob EXCEPT ![p] = [live |-> TRUE, peers |-> Peers(p)]]
        /\ Remember(p, Silenced(p))
     \/ /\ callState[p] \notin {"CALLING", "INCOMING"}
        /\ UNCHANGED <<alert, tone, callState, callJob, glitch>>
  /\ UNCHANGED <<recipientId, ringerMode, peerJobs, screen, rest>>

HandleDenyCall(p) ==
  /\ Doing(p, {"DENY_CALL"})
  /\ Finish(p)
  /\ \/ /\ callState[p] \in {"CALLING", "INCOMING"}
        /\ EndRinger(p)
        /\ StopTone(p)
        /\ TellScreen(p)
        /\ EndCall(p)
        /\ Remember(p, Silenced(p))
     \/ /\ callState[p] \notin {"CALLING", "INCOMING"}
        /\ UNCHANGED <<alert, tone, screen, callState, recipientId, callJob, glitch>>
  /\ UNCHANGED <<ringerMode, peerJobs, rest>>

HandleRemoteBusy(p) ==
  /\ Doing(p, {"REMOTE_BUSY"})
  /\ Finish(p)
  /\ \/ /\ callState[p] = "CALLING"
        /\ tone' = [tone EXCEPT ![p] = "busy"]
        /\ \/ screen' = [screen EXCEPT ![p] = Busy(@)]
           \/ ScreenLag /\ UNCHANGED screen
        /\ EndCall(p)
     \/ /\ callState[p] # "CALLING"
        /\ UNCHANGED <<tone, screen, callState, recipientId, callJob>>
  /\ UNCHANGED <<alert, ringerMode, peerJobs, rest, glitch>>

(* Mutant of HandleHangup: the early return of a session that is not in a  *)
(* call is gone.                                                           *)
HandleHangup_AlwaysHangsUp(p) ==
  /\ Doing(p, {"LOCAL_HANGUP", "REMOTE_HANGUP"})
  /\ Send(p, Req("drop", {}, NoConf))
  /\ queue' = [queue EXCEPT ![p] = Append(Tail(@), Work("LOCAL_HANGUP", {}, NoConf))]
  /\ StopTone(p)
  /\ EndRinger(p)
  /\ EndCall(p)
  /\ Remember(p, Silenced(p))
  /\ UNCHANGED <<ringerMode, peerJobs, screen>>

(* RestApi.hangup sends the drop and at once queues a LOCAL_HANGUP again;  *)
(* an answer or a connection without an address is a hangup too.           *)
HandleHangup(p) ==
  /\ \/ Doing(p, {"LOCAL_HANGUP", "REMOTE_HANGUP"})
     \/ Doing(p, {"ANSWER_CALL", "CALL_CONNECTED"}) /\ Peers(p) = {}
  /\ \/ /\ callState[p] # "LISTENING"
        /\ StopTone(p)
        /\ EndRinger(p)
        /\ IF callState[p] = "IN_CONFERENCE_CALL"
           THEN /\ Send(p, Req("ccDrop", {}, recipientId[p]))
                /\ Finish(p)
           ELSE /\ Send(p, Req("drop", {}, NoConf))
                /\ queue' = [queue EXCEPT ![p] =
                               Append(Tail(@), Work("LOCAL_HANGUP", {}, NoConf))]
        /\ EndCall(p)
        /\ Remember(p, Silenced(p))
     \/ /\ callState[p] = "LISTENING"
        /\ Finish(p)
        /\ UNCHANGED <<tone, alert, rest, callState, recipientId, callJob, glitch>>
  /\ UNCHANGED <<ringerMode, peerJobs, screen>>

HandleStartConference(p) ==
  /\ Doing(p, {"START_CONFERENCE"})
  /\ Finish(p)
  /\ \/ LET id == Head(queue[p]).conf IN
        /\ callState[p] = "LISTENING"
        /\ recipientId' = [recipientId EXCEPT ![p] = id]
        /\ callState' = [callState EXCEPT ![p] = "IN_CONFERENCE_CALL"]
        /\ StartScreen(p, "CONFERENCE", Peers(p), id)
        /\ Remember(p, Reused(p))
        /\ callJob' = IF ~ScreenLag /\ screen[p].kind = "NONE"
                      THEN [callJob EXCEPT ![p] = [live |-> TRUE, peers |-> Peers(p)]]
                      ELSE callJob
     \/ /\ callState[p] # "LISTENING"
        /\ UNCHANGED <<recipientId, callState, screen, callJob, glitch>>
  /\ UNCHANGED <<alert, tone, ringerMode, peerJobs, rest>>

(* The comparison of the conference id is commented out in the source.     *)
HandleEndConference(p) ==
  /\ Doing(p, {"STOP_CONFERENCE"})
  /\ Finish(p)
  /\ \/ callState[p] = "IN_CONFERENCE_CALL" /\ EndCall(p)
     \/ /\ callState[p] # "IN_CONFERENCE_CALL"
        /\ UNCHANGED <<callState, recipientId, callJob>>
  /\ UNCHANGED <<alert, tone, ringerMode, peerJobs, screen, rest, glitch>>

(* Each kind of peer job has one id: scheduling it again replaces the one  *)
(* still pending.                                                          *)
HandlePeer(p) ==
  /\ Doing(p, {"PEER_JOIN", "PEER_LEAVE"})
  /\ Finish(p)
  /\ peerJobs' =
       IF callState[p] # "IN_CONFERENCE_CALL" THEN peerJobs
       ELSE IF Head(queue[p]).act = "PEER_JOIN"
            THEN [peerJobs EXCEPT ![p].join = Peers(p)]
            ELSE [peerJobs EXCEPT ![p].leave = Peers(p)]
  /\ UNCHANGED <<callState, recipientId, alert, tone, ringerMode, callJob,
                 screen, rest, glitch>>

Handle(p) ==
  \/ HandleIncomingCall(p)
  \/ HandleOutgoingCall(p)
  \/ HandleCallConnected(p)
  \/ HandleDenyCall(p)
  \/ HandleRemoteBusy(p)
  \/ HandleHangup(p)
  \/ HandleStartConference(p)
  \/ HandleEndConference(p)
  \/ HandlePeer(p)

-----------------------------------------------------------------------------
(* What appends to the queue: the user, the broker and the HTTP call-backs.*)

Enqueue(p, w) == queue' = [queue EXCEPT ![p] = Append(@, w)]

(* The dial button of a conversation, which the call screen would cover.   *)
Dial(p, a) ==
  /\ screen[p].kind = "NONE"
  /\ Send(p, Req("dial", {a}, NoConf))
  /\ UNCHANGED <<callState, queue, recipientId, alert, tone, ringerMode, callJob,
                 peerJobs, screen, glitch>>

DialConference(p, c) ==
  /\ screen[p].kind = "NONE"
  /\ Send(p, Req("ccDial", {}, c))
  /\ UNCHANGED <<callState, queue, recipientId, alert, tone, ringerMode, callJob,
                 peerJobs, screen, glitch>>

(* The end-call button is hidden while an incoming call is shown and after *)
(* a busy signal.                                                          *)
PressHangup(p) ==
  /\ screen[p].kind \notin {"NONE", "BUSY"}
  /\ ~(screen[p].kind = "INCOMING" /\ screen[p].shown)
  /\ Enqueue(p, Work("LOCAL_HANGUP", {}, NoConf))
  /\ CloseScreen(p)
  /\ UNCHANGED <<callState, recipientId, alert, tone, ringerMode, callJob,
                 peerJobs, rest, glitch>>

PressAnswer(p) ==
  /\ screen[p].kind = "INCOMING"
  /\ screen[p].shown
  /\ Send(p, Req("accept", screen[p].peers, NoConf))
  /\ screen' = [screen EXCEPT ![p].kind = "ANSWERED"]
  /\ UNCHANGED <<callState, queue, recipientId, alert, tone, ringerMode, callJob,
                 peerJobs, glitch>>

(* Mutant of PressDecline: the server is told, the session is not.         *)
PressDecline_ForgetsSession(p) ==
  /\ screen[p].kind = "INCOMING"
  /\ screen[p].shown
  /\ Send(p, Req("deny", {}, NoConf))
  /\ CloseScreen(p)
  /\ UNCHANGED <<callState, queue, recipientId, alert, tone, ringerMode, callJob,
                 peerJobs, glitch>>

(* Mutant of PressDecline: the wrong response is sent.                     *)
PressDecline_SendsAccept(p) ==
  /\ screen[p].kind = "INCOMING"
  /\ screen[p].shown
  /\ Send(p, Req("accept", screen[p].peers, NoConf))
  /\ Enqueue(p, Work("DENY_CALL", {}, NoConf))
  /\ CloseScreen(p)
  /\ UNCHANGED <<callState, recipientId, alert, tone, ringerMode, callJob,
                 peerJobs, glitch>>

PressDecline(p) ==
  /\ screen[p].kind = "INCOMING"
  /\ screen[p].shown
  /\ Send(p, Req("deny", {}, NoConf))
  /\ Enqueue(p, Work("DENY_CALL", {}, NoConf))
  /\ CloseScreen(p)
  /\ UNCHANGED <<callState, recipientId, alert, tone, ringerMode, callJob,
                 peerJobs, glitch>>

(* The screen of a conference schedules the audio job when the permission  *)
(* is granted, whatever has become of the session meanwhile.               *)
GrantPermission(p) ==
  /\ screen[p].kind # "NONE"
  /\ ~screen[p].shown
  /\ screen' = [screen EXCEPT ![p].shown = TRUE]
  /\ \/ /\ screen[p].kind = "CONFERENCE"
        /\ callJob' = [callJob EXCEPT ![p] = [live |-> TRUE, peers |-> screen[p].peers]]
        /\ Remember(p, IF /\ callState[p] = "IN_CONFERENCE_CALL"
                          /\ recipientId[p] = screen[p].conf
                       THEN {} ELSE {"latePermission"})
     \/ /\ screen[p].kind # "CONFERENCE"
        /\ UNCHANGED <<callJob, glitch>>
  /\ UNCHANGED <<callState, queue, recipientId, alert, tone, ringerMode,
                 peerJobs, rest>>

FinishScreen(p) ==
  /\ screen[p].closing
  /\ screen' = [screen EXCEPT ![p] = NoScreen]
  /\ UNCHANGED <<callState, queue, recipientId, alert, tone, ringerMode, callJob,
                 peerJobs, rest, glitch>>

(* The back button destroys the activity and tells the session nothing.    *)
LeaveScreen(p) ==
  /\ screen[p].kind # "NONE"
  /\ screen' = [screen EXCEPT ![p] = NoScreen]
  /\ Remember(p, {"leftScreen"})
  /\ UNCHANGED <<callState, queue, recipientId, alert, tone, ringerMode, callJob,
                 peerJobs, rest>>

SetRingerMode(p, mode) ==
  /\ mode # ringerMode[p]
  /\ ringerMode' = [ringerMode EXCEPT ![p] = mode]
  /\ UNCHANGED <<callState, queue, recipientId, alert, tone, callJob,
                 peerJobs, screen, rest, glitch>>

MessageWork(m) ==
  CASE m.topic = "dial"       -> Work("INCOMING_CALL", m.peers, NoConf)
    [] m.topic = "accept"     -> Work("CALL_CONNECTED", m.peers, NoConf)
    [] m.topic = "deny"       -> Work("DENY_CALL", {}, NoConf)
    [] m.topic = "busy"       -> Work("REMOTE_BUSY", {}, NoConf)
    [] m.topic = "callDrop"   -> Work("REMOTE_HANGUP", {}, NoConf)
    [] m.topic = "ccNewJoin"  -> Work("PEER_JOIN", m.peers, m.conf)
    [] m.topic = "ccCallDrop" -> Work("PEER_LEAVE", m.peers, m.conf)

OnMessage(p, m) ==
  /\ Enqueue(p, MessageWork(m))
  /\ IF m.topic = "callDrop" THEN TellScreen(p) ELSE UNCHANGED screen
  /\ UNCHANGED <<callState, recipientId, alert, tone, ringerMode, callJob,
                 peerJobs, rest, glitch>>

(* Only four of the requests have a call-back that queues work; "joined"   *)
(* is what the server answers to a ccDial.                                 *)
ResponseWork(r, joined) ==
  CASE r.api = "dial"   -> <<Work("OUTGOING_CALL", {}, NoConf)>>
    [] r.api = "accept" -> <<Work("ANSWER_CALL", r.peers, NoConf)>>
    [] r.api = "ccDial" -> <<Work("START_CONFERENCE", joined, r.conf)>>
    [] r.api = "ccDrop" -> <<Work("STOP_CONFERENCE", {}, r.conf)>>
    [] OTHER            -> <<>>

OnResponse(p, r, joined) ==
  /\ queue' = [queue EXCEPT ![p] = @ \o ResponseWork(r, joined)]
  /\ UNCHANGED <<callState, recipientId, alert, tone, ringerMode, callJob,
                 peerJobs, screen, glitch>>

(* Mutant of Taken: a response that nobody has asked for.                  *)
Taken_Twice(p, r) == rest' = [rest EXCEPT ![p][r] = @ - 1]

Taken(p, r) ==
  /\ rest[p][r] > 0
  /\ rest' = [rest EXCEPT ![p][r] = @ - 1]

(* onFailure, and a ccDial answered without a body: nothing is queued.     *)
OnFailure(p, r) ==
  /\ Taken(p, r)
  /\ UNCHANGED <<callState, queue, recipientId, alert, tone, ringerMode, callJob,
                 peerJobs, screen, glitch>>

RunPeerJob(p, kind) ==
  /\ peerJobs[p][kind] # {}
  /\ peerJobs' = [peerJobs EXCEPT ![p][kind] = {}]
  /\ UNCHANGED <<callState, queue, recipientId, alert, tone, ringerMode, callJob,
                 screen, rest, glitch>>

-----------------------------------------------------------------------------
(* A phone against an open environment: any message the server may send,   *)
(* any answer, any user.                                                   *)

User(p) ==
  \/ \E a \in Addr : Dial(p, a)
  \/ \E c \in Conf : DialConference(p, c)
  \/ PressHangup(p)
  \/ PressAnswer(p)
  \/ PressDecline(p)
  \/ LeaveScreen(p)
  \/ \E mode \in RingerModes : SetRingerMode(p, mode)

Broker(p) == \E m \in Message : OnMessage(p, m)

Http(p) ==
  \E r \in Request :
    \/ Taken(p, r) /\ \E joined \in SUBSET Addr : OnResponse(p, r, joined)
    \/ OnFailure(p, r)

Android(p) ==
  \/ GrantPermission(p)
  \/ FinishScreen(p)
  \/ \E kind \in {"join", "leave"} : RunPeerJob(p, kind)

Input(p) ==
  /\ inputs[p] < MaxInputs
  /\ inputs' = [inputs EXCEPT ![p] = @ + 1]
  /\ User(p) \/ Broker(p)

Step(p) ==
  /\ Handle(p) \/ Http(p) \/ Android(p)
  /\ UNCHANGED inputs

Next == \E p \in Phone : Input(p) \/ Step(p)

(* The job service is never left waiting with work in its queue: Android   *)
(* keeps the process alive for a JobIntentService until its queue is empty.*)
Fairness == \A p \in Phone : WF_vars(Handle(p) /\ UNCHANGED inputs)

Spec == Init /\ [][Next]_vars
FairSpec == Spec /\ Fairness

-----------------------------------------------------------------------------
(* Properties. *)

Untouched(p, races) == glitch[p] \cap races = {}

(* A phone rings or vibrates only while an incoming call waits for its     *)
(* user: every way out of INCOMING goes through endRinger, unless the      *)
(* answer to an earlier dial overtook the call (handleOutgoingCall has no  *)
(* guard) or the alert ended in silent mode (endRinger does nothing then). *)
AlertOnlyWhileRinging ==
  \A p \in Phone :
    alert[p] # {} /\ Untouched(p, {"overtaken", "silenced"})
      => callState[p] = "INCOMING"

(* The microphone is not left open: the audio job is scheduled only during *)
(* a call (endCall cancels it), unless a dial response overtook the call   *)
(* or the permission of a conference came after its end; and a call that   *)
(* was connected always has its audio job.                                 *)
AudioExactlyInCall ==
  \A p \in Phone :
    /\ callState[p] = "IN_CALL" => callJob[p].live
    /\ callJob[p].live /\ Untouched(p, {"overtaken", "latePermission"})
         => callState[p] \in {"IN_CALL", "IN_CONFERENCE_CALL"}

(* A session that leaves a conference tells the server which one: the id   *)
(* survives until RestApi.endConferenceCall has read it, whatever work was *)
(* handled in between, and is forgotten with the call.                     *)
ConferenceKnown ==
  \A p \in Phone :
    /\ callState[p] = "IN_CONFERENCE_CALL" => recipientId[p] # NoConf
    /\ callState[p] = "LISTENING" => recipientId[p] = NoConf
    /\ rest[p][Req("ccDrop", {}, NoConf)] = 0

(* The ringback tone generator is held exactly while a dialled call is     *)
(* unanswered, although five handlers create or release generators.        *)
RingbackExactlyWhileCalling ==
  \A p \in Phone : tone[p] = "ringback" <=> callState[p] = "CALLING"

EndingWork == {"ANSWER_CALL", "CALL_CONNECTED", "DENY_CALL", "LOCAL_HANGUP", "REMOTE_HANGUP"}

(* An incoming call can be answered: while the phone rings there is a      *)
(* screen for that call, unless work that ends it is already queued, the   *)
(* user left the screen, or it met the screen of an earlier call.          *)
RingingHasScreen ==
  \A p \in Phone :
    callState[p] = "INCOMING" /\ Untouched(p, {"reusedScreen", "leftScreen"})
      => \/ screen[p].kind \in {"INCOMING", "ANSWERED"}
         \/ \E i \in 1 .. Len(queue[p]) : queue[p][i].act \in EndingWork

(* The session settles: RestApi.hangup queues another LOCAL_HANGUP, and    *)
(* that one must not queue yet another, so that once the environment has   *)
(* no more input the job service runs out of work.                         *)
SessionSettles == <>[](\A p \in Phone : queue[p] = <<>>)

=============================================================================
