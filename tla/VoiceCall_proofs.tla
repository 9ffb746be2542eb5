-------------------------- MODULE VoiceCall_proofs --------------------------
(***************************************************************************)
(* What holds of voice calls end to end, for every set of phones and of    *)
(* server threads, any number of dials and a network that may lose         *)
(* anything: the types, that nobody talks before somebody has answered,    *)
(* that nobody is billed before, and that the caller pays.                 *)
(*                                                                         *)
(* The sessions and the exchange keep their own types: their lemmas are    *)
(* taken from CallSession_proofs and CallServer_proofs by instantiation.   *)
(***************************************************************************)
EXTENDS VoiceCall, TLAPS

Phones == INSTANCE CallSession_proofs WITH
  Addr <- Phone, Conf <- {}, RingerModes <- {"vibrate"}, ScreenLag <- FALSE,
  MaxInputs <- 0, inputs <- dials

Exchange == INSTANCE CallServer_proofs WITH
  MaxRequests <- 0, requests <- 0

-----------------------------------------------------------------------------
(* Types. *)

(* The assumptions of the two components follow from those of the whole.   *)
LEMMA PartsAssumed ==
  CallAssumption => Phones!SessionAssumption /\ Exchange!ServerAssumption
BY DEF CallAssumption, Phones!SessionAssumption, Exchange!ServerAssumption

(* The types of the sessions and of the exchange, whose tasks also know    *)
(* the phones they need, and those of what joins the two.                  *)
CallTypes ==
  /\ Phones!TypeOK
  /\ Exchange!TypeInv
  /\ request \in [Thread -> Phones!Request]
  /\ answered \subseteq Phone \X Phone

(* The two instances of each component are the same component.             *)
LEMMA SessionTypes == Session!TypeOK <=> Phones!TypeOK
BY DEF Session!TypeOK, Phones!TypeOK, Session!CallState, Phones!CallState,
   Session!Intent, Phones!Intent, Session!Act, Phones!Act, Session!Screen, Phones!Screen,
   Session!ScreenKind, Phones!ScreenKind, Session!Request, Phones!Request,
   Session!Glitch, Phones!Glitch

LEMMA ServerTypes == Server!TypeOK <=> Exchange!TypeOK
BY DEF Server!TypeOK, Exchange!TypeOK, Server!Kind, Exchange!Kind, Server!Task, Exchange!Task,
   Server!Step, Exchange!Step, Server!Api, Exchange!Api, Server!Response, Exchange!Response,
   Server!Message, Exchange!Message, Server!NoTime, Exchange!NoTime

LEMMA SameData ==
  /\ Session!Request = Phones!Request
  /\ Server!Message = Exchange!Message
  /\ Session!Intent = Phones!Intent
BY DEF Session!Request, Phones!Request, Server!Message, Exchange!Message,
   Session!Intent, Phones!Intent, Session!Act, Phones!Act

LEMMA SameHandle ==
  ASSUME NEW p \in Phone
  PROVE  Session!Handle(p) <=> Phones!Handle(p)
BY DEF Session!Handle, Phones!Handle,
  Session!HandleIncomingCall, Phones!HandleIncomingCall,
  Session!HandleOutgoingCall, Phones!HandleOutgoingCall,
  Session!HandleCallConnected, Phones!HandleCallConnected,
  Session!HandleDenyCall, Phones!HandleDenyCall,
  Session!HandleRemoteBusy, Phones!HandleRemoteBusy,
  Session!HandleHangup, Phones!HandleHangup,
  Session!HandleStartConference, Phones!HandleStartConference,
  Session!HandleEndConference, Phones!HandleEndConference,
  Session!HandlePeer, Phones!HandlePeer,
  Session!Doing, Phones!Doing, Session!Peers, Phones!Peers, Session!Finish, Phones!Finish,
  Session!Send, Phones!Send, Session!Remember, Phones!Remember,
  Session!StartScreen, Phones!StartScreen, Session!Reused, Phones!Reused,
  Session!Closed, Phones!Closed, Session!Busy, Phones!Busy,
  Session!CloseScreen, Phones!CloseScreen, Session!TellScreen, Phones!TellScreen,
  Session!StartRinger, Phones!StartRinger, Session!EndRinger, Phones!EndRinger,
  Session!Silenced, Phones!Silenced, Session!StopTone, Phones!StopTone,
  Session!EndCall, Phones!EndCall, Session!NoScreen, Phones!NoScreen,
  Session!NoJob, Phones!NoJob, Session!Work, Phones!Work, Session!Req, Phones!Req

LEMMA SameServe ==
  ASSUME NEW t \in Thread
  PROVE  Server!Serve(t) <=> Exchange!Serve(t)
BY DEF Server!Serve, Exchange!Serve, Server!PublishDial, Exchange!PublishDial,
  Server!WriteCallInfo, Exchange!WriteCallInfo, Server!Lookup, Exchange!Lookup,
  Server!PublishResponse, Exchange!PublishResponse, Server!CallStart, Exchange!CallStart,
  Server!PublishDrop, Exchange!PublishDrop, Server!ReadStart, Exchange!ReadStart,
  Server!ReadType, Exchange!ReadType, Server!ReadHistory, Exchange!ReadHistory,
  Server!WriteHistory, Exchange!WriteHistory, Server!At, Exchange!At,
  Server!Goto, Exchange!Goto, Server!Publish, Exchange!Publish, Server!rows, Exchange!rows,
  Server!usage, Exchange!usage, Server!Begun, Exchange!Begun, Server!Parties, Exchange!Parties,
  Server!Overlap, Exchange!Overlap, Server!Response, Exchange!Response,
  Server!Subject, Exchange!Subject, Server!Seconds, Exchange!Seconds,
  Server!NoTime, Exchange!NoTime

LEMMA SameUser ==
  ASSUME NEW p \in Phone
  PROVE  /\ \A q \in Phone : Session!Dial(p, q) <=> Phones!Dial(p, q)
         /\ Session!PressAnswer(p) <=> Phones!PressAnswer(p)
         /\ Session!PressDecline(p) <=> Phones!PressDecline(p)
         /\ Session!PressHangup(p) <=> Phones!PressHangup(p)
<1>1. \A q \in Phone : Session!Dial(p, q) <=> Phones!Dial(p, q)
  BY DEF Session!Dial, Phones!Dial, Session!Send, Phones!Send, Session!Req, Phones!Req
<1>2. Session!PressAnswer(p) <=> Phones!PressAnswer(p)
  BY DEF Session!PressAnswer, Phones!PressAnswer, Session!Send, Phones!Send,
     Session!Req, Phones!Req
<1>3. Session!PressDecline(p) <=> Phones!PressDecline(p)
  BY DEF Session!PressDecline, Phones!PressDecline, Session!Send, Phones!Send,
     Session!Req, Phones!Req, Session!Work, Phones!Work, Session!Enqueue, Phones!Enqueue,
     Session!CloseScreen, Phones!CloseScreen, Session!Closed, Phones!Closed,
     Session!NoScreen, Phones!NoScreen
<1>4. Session!PressHangup(p) <=> Phones!PressHangup(p)
  BY DEF Session!PressHangup, Phones!PressHangup, Session!Work, Phones!Work,
     Session!Enqueue, Phones!Enqueue, Session!CloseScreen, Phones!CloseScreen,
     Session!Closed, Phones!Closed, Session!NoScreen, Phones!NoScreen
<1>. QED  BY <1>1, <1>2, <1>3, <1>4

LEMMA SameNetwork ==
  ASSUME NEW p, NEW r, NEW m
  PROVE  /\ Session!Taken(p, r) <=> Phones!Taken(p, r)
         /\ Session!OnFailure(p, r) <=> Phones!OnFailure(p, r)
         /\ Session!OnResponse(p, r, {}) <=> Phones!OnResponse(p, r, {})
         /\ Session!OnMessage(p, m) <=> Phones!OnMessage(p, m)
<1>1. /\ Session!Taken(p, r) <=> Phones!Taken(p, r)
      /\ Session!OnFailure(p, r) <=> Phones!OnFailure(p, r)
  BY DEF Session!Taken, Phones!Taken, Session!OnFailure, Phones!OnFailure
<1>2. Session!OnResponse(p, r, {}) <=> Phones!OnResponse(p, r, {})
  BY DEF Session!OnResponse, Phones!OnResponse, Session!ResponseWork, Phones!ResponseWork,
     Session!Work, Phones!Work
<1>3. Session!OnMessage(p, m) <=> Phones!OnMessage(p, m)
  BY DEF Session!OnMessage, Phones!OnMessage, Session!MessageWork, Phones!MessageWork,
     Session!Work, Phones!Work, Session!Enqueue, Phones!Enqueue,
     Session!TellScreen, Phones!TellScreen, Session!CloseScreen, Phones!CloseScreen,
     Session!Closed, Phones!Closed, Session!NoScreen, Phones!NoScreen
<1>. QED  BY <1>1, <1>2, <1>3

LEMMA SameRequest ==
  ASSUME NEW t, NEW api, NEW p, NEW q, NEW m
  PROVE  /\ Server!Begin(t, api, p, q) <=> Exchange!Begin(t, api, p, q)
         /\ Server!End(t) <=> Exchange!End(t)
         /\ Server!Deliver(p, m) <=> Exchange!Deliver(p, m)
         /\ Server!Tick <=> Exchange!Tick
BY DEF Server!Begin, Exchange!Begin, Server!End, Exchange!End, Server!Deliver, Exchange!Deliver,
   Server!Delivered, Exchange!Delivered, Server!Tick, Exchange!Tick, Server!At, Exchange!At,
   Server!IdleTask, Exchange!IdleTask, Server!rows, Exchange!rows, Server!usage, Exchange!usage

LEMMA SameInit ==
  /\ Session!Init <=> Phones!Init
  /\ Server!Init <=> Exchange!Init
<1>1. Session!Init <=> Phones!Init
  BY DEF Session!Init, Phones!Init, Session!NoJob, Phones!NoJob, Session!NoScreen,
     Phones!NoScreen, Session!Request, Phones!Request
<1>2. Server!Init <=> Exchange!Init
  BY DEF Server!Init, Exchange!Init, Server!IdleTask, Exchange!IdleTask, Server!Kind,
     Exchange!Kind, Server!Message, Exchange!Message, Server!NoTime, Exchange!NoTime
<1>. QED  BY <1>1, <1>2

-----------------------------------------------------------------------------
(* What is on its way, and what it is backed by. *)

(* The work in a queue, and the requests or messages of which some are     *)
(* under way.                                                              *)
Pending(s) == {s[i] : i \in 1 .. Len(s)}
Flying(f) == {x \in DOMAIN f : f[x] > 0}

(* A phone c that has dialled and is not p; a phone that has answered; and *)
(* a phone that is the sender or the receiver of a call.                   *)
Caller(p, c) == c # p /\ dials[c] > 0
Opened(q) == \E r \in Phone : <<q, r>> \in answered
Involved(p) == callType[p] # "" \/ \E q \in Phone \ {p} : dials[q] > 0

(* No request of a phone concerns a conference, a dial is sent by a phone  *)
(* that has dialled another, and an acceptance by one that has answered.   *)
CallApi == {"dial", "accept", "deny", "busy", "drop"}

RequestKnown(p, r) ==
  /\ r.api \in CallApi
  /\ r.api = "dial" => dials[p] > 0 /\ p \notin r.peers
  /\ r.api = "accept" => r.peers # {} /\ \A q \in r.peers : <<p, q>> \in answered

MessageKnown(p, m) ==
  /\ m.topic = "dial" => \A c \in m.peers : Caller(p, c)
  /\ m.topic = "accept" => \A q \in m.peers : Opened(q)

WorkKnown(p, w) ==
  /\ w.act # "START_CONFERENCE"
  /\ w.act = "INCOMING_CALL" => \A c \in w.peers : Caller(p, c)
  /\ w.act = "ANSWER_CALL" => \A q \in w.peers : <<p, q>> \in answered
  /\ w.act = "CALL_CONNECTED" => \A q \in w.peers : Opened(q)

(* A screen shows somebody who has dialled, and audio runs to a phone that *)
(* was answered or has answered.                                           *)
SessionKnown(p) ==
  /\ callState[p] # "IN_CONFERENCE_CALL"
  /\ \A c \in screen[p].peers : Caller(p, c)
  /\ screen[p].kind = "INCOMING" => screen[p].peers # {}
  /\ \A q \in callJob[p].peers : <<p, q>> \in answered \/ Opened(q)

SessionsKnown ==
  \A p \in Phone :
    /\ SessionKnown(p)
    /\ \A w \in Pending(queue[p]) : WorkKnown(p, w)
    /\ \A r \in Flying(rest[p]) : RequestKnown(p, r)

(* q is recorded as the partner of p: somebody has dialled, and if it was  *)
(* not p, then q, whose type was written before.                           *)
PartnerKnown(p, q) == p # q /\ (callType[q] # "" \/ dials[p] > 0)

(* What the thread of a dial, of an acceptance and of a drop relies on.    *)
TaskBacked(k) ==
  /\ k.api = "dial" => k.phone # k.peer /\ dials[k.phone] > 0
  /\ k.api = "accept" => Opened(k.phone)
  /\ k.step \in {"partner1", "type1", "partner2", "type2"} => k.api = "dial"
  /\ k.step \in {"partner2", "type2"} => callType[k.phone] # ""
  /\ k.step \in {"start1", "start2"} => k.api = "accept"
  /\ k.api # "dial" /\ k.step # "lookup" /\ k.peer \in Phone =>
       PartnerKnown(k.phone, k.peer)

Billed(k) == IF k.leg = 1 THEN k.phone ELSE k.peer

BillBacked(k) ==
  /\ k.step \in {"readType", "readHistory", "writeHistory"} => answered # {}
  /\ k.step = "readType" => Involved(Billed(k))
  /\ k.step = "readHistory" /\ k.kind = "out" => dials[Billed(k)] > 0
  /\ k.step = "readHistory" /\ k.kind = "in" => \E q \in Phone \ {Billed(k)} : dials[q] > 0

ThreadsKnown ==
  \A t \in Thread :
    thread[t].step # "idle" =>
      /\ RequestKnown(thread[t].phone, request[t])
      /\ TaskBacked(thread[t])
      /\ BillBacked(thread[t])

(* The rows of a phone: the type is that of a call that was dialled, and   *)
(* the clock was started by an answer, for a phone that took part.         *)
RowsKnown ==
  \A p \in Phone :
    /\ callType[p] = "SENDER" => dials[p] > 0
    /\ callType[p] = "RECEIVER" => \E q \in Phone \ {p} : dials[q] > 0
    /\ callStart[p] # Exchange!NoTime => Involved(p) /\ answered # {}
    /\ partner[p] \in Phone => PartnerKnown(p, partner[p])

MessagesKnown == \A p \in Phone : \A m \in Flying(mqtt[p]) : MessageKnown(p, m)

AnswersKnown == \A p, q \in Phone : <<p, q>> \in answered => Caller(p, q)

CallInv ==
  /\ CallTypes
  /\ SessionsKnown
  /\ ThreadsKnown
  /\ RowsKnown
  /\ MessagesKnown
  /\ AnswersKnown

-----------------------------------------------------------------------------
(* Every step keeps the types. *)

(* A component that a step leaves alone keeps its types.                   *)
LEMMA SessionsStay ==
  Phones!TypeOK /\ UNCHANGED <<sessionVars, dials>> => Phones!TypeOK'
BY DEF Phones!TypeOK, sessionVars

LEMMA ServerStays ==
  Exchange!TypeInv /\ UNCHANGED serverVars => Exchange!TypeInv'
BY DEF Exchange!TypeInv, Exchange!TypeOK, Exchange!TasksKnown, serverVars

(* The phones' own steps: the job service and the user.                    *)
LEMMA PhoneTypes ==
  ASSUME CallAssumption, CallTypes, NEW p \in Phone, User(p) \/ Handle(p)
  PROVE  CallTypes'
<1>0. Phones!SessionAssumption /\ Phones!TypeOK /\ Exchange!TypeInv
  BY PartsAssumed DEF CallTypes
<1>1. CASE Handle(p)
  <2>1. Phones!TypeOK'
    BY <1>0, <1>1, SameHandle, Phones!HandleKeepsTypes DEF Handle
  <2>2. Exchange!TypeInv'
    BY <1>0, <1>1, ServerStays DEF Handle
  <2>. QED  BY <1>1, <2>1, <2>2 DEF Handle, CallTypes
<1>2. CASE User(p)
  <2>1. Phones!User(p)
    BY <1>2, SameUser DEF User, Dial, Answer, Decline, Hangup, Phones!User
  <2>2. dials' \in [Phone -> Nat]
    <3>1. dials \in [Phone -> Nat]
      BY <1>0 DEF Phones!TypeOK
    <3>2. dials' = dials \/ dials' = [dials EXCEPT ![p] = @ + 1]
      BY <1>2 DEF User, Dial, Answer, Decline, Hangup
    <3>. QED  BY <3>1, <3>2
  <2>3. Phones!TypeOK'
    BY <1>0, <2>1, <2>2, Phones!UserKeepsTypes
  <2>4. Exchange!TypeInv'
    BY <1>0, <1>2, ServerStays DEF User, Dial, Answer, Decline, Hangup
  <2>5. UNCHANGED request
    BY <1>2 DEF User, Dial, Answer, Decline, Hangup
  <2>6. answered' \subseteq Phone \X Phone
    <3>1. screen[p].peers \subseteq Phone
      BY <1>0 DEF Phones!TypeOK, Phones!Screen
    <3>2. answered' \subseteq answered \cup {<<p, q>> : q \in screen[p].peers}
      BY <1>2 DEF User, Dial, Answer, Decline, Hangup
    <3>. QED  BY <3>1, <3>2 DEF CallTypes
  <2>. QED  BY <2>3, <2>4, <2>5, <2>6 DEF CallTypes
<1>. QED  BY <1>1, <1>2

(* The threads of the server: a request begins, runs and is answered.      *)
LEMMA ArriveTypes ==
  ASSUME CallAssumption, CallTypes, SessionsKnown, NEW t \in Thread, NEW p \in Phone,
         NEW r \in Phones!Request, Arrive(t, p, r)
  PROVE  CallTypes'
<1>0. Phones!TypeOK /\ Exchange!TypeInv
  BY DEF CallTypes
<1>1. Phones!Taken(p, r)
  BY SameNetwork DEF Arrive
<1>2. rest' \in [Phone -> [Phones!Request -> Nat]]
  BY <1>0, <1>1, Phones!TakenType DEF Phones!TypeOK
<1>3. Phones!TypeOK'
  BY <1>0, <1>2 DEF Arrive, Phones!TypeOK
<1>4. r \in Flying(rest[p])
  BY <1>0, <1>1 DEF Phones!Taken, Phones!TypeOK, Flying
<1>5. r.api \in CallApi /\ r.peers \in SUBSET Phone
  BY <1>4 DEF SessionsKnown, RequestKnown, Phones!Request
<1>6. PICK api \in Exchange!Api, q \in Phone \cup {NoPhone} :
        /\ Exchange!Begin(t, api, p, q)
        /\ IF api = "dial" THEN q \in Phone ELSE api \in Exchange!Response \cup {"drop"}
  <2>1. CASE r.api = "dial"
    <3>1. PICK q \in r.peers : Exchange!Begin(t, "dial", p, q)
      BY <2>1, SameRequest DEF Arrive
    <3>. QED  BY <1>5, <3>1 DEF Exchange!Api
  <2>2. CASE r.api # "dial"
    <3>1. Exchange!Begin(t, r.api, p, NoPhone)
      BY <2>2, SameRequest DEF Arrive
    <3>. QED  BY <1>5, <2>2, <3>1 DEF CallApi, Exchange!Api, Exchange!Response
  <2>. QED  BY <2>1, <2>2
<1>7. Exchange!TypeInv'
  BY <1>0, <1>6, Exchange!BeginTypes
<1>. QED  BY <1>3, <1>7 DEF Arrive, CallTypes

LEMMA ThreadTypes ==
  ASSUME CallAssumption, CallTypes, NEW t \in Thread, Serve(t) \/ Respond(t)
  PROVE  CallTypes'
<1>0. Phones!TypeOK /\ Exchange!TypeInv /\ Exchange!ServerAssumption
  BY PartsAssumed DEF CallTypes
<1>1. CASE Serve(t)
  <2>1. Exchange!Serve(t)
    BY <1>1, SameServe DEF Serve
  <2>2. Exchange!TypeInv'
    BY <1>0, <2>1, Exchange!DialTypes, Exchange!AnswerTypes, Exchange!UsageTypes
       DEF Exchange!Serve
  <2>3. Phones!TypeOK'
    BY <1>0, <1>1, SessionsStay DEF Serve
  <2>. QED  BY <1>1, <2>2, <2>3 DEF Serve, CallTypes
<1>2. CASE Respond(t)
  <2>1. Exchange!End(t) /\ Phones!OnResponse(thread[t].phone, request[t], {})
    BY <1>2, SameRequest, SameNetwork DEF Respond
  <2>2. thread[t].phone \in Phone
    BY <1>0, <2>1 DEF Exchange!End, Exchange!TypeInv, Exchange!TasksKnown, Exchange!TaskKnown
  <2>3. Exchange!TypeInv'
    BY <1>0, <2>1, Exchange!EndTypes
  <2>4. request[t] \in Phones!Request /\ rest' = rest /\ dials' = dials
    BY <1>2 DEF Respond, CallTypes
  <2>5. Phones!TypeOK'
    <3>1. rest' \in [Phone -> [Phones!Request -> Nat]]
      BY <1>0, <2>4 DEF Phones!TypeOK
    <3>. QED  BY <1>0, <2>1, <2>2, <2>4, <3>1, Phones!ResponseKeepsTypes
  <2>6. request' \in [Thread -> Phones!Request]
    <3>1. NoRequest \in Phones!Request
      BY DEF NoRequest, Session!Req, Phones!Request
    <3>. QED  BY <1>2, <3>1 DEF Respond, CallTypes
  <2>. QED  BY <1>2, <2>3, <2>5, <2>6 DEF Respond, CallTypes
<1>. QED  BY <1>1, <1>2

(* The network and the clock.                                              *)
LEMMA MessageTypes ==
  ASSUME CallAssumption, CallTypes, NEW p \in Phone, NEW m \in Exchange!Message,
         Deliver(p, m) \/ LoseMessage(p, m)
  PROVE  CallTypes'
<1>0. Phones!TypeOK /\ Exchange!TypeInv /\ Exchange!ServerAssumption
  BY PartsAssumed DEF CallTypes
<1>1. Exchange!TypeInv'
  BY <1>0, SameRequest, Exchange!NetworkTypes DEF Deliver, LoseMessage
<1>2. CASE LoseMessage(p, m)
  BY <1>0, <1>1, <1>2, SessionsStay DEF LoseMessage, CallTypes
<1>3. CASE Deliver(p, m)
  <2>. DEFINE n == [topic |-> m.topic, peers |-> m.peers, conf |-> NoConf]
  <2>1. n \in Phones!Message
    BY DEF Exchange!Message, Phones!Message, Phones!AtMostOne
  <2>2. Phones!OnMessage(p, n)
    BY <1>3, SameNetwork DEF Deliver
  <2>. HIDE DEF n
  <2>3. Phones!Broker(p)
    BY <2>1, <2>2 DEF Phones!Broker
  <2>4. dials' \in [Phone -> Nat]
    BY <1>0, <1>3 DEF Deliver, Phones!TypeOK
  <2>5. Phones!TypeOK'
    BY <1>0, <2>3, <2>4, PartsAssumed, Phones!UserKeepsTypes
  <2>. QED  BY <1>1, <1>3, <2>5 DEF Deliver, CallTypes
<1>. QED  BY <1>2, <1>3

LEMMA RestTypes ==
  ASSUME CallAssumption, CallTypes,
         Tick \/ \E p \in Phone, r \in Phones!Request : LoseRequest(p, r)
  PROVE  CallTypes'
<1>0. Phones!TypeOK /\ Exchange!TypeInv /\ Exchange!ServerAssumption
  BY PartsAssumed DEF CallTypes
<1>1. CASE Tick
  <2>1. Exchange!TypeInv'
    BY <1>0, <1>1, SameRequest, Exchange!NetworkTypes DEF Tick
  <2>. QED  BY <1>0, <1>1, <2>1, SessionsStay DEF Tick, CallTypes
<1>2. ASSUME NEW p \in Phone, NEW r \in Phones!Request, LoseRequest(p, r)
      PROVE  CallTypes'
  <2>1. Phones!Http(p)
    BY <1>2, SameNetwork DEF LoseRequest, Phones!Http
  <2>2. Phones!TypeOK'
    BY <1>0, <1>2, <2>1, PartsAssumed, Phones!HttpKeepsTypes DEF LoseRequest
  <2>3. Exchange!TypeInv'
    BY <1>0, <1>2, ServerStays DEF LoseRequest
  <2>. QED  BY <1>2, <2>2, <2>3 DEF LoseRequest, CallTypes
<1>. QED  BY <1>1, <1>2

-----------------------------------------------------------------------------
(* Dials, answers and types are never taken back, so what they back stays  *)
(* backed.                                                                 *)
Grows ==
  /\ answered \subseteq answered'
  /\ \A p \in Phone : dials[p] > 0 => dials'[p] > 0
  /\ \A p \in Phone : callType[p] # "" => callType'[p] # ""

LEMMA CountGrows ==
  ASSUME NEW f \in [Phone -> Nat], NEW p \in Phone
  PROVE  \A q \in Phone : f[q] > 0 => [f EXCEPT ![p] = @ + 1][q] > 0
OBVIOUS

LEMMA StepGrows ==
  ASSUME CallTypes, [Next]_vars
  PROVE  Grows
<1>. USE DEF User, Handle, Dial, Answer, Decline, Hangup, Serve, Respond, Network, Arrive,
     Deliver, LoseMessage, LoseRequest, Tick, vars
<1>0. /\ dials \in [Phone -> Nat]
      /\ callType \in [Phone -> {"", "SENDER", "RECEIVER"}]
  BY DEF CallTypes, Phones!TypeOK, Exchange!TypeInv, Exchange!TypeOK
<1>1. answered \subseteq answered'
  BY DEF Next
<1>2. \A p \in Phone : dials[p] > 0 => dials'[p] > 0
  <2>1. \/ dials' = dials
        \/ \E p \in Phone : dials' = [dials EXCEPT ![p] = @ + 1]
    BY DEF Next
  <2>. QED  BY <1>0, <2>1, CountGrows
<1>3. \A p \in Phone : callType[p] # "" => callType'[p] # ""
  <2>1. CASE UNCHANGED callType
    BY <2>1
  <2>2. ASSUME NEW t \in Thread, Serve(t)
        PROVE  \A p \in Phone : callType[p] # "" => callType'[p] # ""
    <3>1. Exchange!Serve(t)
      BY <2>2, SameServe
    <3>2. \/ callType' = callType
          \/ callType' = [callType EXCEPT ![thread[t].phone] = "SENDER"]
          \/ callType' = [callType EXCEPT ![thread[t].peer] = "RECEIVER"]
      BY <3>1 DEF Exchange!Serve, Exchange!PublishDial, Exchange!WriteCallInfo,
         Exchange!Lookup, Exchange!PublishResponse, Exchange!CallStart, Exchange!PublishDrop,
         Exchange!ReadStart, Exchange!ReadType, Exchange!ReadHistory, Exchange!WriteHistory,
         Exchange!rows
    <3>. QED  BY <1>0, <3>2
  <2>3. ASSUME NEW t, NEW api, NEW p, NEW q, NEW m
        PROVE  /\ Server!Begin(t, api, p, q) \/ Server!End(t) => UNCHANGED callType
               /\ Server!Deliver(p, m) \/ Server!Tick => UNCHANGED callType
    BY SameRequest DEF Exchange!Begin, Exchange!End, Exchange!Deliver, Exchange!Tick,
       Exchange!rows
  <2>4. ASSUME NEW t, NEW p, NEW r, Arrive(t, p, r)
        PROVE  UNCHANGED callType
    BY <2>3, <2>4
  <2>. QED  BY <2>1, <2>2, <2>3, <2>4 DEF Next, serverVars
<1>. QED  BY <1>1, <1>2, <1>3 DEF Grows

LEMMA CallerGrows ==
  ASSUME Grows, NEW p, NEW c \in Phone
  PROVE  /\ Caller(p, c) => Caller(p, c)'
         /\ Opened(c) => Opened(c)'
         /\ Involved(c) => Involved(c)'
BY DEF Grows, Caller, Opened, Involved

LEMMA RequestGrows ==
  ASSUME Grows, NEW p \in Phone, NEW r, RequestKnown(p, r)
  PROVE  RequestKnown(p, r)'
BY DEF Grows, RequestKnown

LEMMA MessageGrows ==
  ASSUME Grows, NEW p \in Phone, NEW m \in Exchange!Message, MessageKnown(p, m)
  PROVE  MessageKnown(p, m)'
<1>1. m.peers \subseteq Phone
  BY DEF Exchange!Message
<1>. QED  BY <1>1, CallerGrows DEF MessageKnown

LEMMA WorkGrows ==
  ASSUME Grows, NEW p \in Phone, NEW w \in Phones!Intent, WorkKnown(p, w)
  PROVE  WorkKnown(p, w)'
<1>1. w.peers \subseteq Phone
  BY DEF Phones!Intent
<1>2. answered \subseteq answered'
  BY DEF Grows
<1>. QED  BY <1>1, <1>2, CallerGrows DEF WorkKnown

LEMMA TaskGrows ==
  ASSUME Grows, NEW k \in Exchange!Task, k.step # "idle", Exchange!TaskKnown(k)
  PROVE  /\ TaskBacked(k) => TaskBacked(k)'
         /\ BillBacked(k) => BillBacked(k)'
<1>1. k.phone \in Phone /\ (k.peer \in Phone \/ k.peer = NoPhone)
  BY DEF Exchange!TaskKnown, Exchange!Task
<1>2. TaskBacked(k) => TaskBacked(k)'
  <2>1. Opened(k.phone) => Opened(k.phone)'
    BY <1>1, CallerGrows
  <2>2. k.peer \in Phone /\ PartnerKnown(k.phone, k.peer) => PartnerKnown(k.phone, k.peer)'
    BY <1>1 DEF Grows, PartnerKnown
  <2>. QED  BY <1>1, <2>1, <2>2 DEF Grows, TaskBacked
<1>3. BillBacked(k) => BillBacked(k)'
  <2>1. k.step \in {"readType", "readHistory", "writeHistory"} => Billed(k) \in Phone
    BY <1>1 DEF Exchange!TaskKnown, Billed
  <2>2. answered # {} => answered' # {}
    BY DEF Grows
  <2>3. ASSUME NEW b \in Phone
        PROVE  /\ Involved(b) => Involved(b)'
               /\ dials[b] > 0 => dials'[b] > 0
               /\ (\E q \in Phone \ {b} : dials[q] > 0) => \E q \in Phone \ {b} : dials'[q] > 0
    BY CallerGrows DEF Grows
  <2>. QED  BY <2>1, <2>2, <2>3 DEF BillBacked, Billed
<1>. QED  BY <1>2, <1>3

-----------------------------------------------------------------------------
(* What the steps put into queues and put under way. *)

LEMMA PendingSteps ==
  ASSUME NEW S, NEW s \in Seq(S)
  PROVE  /\ Pending(s) \subseteq S
         /\ s # <<>> => Head(s) \in Pending(s) /\ Pending(Tail(s)) \subseteq Pending(s)
         /\ \A w \in S : Pending(Append(s, w)) \subseteq Pending(s) \cup {w}
         /\ \A t \in Seq(S) : Pending(s \o t) \subseteq Pending(s) \cup Pending(t)
<1>1. Pending(s) \subseteq S
  BY DEF Pending
<1>2. s # <<>> => Head(s) \in Pending(s) /\ Pending(Tail(s)) \subseteq Pending(s)
  <2>. SUFFICES ASSUME s # <<>>
                PROVE  Head(s) \in Pending(s) /\ Pending(Tail(s)) \subseteq Pending(s)
    OBVIOUS
  <2>1. Head(s) = s[1] /\ 1 \in 1 .. Len(s)
    OBVIOUS
  <2>2. \A i \in 1 .. Len(Tail(s)) : i + 1 \in 1 .. Len(s) /\ Tail(s)[i] = s[i + 1]
    OBVIOUS
  <2>. QED  BY <2>1, <2>2 DEF Pending
<1>3. ASSUME NEW w \in S
      PROVE  Pending(Append(s, w)) \subseteq Pending(s) \cup {w}
  BY Phones!AppendElements DEF Pending
<1>4. ASSUME NEW t \in Seq(S)
      PROVE  Pending(s \o t) \subseteq Pending(s) \cup Pending(t)
  <2>. SUFFICES ASSUME NEW i \in 1 .. Len(s \o t)
                PROVE  (s \o t)[i] \in Pending(s) \cup Pending(t)
    BY DEF Pending
  <2>1. \/ i \in 1 .. Len(s) /\ (s \o t)[i] = s[i]
        \/ i - Len(s) \in 1 .. Len(t) /\ (s \o t)[i] = t[i - Len(s)]
    BY <1>4, Phones!ConcatElements
  <2>. QED  BY <2>1 DEF Pending
<1>. QED  BY <1>1, <1>2, <1>3, <1>4

LEMMA FlyingSteps ==
  ASSUME NEW p \in Phone, rest \in [Phone -> [Phones!Request -> Nat]],
         NEW r \in Phones!Request, NEW x \in Phone
  PROVE  /\ Phones!Send(p, r) =>
              Flying(rest'[x]) \subseteq Flying(rest[x]) \cup (IF x = p THEN {r} ELSE {})
         /\ Phones!Taken(p, r) => Flying(rest'[x]) \subseteq Flying(rest[x])
<1>1. Phones!Send(p, r) =>
        Flying(rest'[x]) \subseteq Flying(rest[x]) \cup (IF x = p THEN {r} ELSE {})
  BY DEF Phones!Send, Flying
<1>2. Phones!Taken(p, r) => Flying(rest'[x]) \subseteq Flying(rest[x])
  BY DEF Phones!Taken, Flying
<1>. QED  BY <1>1, <1>2

(* What is already known of a phone stays known.                           *)
LEMMA QueueGrows ==
  ASSUME CallTypes, SessionsKnown, Grows, NEW x \in Phone
  PROVE  /\ \A w \in Pending(queue[x]) : WorkKnown(x, w)'
         /\ \A r \in Flying(rest[x]) : RequestKnown(x, r)'
<1>1. ASSUME NEW w \in Pending(queue[x])
      PROVE  WorkKnown(x, w)'
  <2>1. w \in Phones!Intent
    BY DEF Pending, CallTypes, Phones!TypeOK
  <2>2. WorkKnown(x, w)
    BY DEF SessionsKnown
  <2>. QED  BY <2>1, <2>2, WorkGrows
<1>2. ASSUME NEW r \in Flying(rest[x])
      PROVE  RequestKnown(x, r)'
  <2>1. RequestKnown(x, r)
    BY DEF SessionsKnown
  <2>. QED  BY <2>1, RequestGrows
<1>. QED  BY <1>1, <1>2

LEMMA SessionGrows ==
  ASSUME CallTypes, SessionsKnown, Grows, NEW x \in Phone,
         callState'[x] # "IN_CONFERENCE_CALL",
         screen'[x].peers \subseteq screen[x].peers,
         screen'[x].kind = "INCOMING" => screen'[x] = screen[x],
         callJob'[x].peers \subseteq callJob[x].peers
  PROVE  SessionKnown(x)'
<1>1. SessionKnown(x)
  BY DEF SessionsKnown
<1>2. screen[x].peers \subseteq Phone /\ callJob[x].peers \subseteq Phone
  BY DEF CallTypes, Phones!TypeOK, Phones!Screen
<1>3. \A c \in screen'[x].peers : Caller(x, c)'
  BY <1>1, <1>2, CallerGrows DEF SessionKnown
<1>4. \A q \in callJob'[x].peers : <<x, q>> \in answered' \/ Opened(q)'
  <2>1. answered \subseteq answered'
    BY DEF Grows
  <2>. QED  BY <1>1, <1>2, <2>1, CallerGrows DEF SessionKnown
<1>. QED  BY <1>1, <1>3, <1>4 DEF SessionKnown

LEMMA SessionsFrom ==
  ASSUME \A x \in Phone :
           /\ SessionKnown(x)'
           /\ \A w \in Pending(queue'[x]) : WorkKnown(x, w)'
           /\ \A r \in Flying(rest'[x]) : RequestKnown(x, r)'
  PROVE  SessionsKnown'
BY DEF SessionsKnown

LEMMA SessionsUntouched ==
  ASSUME CallTypes, SessionsKnown, Grows, UNCHANGED sessionVars
  PROVE  SessionsKnown'
<1>1. \A x \in Phone :
        /\ queue'[x] = queue[x] /\ rest'[x] = rest[x] /\ callState'[x] = callState[x]
        /\ screen'[x] = screen[x] /\ callJob'[x] = callJob[x]
  BY DEF sessionVars
<1>2. \A x \in Phone : callState[x] # "IN_CONFERENCE_CALL"
  BY DEF SessionsKnown, SessionKnown
<1>3. \A x \in Phone : SessionKnown(x)'
  BY <1>1, <1>2, SessionGrows
<1>. QED  BY <1>1, <1>3, QueueGrows, SessionsFrom

-----------------------------------------------------------------------------
(* The job service. *)

(* A handler takes the oldest work, and queues at most one more hangup.    *)
LEMMA HandleQueue ==
  ASSUME CallTypes, NEW p \in Phone, Phones!Handle(p), NEW x \in Phone
  PROVE  /\ queue[p] # <<>> /\ Head(queue[p]) \in Pending(queue[p])
         /\ Head(queue[p]) \in Phones!Intent
         /\ Pending(queue'[x]) \subseteq
              Pending(queue[x]) \cup {Phones!Work("LOCAL_HANGUP", {}, NoConf)}
<1>. USE DEF Phones!Handle, Phones!HandleIncomingCall, Phones!HandleOutgoingCall,
     Phones!HandleCallConnected, Phones!HandleDenyCall, Phones!HandleRemoteBusy,
     Phones!HandleHangup, Phones!HandleStartConference, Phones!HandleEndConference,
     Phones!HandlePeer
<1>. DEFINE hangup == Phones!Work("LOCAL_HANGUP", {}, NoConf)
<1>1. queue[p] # <<>>
  BY DEF Phones!Doing
<1>2. queue \in [Phone -> Seq(Phones!Intent)]
  BY DEF CallTypes, Phones!TypeOK
<1>3. \/ queue' = [queue EXCEPT ![p] = Tail(@)]
      \/ queue' = [queue EXCEPT ![p] = Append(Tail(@), hangup)]
  BY DEF Phones!Finish
<1>4. hangup \in Phones!Intent
  BY Phones!WorkType DEF Phones!Act
<1>5. /\ queue[p] \in Seq(Phones!Intent)
      /\ Tail(queue[p]) \in Seq(Phones!Intent)
  BY <1>1, <1>2
<1>6. /\ Head(queue[p]) \in Pending(queue[p])
      /\ Pending(Tail(queue[p])) \subseteq Pending(queue[p])
      /\ Pending(queue[p]) \subseteq Phones!Intent
  BY <1>1, <1>4, <1>5, PendingSteps
<1>. HIDE DEF hangup
<1>7. Pending(Append(Tail(queue[p]), hangup)) \subseteq Pending(Tail(queue[p])) \cup {hangup}
  <2>. DEFINE s == Tail(queue[p])
  <2>1. \A w \in Phones!Intent : Pending(Append(s, w)) \subseteq Pending(s) \cup {w}
    <3>. HIDE DEF s
    <3>. QED  BY <1>5, PendingSteps DEF s
  <2>. QED  BY <1>4, <2>1
<1>8. Pending(queue'[x]) \subseteq Pending(queue[x]) \cup {hangup}
  <2>1. CASE x = p
    BY <1>2, <1>3, <1>6, <1>7, <2>1
  <2>2. CASE x # p
    BY <1>2, <1>3, <2>2
  <2>. QED  BY <2>1, <2>2
<1>. QED  BY <1>1, <1>6, <1>8 DEF hangup

(* Outside a conference a handler sends a busy or a drop at most.          *)
LEMMA HandleRequests ==
  ASSUME CallTypes, NEW p \in Phone, Phones!Handle(p), callState[p] # "IN_CONFERENCE_CALL",
         NEW x \in Phone
  PROVE  Flying(rest'[x]) \subseteq
           Flying(rest[x]) \cup {Phones!Req("busy", {}, NoConf), Phones!Req("drop", {}, NoConf)}
<1>1. rest \in [Phone -> [Phones!Request -> Nat]]
  BY DEF CallTypes, Phones!TypeOK
<1>2. PICK r \in {Phones!Req("busy", {}, NoConf), Phones!Req("drop", {}, NoConf)} :
        rest' = rest \/ Phones!Send(p, r)
  BY DEF Phones!Handle, Phones!HandleIncomingCall, Phones!HandleOutgoingCall,
     Phones!HandleCallConnected, Phones!HandleDenyCall, Phones!HandleRemoteBusy,
     Phones!HandleHangup, Phones!HandleStartConference, Phones!HandleEndConference,
     Phones!HandlePeer
<1>3. r \in Phones!Request
  BY <1>2, Phones!RequestType
<1>. QED  BY <1>1, <1>2, <1>3, FlyingSteps

(* The session after a handler.                                            *)
LEMMA HandleSession ==
  ASSUME CallAssumption, CallTypes, SessionsKnown, Grows, NEW p \in Phone, Phones!Handle(p),
         UNCHANGED <<dials, answered>>, NEW x \in Phone
  PROVE  SessionKnown(x)'
<1>0. /\ callState \in [Phone -> Phones!CallState]
      /\ screen \in [Phone -> Phones!Screen]
      /\ callJob \in [Phone -> [live : BOOLEAN, peers : SUBSET Phone]]
  BY DEF CallTypes, Phones!TypeOK
<1>k. SessionKnown(x) /\ callState[x] # "IN_CONFERENCE_CALL"
  BY DEF SessionsKnown, SessionKnown
<1>h. /\ WorkKnown(p, Head(queue[p])) /\ Head(queue[p]).peers \subseteq Phone
      /\ queue[p] # <<>>
  <2>1. Head(queue[p]) \in Pending(queue[p]) /\ Head(queue[p]) \in Phones!Intent
    BY HandleQueue
  <2>. QED  BY <2>1, HandleQueue DEF SessionsKnown, Phones!Intent
<1>a. ASSUME UNCHANGED screen, callJob'[x] = callJob[x] \/ callJob'[x] = Phones!NoJob,
             callState'[x] # "IN_CONFERENCE_CALL"
      PROVE  SessionKnown(x)'
  BY <1>a, SessionGrows DEF Phones!NoJob
<1>b. ASSUME \/ screen'[x] = screen[x]
             \/ screen'[x].peers = {} /\ screen'[x].kind # "INCOMING",
             callJob'[x] = callJob[x] \/ callJob'[x] = Phones!NoJob,
             callState'[x] # "IN_CONFERENCE_CALL"
      PROVE  SessionKnown(x)'
  <2>1. screen'[x].peers \subseteq screen[x].peers
    BY <1>b
  <2>2. callJob'[x].peers \subseteq callJob[x].peers
    BY <1>b DEF Phones!NoJob
  <2>. QED  BY <1>b, <2>1, <2>2, SessionGrows
<1>c. CASE x # p
  <2>1. /\ callState'[x] = callState[x] /\ screen'[x] = screen[x] /\ callJob'[x] = callJob[x]
    BY <1>0, <1>c DEF Phones!Handle, Phones!HandleIncomingCall, Phones!HandleOutgoingCall,
       Phones!HandleCallConnected, Phones!HandleDenyCall, Phones!HandleRemoteBusy,
       Phones!HandleHangup, Phones!HandleStartConference, Phones!HandleEndConference,
       Phones!HandlePeer, Phones!StartScreen, Phones!EndCall, Phones!TellScreen,
       Phones!CloseScreen
  <2>. QED  BY <1>k, <1>b, <2>1
<1>n. \A s : Phones!Closed(s) = Phones!NoScreen /\ Phones!Busy(s) = Phones!NoScreen
  BY DEF Phones!Closed, Phones!Busy, Phones!NoScreen
<1>m. Phones!NoScreen.peers = {} /\ Phones!NoScreen.kind # "INCOMING"
  BY DEF Phones!NoScreen
<1>1. CASE x = p /\ Phones!HandleIncomingCall(p)
  <2>1. CASE Phones!StartScreen(p, "INCOMING", Phones!Peers(p), NoConf) /\ screen[p].kind = "NONE"
    <3>1. /\ screen'[p].kind = "INCOMING"
          /\ screen'[p].peers = Head(queue[p]).peers
          /\ callJob'[p] = callJob[p] /\ callState'[p] # "IN_CONFERENCE_CALL"
      BY <1>0, <1>1, <1>k, <2>1 DEF Phones!HandleIncomingCall, Phones!StartScreen, Phones!Peers
    <3>2. \A c \in Head(queue[p]).peers : Caller(p, c)'
      BY <1>1, <1>h, CallerGrows DEF WorkKnown, Phones!HandleIncomingCall, Phones!Doing
    <3>3. CASE Head(queue[p]).peers # {}
      <4>1. \A q \in callJob[p].peers : <<p, q>> \in answered' \/ Opened(q)'
        BY <1>k, <1>1 DEF SessionKnown, Opened
      <4>. QED  BY <1>1, <3>1, <3>2, <3>3, <4>1 DEF SessionKnown
    <3>4. CASE Head(queue[p]).peers = {}
      BY <1>1, <1>k, <1>a, <3>4 DEF Phones!HandleIncomingCall, Phones!Peers
    <3>. QED  BY <3>3, <3>4
  <2>2. CASE ~(/\ Phones!StartScreen(p, "INCOMING", Phones!Peers(p), NoConf)
               /\ screen[p].kind = "NONE")
    <3>1. UNCHANGED <<screen, callJob>> /\ callState'[p] # "IN_CONFERENCE_CALL"
      BY <1>0, <1>1, <1>k, <2>2 DEF Phones!HandleIncomingCall, Phones!StartScreen
    <3>. QED  BY <1>1, <1>a, <3>1
  <2>. QED  BY <2>1, <2>2
<1>2. CASE x = p /\ Phones!HandleOutgoingCall(p)
  <2>1. /\ \/ screen'[p] = screen[p]
           \/ screen'[p].peers = {} /\ screen'[p].kind # "INCOMING"
        /\ callJob' = callJob /\ callState'[p] # "IN_CONFERENCE_CALL"
    BY <1>0, <1>2 DEF Phones!HandleOutgoingCall, Phones!StartScreen
  <2>. QED  BY <1>2, <1>b, <2>1
<1>3. CASE x = p /\ Phones!HandleCallConnected(p)
  <2>1. CASE callJob' = callJob
    BY <1>0, <1>3, <1>k, <1>a, <2>1 DEF Phones!HandleCallConnected
  <2>2. CASE callJob' # callJob
    <3>1. /\ callJob'[p].peers = Head(queue[p]).peers /\ UNCHANGED screen
          /\ callState'[p] # "IN_CONFERENCE_CALL"
      BY <1>0, <1>3, <2>2 DEF Phones!HandleCallConnected, Phones!Peers
    <3>2. \A q \in Head(queue[p]).peers : <<p, q>> \in answered' \/ Opened(q)'
      BY <1>3, <1>h, CallerGrows DEF WorkKnown, Phones!HandleCallConnected, Phones!Doing
    <3>3. \A c \in screen'[p].peers : Caller(p, c)'
      BY <1>3, <1>k, <3>1 DEF SessionKnown, Caller
    <3>. QED  BY <1>3, <1>k, <3>1, <3>2, <3>3 DEF SessionKnown
  <2>. QED  BY <2>1, <2>2
<1>4. CASE x = p /\ Phones!HandleDenyCall(p)
  <2>1. /\ screen'[p] = screen[p] \/ screen'[p] = Phones!NoScreen
        /\ callJob'[p] = callJob[p] \/ callJob'[p] = Phones!NoJob
        /\ callState'[p] # "IN_CONFERENCE_CALL"
    BY <1>0, <1>4, <1>k, <1>n DEF Phones!HandleDenyCall, Phones!TellScreen,
       Phones!CloseScreen, Phones!EndCall
  <2>. QED  BY <1>4, <1>b, <1>m, <2>1
<1>5. CASE x = p /\ Phones!HandleRemoteBusy(p)
  <2>1. /\ screen'[p] = screen[p] \/ screen'[p] = Phones!NoScreen
        /\ callJob'[p] = callJob[p] \/ callJob'[p] = Phones!NoJob
        /\ callState'[p] # "IN_CONFERENCE_CALL"
    BY <1>0, <1>5, <1>k, <1>n DEF Phones!HandleRemoteBusy, Phones!EndCall
  <2>. QED  BY <1>5, <1>b, <1>m, <2>1
<1>6. CASE x = p /\ Phones!HandleHangup(p)
  <2>1. /\ UNCHANGED screen /\ callState'[p] # "IN_CONFERENCE_CALL"
        /\ callJob'[p] = callJob[p] \/ callJob'[p] = Phones!NoJob
    BY <1>0, <1>6, <1>k DEF Phones!HandleHangup, Phones!EndCall
  <2>. QED  BY <1>6, <1>a, <2>1
<1>7. CASE x = p /\ Phones!HandleStartConference(p)
  BY <1>7, <1>h DEF Phones!HandleStartConference, Phones!Doing, WorkKnown
<1>8. CASE x = p /\ (Phones!HandleEndConference(p) \/ Phones!HandlePeer(p))
  <2>1. UNCHANGED <<screen, callState, callJob>>
    BY <1>8, <1>k DEF Phones!HandleEndConference, Phones!HandlePeer
  <2>. QED  BY <1>8, <1>k, <1>a, <2>1
<1>. QED  BY <1>c, <1>1, <1>2, <1>3, <1>4, <1>5, <1>6, <1>7, <1>8 DEF Phones!Handle

LEMMA HandleSessions ==
  ASSUME CallAssumption, CallTypes, SessionsKnown, Grows, NEW p \in Phone, Handle(p)
  PROVE  SessionsKnown'
<1>1. Phones!Handle(p) /\ UNCHANGED <<dials, answered>>
  BY SameHandle DEF Handle
<1>2. callState[p] # "IN_CONFERENCE_CALL"
  BY DEF SessionsKnown, SessionKnown
<1>3. ASSUME NEW x \in Phone
      PROVE  /\ SessionKnown(x)'
             /\ \A w \in Pending(queue'[x]) : WorkKnown(x, w)'
             /\ \A r \in Flying(rest'[x]) : RequestKnown(x, r)'
  <2>1. SessionKnown(x)'
    BY <1>1, HandleSession
  <2>2. WorkKnown(x, Phones!Work("LOCAL_HANGUP", {}, NoConf))'
    BY DEF WorkKnown, Phones!Work
  <2>3. /\ RequestKnown(x, Phones!Req("busy", {}, NoConf))'
        /\ RequestKnown(x, Phones!Req("drop", {}, NoConf))'
    BY DEF RequestKnown, Phones!Req, CallApi
  <2>4. \A w \in Pending(queue'[x]) : WorkKnown(x, w)'
    BY <1>1, <2>2, HandleQueue, QueueGrows
  <2>5. \A r \in Flying(rest'[x]) : RequestKnown(x, r)'
    BY <1>1, <1>2, <2>3, HandleRequests, QueueGrows
  <2>. QED  BY <2>1, <2>4, <2>5
<1>. QED  BY <1>3, SessionsFrom

-----------------------------------------------------------------------------
(* The user. *)

(* A dial, an answer or a denial sends what is backed; every button closes *)
(* the screen or marks it answered.                                        *)
LEMMA UserSession ==
  ASSUME CallTypes, SessionsKnown, Grows, NEW p \in Phone, User(p), NEW x \in Phone
  PROVE  SessionKnown(x)'
<1>0. screen \in [Phone -> Phones!Screen]
  BY DEF CallTypes, Phones!TypeOK
<1>1. callState' = callState /\ callJob' = callJob
  BY SameUser DEF User, Dial, Answer, Decline, Hangup, Phones!Dial, Phones!PressAnswer,
     Phones!PressDecline, Phones!PressHangup
<1>2. \/ UNCHANGED screen
      \/ screen' = [screen EXCEPT ![p] = Phones!NoScreen]
      \/ screen' = [screen EXCEPT ![p].kind = "ANSWERED"]
  BY SameUser DEF User, Dial, Answer, Decline, Hangup, Phones!Dial, Phones!PressAnswer,
     Phones!PressDecline, Phones!PressHangup, Phones!CloseScreen, Phones!Closed
<1>3. \/ screen'[x] = screen[x]
      \/ screen'[x] = Phones!NoScreen
      \/ screen'[x].peers = screen[x].peers /\ screen'[x].kind = "ANSWERED"
  BY <1>0, <1>2 DEF Phones!Screen
<1>4. Phones!NoScreen.peers = {} /\ Phones!NoScreen.kind # "INCOMING"
  BY DEF Phones!NoScreen
<1>5. callState[x] # "IN_CONFERENCE_CALL"
  BY DEF SessionsKnown, SessionKnown
<1>6. /\ screen'[x].peers \subseteq screen[x].peers
      /\ screen'[x].kind = "INCOMING" => screen'[x] = screen[x]
  BY <1>3, <1>4
<1>. QED  BY <1>1, <1>5, <1>6, SessionGrows

LEMMA UserRequest ==
  ASSUME CallTypes, SessionsKnown, NEW p \in Phone, User(p)
  PROVE  \/ UNCHANGED rest
         \/ \E r \in Phones!Request : Phones!Send(p, r) /\ RequestKnown(p, r)'
<1>1. ASSUME NEW q \in Phone \ {p}, Dial(p, q)
      PROVE  \E r \in Phones!Request : Phones!Send(p, r) /\ RequestKnown(p, r)'
  <2>. DEFINE r == Phones!Req("dial", {q}, NoConf)
  <2>1. r \in Phones!Request /\ Phones!Send(p, r)
    BY <1>1, SameUser, Phones!RequestType DEF Dial, Phones!Dial
  <2>2. dials'[p] > 0
    <3>1. dials \in [Phone -> Nat] /\ dials' = [dials EXCEPT ![p] = @ + 1]
      BY <1>1 DEF Dial, CallTypes, Phones!TypeOK
    <3>. QED  BY <3>1
  <2>3. RequestKnown(p, r)'
    BY <2>2 DEF RequestKnown, Phones!Req, CallApi
  <2>. QED  BY <2>1, <2>3
<1>2. ASSUME Answer(p)
      PROVE  \E r \in Phones!Request : Phones!Send(p, r) /\ RequestKnown(p, r)'
  <2>. DEFINE r == Phones!Req("accept", screen[p].peers, NoConf)
  <2>0. Phones!PressAnswer(p)
    BY <1>2, SameUser DEF Answer
  <2>1. screen[p].peers \in SUBSET Phone /\ screen[p].peers # {}
    BY <2>0 DEF Phones!PressAnswer, CallTypes, Phones!TypeOK, Phones!Screen, SessionsKnown,
       SessionKnown
  <2>2. r \in Phones!Request /\ Phones!Send(p, r)
    BY <2>0, <2>1, Phones!RequestType DEF Phones!PressAnswer
  <2>3. \A q \in screen[p].peers : <<p, q>> \in answered'
    BY <1>2 DEF Answer
  <2>5. PICK s : s = screen[p].peers
    OBVIOUS
  <2>6. RequestKnown(p, Phones!Req("accept", s, NoConf))'
    BY <2>1, <2>3, <2>5 DEF RequestKnown, Phones!Req, CallApi
  <2>. QED  BY <2>2, <2>5, <2>6
<1>3. ASSUME Decline(p)
      PROVE  \E r \in Phones!Request : Phones!Send(p, r) /\ RequestKnown(p, r)'
  <2>1. /\ Phones!Send(p, Phones!Req("deny", {}, NoConf))
        /\ Phones!Req("deny", {}, NoConf) \in Phones!Request
    BY <1>3, SameUser, Phones!RequestType DEF Decline, Phones!PressDecline
  <2>2. RequestKnown(p, Phones!Req("deny", {}, NoConf))'
    BY DEF RequestKnown, Phones!Req, CallApi
  <2>. QED  BY <2>1, <2>2
<1>4. ASSUME Hangup(p) PROVE UNCHANGED rest
  BY <1>4, SameUser DEF Hangup, Phones!PressHangup
<1>. QED  BY <1>1, <1>2, <1>3, <1>4 DEF User

LEMMA UserSessions ==
  ASSUME CallTypes, SessionsKnown, Grows, NEW p \in Phone, User(p)
  PROVE  SessionsKnown'
<1>0. /\ queue \in [Phone -> Seq(Phones!Intent)]
      /\ rest \in [Phone -> [Phones!Request -> Nat]]
  BY DEF CallTypes, Phones!TypeOK
<1>1. PICK w \in {Phones!Work("LOCAL_HANGUP", {}, NoConf), Phones!Work("DENY_CALL", {}, NoConf)} :
        UNCHANGED queue \/ Phones!Enqueue(p, w)
  BY SameUser DEF User, Dial, Answer, Decline, Hangup, Phones!Dial, Phones!PressAnswer,
     Phones!PressDecline, Phones!PressHangup
<1>2. w \in Phones!Intent
  BY <1>1, Phones!WorkType DEF Phones!Act
<1>3. ASSUME NEW x \in Phone
      PROVE  /\ SessionKnown(x)'
             /\ \A v \in Pending(queue'[x]) : WorkKnown(x, v)'
             /\ \A r \in Flying(rest'[x]) : RequestKnown(x, r)'
  <2>1. SessionKnown(x)'
    BY UserSession
  <2>2. Pending(queue'[x]) \subseteq Pending(queue[x]) \cup {w}
    <3>1. queue[x] \in Seq(Phones!Intent)
      BY <1>0
    <3>2. queue'[x] = queue[x] \/ queue'[x] = Append(queue[x], w)
      BY <1>0, <1>1 DEF Phones!Enqueue
    <3>. QED  BY <1>2, <3>1, <3>2, PendingSteps
  <2>3. WorkKnown(x, w)'
    BY <1>1 DEF WorkKnown, Phones!Work
  <2>4. \A v \in Pending(queue'[x]) : WorkKnown(x, v)'
    BY <2>2, <2>3, QueueGrows
  <2>5. CASE UNCHANGED rest
    BY <2>1, <2>4, <2>5, QueueGrows
  <2>6. ASSUME NEW r \in Phones!Request, Phones!Send(p, r), RequestKnown(p, r)'
        PROVE  \A s \in Flying(rest'[x]) : RequestKnown(x, s)'
    <3>1. Flying(rest'[x]) \subseteq Flying(rest[x]) \cup (IF x = p THEN {r} ELSE {})
      BY <1>0, <2>6, FlyingSteps
    <3>. QED  BY <2>6, <3>1, QueueGrows
  <2>. QED  BY <2>1, <2>4, <2>5, <2>6, UserRequest
<1>. QED  BY <1>3, SessionsFrom

-----------------------------------------------------------------------------
(* The network and the server, as the sessions see them. *)

(* A request that leaves a phone, to a thread or lost.                     *)
LEMMA TakenSessions ==
  ASSUME CallTypes, SessionsKnown, Grows, NEW p \in Phone, NEW r \in Phones!Request,
         Phones!Taken(p, r), UNCHANGED <<callState, queue, callJob, screen>>
  PROVE  SessionsKnown'
<1>0. rest \in [Phone -> [Phones!Request -> Nat]]
  BY DEF CallTypes, Phones!TypeOK
<1>1. \A x \in Phone : callState[x] # "IN_CONFERENCE_CALL"
  BY DEF SessionsKnown, SessionKnown
<1>2. \A x \in Phone : SessionKnown(x)'
  BY <1>1, SessionGrows
<1>3. \A x \in Phone : Flying(rest'[x]) \subseteq Flying(rest[x])
  BY <1>0, FlyingSteps
<1>. QED  BY <1>2, <1>3, QueueGrows, SessionsFrom

(* A response and a message become work that the request or the message    *)
(* backs.                                                                  *)
LEMMA ConcatSessions ==
  ASSUME CallTypes, SessionsKnown, Grows, NEW p \in Phone, NEW s \in Seq(Phones!Intent),
         \A w \in Pending(s) : WorkKnown(p, w)',
         queue' = [queue EXCEPT ![p] = @ \o s],
         screen' = screen \/ screen' = [screen EXCEPT ![p] = Phones!NoScreen],
         UNCHANGED <<callState, callJob, rest>>
  PROVE  SessionsKnown'
<1>0. queue \in [Phone -> Seq(Phones!Intent)] /\ screen \in [Phone -> Phones!Screen]
  BY DEF CallTypes, Phones!TypeOK
<1>1. ASSUME NEW x \in Phone
      PROVE  /\ SessionKnown(x)'
             /\ \A w \in Pending(queue'[x]) : WorkKnown(x, w)'
             /\ \A r \in Flying(rest'[x]) : RequestKnown(x, r)'
  <2>1. callState[x] # "IN_CONFERENCE_CALL"
    BY DEF SessionsKnown, SessionKnown
  <2>2. screen'[x] = screen[x] \/ screen'[x] = Phones!NoScreen
    BY <1>0
  <2>3. SessionKnown(x)'
    BY <2>1, <2>2, SessionGrows DEF Phones!NoScreen
  <2>4. CASE x = p
    <3>1. queue[p] \in Seq(Phones!Intent) /\ queue'[p] = queue[p] \o s
      BY <1>0
    <3>3. Pending(queue[p] \o s) \subseteq Pending(queue[p]) \cup Pending(s)
      BY <3>1, PendingSteps
    <3>. QED  BY <2>3, <2>4, <3>1, <3>3, QueueGrows
  <2>5. CASE x # p
    BY <1>0, <2>3, <2>5, QueueGrows
  <2>. QED  BY <2>4, <2>5
<1>. QED  BY <1>1, SessionsFrom

LEMMA RespondSessions ==
  ASSUME CallTypes, SessionsKnown, ThreadsKnown, Grows, NEW t \in Thread, Respond(t)
  PROVE  SessionsKnown'
<1>1. /\ Exchange!End(t) /\ UNCHANGED <<rest, dials, answered>>
      /\ Phones!OnResponse(thread[t].phone, request[t], {})
  BY SameRequest, SameNetwork DEF Respond
<1>2. thread[t].step # "idle" /\ thread[t].phone \in Phone
  BY <1>1 DEF Exchange!End, CallTypes, Exchange!TypeInv, Exchange!TasksKnown,
     Exchange!TaskKnown
<1>. PICK p \in Phone, r \in Phones!Request : p = thread[t].phone /\ r = request[t]
  BY <1>2 DEF CallTypes
<1>3. Phones!OnResponse(p, r, {}) /\ RequestKnown(p, r)
  BY <1>1, <1>2 DEF ThreadsKnown
<1>. PICK s \in Seq(Phones!Intent) : s = Phones!ResponseWork(r, {})
  BY Phones!ResponseWorkType
<1>4. ASSUME NEW w \in Pending(s)
      PROVE  WorkKnown(p, w)'
  <2>1. /\ r.api \in CallApi /\ r.api # "ccDial" /\ r.api # "ccDrop"
        /\ r.api = "accept" => \A q \in r.peers : <<p, q>> \in answered
    BY <1>3 DEF RequestKnown, CallApi
  <2>2. \/ s = <<Phones!Work("OUTGOING_CALL", {}, NoConf)>>
        \/ r.api = "accept" /\ s = <<Phones!Work("ANSWER_CALL", r.peers, NoConf)>>
        \/ s = <<>>
    BY <2>1 DEF Phones!ResponseWork
  <2>3. \/ w = Phones!Work("OUTGOING_CALL", {}, NoConf)
        \/ r.api = "accept" /\ w = Phones!Work("ANSWER_CALL", r.peers, NoConf)
    BY <2>2, <1>4 DEF Pending
  <2>4. /\ w.act \in {"OUTGOING_CALL", "ANSWER_CALL"}
        /\ w.act = "ANSWER_CALL" => r.api = "accept" /\ w.peers = r.peers
    BY <2>3 DEF Phones!Work
  <2>5. WorkKnown(p, w)
    BY <2>1, <2>4 DEF WorkKnown
  <2>6. w \in Phones!Intent
    BY <1>4 DEF Pending
  <2>. QED  BY <2>5, <2>6, WorkGrows
<1>5. /\ queue' = [queue EXCEPT ![p] = @ \o s]
      /\ UNCHANGED <<callState, callJob, screen>>
  BY <1>3 DEF Phones!OnResponse
<1>. QED  BY <1>1, <1>4, <1>5, ConcatSessions

LEMMA DeliverSessions ==
  ASSUME CallTypes, SessionsKnown, MessagesKnown, Grows, NEW p \in Phone,
         NEW m \in Exchange!Message, Deliver(p, m)
  PROVE  SessionsKnown'
<1>. DEFINE n == [topic |-> m.topic, peers |-> m.peers, conf |-> NoConf]
            w == Phones!MessageWork(n)
<1>1. Exchange!Deliver(p, m) /\ Phones!OnMessage(p, n)
  BY SameRequest, SameNetwork DEF Deliver
<1>2. MessageKnown(p, m)
  <2>1. m \in Flying(mqtt[p])
    BY <1>1 DEF Exchange!Deliver, Exchange!Delivered, Flying, CallTypes, Exchange!TypeInv,
       Exchange!TypeOK
  <2>. QED  BY <2>1 DEF MessagesKnown
<1>3. n \in Phones!Message
  BY DEF Exchange!Message, Phones!Message, Phones!AtMostOne
<1>4. w \in Phones!Intent
  BY <1>3, Phones!MessageWorkType
<1>5. WorkKnown(p, w)
  <2>1. m.topic \in {"dial", "accept", "deny", "busy", "callDrop"}
    BY DEF Exchange!Message
  <2>2. /\ w.act \in {"INCOMING_CALL", "CALL_CONNECTED", "DENY_CALL", "REMOTE_BUSY",
                      "REMOTE_HANGUP"}
        /\ w.act = "INCOMING_CALL" => m.topic = "dial" /\ w.peers = m.peers
        /\ w.act = "CALL_CONNECTED" => m.topic = "accept" /\ w.peers = m.peers
    BY <2>1 DEF Phones!MessageWork, Phones!Work
  <2>. QED  BY <1>2, <2>2 DEF WorkKnown, MessageKnown
<1>. HIDE DEF n, w
<1>6. WorkKnown(p, w)'
  BY <1>4, <1>5, WorkGrows
<1>7. /\ <<w>> \in Seq(Phones!Intent)
      /\ Pending(<<w>>) = {w}
      /\ \A x \in Seq(Phones!Intent) : Append(x, w) = x \o <<w>>
  BY <1>4 DEF Pending
<1>8. queue' = [queue EXCEPT ![p] = @ \o <<w>>]
  <2>1. queue \in [Phone -> Seq(Phones!Intent)]
    BY DEF CallTypes, Phones!TypeOK
  <2>2. queue' = [queue EXCEPT ![p] = Append(@, w)]
    BY <1>1 DEF Phones!OnMessage, Phones!Enqueue, w
  <2>. QED  BY <1>7, <2>1, <2>2
<1>9. screen' = screen \/ screen' = [screen EXCEPT ![p] = Phones!NoScreen]
  BY <1>1 DEF Phones!OnMessage, Phones!TellScreen, Phones!CloseScreen, Phones!Closed
<1>10. UNCHANGED <<callState, callJob, rest>>
  BY <1>1 DEF Phones!OnMessage
<1>. QED  BY <1>6, <1>7, <1>8, <1>9, <1>10, ConcatSessions

-----------------------------------------------------------------------------
(* The threads of the server. *)

(* It is enough to look at the thread that moved.                          *)
LEMMA ThreadsFrom ==
  ASSUME CallTypes, CallTypes', ThreadsKnown, Grows, NEW t \in Thread,
         NEW k \in Exchange!Task, NEW r \in Phones!Request,
         thread' = [thread EXCEPT ![t] = k], request' = [request EXCEPT ![t] = r],
         k.step # "idle" =>
           RequestKnown(k.phone, r)' /\ TaskBacked(k)' /\ BillBacked(k)'
  PROVE  ThreadsKnown'
<1>0. /\ thread \in [Thread -> Exchange!Task] /\ request \in [Thread -> Phones!Request]
      /\ \A u \in Thread : Exchange!TaskKnown(thread[u])
  BY DEF CallTypes, Exchange!TypeInv, Exchange!TypeOK, Exchange!TasksKnown
<1>1. ASSUME NEW u \in Thread, thread'[u].step # "idle"
      PROVE  /\ RequestKnown(thread[u].phone, request[u])'
             /\ TaskBacked(thread[u])'
             /\ BillBacked(thread[u])'
  <2>1. CASE u = t
    <3>1. thread'[u] = k /\ request'[u] = r
      BY <1>0, <2>1
    <3>. QED  BY <1>1, <3>1 DEF RequestKnown, TaskBacked, BillBacked, Opened, PartnerKnown,
              Involved, Billed
  <2>2. CASE u # t
    <3>. PICK l \in Exchange!Task, s \in Phones!Request : l = thread[u] /\ s = request[u]
      BY <1>0
    <3>1. thread'[u] = l /\ request'[u] = s
      BY <1>0, <2>2
    <3>2. RequestKnown(l.phone, s) /\ TaskBacked(l) /\ BillBacked(l)
      BY <1>1, <3>1 DEF ThreadsKnown
    <3>3. Exchange!TaskKnown(l) /\ l.phone \in Phone
      BY <1>0, <1>1, <3>1 DEF Exchange!TaskKnown
    <3>4. TaskBacked(l)' /\ BillBacked(l)'
      BY <1>1, <3>1, <3>2, <3>3, TaskGrows
    <3>5. PICK p \in Phone : p = l.phone
      BY <3>3
    <3>6. RequestKnown(p, s)'
      BY <3>2, <3>5, RequestGrows
    <3>. QED  BY <3>1, <3>4, <3>5, <3>6, ZenonT(30) DEF RequestKnown, TaskBacked, BillBacked, Opened,
              PartnerKnown, Involved, Billed
  <2>. QED  BY <2>1, <2>2
<1>. QED  BY <1>1 DEF ThreadsKnown

LEMMA ThreadsUntouched ==
  ASSUME CallTypes, ThreadsKnown, Grows, UNCHANGED <<thread, request>>
  PROVE  ThreadsKnown'
<1>1. ASSUME NEW u \in Thread, thread'[u].step # "idle"
      PROVE  /\ RequestKnown(thread[u].phone, request[u])'
             /\ TaskBacked(thread[u])'
             /\ BillBacked(thread[u])'
  <2>. PICK l \in Exchange!Task, s \in Phones!Request : l = thread[u] /\ s = request[u]
    BY DEF CallTypes, Exchange!TypeInv, Exchange!TypeOK
  <2>1. thread'[u] = l /\ request'[u] = s
    OBVIOUS
  <2>2. RequestKnown(l.phone, s) /\ TaskBacked(l) /\ BillBacked(l)
    BY <1>1 DEF ThreadsKnown
  <2>3. Exchange!TaskKnown(l) /\ l.phone \in Phone
    BY <1>1 DEF Exchange!TaskKnown, CallTypes, Exchange!TypeInv, Exchange!TasksKnown
  <2>4. TaskBacked(l)' /\ BillBacked(l)'
    BY <1>1, <2>1, <2>2, <2>3, TaskGrows
  <2>5. PICK p \in Phone : p = l.phone
    BY <2>3
  <2>6. RequestKnown(p, s)'
    BY <2>2, <2>5, RequestGrows
  <2>. QED  BY <2>1, <2>4, <2>5, <2>6, ZenonT(30) DEF RequestKnown, TaskBacked, BillBacked, Opened,
            PartnerKnown, Involved, Billed
<1>. QED  BY <1>1 DEF ThreadsKnown

(* A request begins with what the phone that sent it has made sure of ...  *)
LEMMA ArriveThreads ==
  ASSUME CallTypes, CallTypes', SessionsKnown, ThreadsKnown, Grows,
         NEW t \in Thread, NEW p \in Phone, NEW r \in Phones!Request, Arrive(t, p, r)
  PROVE  ThreadsKnown'
<1>0. r \in Flying(rest[p])
  <2>1. Phones!Taken(p, r)
    BY SameNetwork DEF Arrive
  <2>. QED  BY <2>1 DEF Phones!Taken, Phones!TypeOK, Flying, CallTypes
<1>1. RequestKnown(p, r)
  BY <1>0 DEF SessionsKnown
<1>2. PICK q \in Phone \cup {NoPhone} :
        /\ Exchange!Begin(t, r.api, p, q)
        /\ r.api = "dial" => q \in r.peers
  <2>1. r.peers \subseteq Phone
    BY DEF Phones!Request
  <2>. QED  BY <2>1, SameRequest DEF Arrive
<1>. PICK k : k = [Exchange!IdleTask EXCEPT !.api = r.api, !.phone = p, !.peer = q,
                     !.step = IF r.api = "dial" THEN "publish" ELSE "lookup"]
  OBVIOUS
<1>3. /\ k.api = r.api /\ k.phone = p /\ k.peer = q
      /\ k.step = IF r.api = "dial" THEN "publish" ELSE "lookup"
  BY DEF Exchange!IdleTask
<1>4. thread' = [thread EXCEPT ![t] = k] /\ request' = [request EXCEPT ![t] = r]
  BY <1>2 DEF Exchange!Begin, Arrive
<1>5. k \in Exchange!Task
  <2>1. thread'[t] = k /\ thread'[t] \in Exchange!Task
    BY <1>4 DEF CallTypes, Exchange!TypeInv, Exchange!TypeOK
  <2>. QED  BY <2>1
<1>6. TaskBacked(k)
  <2>1. r.peers \subseteq Phone
    BY DEF Phones!Request
  <2>2. k.api = "accept" => Opened(p)
    BY <1>1, <1>3, <2>1 DEF RequestKnown, Opened
  <2>3. k.api = "dial" => p # q /\ dials[p] > 0
    BY <1>1, <1>2, <1>3 DEF RequestKnown
  <2>. QED  BY <1>3, <2>2, <2>3 DEF TaskBacked
<1>7. BillBacked(k)
  BY <1>3 DEF BillBacked
<1>8. Exchange!TaskKnown(k)
  <2>1. thread'[t] = k
    BY <1>4 DEF CallTypes, Exchange!TypeInv, Exchange!TypeOK
  <2>. QED  BY <2>1 DEF CallTypes, Exchange!TypeInv, Exchange!TasksKnown, Exchange!TaskKnown
<1>9. TaskBacked(k)' /\ BillBacked(k)'
  <2>1. k.step # "idle"
    BY <1>3
  <2>. QED  BY <1>5, <1>6, <1>7, <1>8, <2>1, TaskGrows
<1>10. RequestKnown(p, r)'
  BY <1>1, RequestGrows
<1>. QED  BY <1>3, <1>4, <1>5, <1>9, <1>10, ThreadsFrom

LEMMA RespondThreads ==
  ASSUME CallTypes, CallTypes', ThreadsKnown, Grows, NEW t \in Thread, Respond(t)
  PROVE  ThreadsKnown'
<1>1. /\ thread' = [thread EXCEPT ![t] = Exchange!IdleTask]
      /\ request' = [request EXCEPT ![t] = NoRequest]
  BY SameRequest DEF Respond, Exchange!End
<1>2. Exchange!IdleTask \in Exchange!Task /\ Exchange!IdleTask.step = "idle"
  BY DEF Exchange!IdleTask, Exchange!Task, Exchange!Step, Exchange!Api, Exchange!Kind
<1>3. NoRequest \in Phones!Request
  BY DEF NoRequest, Session!Req, Phones!Request
<1>. QED  BY <1>1, <1>2, <1>3, ThreadsFrom

(* ... and a thread that runs keeps the request and the phone it began with*)
(* and touches no other thread.                                            *)
LEMMA ServeTask ==
  ASSUME CallTypes, CallTypes', NEW t \in Thread, Exchange!Serve(t)
  PROVE  \E k \in Exchange!Task :
           /\ thread' = [thread EXCEPT ![t] = k]
           /\ thread[t].step # "idle"
           /\ k.api = thread[t].api /\ k.phone = thread[t].phone
<1>0. thread \in [Thread -> Exchange!Task] /\ thread' \in [Thread -> Exchange!Task]
  BY DEF CallTypes, Exchange!TypeInv, Exchange!TypeOK
<1>. PICK k \in Exchange!Task : k = thread'[t]
  BY <1>0
<1>. USE DEF Exchange!Serve, Exchange!PublishDial, Exchange!WriteCallInfo, Exchange!Lookup,
     Exchange!PublishResponse, Exchange!CallStart, Exchange!PublishDrop, Exchange!ReadStart,
     Exchange!ReadType, Exchange!ReadHistory, Exchange!WriteHistory, Exchange!At, Exchange!Goto
<1>1. thread[t].step # "idle"
  OBVIOUS
<1>2. \A u \in Thread \ {t} : thread'[u] = thread[u]
  BY <1>0
<1>3. thread' = [thread EXCEPT ![t] = k]
  BY <1>0, <1>2
<1>4. thread[t] \in Exchange!Task
  BY <1>0
<1>5. k.api = thread[t].api /\ k.phone = thread[t].phone
  BY <1>0, <1>4 DEF Exchange!Task
<1>. QED  BY <1>1, <1>3, <1>5

(* The fields of a task that only goes on to another step.                 *)
LEMMA GotoFields ==
  ASSUME CallTypes, NEW t \in Thread, NEW s, Exchange!Goto(t, s)
  PROVE  /\ thread'[t].step = s /\ thread'[t].peer = thread[t].peer
         /\ thread'[t].leg = thread[t].leg /\ thread'[t].kind = thread[t].kind
<1>1. thread \in [Thread -> Exchange!Task]
  BY DEF CallTypes, Exchange!TypeInv, Exchange!TypeOK
<1>2. thread[t] \in Exchange!Task /\ thread'[t] = [thread[t] EXCEPT !.step = s]
  BY <1>1 DEF Exchange!Goto
<1>. QED  BY <1>2 DEF Exchange!Task

(* A step of dial: the rows are written by the thread of a dial only, and  *)
(* the type of the sender before the partner of the receiver.              *)
LEMMA DialThreads ==
  ASSUME CallTypes, CallTypes', ThreadsKnown, RowsKnown, AnswersKnown, Grows, NEW t \in Thread,
         NEW k \in Exchange!Task, k = thread'[t], thread[t].step # "idle",
         k.api = thread[t].api, k.phone = thread[t].phone,
         Exchange!PublishDial(t) \/ Exchange!WriteCallInfo(t)
  PROVE  TaskBacked(k)' /\ BillBacked(k)'
<1>0. /\ thread[t] \in Exchange!Task /\ thread \in [Thread -> Exchange!Task]
      /\ callType \in [Phone -> {"", "SENDER", "RECEIVER"}]
      /\ Exchange!TaskKnown(k)
  BY DEF CallTypes, Exchange!TypeInv, Exchange!TypeOK, Exchange!TasksKnown
<1>1. TaskBacked(thread[t])
  BY DEF ThreadsKnown
<1>a. \/ thread[t].step = "publish" /\ thread[t].api = "dial" /\ Exchange!Goto(t, "partner1")
      \/ thread[t].step = "partner1" /\ Exchange!Goto(t, "type1")
      \/ /\ thread[t].step = "type1" /\ Exchange!Goto(t, "partner2")
         /\ callType' = [callType EXCEPT ![k.phone] = "SENDER"]
      \/ thread[t].step = "partner2" /\ Exchange!Goto(t, "type2")
      \/ thread[t].step = "type2" /\ Exchange!Goto(t, "done")
  BY DEF Exchange!PublishDial, Exchange!WriteCallInfo, Exchange!At
<1>b. \/ k.step = "partner1" \/ k.step = "type1" \/ k.step = "done"
      \/ k.step = "partner2" /\ callType' = [callType EXCEPT ![k.phone] = "SENDER"]
      \/ k.step = "type2" /\ thread[t].step = "partner2"
  BY <1>a, GotoFields
<1>2. /\ k.api = "dial" /\ k.peer = thread[t].peer /\ k.phone \in Phone
      /\ k.step \in {"partner1", "type1", "partner2", "type2", "done"}
  <2>1. thread[t].api = "dial" /\ k.peer = thread[t].peer
    BY <1>1, <1>a, GotoFields DEF TaskBacked
  <2>. QED  BY <1>0, <1>b, <2>1 DEF Exchange!TaskKnown
<1>3. BillBacked(k)'
  BY <1>2 DEF BillBacked
<1>4. k.step \in {"partner2", "type2"} => callType'[k.phone] # ""
  <2>1. CASE k.step = "type2"
    <3>1. thread[t].step = "partner2"
      BY <1>b, <2>1
    <3>. QED  BY <1>1, <1>2, <3>1 DEF TaskBacked, Grows
  <2>2. CASE k.step = "partner2"
    <3>1. callType' = [callType EXCEPT ![k.phone] = "SENDER"]
      BY <1>b, <2>2
    <3>. QED  BY <1>0, <1>2, <3>1
  <2>. QED  BY <2>1, <2>2
<1>5. k.phone # k.peer /\ dials'[k.phone] > 0
  BY <1>1, <1>2 DEF TaskBacked, Grows
<1>. QED  BY <1>2, <1>3, <1>4, <1>5 DEF TaskBacked

LEMMA AnswerThreads ==
  ASSUME CallTypes, CallTypes', ThreadsKnown, RowsKnown, AnswersKnown, Grows, NEW t \in Thread,
         NEW k \in Exchange!Task, k = thread'[t], thread[t].step # "idle",
         k.api = thread[t].api, k.phone = thread[t].phone,
         \/ Exchange!Lookup(t) \/ Exchange!PublishResponse(t)
         \/ Exchange!CallStart(t) \/ Exchange!PublishDrop(t)
  PROVE  TaskBacked(k)' /\ BillBacked(k)'
<1>0. /\ thread[t] \in Exchange!Task /\ thread \in [Thread -> Exchange!Task]
      /\ Exchange!TaskKnown(k) /\ Exchange!TaskKnown(thread[t])
  BY DEF CallTypes, Exchange!TypeInv, Exchange!TypeOK, Exchange!TasksKnown
<1>1. TaskBacked(thread[t])
  BY DEF ThreadsKnown
<1>a. CASE Exchange!Lookup(t)
  <2>1. /\ k.peer = partner[k.phone] /\ k.step \in {"publish", "done"}
        /\ thread[t].step = "lookup"
    BY <1>0, <1>a DEF Exchange!Lookup, Exchange!Task, Exchange!At
  <2>2. k.api # "dial" /\ k.phone \in Phone
    BY <1>0, <2>1 DEF Exchange!TaskKnown, Exchange!Response
  <2>3. k.peer \in Phone => PartnerKnown(k.phone, k.peer)
    BY <2>1, <2>2 DEF RowsKnown
  <2>4. k.api = "accept" => Opened(k.phone)
    BY <1>1 DEF TaskBacked
  <2>5. TaskBacked(k) /\ BillBacked(k)
    BY <2>1, <2>2, <2>3, <2>4 DEF TaskBacked, BillBacked
  <2>6. k.step # "idle"
    BY <2>1
  <2>. QED  BY <1>0, <2>5, <2>6, TaskGrows
<1>b. CASE ~Exchange!Lookup(t)
  <2>1. \/ /\ thread[t].step = "publish"
           /\ thread[t].api \in Exchange!Response \cup {"drop"}
           /\ \/ Exchange!Goto(t, "failed") \/ Exchange!Goto(t, "readStart")
              \/ Exchange!Goto(t, "done")
              \/ thread[t].api = "accept" /\ Exchange!Goto(t, "start1")
        \/ thread[t].step = "start1" /\ Exchange!Goto(t, "start2")
        \/ thread[t].step = "start2" /\ Exchange!Goto(t, "done")
    BY <1>b DEF Exchange!PublishResponse, Exchange!CallStart, Exchange!PublishDrop, Exchange!At
  <2>2. /\ k.step \in {"start1", "start2", "readStart", "done", "failed"}
        /\ k.step \in {"start1", "start2"} => k.api = "accept"
        /\ k.api # "dial" /\ k.peer = thread[t].peer /\ thread[t].step # "lookup"
    <3>1. k.peer = thread[t].peer /\ thread[t].step # "lookup"
      BY <2>1, GotoFields
    <3>2. /\ k.step \in {"start1", "start2", "readStart", "done", "failed"}
          /\ k.step = "start1" => thread[t].api = "accept"
          /\ k.step = "start2" => thread[t].step = "start1"
      BY <2>1, GotoFields
    <3>3. thread[t].step \in {"start1", "start2"} => thread[t].api = "accept"
      BY <1>1 DEF TaskBacked
    <3>4. thread[t].api # "dial"
      BY <2>1, <3>3 DEF Exchange!Response
    <3>. QED  BY <3>1, <3>2, <3>3, <3>4
  <2>3. TaskBacked(k) /\ BillBacked(k)
    BY <1>1, <2>2 DEF TaskBacked, BillBacked
  <2>4. k.step # "idle"
    BY <2>2
  <2>. QED  BY <1>0, <2>3, <2>4, TaskGrows
<1>. QED  BY <1>a, <1>b

(* The fields of a task that a step of dropCall changes.                   *)
LEMMA BillFields ==
  ASSUME CallTypes, NEW t \in Thread, NEW k, k = thread'[t]
  PROVE  /\ Exchange!ReadStart(t) =>
              /\ thread[t].step = "readStart" /\ k.leg = thread[t].leg
              /\ k.peer = thread[t].peer
              /\ \/ k.step = "failed"
                 \/ k.step = "readType" /\ callStart[Exchange!Subject(t)] # Exchange!NoTime
         /\ Exchange!ReadType(t) =>
              /\ thread[t].step = "readType" /\ k.step = "readHistory"
              /\ k.leg = thread[t].leg /\ k.peer = thread[t].peer
              /\ k.kind = IF callType[Exchange!Subject(t)] = "SENDER" THEN "out" ELSE "in"
         /\ Exchange!ReadHistory(t) =>
              /\ thread[t].step = "readHistory" /\ k.step = "writeHistory"
              /\ k.leg = thread[t].leg /\ k.peer = thread[t].peer
         /\ Exchange!WriteHistory(t) =>
              /\ thread[t].step = "writeHistory" /\ k.step \in {"readStart", "done"}
              /\ k.peer = thread[t].peer
<1>0. thread \in [Thread -> Exchange!Task] /\ thread[t] \in Exchange!Task
  BY DEF CallTypes, Exchange!TypeInv, Exchange!TypeOK
<1>1. ASSUME Exchange!ReadStart(t), callStart[Exchange!Subject(t)] # Exchange!NoTime
      PROVE  /\ thread[t].step = "readStart" /\ k.step = "readType"
             /\ k.leg = thread[t].leg /\ k.peer = thread[t].peer
  <2>1. PICK a : k = [thread[t] EXCEPT !.amount = a, !.step = "readType"]
    BY <1>0, <1>1 DEF Exchange!ReadStart
  <2>. QED  BY <1>0, <1>1, <2>1 DEF Exchange!Task, Exchange!ReadStart, Exchange!At
<1>2. ASSUME Exchange!ReadStart(t), callStart[Exchange!Subject(t)] = Exchange!NoTime
      PROVE  /\ thread[t].step = "readStart" /\ k.step = "failed"
             /\ k.leg = thread[t].leg /\ k.peer = thread[t].peer
  BY <1>2, GotoFields DEF Exchange!ReadStart, Exchange!At
<1>3. ASSUME Exchange!ReadType(t)
      PROVE  /\ thread[t].step = "readType" /\ k.step = "readHistory"
             /\ k.leg = thread[t].leg /\ k.peer = thread[t].peer
             /\ k.kind = IF callType[Exchange!Subject(t)] = "SENDER" THEN "out" ELSE "in"
  <2>1. PICK d : /\ d = IF callType[Exchange!Subject(t)] = "SENDER" THEN "out" ELSE "in"
                 /\ k = [thread[t] EXCEPT !.kind = d, !.step = "readHistory"]
    BY <1>0, <1>3 DEF Exchange!ReadType
  <2>. QED  BY <1>0, <1>3, <2>1 DEF Exchange!Task, Exchange!ReadType, Exchange!At
<1>4. ASSUME Exchange!ReadHistory(t)
      PROVE  /\ thread[t].step = "readHistory" /\ k.step = "writeHistory"
             /\ k.leg = thread[t].leg /\ k.peer = thread[t].peer
  <2>1. PICK a : k = [thread[t] EXCEPT !.total = a, !.step = "writeHistory"]
    BY <1>0, <1>4 DEF Exchange!ReadHistory
  <2>. QED  BY <1>0, <1>4, <2>1 DEF Exchange!Task, Exchange!ReadHistory, Exchange!At
<1>5. ASSUME Exchange!WriteHistory(t)
      PROVE  /\ thread[t].step = "writeHistory" /\ k.step \in {"readStart", "done"}
             /\ k.peer = thread[t].peer
  <2>1. \/ k = [thread[t] EXCEPT !.leg = 2, !.step = "readStart"]
        \/ k = [thread[t] EXCEPT !.step = "done"]
    BY <1>0, <1>5 DEF Exchange!WriteHistory
  <2>. QED  BY <1>0, <1>5, <2>1 DEF Exchange!Task, Exchange!WriteHistory, Exchange!At
<1>. QED  BY <1>1, <1>2, <1>3, <1>4, <1>5

LEMMA BillThreads ==
  ASSUME CallTypes, CallTypes', ThreadsKnown, RowsKnown, AnswersKnown, Grows, NEW t \in Thread,
         NEW k \in Exchange!Task, k = thread'[t], thread[t].step # "idle",
         k.api = thread[t].api, k.phone = thread[t].phone,
         \/ Exchange!ReadStart(t) \/ Exchange!ReadType(t)
         \/ Exchange!ReadHistory(t) \/ Exchange!WriteHistory(t)
  PROVE  TaskBacked(k)' /\ BillBacked(k)'
<1>0. /\ thread[t] \in Exchange!Task /\ thread \in [Thread -> Exchange!Task]
      /\ Exchange!TaskKnown(k) /\ Exchange!TaskKnown(thread[t])
      /\ callType \in [Phone -> {"", "SENDER", "RECEIVER"}]
  BY DEF CallTypes, Exchange!TypeInv, Exchange!TypeOK, Exchange!TasksKnown
<1>1. TaskBacked(thread[t]) /\ BillBacked(thread[t])
  BY DEF ThreadsKnown
<1>b. thread[t].step \in {"readStart", "readType", "readHistory", "writeHistory"}
  <2>1. CASE Exchange!ReadStart(t)
    BY <2>1 DEF Exchange!ReadStart, Exchange!At
  <2>2. CASE Exchange!ReadType(t)
    BY <2>2 DEF Exchange!ReadType, Exchange!At
  <2>3. CASE Exchange!ReadHistory(t) \/ Exchange!WriteHistory(t)
    BY <2>3 DEF Exchange!ReadHistory, Exchange!WriteHistory, Exchange!At
  <2>. QED  BY <2>1, <2>2, <2>3
<1>c. Exchange!Subject(t) \in Phone
  BY <1>0, <1>b DEF Exchange!Subject, Exchange!TaskKnown
<1>. PICK s \in Phone : s = Exchange!Subject(t)
  BY <1>c
<1>a. s = Billed(thread[t])
  BY DEF Exchange!Subject, Billed
<1>2. /\ k.peer = thread[t].peer /\ thread[t].step # "lookup"
      /\ k.step \in {"readStart", "readType", "readHistory", "writeHistory", "done", "failed"}
      /\ k.step \in {"readType", "readHistory"} => s = Billed(k)
  BY <1>a, BillFields DEF Billed
<1>3. TaskBacked(k)
  BY <1>1, <1>2 DEF TaskBacked
<1>4. BillBacked(k)
  <2>1. CASE Exchange!ReadStart(t)
    <3>1. k.step = "failed" \/ (k.step = "readType" /\ callStart[s] # Exchange!NoTime)
      BY <2>1, BillFields
    <3>. QED  BY <1>2, <3>1 DEF BillBacked, RowsKnown
  <2>2. CASE Exchange!ReadType(t)
    <3>1. /\ k.step = "readHistory" /\ answered # {} /\ Involved(s)
          /\ k.kind = IF callType[s] = "SENDER" THEN "out" ELSE "in"
      BY <1>1, <1>a, <2>2, BillFields DEF BillBacked
    <3>2. callType[s] # "SENDER" => \E q \in Phone \ {s} : dials[q] > 0
      BY <1>0, <3>1 DEF RowsKnown, Involved
    <3>3. callType[s] = "SENDER" => dials[s] > 0
      BY DEF RowsKnown
    <3>. QED  BY <1>2, <3>1, <3>2, <3>3 DEF BillBacked
  <2>3. CASE Exchange!ReadHistory(t) \/ Exchange!WriteHistory(t)
    <3>1. k.step \in {"writeHistory", "readStart", "done"} /\ answered # {}
      BY <1>1, <2>3, BillFields DEF BillBacked
    <3>. QED  BY <3>1 DEF BillBacked
  <2>. QED  BY <2>1, <2>2, <2>3
<1>5. k.step # "idle"
  BY <1>2
<1>. QED  BY <1>0, <1>3, <1>4, <1>5, TaskGrows

LEMMA ServeThreads ==
  ASSUME CallTypes, CallTypes', ThreadsKnown, RowsKnown, AnswersKnown, Grows,
         NEW t \in Thread, Serve(t)
  PROVE  ThreadsKnown'
<1>1. Exchange!Serve(t) /\ UNCHANGED request
  BY SameServe DEF Serve
<1>2. PICK k \in Exchange!Task :
        /\ thread' = [thread EXCEPT ![t] = k]
        /\ thread[t].step # "idle"
        /\ k.api = thread[t].api /\ k.phone = thread[t].phone
  BY <1>1, ServeTask
<1>3. k = thread'[t]
  BY <1>2 DEF CallTypes, Exchange!TypeInv, Exchange!TypeOK
<1>4. TaskBacked(k)' /\ BillBacked(k)'
  BY <1>1, <1>2, <1>3, DialThreads, AnswerThreads, BillThreads DEF Exchange!Serve
<1>. PICK r \in Phones!Request : r = request[t]
  BY DEF CallTypes
<1>5. request' = [request EXCEPT ![t] = r]
  BY <1>1 DEF CallTypes
<1>6. RequestKnown(k.phone, r)'
  <2>. PICK p \in Phone : p = k.phone
    BY <1>2 DEF CallTypes, Exchange!TypeInv, Exchange!TasksKnown, Exchange!TaskKnown
  <2>1. RequestKnown(p, r)
    BY <1>2 DEF ThreadsKnown
  <2>. QED  BY <2>1, RequestGrows DEF RequestKnown
<1>. QED  BY <1>2, <1>4, <1>5, <1>6, ThreadsFrom

-----------------------------------------------------------------------------
(* The rows, the messages and the answers. *)

LEMMA RowsUntouched ==
  ASSUME CallTypes, RowsKnown, Grows, UNCHANGED <<partner, callType, callStart>>
  PROVE  RowsKnown'
<1>0. partner \in [Phone -> Phone \cup {NoPhone}]
  BY DEF CallTypes, Exchange!TypeInv, Exchange!TypeOK
<1>1. \A p, q \in Phone : PartnerKnown(p, q) => PartnerKnown(p, q)'
  BY DEF Grows, PartnerKnown
<1>2. answered # {} => answered' # {}
  BY DEF Grows
<1>3. ASSUME NEW p \in Phone
      PROVE  /\ callType'[p] = "SENDER" => dials'[p] > 0
             /\ callType'[p] = "RECEIVER" => \E q \in Phone \ {p} : dials'[q] > 0
             /\ callStart'[p] # Exchange!NoTime => Involved(p)' /\ answered' # {}
             /\ partner'[p] \in Phone => \E q \in Phone : q = partner'[p] /\ PartnerKnown(p, q)'
  BY <1>0, <1>1, <1>2, CallerGrows DEF RowsKnown, Grows
<1>4. \A p \in Phone : partner'[p] \in Phone => PartnerKnown(p, partner[p])'
  BY <1>3 DEF PartnerKnown
<1>. QED  BY <1>3, <1>4 DEF RowsKnown, Exchange!NoTime

(* A dial writes rows that name two different phones, one of which has     *)
(* dialled, and an acceptance starts the clocks of phones that took part.  *)
LEMMA ServeRows ==
  ASSUME CallTypes, CallTypes', ThreadsKnown, RowsKnown, AnswersKnown, Grows,
         NEW t \in Thread, Serve(t)
  PROVE  RowsKnown'
<1>0. /\ partner \in [Phone -> Phone \cup {NoPhone}]
      /\ callType \in [Phone -> {"", "SENDER", "RECEIVER"}]
      /\ callStart \in [Phone -> Nat \cup {Exchange!NoTime}]
      /\ Exchange!TaskKnown(thread[t])
  BY DEF CallTypes, Exchange!TypeInv, Exchange!TypeOK, Exchange!TasksKnown
<1>1. Exchange!Serve(t) /\ UNCHANGED <<dials, answered>>
  BY SameServe DEF Serve
<1>2. \A p, q \in Phone : PartnerKnown(p, q) => PartnerKnown(p, q)'
  BY DEF Grows, PartnerKnown
<1>3. CASE Exchange!WriteCallInfo(t)
  <2>. PICK a \in Phone, b \in Phone : a = thread[t].phone /\ b = thread[t].peer
    BY <1>0, <1>3 DEF Exchange!WriteCallInfo, Exchange!At, Exchange!TaskKnown
  <2>0. /\ a # b /\ dials[a] > 0
        /\ thread[t].step = "partner2" => callType[a] # ""
    BY <1>3 DEF Exchange!WriteCallInfo, Exchange!At, ThreadsKnown, TaskBacked
  <2>1. \/ partner' = [partner EXCEPT ![a] = b] /\ UNCHANGED <<callType, callStart>>
        \/ callType' = [callType EXCEPT ![a] = "SENDER"] /\ UNCHANGED <<partner, callStart>>
        \/ /\ partner' = [partner EXCEPT ![b] = a] /\ UNCHANGED <<callType, callStart>>
           /\ thread[t].step = "partner2"
        \/ callType' = [callType EXCEPT ![b] = "RECEIVER"] /\ UNCHANGED <<partner, callStart>>
    BY <1>3 DEF Exchange!WriteCallInfo, Exchange!At
  <2>2. ASSUME NEW p \in Phone
        PROVE  /\ callType'[p] = "SENDER" => dials'[p] > 0
               /\ callType'[p] = "RECEIVER" => \E q \in Phone \ {p} : dials'[q] > 0
    BY <1>0, <1>1, <2>0, <2>1 DEF RowsKnown
  <2>3. ASSUME NEW p \in Phone
        PROVE  callStart'[p] # Exchange!NoTime => Involved(p)' /\ answered' # {}
    BY <1>1, <2>1, CallerGrows DEF RowsKnown
  <2>4. ASSUME NEW p \in Phone, NEW q \in Phone, partner'[p] = q
        PROVE  PartnerKnown(p, q)'
    <3>1. \/ partner[p] = q
          \/ p = a /\ q = b
          \/ p = b /\ q = a /\ callType[a] # ""
      <4>1. CASE UNCHANGED partner
        BY <2>4, <4>1
      <4>2. CASE partner' = [partner EXCEPT ![a] = b]
        BY <1>0, <2>4, <4>2
      <4>3. CASE partner' = [partner EXCEPT ![b] = a] /\ thread[t].step = "partner2"
        BY <1>0, <2>0, <2>4, <4>3
      <4>. QED  BY <2>1, <4>1, <4>2, <4>3
    <3>2. PartnerKnown(p, q)
      BY <2>0, <3>1 DEF RowsKnown, PartnerKnown
    <3>. QED  BY <1>2, <3>2
  <2>5. \A p \in Phone : partner'[p] \in Phone => PartnerKnown(p, partner[p])'
    BY <2>4 DEF PartnerKnown
  <2>. QED  BY <2>2, <2>3, <2>5 DEF RowsKnown, Exchange!NoTime
<1>4. CASE Exchange!CallStart(t)
  <2>. PICK a \in Phone, b \in Phone : a = thread[t].phone /\ b = thread[t].peer
    BY <1>0, <1>4 DEF Exchange!CallStart, Exchange!At, Exchange!TaskKnown
  <2>0. Opened(a) /\ PartnerKnown(a, b)
    BY <1>4 DEF Exchange!CallStart, Exchange!At, ThreadsKnown, TaskBacked
  <2>1. answered # {} /\ Involved(a) /\ Involved(b)
    BY <2>0 DEF AnswersKnown, Opened, Caller, Involved, PartnerKnown
  <2>2. /\ UNCHANGED <<partner, callType>>
        /\ \/ callStart' = [callStart EXCEPT ![a] = now]
           \/ callStart' = [callStart EXCEPT ![b] = now]
    BY <1>4 DEF Exchange!CallStart
  <2>3. \A p \in Phone : callStart'[p] # Exchange!NoTime => Involved(p) /\ answered # {}
    BY <1>0, <2>1, <2>2 DEF RowsKnown
  <2>4. \A p \in Phone : callStart'[p] # Exchange!NoTime => Involved(p)' /\ answered' # {}
    BY <1>1, <2>3, CallerGrows
  <2>5. \A p \in Phone : partner'[p] \in Phone => PartnerKnown(p, partner[p])'
    BY <1>1, <2>2 DEF RowsKnown, PartnerKnown
  <2>. QED  BY <1>1, <2>2, <2>4, <2>5 DEF RowsKnown, Exchange!NoTime
<1>5. CASE ~Exchange!WriteCallInfo(t) /\ ~Exchange!CallStart(t)
  <2>1. UNCHANGED <<partner, callType, callStart>>
    BY <1>1, <1>5 DEF Exchange!Serve, Exchange!PublishDial, Exchange!Lookup,
       Exchange!PublishResponse, Exchange!PublishDrop, Exchange!ReadStart, Exchange!ReadType,
       Exchange!ReadHistory, Exchange!WriteHistory, Exchange!rows
  <2>. QED  BY <2>1, RowsUntouched
<1>. QED  BY <1>3, <1>4, <1>5

(* The messages of a dial and of an acceptance name the phone they are of. *)
LEMMA MessagesUntouched ==
  ASSUME CallTypes, MessagesKnown, Grows,
         \A p \in Phone : Flying(mqtt'[p]) \subseteq Flying(mqtt[p])
  PROVE  MessagesKnown'
<1>1. ASSUME NEW p \in Phone, NEW m \in Flying(mqtt'[p])
      PROVE  MessageKnown(p, m)'
  <2>1. m \in Flying(mqtt[p])
    OBVIOUS
  <2>2. m \in Exchange!Message
    BY <2>1 DEF Flying, CallTypes, Exchange!TypeInv, Exchange!TypeOK
  <2>. QED  BY <2>1, <2>2, MessageGrows DEF MessagesKnown
<1>. QED  BY <1>1 DEF MessagesKnown

LEMMA PublishMessages ==
  ASSUME CallTypes, MessagesKnown, Grows, NEW q, NEW m, Exchange!Publish(q, m),
         q \in Phone /\ m \in Exchange!Message => MessageKnown(q, m)'
  PROVE  MessagesKnown'
<1>0. mqtt \in [Phone -> [Exchange!Message -> Nat]]
  BY DEF CallTypes, Exchange!TypeInv, Exchange!TypeOK
<1>1. ASSUME NEW p \in Phone, NEW n \in Flying(mqtt'[p])
      PROVE  MessageKnown(p, n)'
  <2>1. n \in Exchange!Message /\ (n \in Flying(mqtt[p]) \/ (p = q /\ n = m))
    BY <1>0, <1>1 DEF Exchange!Publish, Flying
  <2>2. CASE n \in Flying(mqtt[p])
    BY <2>1, <2>2, MessageGrows DEF MessagesKnown
  <2>. QED  BY <2>1, <2>2
<1>. QED  BY <1>1 DEF MessagesKnown

LEMMA ServeMessages ==
  ASSUME CallTypes, ThreadsKnown, MessagesKnown, Grows, NEW t \in Thread, Serve(t)
  PROVE  MessagesKnown'
<1>1. Exchange!Serve(t) /\ UNCHANGED <<dials, answered>>
  BY SameServe DEF Serve
<1>. PICK a, b : a = thread[t].phone /\ b = thread[t].peer
  OBVIOUS
<1>2. CASE Exchange!PublishDial(t)
  <2>1. Exchange!Publish(b, [topic |-> "dial", peers |-> {a}])
    BY <1>2 DEF Exchange!PublishDial
  <2>2. a # b /\ dials[a] > 0
    BY <1>2 DEF Exchange!PublishDial, Exchange!At, ThreadsKnown, TaskBacked
  <2>3. MessageKnown(b, [topic |-> "dial", peers |-> {a}])'
    BY <1>1, <2>2 DEF MessageKnown, Caller
  <2>. QED  BY <2>1, <2>3, PublishMessages
<1>3. CASE Exchange!PublishResponse(t)
  <2>1. PICK m : /\ m = [topic |-> thread[t].api,
                         peers |-> IF thread[t].api = "accept" THEN {a} ELSE {}]
                 /\ Exchange!Publish(b, m)
    BY <1>3 DEF Exchange!PublishResponse
  <2>2. thread[t].api \in Exchange!Response /\ (thread[t].api = "accept" => Opened(a))
    BY <1>3 DEF Exchange!PublishResponse, Exchange!At, ThreadsKnown, TaskBacked
  <2>3. m.topic # "dial" /\ (m.topic = "accept" => m.peers = {a} /\ Opened(a))
    BY <2>1, <2>2 DEF Exchange!Response
  <2>4. MessageKnown(b, m)'
    BY <1>1, <2>3 DEF MessageKnown, Opened
  <2>. QED  BY <2>1, <2>4, PublishMessages
<1>4. CASE Exchange!PublishDrop(t) /\ ~UNCHANGED mqtt
  <2>1. Exchange!Publish(b, [topic |-> "callDrop", peers |-> {}])
    BY <1>4 DEF Exchange!PublishDrop
  <2>2. MessageKnown(b, [topic |-> "callDrop", peers |-> {}])'
    BY DEF MessageKnown
  <2>. QED  BY <2>1, <2>2, PublishMessages
<1>5. CASE ~Exchange!PublishDial(t) /\ ~Exchange!PublishResponse(t) /\ ~Exchange!PublishDrop(t)
  <2>1. UNCHANGED mqtt
    BY <1>1, <1>5 DEF Exchange!Serve, Exchange!WriteCallInfo, Exchange!Lookup,
       Exchange!CallStart, Exchange!ReadStart, Exchange!ReadType,
       Exchange!ReadHistory, Exchange!WriteHistory
  <2>. QED  BY <2>1, MessagesUntouched
<1>6. CASE UNCHANGED mqtt
  BY <1>6, MessagesUntouched
<1>. QED  BY <1>2, <1>3, <1>4, <1>5, <1>6

(* Only a phone that shows the call of another answers, and a screen shows *)
(* callers only.                                                           *)
LEMMA AnswersStep ==
  ASSUME CallTypes, SessionsKnown, AnswersKnown, Grows, [Next]_vars
  PROVE  AnswersKnown'
<1>1. \A p, q \in Phone : <<p, q>> \in answered => Caller(p, q)'
  BY CallerGrows DEF AnswersKnown
<1>2. CASE answered' = answered
  BY <1>1, <1>2 DEF AnswersKnown
<1>3. ASSUME NEW r \in Phone, Answer(r)
      PROVE  AnswersKnown'
  <2>1. answered' = answered \cup {<<r, q>> : q \in screen[r].peers}
    BY <1>3 DEF Answer
  <2>2. \A c \in screen[r].peers : c \in Phone /\ Caller(r, c)'
    <3>1. screen[r].peers \subseteq Phone
      BY DEF CallTypes, Phones!TypeOK, Phones!Screen
    <3>. QED  BY <3>1, CallerGrows DEF SessionsKnown, SessionKnown
  <2>3. \A p, q \in Phone : <<p, q>> \in answered' => Caller(p, q)'
    BY <1>1, <2>1, <2>2
  <2>. QED  BY <2>3 DEF AnswersKnown
<1>4. \/ answered' = answered
      \/ \E r \in Phone : Answer(r)
  BY DEF Next, User, Handle, Dial, Decline, Hangup, Serve, Respond, Network, Arrive,
     Deliver, LoseMessage, LoseRequest, Tick, vars
<1>. QED  BY <1>2, <1>3, <1>4

-----------------------------------------------------------------------------
(* The invariant holds, and what it says of calls. *)

LEMMA CallStart == CallAssumption /\ Init => CallInv
<1>. SUFFICES ASSUME CallAssumption, Init PROVE CallInv
  OBVIOUS
<1>0. Phones!SessionAssumption /\ Phones!Init /\ Exchange!Init
  BY PartsAssumed, SameInit DEF Init
<1>1. Phones!TypeOK
  BY <1>0 DEF Phones!Init, Phones!TypeOK, Phones!SessionAssumption, Phones!CallState,
     Phones!NoJob, Phones!NoScreen, Phones!Screen, Phones!ScreenKind, Phones!Intent,
     Phones!Glitch
<1>2. Exchange!TypeInv
  BY <1>0, Exchange!TypeStart
<1>3. request \in [Thread -> Phones!Request] /\ answered = {}
  BY DEF Init, NoRequest, Session!Req, Phones!Request
<1>4. CallTypes
  BY <1>1, <1>2, <1>3 DEF CallTypes
<1>5. SessionsKnown
  BY <1>0 DEF Phones!Init, Phones!NoJob, Phones!NoScreen, SessionsKnown, SessionKnown,
     Pending, Flying
<1>6. ThreadsKnown
  BY <1>0 DEF Exchange!Init, Exchange!IdleTask, ThreadsKnown
<1>7. RowsKnown
  BY <1>0 DEF Exchange!Init, RowsKnown, CallAssumption
<1>8. MessagesKnown
  <2>1. ASSUME NEW p \in Phone
        PROVE  Flying(mqtt[p]) = {}
    <3>1. mqtt[p] = [m \in Exchange!Message |-> 0]
      BY <1>0 DEF Exchange!Init
    <3>2. \A m \in DOMAIN mqtt[p] : ~(mqtt[p][m] > 0)
      BY <3>1
    <3>. QED  BY <3>2 DEF Flying
  <2>. QED  BY <2>1 DEF MessagesKnown
<1>9. AnswersKnown
  BY <1>3 DEF AnswersKnown
<1>. QED  BY <1>4, <1>5, <1>6, <1>7, <1>8, <1>9 DEF CallInv

LEMMA CallStep == CallAssumption /\ CallInv /\ [Next]_vars => CallInv'
<1>. SUFFICES ASSUME CallAssumption, CallInv, [Next]_vars PROVE CallInv'
  OBVIOUS
<1>0. /\ CallTypes /\ SessionsKnown /\ ThreadsKnown /\ RowsKnown /\ MessagesKnown
      /\ AnswersKnown
  BY DEF CallInv
<1>1. Grows
  BY <1>0, StepGrows
<1>2. AnswersKnown'
  BY <1>0, <1>1, AnswersStep
<1>3. ASSUME NEW p \in Phone, User(p) \/ Handle(p)
      PROVE  CallInv'
  <2>1. CallTypes'
    BY <1>0, <1>3, PhoneTypes
  <2>2. SessionsKnown'
    BY <1>0, <1>1, <1>3, HandleSessions, UserSessions
  <2>3. UNCHANGED <<partner, callType, callStart, thread, mqtt, request>>
    BY <1>3 DEF User, Dial, Answer, Decline, Hangup, Handle, serverVars
  <2>. QED  BY <1>0, <1>1, <1>2, <2>1, <2>2, <2>3, ThreadsUntouched, RowsUntouched,
            MessagesUntouched DEF CallInv
<1>4. ASSUME NEW t \in Thread, Serve(t)
      PROVE  CallInv'
  <2>1. CallTypes'
    BY <1>0, <1>4, ThreadTypes
  <2>2. SessionsKnown'
    BY <1>0, <1>1, <1>4, SessionsUntouched DEF Serve
  <2>. QED  BY <1>0, <1>1, <1>2, <1>4, <2>1, <2>2, ServeThreads, ServeRows, ServeMessages
            DEF CallInv
<1>5. ASSUME NEW t \in Thread, Respond(t)
      PROVE  CallInv'
  <2>1. CallTypes'
    BY <1>0, <1>5, ThreadTypes
  <2>2. SessionsKnown' /\ ThreadsKnown'
    BY <1>0, <1>1, <1>5, <2>1, RespondSessions, RespondThreads
  <2>3. UNCHANGED <<partner, callType, callStart, mqtt>>
    BY <1>5, SameRequest DEF Respond, Exchange!End, Exchange!rows
  <2>. QED  BY <1>0, <1>1, <1>2, <2>1, <2>2, <2>3, RowsUntouched, MessagesUntouched DEF CallInv
<1>6. ASSUME NEW t \in Thread, NEW p \in Phone, NEW r \in Phones!Request, Arrive(t, p, r)
      PROVE  CallInv'
  <2>1. CallTypes'
    BY <1>0, <1>6, ArriveTypes
  <2>2. Phones!Taken(p, r) /\ UNCHANGED <<callState, queue, callJob, screen>>
    BY <1>6, SameNetwork DEF Arrive
  <2>3. SessionsKnown' /\ ThreadsKnown'
    BY <1>0, <1>1, <1>6, <2>1, <2>2, TakenSessions, ArriveThreads
  <2>4. UNCHANGED <<partner, callType, callStart, mqtt>>
    <3>1. \A api, q : Server!Begin(t, api, p, q) =>
            UNCHANGED <<partner, callType, callStart, mqtt>>
      BY SameRequest DEF Exchange!Begin, Exchange!rows
    <3>. QED  BY <1>6, <3>1 DEF Arrive
  <2>. QED  BY <1>0, <1>1, <1>2, <2>1, <2>3, <2>4, RowsUntouched, MessagesUntouched DEF CallInv
<1>7. ASSUME NEW p \in Phone, NEW m \in Exchange!Message, Deliver(p, m) \/ LoseMessage(p, m)
      PROVE  CallInv'
  <2>1. CallTypes'
    BY <1>0, <1>7, MessageTypes
  <2>2. SessionsKnown'
    BY <1>0, <1>1, <1>7, DeliverSessions, SessionsUntouched DEF LoseMessage
  <2>3. Exchange!Deliver(p, m) /\ UNCHANGED request
    BY <1>7, SameRequest DEF Deliver, LoseMessage
  <2>4. UNCHANGED <<partner, callType, callStart, thread>>
    BY <2>3 DEF Exchange!Deliver, Exchange!rows
  <2>5. \A x \in Phone : Flying(mqtt'[x]) \subseteq Flying(mqtt[x])
    <3>1. mqtt \in [Phone -> [Exchange!Message -> Nat]]
      BY <1>0 DEF CallTypes, Exchange!TypeInv, Exchange!TypeOK
    <3>. QED  BY <2>3, <3>1 DEF Exchange!Deliver, Exchange!Delivered, Flying
  <2>. QED  BY <1>0, <1>1, <1>2, <2>1, <2>2, <2>3, <2>4, <2>5, ThreadsUntouched,
            RowsUntouched, MessagesUntouched DEF CallInv
<1>8. ASSUME NEW p \in Phone, NEW r \in Phones!Request, LoseRequest(p, r)
      PROVE  CallInv'
  <2>1. CallTypes'
    BY <1>0, <1>8, RestTypes
  <2>2. Phones!Taken(p, r) /\ UNCHANGED <<callState, queue, callJob, screen>>
    BY <1>8, SameNetwork DEF LoseRequest, Phones!OnFailure
  <2>3. SessionsKnown'
    BY <1>0, <1>1, <2>2, TakenSessions
  <2>4. UNCHANGED <<partner, callType, callStart, thread, mqtt, request>>
    BY <1>8 DEF LoseRequest, serverVars
  <2>. QED  BY <1>0, <1>1, <1>2, <2>1, <2>3, <2>4, ThreadsUntouched, RowsUntouched,
            MessagesUntouched DEF CallInv
<1>9. CASE Tick
  <2>1. CallTypes'
    BY <1>0, <1>9, RestTypes
  <2>2. SessionsKnown'
    BY <1>0, <1>1, <1>9, SessionsUntouched DEF Tick
  <2>3. UNCHANGED <<partner, callType, callStart, thread, mqtt, request>>
    BY <1>9, SameRequest DEF Tick, Exchange!Tick, Exchange!rows
  <2>. QED  BY <1>0, <1>1, <1>2, <2>1, <2>2, <2>3, ThreadsUntouched, RowsUntouched,
            MessagesUntouched DEF CallInv
<1>10. CASE UNCHANGED vars
  <2>1. CallTypes'
    BY <1>0, <1>10, SessionsStay, ServerStays DEF vars, CallTypes
  <2>2. SessionsKnown'
    BY <1>0, <1>1, <1>10, SessionsUntouched DEF vars
  <2>3. UNCHANGED <<partner, callType, callStart, thread, mqtt, request>>
    BY <1>10 DEF vars, serverVars
  <2>. QED  BY <1>0, <1>1, <1>2, <2>1, <2>2, <2>3, ThreadsUntouched, RowsUntouched,
            MessagesUntouched DEF CallInv
<1>. QED  BY <1>3, <1>4, <1>5, <1>6, <1>7, <1>8, <1>9, <1>10, SameData DEF Next, Network

(* What is under way, the rows, the threads and the sessions are backed by *)
(* what users have dialled and answered, whatever is reordered or lost.    *)
THEOREM CallInvariant == Spec => []CallInv
BY CallStart, CallStep, CallAssumption, PTL DEF Spec

(* Sessions, rows, tasks, messages and requests keep their types.          *)
THEOREM TypeCorrect == Spec => []TypeOK
<1>1. CallInv => TypeOK
  BY SessionTypes, ServerTypes, SameData DEF CallInv, CallTypes, Exchange!TypeInv, TypeOK
<1>. QED  BY <1>1, CallInvariant, PTL

(* A phone opens its audio towards another only if one of the two users    *)
(* has answered (callJob of the job service, onCallConnected).             *)
THEOREM NobodyIsHeardUnanswered == Spec => []NobodyTalksUnanswered
<1>1. CallInv => NobodyTalksUnanswered
  <2>. SUFFICES ASSUME CallInv, NEW p \in Phone, NEW q \in Phone, TalksTo(p, q)
                PROVE  <<p, q>> \in answered \/ \E r \in Phone \ {q} : <<q, r>> \in answered
    BY DEF NobodyTalksUnanswered
  <2>1. <<p, q>> \in answered \/ Opened(q)
    BY DEF CallInv, SessionsKnown, SessionKnown, TalksTo
  <2>2. <<q, q>> \notin answered
    BY DEF CallInv, AnswersKnown, Caller
  <2>. QED  BY <2>1, <2>2 DEF Opened
<1>. QED  BY <1>1, CallInvariant, PTL

(* Outgoing time is billed to phones that have dialled and incoming time   *)
(* to phones that another has dialled: the order in which writeCallInfo    *)
(* writes its four fields keeps the bill right before it is finished.      *)
THEOREM CallerAlwaysPays == Spec => []CallerPays
<1>1. CallInv => CallerPays
  <2>. SUFFICES ASSUME CallInv, NEW t \in Thread, thread[t].step = "readHistory",
                       NEW p, p = Server!Subject(t)
                PROVE  /\ dials[p] = 0 => thread[t].kind = "in"
                       /\ (\A q \in Phone \ {p} : dials[q] = 0) => thread[t].kind = "out"
    BY DEF CallerPays
  <2>1. BillBacked(thread[t]) /\ p = Billed(thread[t])
    BY DEF CallInv, ThreadsKnown, Server!Subject, Billed
  <2>2. thread[t].kind \in {"in", "out"}
    BY DEF CallInv, CallTypes, Exchange!TypeInv, Exchange!TypeOK, Exchange!Task, Exchange!Kind
  <2>. QED  BY <2>1, <2>2 DEF BillBacked
<1>. QED  BY <1>1, CallInvariant, PTL

(* A call that nobody answers is never billed: no thread reads the usage   *)
(* of a phone before some user has answered some call.                     *)
THEOREM NothingBilledUnanswered == Spec => []BilledOnlyAfterAnswer
<1>1. CallInv => BilledOnlyAfterAnswer
  BY DEF CallInv, ThreadsKnown, BillBacked, BilledOnlyAfterAnswer
<1>. QED  BY <1>1, CallInvariant, PTL

=============================================================================
