----------------------------- MODULE VoiceCall -----------------------------
(***************************************************************************)
(* Voice calls end to end: the sessions of several phones (CallSession)    *)
(* and the exchange (CallServer), joined by HTTP and MQTT. A request       *)
(* travels from a phone to a server thread, which answers when it has run; *)
(* a published message travels to the phone of its topic. HTTP requests    *)
(* are independent of each other and messages have QoS 0 on a connection   *)
(* each, so neither keeps an order; both can be lost when Lossy.           *)
(***************************************************************************)
EXTENDS Integers, Sequences, FiniteSets

CONSTANTS
  Phone,     \* the phones, which are also their addresses
  NoPhone,
  NoConf,
  Thread,    \* threads of the server
  Lossy,     \* TRUE: requests and messages can be lost
  IntSpan,
  MaxTime,   \* bound on the server's clock
  MaxDials   \* bound: how often each phone dials

ASSUME CallAssumption ==
  /\ NoPhone \notin Phone
  /\ Lossy \in BOOLEAN
  /\ IntSpan \in Nat \ {0}
  /\ MaxTime \in Nat
  /\ MaxDials \in [Phone -> Nat]

VARIABLES
  callState, queue, recipientId, alert, tone, ringerMode, callJob, peerJobs,
  screen, rest, glitch,                        \* the sessions
  partner, callType, callStart, history, thread, mqtt, now, charged,
  accepted, raced,
                                               \* the server
  request,   \* the request each busy thread has to answer
  dials,     \* bound only: how often each phone has dialled
  answered   \* history only: <<p, q>> when p's user has answered a call of q

Session == INSTANCE CallSession WITH
  Addr <- Phone, Conf <- {}, RingerModes <- {"vibrate"}, ScreenLag <- FALSE,
  MaxInputs <- 0, inputs <- dials

Server == INSTANCE CallServer WITH
  MaxRequests <- 0, requests <- 0

sessionVars == <<callState, queue, recipientId, alert, tone, ringerMode, callJob,
                 peerJobs, screen, rest, glitch>>
serverVars == <<partner, callType, callStart, history, thread, mqtt, now,
                charged, accepted, raced>>
vars == <<sessionVars, serverVars, request, dials, answered>>

-----------------------------------------------------------------------------
NoRequest == Session!Req("drop", {}, NoConf)

TypeOK ==
  /\ Session!TypeOK
  /\ Server!TypeOK
  /\ request \in [Thread -> Session!Request]
  /\ answered \subseteq Phone \X Phone

Init ==
  /\ Session!Init
  /\ Server!Init
  /\ request = [t \in Thread |-> NoRequest]
  /\ answered = {}

-----------------------------------------------------------------------------
Handle(p) ==
  /\ Session!Handle(p)
  /\ UNCHANGED <<serverVars, request, dials, answered>>

Dial(p, q) ==
  /\ dials[p] < MaxDials[p]
  /\ dials' = [dials EXCEPT ![p] = @ + 1]
  /\ Session!Dial(p, q)
  /\ UNCHANGED <<serverVars, request, answered>>

Answer(p) ==
  /\ Session!PressAnswer(p)
  /\ answered' = answered \cup {<<p, q>> : q \in screen[p].peers}
  /\ UNCHANGED <<serverVars, request, dials>>

Decline(p) ==
  /\ Session!PressDecline(p)
  /\ UNCHANGED <<serverVars, request, dials, answered>>

Hangup(p) ==
  /\ Session!PressHangup(p)
  /\ UNCHANGED <<serverVars, request, dials, answered>>

(* A thread takes a request that has arrived. Only a dial names a phone.   *)
Arrive(t, p, r) ==
  /\ Session!Taken(p, r)
  /\ IF r.api = "dial"
     THEN \E q \in r.peers : Server!Begin(t, "dial", p, q)
     ELSE Server!Begin(t, r.api, p, NoPhone)
  /\ request' = [request EXCEPT ![t] = r]
  /\ UNCHANGED <<callState, queue, recipientId, alert, tone, ringerMode, callJob,
                 peerJobs, screen, glitch, dials, answered>>

Serve(t) ==
  /\ Server!Serve(t)
  /\ UNCHANGED <<sessionVars, request, dials, answered>>

(* The response runs the phone's call-back, whatever its status.           *)
Respond(t) ==
  /\ Server!End(t)
  /\ Session!OnResponse(thread[t].phone, request[t], {})
  /\ request' = [request EXCEPT ![t] = NoRequest]
  /\ UNCHANGED <<rest, dials, answered>>

Deliver(p, m) ==
  /\ Server!Deliver(p, m)
  /\ Session!OnMessage(p, [topic |-> m.topic, peers |-> m.peers, conf |-> NoConf])
  /\ UNCHANGED <<request, dials, answered>>

LoseMessage(p, m) ==
  /\ Lossy
  /\ Server!Deliver(p, m)
  /\ UNCHANGED <<sessionVars, request, dials, answered>>

LoseRequest(p, r) ==
  /\ Lossy
  /\ Session!OnFailure(p, r)
  /\ UNCHANGED <<serverVars, request, dials, answered>>

Tick ==
  /\ Server!Tick
  /\ UNCHANGED <<sessionVars, request, dials, answered>>

User(p) ==
  \/ \E q \in Phone \ {p} : Dial(p, q)
  \/ Answer(p)
  \/ Decline(p)
  \/ Hangup(p)

Network ==
  \/ \E t \in Thread, p \in Phone, r \in Session!Request : Arrive(t, p, r)
  \/ \E p \in Phone, m \in Server!Message : Deliver(p, m)
  \/ \E p \in Phone, m \in Server!Message : LoseMessage(p, m)
  \/ \E p \in Phone, r \in Session!Request : LoseRequest(p, r)

Next ==
  \/ \E p \in Phone : User(p) \/ Handle(p)
  \/ \E t \in Thread : Serve(t) \/ Respond(t)
  \/ Network
  \/ Tick

Spec == Init /\ [][Next]_vars

(* The job services, the server's threads and a network that loses nothing *)
(* do not all stop while one of them has something to do; users owe        *)
(* nothing. (Every request, message and work item is consumed once, so     *)
(* this is enough for each of them to have its turn.)                      *)
System ==
  \/ \E p \in Phone : Handle(p)
  \/ \E t \in Thread : Serve(t) \/ Respond(t)
  \/ \E t \in Thread, p \in Phone, r \in Session!Request : Arrive(t, p, r)
  \/ \E p \in Phone, m \in Server!Message : Deliver(p, m)

Fairness == WF_vars(System)

FairSpec == Spec /\ Fairness

-----------------------------------------------------------------------------
(* Properties. *)

TalksTo(p, q) == callState[p] = "IN_CALL" /\ callJob[p].peers = {q}

(* Nothing is on its way: no work, no request, no message, no busy thread. *)
AtRest ==
  /\ \A p \in Phone : /\ queue[p] = <<>>
                      /\ \A r \in Session!Request : rest[p][r] = 0
                      /\ \A m \in Server!Message : mqtt[p][m] = 0
  /\ \A t \in Thread : thread[t].step = "idle"

(* Audio is opened towards another phone only after one of the two users   *)
(* has answered: p the call of q, or q a call. (Of two phones q can only   *)
(* have answered p; with a third phone the server may forward to p the     *)
(* answer q gave to another caller, because a new dial rewrites partner.)  *)
NobodyTalksUnanswered ==
  \A p, q \in Phone :
    TalksTo(p, q) =>
      <<p, q>> \in answered \/ \E r \in Phone \ {q} : <<q, r>> \in answered

(* Whoever dials pays for outgoing time and whoever is dialled for incoming*)
(* time, even when the call is answered and dropped before writeCallInfo   *)
(* has written all four fields: their order protects the bill.             *)
CallerPays ==
  \A t \in Thread : thread[t].step = "readHistory" =>
    LET p == Server!Subject(t) IN
    /\ dials[p] = 0 => thread[t].kind = "in"
    /\ (\A q \in Phone \ {p} : dials[q] = 0) => thread[t].kind = "out"

(* Nobody is billed unless somebody has answered a call: a call that is    *)
(* given up, denied or lost on the way leaves no usage behind.             *)
BilledOnlyAfterAnswer ==
  \A t \in Thread : thread[t].step = "readHistory" => answered # {}

(* At rest, a phone is not alone in a call whose acceptance the server has *)
(* forwarded to the caller: the caller is in the call as well.             *)
CallIsShared ==
  AtRest => \A p, q \in Phone :
    TalksTo(p, q) /\ <<p, q>> \in accepted => TalksTo(q, p)

(* The phone told of a hangup is the one that is in the call.              *)
DropReachesPartner ==
  \A t \in Thread :
    thread[t].api = "drop" /\ thread[t].step = "publish" =>
      \A q \in Phone : TalksTo(q, thread[t].phone) => thread[t].peer = q

(* Only the side that hangs up reports the end of a call, so that no phone *)
(* is charged for more seconds than have passed.                           *)
BilledAtMostElapsed ==
  \A p \in Phone : charged[p]["in"] + charged[p]["out"] <= now

(* When one of two phones in a call hangs up, both become free.            *)
HangingUp(p, q) ==
  /\ TalksTo(p, q) /\ TalksTo(q, p)
  /\ \E i \in 1 .. Len(queue[p]) : queue[p][i].act = "LOCAL_HANGUP"

HangupFreesBoth ==
  \A p \in Phone : \A q \in Phone \ {p} :
    HangingUp(p, q) ~> callState[p] = "LISTENING" /\ callState[q] = "LISTENING"

=============================================================================
