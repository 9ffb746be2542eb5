-------------------------- MODULE Conference_proofs --------------------------
(***************************************************************************)
(* Conference calls, for any phones, threads and requests, and beside all  *)
(* the other services: ConferenceAgrees. With them every service is proved *)
(* about, and the types of them all close the module: TypeOK.              *)
(*                                                                         *)
(* ConferenceAgrees speaks of a conference at rest. ConferenceInv says how *)
(* each phone comes to know the members while requests, answers and news   *)
(* are under way. It has something to say only while nothing has parted    *)
(* the phones from the server (upset), and then                            *)
(*   - a phone is a member exactly if it is in the conference, or one      *)
(*     answer to its start or one request for its end is under way,        *)
(*   - a phone that stays has each member, or news of it,                  *)
(*   - and what it has beside the members is about to leave it, or to join.*)
(***************************************************************************)
EXTENDS Services_proofs, SequenceTheorems

-----------------------------------------------------------------------------
(* Types. *)

CcTopic == {"ccNewJoin", "ccCallDrop"}

CcPacket == [api : {"ccDial", "ccDrop", "joined", "stop"}, phone : Phone,
             peers : SUBSET Phone, id : Int]

CcTask == [api : CcApi, phone : Phone, id : Int, unread : BOOLEAN, own : BOOLEAN,
           untold : SUBSET Phone, ips : SUBSET Phone]

ConferenceTypes ==
  /\ requests \in Int
  /\ DOMAIN job = Thread
  /\ \A t \in Thread : Api(t) \in CcApi =>
       job[t] \in CcTask /\ (job[t].unread => job[t].own /\ job[t].untold = {})
  /\ http \subseteq CcPacket
  /\ \A m \in mqtt : m.topic \in CcTopic => m.to \in Phone /\ m.peers \subseteq Phone
  /\ joined \subseteq Phone /\ conference \subseteq Phone /\ engaged \subseteq Phone
  /\ conference \cap engaged = {}
  /\ peers \in [Phone -> SUBSET Phone]

-----------------------------------------------------------------------------
(* The invariant. *)

Dial(t) == Api(t) = "ccDial"
Drop(t) == Api(t) = "ccDrop"

(* What makes p a member that is not in the conference: an answer to its   *)
(* start or a request for its end, on its way or with a thread.            *)
Waiting(p) == {m \in http : m.phone = p /\ m.api \in {"joined", "ccDrop"}}
Working(p) == {t \in Thread : Api(t) \in CcApi /\ job[t].phone = p /\ job[t].own = Drop(t)}

TokensOf(p) ==
  /\ \A m, n \in Waiting(p) : m = n
  /\ \A t, u \in Working(p) : t = u
  /\ Waiting(p) = {} \/ Working(p) = {}
  /\ p \in conference => Waiting(p) = {} /\ Working(p) = {}
  /\ p \in joined <=> (p \in conference \/ Waiting(p) # {} \/ Working(p) # {})

(* p has not hung up, and what it knows, or will by the answer it waits    *)
(* for: it has q for a peer, or will have by news that is under way.       *)
Staying(p) ==
  \/ p \in conference
  \/ \E m \in Waiting(p) : m.api = "joined"
  \/ \E t \in Working(p) : Dial(t)

Informed(p, q) ==
  \/ p \in conference /\ q \in peers[p]
  \/ \E m \in Waiting(p) : m.api = "joined" /\ q \in m.peers
  \/ \E t \in Working(p) : Dial(t) /\ q \in job[t].ips

News(p, q, topic) == \E m \in mqtt : m.to = p /\ m.topic = topic /\ q \in m.peers

Aware(p, q) == Informed(p, q) \/ News(p, q, "ccNewJoin")

(* p is told that q has left, or q is joining again.                       *)
Leaving(p, q) == \E t \in Thread : /\ Drop(t) /\ ~job[t].own
                                   /\ job[t].phone = q /\ p \in job[t].untold
Rejoining(q) == \E t \in Thread : Dial(t) /\ job[t].own /\ job[t].phone = q
Excused(p, q) == News(p, q, "ccCallDrop") \/ Leaving(p, q) \/ Rejoining(q)

(* A start between its reading and its writing is alone there, and those   *)
(* that stay are aware of it or still to be told.                          *)
DialSection(t) ==
  /\ job[t].phone \notin joined
  /\ job[t].ips = joined
  /\ \A u \in Between : u = t
  /\ \A p \in Phone : Staying(p) => p \in job[t].untold \/ Aware(p, job[t].phone)

DropSection(t) == joined \subseteq job[t].ips /\ job[t].untold = job[t].ips \ {job[t].phone}

Tokens == \A p \in Phone : TokensOf(p)
MembersKnown ==
  \A p, q \in Phone : p # q /\ Staying(p) /\ q \in joined => Aware(p, q)
GoneKnown ==
  \A p, q \in Phone : Staying(p) /\ q \notin joined /\ Informed(p, q) => Excused(p, q)
NotItself ==
  /\ \A m \in mqtt : m.topic \in CcTopic => m.to \notin m.peers
  /\ \A t \in Thread : Api(t) \in CcApi => job[t].phone \notin job[t].untold
  /\ \A p \in Phone : ~Informed(p, p)
Sections ==
  \A t \in Thread :
    /\ t \in Between /\ Dial(t) => DialSection(t)
    /\ t \in Between /\ Drop(t) => DropSection(t)
    /\ Drop(t) /\ ~job[t].unread => job[t].phone \in job[t].ips

Calm == Tokens /\ MembersKnown /\ GoneKnown /\ NotItself /\ Sections

ConferenceInv == ConferenceTypes /\ (upset = {} => Calm)

-----------------------------------------------------------------------------
(* What a step that changes one thread's task leaves alone. *)

LEMMA OneTask ==
  ASSUME ConferenceTypes, NEW t \in Thread, NEW k, job' = [job EXCEPT ![t] = k]
  PROVE  /\ job'[t] = k /\ Api(t)' = k.api
         /\ \A u \in Thread \ {t} : job'[u] = job[u] /\ Api(u)' = Api(u)
         /\ DOMAIN job' = Thread
BY DEF ConferenceTypes, Api

(* Members stay for a reason: a phone that stays is a member.              *)
LEMMA StayingJoined ==
  ASSUME Tokens, NEW p \in Phone, Staying(p)
  PROVE  p \in joined
BY DEF Tokens, TokensOf, Staying

(* What a phone knows depends on the answers and threads that are its own. *)
LEMMA KnowledgeStays ==
  ASSUME NEW p, Waiting(p)' = Waiting(p), Working(p)' = Working(p),
         p \in conference' <=> p \in conference, p \in conference => peers'[p] = peers[p],
         \A t \in Working(p) : Dial(t)' = Dial(t) /\ (Dial(t) => job'[t].ips = job[t].ips)
  PROVE  /\ Staying(p)' <=> Staying(p)
         /\ \A q : Informed(p, q)' <=> Informed(p, q)
BY DEF Staying, Informed

LEMMA WorkingStays ==
  ASSUME \A t \in Thread :
           \/ job'[t] = job[t]
           \/ /\ Api(t)' = Api(t)
              /\ job'[t].phone = job[t].phone /\ job'[t].own = job[t].own
           \/ /\ Api(t)' \in CcApi => job'[t].own # Drop(t)'
              /\ Api(t) \in CcApi => job[t].own # Drop(t)
  PROVE  \A p : Working(p)' = Working(p)
BY DEF Working, Api, Drop, CcApi

LEMMA TokensStay ==
  ASSUME Tokens, UNCHANGED <<joined, conference>>,
         \A p \in Phone : Waiting(p)' = Waiting(p) /\ Working(p)' = Working(p)
  PROVE  Tokens'
<1>1. ASSUME NEW p \in Phone PROVE TokensOf(p)'
  BY DEF Tokens, TokensOf
<1>. QED  BY <1>1 DEF Tokens

LEMMA MembersStay ==
  ASSUME MembersKnown,
         \A p, q \in Phone : Staying(p)' /\ q \in joined' => Staying(p) /\ q \in joined,
         \A p, q \in Phone : Staying(p)' /\ q \in joined' /\ Aware(p, q) => Aware(p, q)'
  PROVE  MembersKnown'
BY DEF MembersKnown

LEMMA GoneStay ==
  ASSUME GoneKnown, joined \subseteq joined',
         \A p, q \in Phone : Staying(p)' /\ Informed(p, q)' => Staying(p) /\ Informed(p, q),
         \A p, q \in Phone : Staying(p)' /\ Informed(p, q)' /\ q \notin joined'
                             /\ Excused(p, q) => Excused(p, q)'
  PROVE  GoneKnown'
BY DEF GoneKnown

-----------------------------------------------------------------------------
(* The types hold, whatever happens to the phones and the server. *)

LEMMA TaskTypes ==
  ASSUME ConferenceTypes, NEW t \in Thread, NEW k \in CcTask,
         k.unread => k.own /\ k.untold = {},
         job' = [job EXCEPT ![t] = k], UNCHANGED requests
  PROVE  /\ requests' \in Int
         /\ DOMAIN job' = Thread
         /\ \A u \in Thread : Api(u)' \in CcApi =>
              job'[u] \in CcTask /\ (job'[u].unread => job'[u].own /\ job'[u].untold = {})
<1>1. /\ job'[t] = k /\ DOMAIN job' = Thread
      /\ \A u \in Thread \ {t} : job'[u] = job[u] /\ Api(u)' = Api(u)
  BY OneTask
<1>. QED  BY <1>1 DEF ConferenceTypes

(* The task of a thread after each of its steps.                           *)
LEMMA TakenTask ==
  ASSUME ConferenceTypes, NEW t \in Thread, NEW m \in http, TakeRequest(t, m)
  PROVE  \E k \in CcTask : /\ job' = [job EXCEPT ![t] = k]
                           /\ k.api = m.api /\ k.phone = m.phone
                           /\ k.unread /\ k.own /\ k.untold = {}
<1>. DEFINE k == [api |-> m.api, phone |-> m.phone, id |-> m.id, unread |-> TRUE,
                  own |-> TRUE, untold |-> {}, ips |-> {}]
<1>1. m \in CcPacket /\ m.api \in CcApi
  BY DEF ConferenceTypes, TakeRequest
<1>2. k \in CcTask
  BY <1>1 DEF CcTask, CcPacket
<1>3. job' = [job EXCEPT ![t] = k]
  BY DEF TakeRequest, Goon
<1>. QED  BY <1>2, <1>3

LEMMA ReadTask ==
  ASSUME ConferenceTypes, NEW t \in Thread, ReadMembers(t)
  PROVE  \E k \in CcTask : /\ job' = [job EXCEPT ![t] = k]
                           /\ k.api = job[t].api /\ k.phone = job[t].phone
                           /\ ~k.unread /\ k.own /\ k.ips = joined
                           /\ k.untold = IF Dial(t) THEN joined ELSE joined \ {job[t].phone}
<1>1. job[t] \in CcTask /\ job[t].own /\ joined \subseteq Phone
  BY DEF ConferenceTypes, ReadMembers
<1>. PICK k : k = [job[t] EXCEPT !.unread = FALSE, !.ips = joined,
                     !.untold = IF Dial(t) THEN joined ELSE joined \ {job[t].phone}]
  OBVIOUS
<1>2. job' = [job EXCEPT ![t] = k]
  BY DEF ReadMembers, Goon, Dial
<1>3. /\ k \in CcTask
      /\ k.api = job[t].api /\ k.phone = job[t].phone
      /\ ~k.unread /\ k.own /\ k.ips = joined
      /\ k.untold = IF Dial(t) THEN joined ELSE joined \ {job[t].phone}
  BY <1>1 DEF CcTask
<1>. QED  BY <1>2, <1>3

LEMMA TellTask ==
  ASSUME ConferenceTypes, NEW t \in Thread, TellMember(t)
  PROVE  \E k \in CcTask, to \in job[t].untold :
           /\ job' = [job EXCEPT ![t] = k]
           /\ k.api = job[t].api /\ k.phone = job[t].phone /\ k.unread = job[t].unread
           /\ k.own = job[t].own /\ k.ips = job[t].ips
           /\ k.untold = job[t].untold \ {to}
           /\ Publish(to, IF Dial(t) THEN "ccNewJoin" ELSE "ccCallDrop",
                      IF Dial(t) THEN {job[t].phone} ELSE {job[t].phone} \cap job[t].ips,
                      job[t].id)
<1>1. job[t] \in CcTask
  BY DEF ConferenceTypes, TellMember
<1>. PICK to \in job[t].untold :
       /\ Publish(to, IF Dial(t) THEN "ccNewJoin" ELSE "ccCallDrop",
                  IF Dial(t) THEN {job[t].phone} ELSE {job[t].phone} \cap job[t].ips,
                  job[t].id)
       /\ Goon(t, [job[t] EXCEPT !.untold = @ \ {to}])
  BY DEF TellMember, Dial
<1>. PICK k : k = [job[t] EXCEPT !.untold = @ \ {to}]
  OBVIOUS
<1>2. job' = [job EXCEPT ![t] = k]
  BY DEF Goon
<1>3. /\ k \in CcTask
      /\ k.api = job[t].api /\ k.phone = job[t].phone /\ k.unread = job[t].unread
      /\ k.own = job[t].own /\ k.ips = job[t].ips
      /\ k.untold = job[t].untold \ {to}
  BY <1>1 DEF CcTask
<1>. QED  BY <1>2, <1>3

LEMMA WriteTask ==
  ASSUME ConferenceTypes, NEW t \in Thread, AddMember(t) \/ RemoveMember(t)
  PROVE  \E k \in CcTask : /\ job' = [job EXCEPT ![t] = k]
                           /\ k.api = job[t].api /\ k.phone = job[t].phone
                           /\ ~job[t].unread /\ ~k.unread /\ job[t].own /\ ~k.own
                           /\ k.untold = job[t].untold /\ k.ips = job[t].ips
<1>1. job[t] \in CcTask
  BY DEF ConferenceTypes, AddMember, RemoveMember, CcApi
<1>. PICK k : k = [job[t] EXCEPT !.own = FALSE]
  OBVIOUS
<1>2. job' = [job EXCEPT ![t] = k]
  BY DEF AddMember, RemoveMember, Goon
<1>3. /\ k \in CcTask
      /\ k.api = job[t].api /\ k.phone = job[t].phone
      /\ ~job[t].unread /\ ~k.unread /\ job[t].own /\ ~k.own
      /\ k.untold = job[t].untold /\ k.ips = job[t].ips
  BY <1>1 DEF CcTask, AddMember, RemoveMember
<1>. QED  BY <1>2, <1>3

LEMMA ThreadTypesKept ==
  ASSUME ConferenceTypes, NEW t \in Thread,
         ConferenceStep(t) \/ \E m \in http : TakeRequest(t, m)
  PROVE  ConferenceTypes'
<1>. USE DEF servlets, meeting, Answer, Goon
<1>1. ASSUME NEW m \in http, TakeRequest(t, m) PROVE ConferenceTypes'
  <2>1. PICK k \in CcTask : /\ job' = [job EXCEPT ![t] = k]
                            /\ k.own /\ k.untold = {}
    BY <1>1, TakenTask
  <2>2. UNCHANGED <<requests, mqtt, joined, conference, engaged, peers>> /\ http' \subseteq http
    BY <1>1 DEF TakeRequest
  <2>. QED  BY <2>1, <2>2, TaskTypes DEF ConferenceTypes
<1>2. CASE ReadMembers(t)
  <2>1. PICK k \in CcTask : job' = [job EXCEPT ![t] = k] /\ ~k.unread
    BY <1>2, ReadTask
  <2>2. UNCHANGED <<requests, mqtt, joined, conference, engaged, peers, http>>
    BY <1>2 DEF ReadMembers
  <2>. QED  BY <2>1, <2>2, TaskTypes DEF ConferenceTypes
<1>3. CASE TellMember(t)
  <2>0. job[t] \in CcTask /\ (job[t].unread => job[t].own /\ job[t].untold = {})
    BY <1>3 DEF ConferenceTypes, TellMember
  <2>1. PICK k \in CcTask, to \in job[t].untold :
          /\ job' = [job EXCEPT ![t] = k]
          /\ k.unread = job[t].unread /\ k.own = job[t].own /\ k.untold = job[t].untold \ {to}
          /\ Publish(to, IF Dial(t) THEN "ccNewJoin" ELSE "ccCallDrop",
                      IF Dial(t) THEN {job[t].phone} ELSE {job[t].phone} \cap job[t].ips,
                      job[t].id)
    BY <1>3, TellTask
  <2>2. UNCHANGED <<requests, joined, conference, engaged, peers, http>>
    BY <1>3 DEF TellMember
  <2>3. to \in Phone /\ job[t].phone \in Phone
    BY <2>0 DEF CcTask
  <2>4. \A m \in mqtt' : m.topic \in CcTopic => m.to \in Phone /\ m.peers \subseteq Phone
    BY <2>1, <2>3 DEF Publish, ConferenceTypes
  <2>. QED  BY <2>0, <2>1, <2>2, <2>4, TaskTypes DEF ConferenceTypes
<1>4. CASE AddMember(t) \/ RemoveMember(t)
  <2>0. job[t] \in CcTask
    BY <1>4 DEF ConferenceTypes, AddMember, RemoveMember, CcApi
  <2>1. PICK k \in CcTask : job' = [job EXCEPT ![t] = k] /\ ~k.unread
    BY <1>4, WriteTask
  <2>2. UNCHANGED <<requests, mqtt, conference, engaged, peers, http>>
    BY <1>4 DEF AddMember, RemoveMember
  <2>3. joined' \subseteq Phone
    BY <1>4, <2>0 DEF AddMember, RemoveMember, ConferenceTypes, CcTask
  <2>. QED  BY <2>1, <2>2, <2>3, TaskTypes DEF ConferenceTypes
<1>5. CASE AnswerPhone(t)
  <2>0. job[t] \in CcTask
    BY <1>5 DEF ConferenceTypes, AnswerPhone
  <2>1. /\ DOMAIN job' = Thread
        /\ \A u \in Thread : Api(u)' \in CcApi => job'[u] = job[u] /\ Api(u)' = Api(u)
    <3>1. job' = [job EXCEPT ![t] = Idle] /\ Idle.api \notin CcApi
      BY <1>5 DEF AnswerPhone, Idle, CcApi
    <3>. QED  BY <3>1, OneTask
  <2>2. UNCHANGED <<requests, mqtt, joined, conference, engaged, peers>>
    BY <1>5 DEF AnswerPhone
  <2>3. http' \subseteq CcPacket
    <3>1. Packet(IF Api(t) = "ccDial" THEN "joined" ELSE "stop", job[t].phone, job[t].ips,
                 job[t].id) \in CcPacket
      BY <2>0 DEF Packet, CcTask, CcPacket
    <3>. QED  BY <1>5, <3>1 DEF AnswerPhone, ConferenceTypes
  <2>. QED  BY <2>1, <2>2, <2>3 DEF ConferenceTypes
<1>. QED  BY <1>1, <1>2, <1>3, <1>4, <1>5 DEF ConferenceStep

LEMMA PhoneTypesKept ==
  ASSUME ConferenceTypes,
         \/ \E p \in Phone : Start(p) \/ HangUp(p) \/ Engage(p) \/ Disengage(p)
         \/ \E m \in http : JoinedArrives(m) \/ StopArrives(m) \/ LosePacket(m)
         \/ \E m \in mqtt : NewsArrives(m)
  PROVE  ConferenceTypes'
<1>. USE DEF servlets
<1>1. ASSUME NEW p \in Phone, Start(p) \/ HangUp(p) PROVE ConferenceTypes'
  <2>1. \A api \in {"ccDial", "ccDrop"} : Packet(api, p, {}, requests) \in CcPacket
    BY DEF Packet, CcPacket, ConferenceTypes
  <2>2. UNCHANGED <<job, mqtt, joined, engaged>> /\ requests' \in Int /\ http' \subseteq CcPacket
    BY <1>1, <2>1 DEF Start, HangUp, ConferenceTypes
  <2>3. \/ UNCHANGED <<conference, peers>>
        \/ conference' = conference \ {p} /\ peers' = [peers EXCEPT ![p] = {}]
    BY <1>1 DEF Start, HangUp
  <2>. QED  BY <2>2, <2>3 DEF ConferenceTypes, Api
<1>2. ASSUME NEW p \in Phone, Engage(p) \/ Disengage(p) PROVE ConferenceTypes'
  <2>1. UNCHANGED <<job, mqtt, joined, http>> /\ requests' \in Int
    <3>1. UNCHANGED <<job, mqtt, joined, http>>
      BY <1>2 DEF Engage, Disengage
    <3>2. requests \in Int /\ requests' \in {requests, requests - 1}
      BY <1>2 DEF Engage, Disengage, ConferenceTypes
    <3>. QED  BY <3>1, <3>2
  <2>2. /\ conference' \subseteq Phone /\ engaged' \subseteq Phone
        /\ conference' \cap engaged' = {}
    BY <1>2 DEF Engage, Disengage, ConferenceTypes
  <2>3. peers' \in [Phone -> SUBSET Phone]
    <3>1. peers \in [Phone -> SUBSET Phone]
      BY DEF ConferenceTypes
    <3>2. peers' = peers \/ peers' = [peers EXCEPT ![p] = {}]
      BY <1>2 DEF Engage, Disengage
    <3>. QED  BY <3>1, <3>2
  <2>. QED  BY <2>1, <2>2, <2>3 DEF ConferenceTypes, Api
<1>3. ASSUME NEW m \in http, JoinedArrives(m) \/ StopArrives(m) \/ LosePacket(m)
      PROVE  ConferenceTypes'
  <2>1. UNCHANGED <<job, mqtt, joined, requests, engaged>> /\ http' \subseteq http
    BY <1>3 DEF JoinedArrives, StopArrives, LosePacket
  <2>2. m.phone \in Phone /\ m.peers \subseteq Phone
    BY DEF ConferenceTypes, CcPacket
  <2>3. conference' \subseteq Phone /\ conference' \cap engaged = {}
    BY <1>3, <2>2 DEF JoinedArrives, StopArrives, LosePacket, ConferenceTypes
  <2>4. peers' \in [Phone -> SUBSET Phone]
    BY <1>3, <2>2 DEF JoinedArrives, StopArrives, LosePacket, ConferenceTypes
  <2>. QED  BY <2>1, <2>3, <2>4 DEF ConferenceTypes, Api
<1>4. ASSUME NEW m \in mqtt, NewsArrives(m) PROVE ConferenceTypes'
  <2>1. UNCHANGED <<job, joined, conference, engaged, http, requests>> /\ mqtt' \subseteq mqtt
    BY <1>4 DEF NewsArrives
  <2>2. m.to \in Phone /\ m.peers \subseteq Phone
    BY <1>4 DEF ConferenceTypes, NewsArrives, CcTopic
  <2>3. peers' \in [Phone -> SUBSET Phone]
    <3>1. peers \in [Phone -> SUBSET Phone]
      BY DEF ConferenceTypes
    <3>. PICK s : s = IF m.to \notin conference THEN peers[m.to]
                      ELSE IF m.topic = "ccNewJoin" THEN peers[m.to] \cup m.peers
                      ELSE peers[m.to] \ m.peers
      OBVIOUS
    <3>2. peers' = [peers EXCEPT ![m.to] = s]
      BY <1>4 DEF NewsArrives
    <3>3. s \subseteq Phone
      BY <2>2, <3>1
    <3>. QED  BY <2>1, <2>2, <3>1, <3>2, <3>3
  <2>. QED  BY <2>1, <2>3 DEF ConferenceTypes, Api
<1>. QED  BY <1>1, <1>2, <1>3, <1>4

(* A step of the phones alone, after which no more phones stay, nobody     *)
(* knows more, and those that stay know as much.                           *)
LEMMA FewerStay ==
  ASSUME ConferenceTypes, Calm, Tokens', UNCHANGED <<job, mqtt, joined>>,
         \A p \in Phone : Staying(p)' => Staying(p),
         \A p, q \in Phone : Informed(p, q)' => Informed(p, q),
         \A p, q \in Phone : Staying(p)' /\ Informed(p, q) => Informed(p, q)'
  PROVE  Calm'
<1>0. MembersKnown /\ GoneKnown /\ NotItself /\ Sections
  BY DEF Calm
<1>1. /\ \A p, q, topic : News(p, q, topic)' <=> News(p, q, topic)
      /\ \A p, q : Leaving(p, q)' <=> Leaving(p, q)
      /\ \A q : Rejoining(q)' <=> Rejoining(q)
      /\ \A t : Dial(t)' <=> Dial(t)
      /\ \A t : Drop(t)' <=> Drop(t)
      /\ Between' = Between
  BY DEF News, Leaving, Rejoining, Dial, Drop, Between, Api
<1>2. \A p, q \in Phone : Staying(p)' /\ Aware(p, q) => Aware(p, q)'
  BY <1>1 DEF Aware
<1>3. MembersKnown'
  BY <1>0, <1>2, MembersStay
<1>4. GoneKnown'
  <2>1. \A p, q : Excused(p, q) => Excused(p, q)'
    BY <1>1 DEF Excused
  <2>. QED  BY <1>0, <2>1 DEF GoneKnown
<1>5. NotItself'
  BY <1>0 DEF NotItself, Api
<1>6. ASSUME NEW t \in Between, Dial(t) PROVE DialSection(t)'
  <2>1. DialSection(t) /\ t \in Thread /\ Api(t) \in CcApi
    BY <1>0, <1>6 DEF Sections, Between
  <2>. PICK q : q = job[t].phone
    OBVIOUS
  <2>2. q \in Phone
    BY <2>1 DEF ConferenceTypes, CcTask
  <2>. QED  BY <1>1, <1>2, <2>1, <2>2 DEF DialSection
<1>7. Sections'
  BY <1>0, <1>1, <1>6 DEF Sections, DropSection
<1>. QED  BY <1>3, <1>4, <1>5, <1>7 DEF Calm

-----------------------------------------------------------------------------
(* The phones. *)

(* A start sends a request, which makes nobody a member yet.               *)
LEMMA StartKeeps ==
  ASSUME ConferenceTypes, Calm, NEW p \in Phone, Start(p)
  PROVE  Calm'
<1>1. UNCHANGED <<job, mqtt, joined, conference, peers>>
  BY DEF Start
<1>2. \A q : Waiting(q)' = Waiting(q) /\ Working(q)' = Working(q)
  BY <1>1 DEF Start, Waiting, Working, Packet, Api, Drop
<1>3. Tokens'
  BY <1>1, <1>2, TokensStay DEF Calm
<1>4. ASSUME NEW q \in Phone
      PROVE  /\ Staying(q)' <=> Staying(q)
             /\ \A r : Informed(q, r)' <=> Informed(q, r)
  BY <1>1, <1>2, KnowledgeStays DEF Api, Dial
<1>. QED  BY <1>1, <1>3, <1>4, FewerStay

(* Who hangs up does not stay; the request for its end is under way.       *)
LEMMA HangUpKeeps ==
  ASSUME ConferenceTypes, Calm, NEW p \in Phone, HangUp(p)
  PROVE  Calm'
<1>0. Tokens /\ MembersKnown /\ GoneKnown /\ NotItself /\ Sections
  BY DEF Calm
<1>. PICK m : m = Packet("ccDrop", p, {}, requests)
  OBVIOUS
<1>1. /\ UNCHANGED <<job, mqtt, joined>>
      /\ http' = http \cup {m} /\ m.api = "ccDrop" /\ m.phone = p
      /\ p \in conference /\ conference' = conference \ {p}
      /\ \A q \in Phone \ {p} : peers'[q] = peers[q]
  BY DEF HangUp, Packet, ConferenceTypes
<1>2. /\ Waiting(p)' = {m}
      /\ \A q \in Phone \ {p} : Waiting(q)' = Waiting(q)
      /\ \A q : Working(q)' = Working(q)
      /\ Working(p) = {} /\ Waiting(p) = {}
  <2>1. Working(p) = {} /\ Waiting(p) = {}
    BY <1>0, <1>1 DEF Tokens, TokensOf
  <2>. QED  BY <1>1, <2>1 DEF Waiting, Working, Api, Drop
<1>3. \A q \in Phone : TokensOf(q)'
  BY <1>0, <1>1, <1>2 DEF Tokens, TokensOf
<1>4. ~Staying(p)' /\ \A q : ~Informed(p, q)'
  BY <1>1, <1>2 DEF Staying, Informed
<1>5. ASSUME NEW q \in Phone \ {p}
      PROVE  /\ Staying(q)' <=> Staying(q)
             /\ \A r : Informed(q, r)' <=> Informed(q, r)
  BY <1>1, <1>2, KnowledgeStays DEF Api, Dial
<1>6. ASSUME NEW q \in Phone
      PROVE  /\ Staying(q)' => Staying(q)
             /\ \A r \in Phone : Informed(q, r)' => Informed(q, r)
             /\ \A r \in Phone : Staying(q)' /\ Informed(q, r) => Informed(q, r)'
  BY <1>4, <1>5
<1>. QED  BY <1>1, <1>3, <1>6, FewerStay DEF Tokens

(* A phone that makes or gets a voice call is in no conference, or is      *)
(* parted from the server.                                                 *)
LEMMA EngageKeeps ==
  ASSUME ConferenceTypes, Calm, NEW p \in Phone, Engage(p), upset' = {}
  PROVE  Calm'
<1>1. UNCHANGED <<job, mqtt, joined, peers, http>> /\ conference' = conference
  BY DEF Engage, Upset
<1>2. \A q : Waiting(q)' = Waiting(q) /\ Working(q)' = Working(q)
  BY <1>1 DEF Waiting, Working, Api, Drop
<1>3. Tokens'
  BY <1>1, <1>2, TokensStay DEF Calm
<1>4. ASSUME NEW q \in Phone
      PROVE  /\ Staying(q)' <=> Staying(q)
             /\ \A r : Informed(q, r)' <=> Informed(q, r)
  BY <1>1, <1>2, KnowledgeStays DEF Api, Dial
<1>. QED  BY <1>1, <1>3, <1>4, FewerStay

(* What its end leaves of the peers is nothing to the conference.          *)
LEMMA DisengageKeeps ==
  ASSUME ConferenceTypes, Calm, NEW p \in Phone, Disengage(p)
  PROVE  Calm'
<1>1. UNCHANGED <<job, mqtt, joined, conference, http>>
  BY DEF Disengage, servlets
<1>2. \A q : Waiting(q)' = Waiting(q) /\ Working(q)' = Working(q)
  BY <1>1 DEF Waiting, Working, Api, Drop
<1>3. Tokens'
  BY <1>1, <1>2, TokensStay DEF Calm
<1>4. \A q \in conference : peers'[q] = peers[q]
  BY DEF Disengage, ConferenceTypes
<1>5. ASSUME NEW q \in Phone
      PROVE  /\ Staying(q)' <=> Staying(q)
             /\ \A r : Informed(q, r)' <=> Informed(q, r)
  BY <1>1, <1>2, <1>4, KnowledgeStays DEF Api, Dial
<1>. QED  BY <1>1, <1>3, <1>5, FewerStay

(* The answer to its start has a phone in the conference, with the peers   *)
(* that the answer has, or finds it engaged and parts it from the server.  *)
LEMMA JoinedKeeps ==
  ASSUME ConferenceTypes, Calm, NEW m \in http, JoinedArrives(m), upset' = {}
  PROVE  Calm'
<1>0. Tokens
  BY DEF Calm
<1>. PICK p \in Phone : p = m.phone
  BY DEF ConferenceTypes, CcPacket
<1>1. /\ UNCHANGED <<job, mqtt, joined>>
      /\ m.api = "joined" /\ http' = http \ {m}
      /\ p \notin engaged /\ conference' = conference \cup {p}
  BY DEF JoinedArrives, servlets, Upset
<1>2. /\ Waiting(p) = {m} /\ Working(p) = {} /\ p \notin conference
      /\ p \in joined
  <2>1. m \in Waiting(p)
    BY <1>1 DEF Waiting
  <2>. QED  BY <1>0, <2>1 DEF Tokens, TokensOf
<1>3. /\ Waiting(p)' = {}
      /\ \A q \in Phone \ {p} : Waiting(q)' = Waiting(q)
      /\ \A q : Working(q)' = Working(q)
  BY <1>1, <1>2 DEF Waiting, Working, Api, Drop
<1>4. peers'[p] = m.peers /\ \A q \in Phone \ {p} : peers'[q] = peers[q]
  BY <1>1, <1>2 DEF JoinedArrives, ConferenceTypes
<1>5. \A q \in Phone : TokensOf(q)'
  BY <1>0, <1>1, <1>2, <1>3 DEF Tokens, TokensOf
<1>6. /\ Staying(p) /\ Staying(p)'
      /\ \A q : Informed(p, q)' <=> Informed(p, q)
  BY <1>1, <1>2, <1>3, <1>4 DEF Staying, Informed
<1>7. ASSUME NEW q \in Phone \ {p}
      PROVE  /\ Staying(q)' <=> Staying(q)
             /\ \A r : Informed(q, r)' <=> Informed(q, r)
  BY <1>1, <1>3, <1>4, KnowledgeStays DEF Api, Dial
<1>8. ASSUME NEW q \in Phone
      PROVE  /\ Staying(q)' <=> Staying(q)
             /\ \A r : Informed(q, r)' <=> Informed(q, r)
  BY <1>6, <1>7
<1>. QED  BY <1>1, <1>5, <1>8, FewerStay DEF Tokens

(* The answer to an end finds the phone out of the conference, or parts it *)
(* from the server.                                                        *)
LEMMA StopKeeps ==
  ASSUME ConferenceTypes, Calm, NEW m \in http, StopArrives(m), upset' = {}
  PROVE  Calm'
<1>1. /\ UNCHANGED <<job, mqtt, joined>>
      /\ m.api = "stop" /\ http' = http \ {m}
      /\ m.phone \notin conference /\ conference' = conference
  BY DEF StopArrives, servlets, Upset
<1>2. \A q : Waiting(q)' = Waiting(q) /\ Working(q)' = Working(q)
  BY <1>1 DEF Waiting, Working, Api, Drop
<1>3. Tokens'
  BY <1>1, <1>2, TokensStay DEF Calm
<1>4. \A q \in conference : peers'[q] = peers[q]
  BY <1>1 DEF StopArrives, ConferenceTypes
<1>5. ASSUME NEW q \in Phone
      PROVE  /\ Staying(q)' <=> Staying(q)
             /\ \A r : Informed(q, r)' <=> Informed(q, r)
  BY <1>1, <1>2, <1>4, KnowledgeStays DEF Api, Dial
<1>. QED  BY <1>1, <1>3, <1>5, FewerStay

(* News reaches a phone that is no member, and says nothing to it, or one  *)
(* that is in the conference while it is still so.                         *)
LEMMA NewsKeeps ==
  ASSUME ConferenceTypes, Calm, NEW m \in mqtt, NewsArrives(m), upset' = {}
  PROVE  Calm'
<1>0. Tokens /\ MembersKnown /\ GoneKnown /\ NotItself /\ Sections
  BY DEF Calm
<1>. PICK p \in Phone : p = m.to
  BY DEF NewsArrives, ConferenceTypes, CcTopic
<1>1. /\ UNCHANGED <<job, joined, conference, http>>
      /\ mqtt' = mqtt \ {m} /\ m.topic \in CcTopic /\ p \notin m.peers
      /\ p \in joined => p \in conference
      /\ p \in conference => \A q \in m.peers : (m.topic = "ccNewJoin") <=> Joining(q)
  BY <1>0 DEF NewsArrives, CcTopic, NotItself
<1>2. /\ \A q : Waiting(q)' = Waiting(q) /\ Working(q)' = Working(q)
      /\ \A q, r : Leaving(q, r)' <=> Leaving(q, r)
      /\ \A q : Rejoining(q)' <=> Rejoining(q)
      /\ \A t : (Dial(t)' <=> Dial(t)) /\ (Drop(t)' <=> Drop(t))
      /\ Between' = Between
  BY <1>1 DEF Waiting, Working, Leaving, Rejoining, Dial, Drop, Between, Api
<1>3. Tokens'
  BY <1>0, <1>1, <1>2, TokensStay
<1>4. ASSUME NEW q \in Phone
      PROVE  Staying(q)' <=> Staying(q)
  BY <1>1, <1>2 DEF Staying
<1>5. ASSUME NEW q \in Phone \ {p}
      PROVE  /\ \A r : Informed(q, r)' <=> Informed(q, r)
             /\ \A r, topic : News(q, r, topic)' <=> News(q, r, topic)
  <2>1. peers'[q] = peers[q]
    BY DEF NewsArrives, ConferenceTypes
  <2>2. \A r : Informed(q, r)' <=> Informed(q, r)
    BY <1>1, <1>2, <2>1 DEF Informed, Dial, Api
  <2>. QED  BY <1>1, <2>2 DEF News
<1>6. CASE p \in conference
  <2>0. /\ \A q \in m.peers : (m.topic = "ccNewJoin") <=> Joining(q)
        /\ Waiting(p) = {} /\ Working(p) = {} /\ Staying(p)
    BY <1>0, <1>1, <1>6 DEF Tokens, TokensOf, Staying
  <2>1. /\ \A q : Informed(p, q) <=> q \in peers[p]
        /\ \A q : Informed(p, q)' <=> q \in peers'[p]
    BY <1>1, <1>2, <1>6, <2>0 DEF Informed
  <2>2. peers'[p] = IF m.topic = "ccNewJoin" THEN peers[p] \cup m.peers ELSE peers[p] \ m.peers
    BY <1>6 DEF NewsArrives, ConferenceTypes
  <2>3. ASSUME NEW q, q \in joined \/ Rejoining(q), Aware(p, q)
        PROVE  Aware(p, q)'
    <3>1. Joining(q)
      BY <2>3 DEF Joining, Rejoining, Dial
    <3>2. CASE Informed(p, q)
      BY <2>0, <2>1, <2>2, <3>1, <3>2 DEF Aware
    <3>3. ASSUME NEW n \in mqtt, n.to = p, n.topic = "ccNewJoin", q \in n.peers
          PROVE  Aware(p, q)'
      <4>1. CASE n = m
        BY <2>1, <2>2, <3>3, <4>1 DEF Aware
      <4>2. CASE n # m
        BY <1>1, <3>3, <4>2 DEF Aware, News
      <4>. QED  BY <4>1, <4>2
    <3>. QED  BY <2>3, <3>2, <3>3 DEF Aware, News
  <2>4. ASSUME NEW q \in Phone, Informed(p, q)', q \notin joined
        PROVE  Excused(p, q)'
    <3>1. CASE m.topic = "ccNewJoin" /\ q \in m.peers
      <4>1. PICK t \in Thread : Api(t) = "ccDial" /\ job[t].phone = q
        BY <2>0, <2>4, <3>1 DEF Joining
      <4>2. job[t].own
        <5>1. CASE ~job[t].own
          <6>1. job[t] \in CcTask
            BY <4>1 DEF ConferenceTypes, CcApi
          <6>2. t \in Working(q)
            BY <4>1, <5>1, <6>1 DEF Working, Drop, CcApi, CcTask
          <6>. QED  BY <1>0, <2>4, <6>2 DEF Tokens, TokensOf
        <5>. QED  BY <5>1
      <4>. QED  BY <1>2, <4>1, <4>2 DEF Excused, Rejoining, Dial
    <3>2. CASE ~(m.topic = "ccNewJoin" /\ q \in m.peers)
      <4>1. Informed(p, q) /\ (m.topic = "ccCallDrop" => q \notin m.peers)
        BY <1>1, <2>1, <2>2, <2>4, <3>2 DEF CcTopic
      <4>2. Excused(p, q)
        BY <1>0, <2>0, <2>4, <4>1 DEF GoneKnown
      <4>3. News(p, q, "ccCallDrop") => News(p, q, "ccCallDrop")'
        BY <1>1, <4>1 DEF News
      <4>. QED  BY <1>2, <4>2, <4>3 DEF Excused
    <3>. QED  BY <3>1, <3>2
  <2>5. MembersKnown'
    <3>1. ASSUME NEW q \in Phone, NEW r \in Phone, Staying(q)', r \in joined', Aware(q, r)
          PROVE  Aware(q, r)'
      BY <1>1, <1>5, <2>3, <3>1 DEF Aware
    <3>. QED  BY <1>0, <1>1, <1>4, <3>1, MembersStay
  <2>6. GoneKnown'
    <3>1. ASSUME NEW q \in Phone, NEW r \in Phone, Staying(q)', r \notin joined',
                 Informed(q, r)'
          PROVE  Excused(q, r)'
      <4>1. CASE q = p
        BY <1>1, <2>4, <3>1, <4>1
      <4>2. CASE q # p
        BY <1>0, <1>1, <1>2, <1>4, <1>5, <3>1, <4>2 DEF GoneKnown, Excused
      <4>. QED  BY <4>1, <4>2
    <3>. QED  BY <3>1 DEF GoneKnown
  <2>7. NotItself'
    <3>1. \A q \in Phone : ~Informed(q, q)'
      BY <1>0, <1>1, <1>5, <2>1, <2>2 DEF NotItself
    <3>. QED  BY <1>0, <1>1, <3>1 DEF NotItself, Api
  <2>8. ASSUME NEW t \in Between, Dial(t) PROVE DialSection(t)'
    <3>1. DialSection(t) /\ t \in Thread /\ Api(t) \in CcApi
      BY <1>0, <2>8 DEF Sections, Between
    <3>. PICK q : q = job[t].phone
      OBVIOUS
    <3>2. Rejoining(q)
      BY <2>8, <3>1 DEF Rejoining, Between
    <3>3. \A r \in Phone : Aware(r, q) => Aware(r, q)'
      BY <1>5, <2>3, <3>2 DEF Aware
    <3>. QED  BY <1>1, <1>2, <1>4, <3>1, <3>3 DEF DialSection
  <2>9. Sections'
    BY <1>0, <1>1, <1>2, <2>8 DEF Sections, DropSection
  <2>. QED  BY <1>3, <2>5, <2>6, <2>7, <2>9 DEF Calm
<1>7. CASE p \notin conference
  <2>0. ~Staying(p)
    BY <1>0, <1>1, <1>7, StayingJoined
  <2>1. \A q : Informed(p, q)' <=> Informed(p, q)
    BY <1>1, <1>2, <1>7 DEF Informed, Dial, Api
  <2>2. ASSUME NEW q \in Phone, Staying(q)', NEW r
        PROVE  (Aware(q, r)' <=> Aware(q, r)) /\ (Excused(q, r)' <=> Excused(q, r))
    BY <1>2, <1>4, <1>5, <2>0, <2>2 DEF Aware, Excused
  <2>3. MembersKnown'
    BY <1>0, <1>1, <1>4, <2>2, MembersStay
  <2>4. GoneKnown'
    BY <1>0, <1>1, <1>4, <1>5, <2>1, <2>2, GoneStay
  <2>5. NotItself'
    <3>1. \A q \in Phone : ~Informed(q, q)'
      BY <1>0, <1>5, <2>1 DEF NotItself
    <3>. QED  BY <1>0, <1>1, <3>1 DEF NotItself, Api
  <2>6. ASSUME NEW t \in Between, Dial(t) PROVE DialSection(t)'
    <3>1. DialSection(t)
      BY <1>0, <2>6 DEF Sections, Between
    <3>. PICK q : q = job[t].phone
      OBVIOUS
    <3>. QED  BY <1>1, <1>2, <1>4, <2>2, <3>1 DEF DialSection
  <2>7. Sections'
    BY <1>0, <1>1, <1>2, <2>6 DEF Sections, DropSection
  <2>. QED  BY <1>3, <2>3, <2>4, <2>5, <2>7 DEF Calm
<1>. QED  BY <1>6, <1>7

-----------------------------------------------------------------------------
(* The threads of the server. *)

(* What the tasks of the other threads mean is as it was.                  *)
LEMMA OthersStay ==
  ASSUME ConferenceTypes, NEW t \in Thread, NEW k, job' = [job EXCEPT ![t] = k],
         NEW u \in Thread \ {t}
  PROVE  /\ job'[u] = job[u] /\ Api(u)' = Api(u)
         /\ Dial(u)' <=> Dial(u)
         /\ Drop(u)' <=> Drop(u)
         /\ u \in Between' <=> u \in Between
         /\ \A p : u \in Working(p)' <=> u \in Working(p)
BY OneTask DEF Dial, Drop, Between, Working

(* A step of a thread that is not between reading and writing and that     *)
(* leaves the phones and what they know alone.                             *)
LEMMA ThreadStays ==
  ASSUME ConferenceTypes, Calm, Tokens', NEW t \in Thread, NEW k,
         job' = [job EXCEPT ![t] = k], UNCHANGED <<mqtt, joined>>,
         \A q \in Phone : Staying(q)' <=> Staying(q),
         \A q, r \in Phone : Informed(q, r)' <=> Informed(q, r),
         \A q, r \in Phone : Leaving(q, r) => Leaving(q, r)',
         \A r \in Phone : Rejoining(r) => Rejoining(r)',
         t \notin Between', k.api \in CcApi => k.phone \notin k.untold,
         k.api = "ccDrop" => k.unread \/ k.phone \in k.ips
  PROVE  Calm'
<1>0. MembersKnown /\ GoneKnown /\ NotItself /\ Sections
  BY DEF Calm
<1>1. \A q, r, topic : News(q, r, topic)' <=> News(q, r, topic)
  BY DEF News
<1>2. \A q, r \in Phone : Aware(q, r)' <=> Aware(q, r)
  BY <1>1 DEF Aware
<1>3. \A q, r \in Phone : Excused(q, r) => Excused(q, r)'
  BY <1>1 DEF Excused
<1>4. MembersKnown' /\ GoneKnown'
  BY <1>0, <1>2, <1>3, MembersStay, GoneStay
<1>5. job'[t] = k /\ Api(t)' = k.api
  BY OneTask
<1>6. NotItself'
  <2>1. \A u \in Thread : Api(u)' \in CcApi => job'[u].phone \notin job'[u].untold
    BY <1>0, <1>5, OthersStay DEF NotItself
  <2>. QED  BY <1>0, <2>1 DEF NotItself
<1>7. ASSUME NEW u \in Thread, u \in Between', Dial(u)' PROVE DialSection(u)'
  <2>1. u # t
    BY <1>7
  <2>2. u \in Between /\ Dial(u) /\ job'[u] = job[u] /\ Api(u) \in CcApi
    BY <1>7, <2>1, OthersStay DEF Between
  <2>. PICK q \in Phone : q = job[u].phone
    BY <2>2 DEF ConferenceTypes, CcTask
  <2>3. DialSection(u)
    BY <1>0, <2>2 DEF Sections
  <2>4. \A v \in Between' : v = u
    <3>1. \A v \in Between' : v \in Thread \ {t}
      BY DEF Between
    <3>. QED  BY <2>3, <3>1, OthersStay DEF DialSection
  <2>. QED  BY <1>2, <2>2, <2>3, <2>4 DEF DialSection
<1>8. ASSUME NEW u \in Thread, u \in Between', Drop(u)' PROVE DropSection(u)'
  BY <1>0, <1>8, OthersStay DEF Sections, DropSection
<1>9. Sections'
  <2>1. \A u \in Thread : Drop(u)' /\ ~job'[u].unread => job'[u].phone \in job'[u].ips
    BY <1>0, <1>5, OthersStay DEF Sections, Drop
  <2>. QED  BY <1>7, <1>8, <2>1 DEF Sections
<1>. QED  BY <1>4, <1>6, <1>9 DEF Calm

(* A request that begins has yet to read; one for an end is still the only *)
(* one of its phone.                                                       *)
LEMMA TakeKeeps ==
  ASSUME ConferenceTypes, Calm, NEW t \in Thread, NEW m \in http, TakeRequest(t, m)
  PROVE  Calm'
<1>0. Tokens /\ MembersKnown /\ GoneKnown /\ NotItself /\ Sections
  BY DEF Calm
<1>. PICK k \in CcTask : /\ job' = [job EXCEPT ![t] = k]
                         /\ k.api = m.api /\ k.phone = m.phone
                         /\ k.unread /\ k.own /\ k.untold = {}
  BY TakenTask
<1>. PICK p \in Phone : p = m.phone
  BY DEF ConferenceTypes, CcPacket
<1>1. /\ UNCHANGED <<mqtt, joined, conference, peers>>
      /\ http' = http \ {m} /\ m.api \in CcApi
      /\ Api(t) \notin CcApi
      /\ job'[t] = k /\ Api(t)' = m.api
  <2>1. job[t] = Idle
    BY DEF TakeRequest
  <2>2. Api(t) \notin CcApi
    BY <2>1 DEF Api, Idle, CcApi
  <2>3. job'[t] = k /\ Api(t)' = k.api
    BY OneTask
  <2>. QED  BY <2>2, <2>3 DEF TakeRequest
<1>2. /\ t \notin Between /\ t \notin Between'
      /\ ~Dial(t) /\ ~Drop(t)
      /\ \A q : t \notin Working(q)
      /\ \A q : t \in Working(q)' <=> (q = p /\ m.api = "ccDrop")
  <2>1. t \notin Between /\ t \notin Between'
    BY <1>1 DEF Between
  <2>2. ~Dial(t) /\ ~Drop(t)
    BY <1>1 DEF Drop, Dial, CcApi
  <2>3. \A q : t \notin Working(q)
    BY <1>1 DEF Working
  <2>4. Drop(t)' <=> m.api = "ccDrop"
    BY <1>1 DEF Drop
  <2>5. job'[t].own = Drop(t)' <=> m.api = "ccDrop"
    BY <1>1, <2>4 DEF CcTask, Drop
  <2>6. \A q : t \in Working(q)' <=> (q = p /\ m.api = "ccDrop")
    BY <1>1, <2>5 DEF Working
  <2>. QED  BY <2>1, <2>2, <2>3, <2>6
<1>3. \A q : Working(q)' = Working(q) \cup (IF q = p /\ m.api = "ccDrop" THEN {t} ELSE {})
  <2>1. \A q : Working(q) \subseteq Thread /\ Working(q)' \subseteq Thread
    BY DEF Working
  <2>2. \A u \in Thread \ {t} : \A q : u \in Working(q)' <=> u \in Working(q)
    BY OthersStay
  <2>. QED  BY <1>2, <2>1, <2>2
<1>4. \A q : Waiting(q)' = IF q = p /\ m.api = "ccDrop" THEN Waiting(q) \ {m} ELSE Waiting(q)
  BY <1>1 DEF Waiting, CcApi
<1>5. m.api = "ccDrop" => Waiting(p) = {m} /\ Working(p) = {} /\ p \notin conference /\ p \in joined
  <2>1. m.api = "ccDrop" => m \in Waiting(p)
    BY DEF Waiting
  <2>. QED  BY <1>0, <2>1 DEF Tokens, TokensOf
<1>6. Tokens'
  <2>1. ASSUME NEW q \in Phone PROVE TokensOf(q)'
    <3>1. CASE q = p /\ m.api = "ccDrop"
      BY <1>1, <1>3, <1>4, <1>5, <3>1 DEF TokensOf
    <3>2. CASE ~(q = p /\ m.api = "ccDrop")
      BY <1>0, <1>1, <1>3, <1>4, <3>2 DEF Tokens, TokensOf
    <3>. QED  BY <3>1, <3>2
  <2>. QED  BY <2>1 DEF Tokens
<1>7. ASSUME NEW q \in Phone
      PROVE  /\ Staying(q)' <=> Staying(q)
             /\ \A r : Informed(q, r)' <=> Informed(q, r)
  <2>1. CASE q = p /\ m.api = "ccDrop"
    <3>1. Waiting(q)' = {} /\ Working(q)' = {t} /\ ~Dial(t)'
      BY <1>1, <1>3, <1>4, <1>5, <2>1 DEF Dial
    <3>. QED  BY <1>1, <1>5, <2>1, <3>1 DEF Staying, Informed
  <2>2. CASE ~(q = p /\ m.api = "ccDrop")
    <3>1. Waiting(q)' = Waiting(q) /\ Working(q)' = Working(q)
      BY <1>3, <1>4, <2>2
    <3>2. \A u \in Working(q) : Dial(u)' = Dial(u) /\ job'[u].ips = job[u].ips
      <4>1. \A u \in Working(q) : u \in Thread \ {t}
        BY <1>2 DEF Working
      <4>. QED  BY <4>1, OthersStay DEF Dial
    <3>. QED  BY <1>1, <3>1, <3>2, KnowledgeStays
  <2>. QED  BY <2>1, <2>2
<1>8. /\ \A q, r, topic : News(q, r, topic)' <=> News(q, r, topic)
      /\ \A q, r : Leaving(q, r) => Leaving(q, r)'
      /\ \A q : Rejoining(q) => Rejoining(q)'
  <2>1. \A u \in Thread : Drop(u) \/ Dial(u) => u # t
    BY <1>2
  <2>. QED  BY <1>1, <2>1, OthersStay DEF News, Leaving, Rejoining
<1>. QED  BY <1>0, <1>1, <1>2, <1>3, <1>6, <1>7, <1>8, ThreadStays

(* Nobody is between reading and writing when a start reads, and no start  *)
(* when an end reads: what is read is what will be there when it writes.   *)
LEMMA ReadKeeps ==
  ASSUME ConferenceTypes, Calm, NEW t \in Thread, ReadMembers(t), upset' = {}
  PROVE  Calm'
<1>0. Tokens /\ MembersKnown /\ GoneKnown /\ NotItself /\ Sections
  BY DEF Calm
<1>. PICK k \in CcTask : /\ job' = [job EXCEPT ![t] = k]
                         /\ k.api = job[t].api /\ k.phone = job[t].phone
                         /\ ~k.unread /\ k.own /\ k.ips = joined
                         /\ k.untold = IF Dial(t) THEN joined ELSE joined \ {job[t].phone}
  BY ReadTask
<1>1. /\ UNCHANGED <<mqtt, joined, conference, peers, http>>
      /\ Api(t) \in CcApi /\ job[t] \in CcTask
      /\ job[t].unread /\ job[t].own /\ job[t].untold = {}
      /\ job'[t] = k /\ Api(t)' = Api(t)
  BY OneTask DEF ReadMembers, ConferenceTypes, Api
<1>2. /\ Dial(t)' <=> Dial(t)
      /\ Drop(t)' <=> Drop(t)
      /\ Dial(t) \/ Drop(t)
      /\ ~(Dial(t) /\ Drop(t))
  BY <1>1 DEF Dial, Drop, CcApi
<1>. PICK p \in Phone : p = job[t].phone
  BY <1>1 DEF CcTask
<1>3. /\ \A u \in Between : ~Dial(u) /\ (Dial(t) => FALSE)
      /\ Dial(t) => p \notin joined
  BY DEF ReadMembers, Dial
<1>4. \A q : Working(q)' = Working(q)
  <2>1. job'[t].phone = job[t].phone /\ job'[t].own = job[t].own
    BY <1>1 DEF CcTask
  <2>2. \A u \in Thread \ {t} : job'[u] = job[u]
    BY OthersStay
  <2>3. \A u \in Thread : \/ job'[u] = job[u]
                          \/ /\ Api(u)' = Api(u)
                             /\ job'[u].phone = job[u].phone /\ job'[u].own = job[u].own
    BY <1>1, <2>1, <2>2
  <2>. QED  BY <2>3, WorkingStays
<1>5. \A q : Waiting(q)' = Waiting(q)
  BY <1>1 DEF Waiting
<1>6. Tokens'
  BY <1>0, <1>1, <1>4, <1>5, TokensStay
<1>7. ASSUME NEW q \in Phone
      PROVE  /\ Staying(q)' <=> Staying(q)
             /\ \A r : Informed(q, r)' <=> Informed(q, r)
  <2>1. ASSUME NEW u \in Working(q)
        PROVE  Dial(u)' = Dial(u) /\ (Dial(u) => job'[u].ips = job[u].ips)
    <3>1. u = t => ~Dial(t)
      BY <1>1, <1>2 DEF Working
    <3>2. u \in Thread
      BY DEF Working
    <3>3. CASE u = t
      BY <1>1, <3>1, <3>3 DEF Dial
    <3>4. CASE u # t
      BY <3>2, <3>4, OthersStay DEF Dial
    <3>. QED  BY <3>3, <3>4
  <2>. QED  BY <1>1, <1>4, <1>5, <2>1, KnowledgeStays
<1>8. /\ \A q, r, topic : News(q, r, topic)' <=> News(q, r, topic)
      /\ \A q, r \in Phone : Leaving(q, r) => Leaving(q, r)'
      /\ \A r \in Phone : Rejoining(r) => Rejoining(r)'
  <2>1. \A q, r, topic : News(q, r, topic)' <=> News(q, r, topic)
    BY <1>1 DEF News
  <2>2. \A q, r \in Phone : Leaving(q, r) => Leaving(q, r)'
    BY <1>1, OthersStay DEF Leaving
  <2>3. \A r \in Phone : Rejoining(r) => Rejoining(r)'
    BY <1>1, <1>2, OthersStay DEF Rejoining
  <2>. QED  BY <2>1, <2>2, <2>3
<1>9. \A q, r \in Phone : (Aware(q, r)' <=> Aware(q, r)) /\ (Excused(q, r) => Excused(q, r)')
  BY <1>7, <1>8 DEF Aware, Excused
<1>10. MembersKnown' /\ GoneKnown'
  BY <1>0, <1>1, <1>7, <1>9, MembersStay, GoneStay
<1>11. p \notin k.untold
  BY <1>2, <1>3
<1>12. NotItself'
  <2>1. \A u \in Thread : Api(u)' \in CcApi => job'[u].phone \notin job'[u].untold
    BY <1>0, <1>1, <1>11, OthersStay DEF NotItself
  <2>. QED  BY <1>0, <1>1, <1>7, <2>1 DEF NotItself
<1>13. CASE Dial(t)
  <2>1. /\ k.ips = joined /\ k.untold = joined /\ p \notin joined
        /\ Between = {}
    BY <1>3, <1>13
  <2>2. \A u \in Between' : u = t
    <3>1. \A u \in Between' : u \in Thread
      BY DEF Between
    <3>. QED  BY <2>1, <3>1, OthersStay
  <2>3. \A q \in Phone : Staying(q)' => q \in joined
    BY <1>0, <1>7, StayingJoined
  <2>4. DialSection(t)'
    BY <1>1, <2>1, <2>2, <2>3 DEF DialSection
  <2>5. \A u \in Thread : Drop(u)' => u # t
    BY <1>2, <1>13
  <2>. QED  BY <1>0, <1>2, <1>6, <1>10, <1>12, <2>2, <2>4, <2>5, OthersStay DEF Calm, Sections
<1>14. CASE Drop(t)
  <2>1. p \in joined
    <3>1. t \in Working(p)
      BY <1>1, <1>14 DEF Working
    <3>. QED  BY <1>0, <3>1 DEF Tokens, TokensOf
  <2>2. DropSection(t)' /\ k.phone \in k.ips
    BY <1>1, <1>2, <1>14, <2>1 DEF DropSection
  <2>3. \A u \in Thread : u \in Between' => ~Dial(u)'
    BY <1>2, <1>3, <1>14, OthersStay
  <2>4. ASSUME NEW u \in Thread, u \in Between', Drop(u)' PROVE DropSection(u)'
    <3>1. CASE u = t
      BY <2>2, <3>1
    <3>2. CASE u # t
      <4>1. u \in Between /\ Drop(u) /\ job'[u] = job[u]
        BY <2>4, <3>2, OthersStay
      <4>. QED  BY <1>0, <1>1, <4>1 DEF Sections, DropSection
    <3>. QED  BY <3>1, <3>2
  <2>5. \A u \in Thread : Drop(u)' /\ ~job'[u].unread => job'[u].phone \in job'[u].ips
    BY <1>0, <1>1, <2>2, OthersStay DEF Sections
  <2>. QED  BY <1>6, <1>10, <1>12, <2>3, <2>4, <2>5 DEF Calm, Sections
<1>. QED  BY <1>2, <1>13, <1>14

(* One more member is told.                                                *)
LEMMA TellKeeps ==
  ASSUME ConferenceTypes, Calm, NEW t \in Thread, TellMember(t)
  PROVE  Calm'
<1>0. Tokens /\ MembersKnown /\ GoneKnown /\ NotItself /\ Sections
  BY DEF Calm
<1>. PICK k \in CcTask, to \in job[t].untold :
       /\ job' = [job EXCEPT ![t] = k]
       /\ k.api = job[t].api /\ k.phone = job[t].phone /\ k.unread = job[t].unread
       /\ k.own = job[t].own /\ k.ips = job[t].ips
       /\ k.untold = job[t].untold \ {to}
       /\ Publish(to, IF Dial(t) THEN "ccNewJoin" ELSE "ccCallDrop",
                  IF Dial(t) THEN {job[t].phone} ELSE {job[t].phone} \cap job[t].ips,
                  job[t].id)
  BY TellTask
<1>1. /\ UNCHANGED <<joined, conference, peers, http>>
      /\ Api(t) \in CcApi /\ job[t] \in CcTask /\ ~job[t].unread
      /\ Api(t) = "ccDrop" => ~job[t].own
      /\ job'[t] = k /\ Api(t)' = Api(t)
  BY OneTask DEF TellMember, ConferenceTypes, Api, meeting
<1>2. /\ Dial(t)' <=> Dial(t)
      /\ Drop(t)' <=> Drop(t)
      /\ Dial(t) \/ Drop(t)
      /\ ~(Dial(t) /\ Drop(t))
      /\ Drop(t) => ~job[t].own
  BY <1>1 DEF Dial, Drop, CcApi
<1>. PICK p \in Phone : p = job[t].phone
  BY <1>1 DEF CcTask
<1>3. to # p /\ (Drop(t) => p \in job[t].ips)
  BY <1>0, <1>1 DEF NotItself, Sections
<1>. PICK n : n = [to |-> to, topic |-> IF Dial(t) THEN "ccNewJoin" ELSE "ccCallDrop",
                   peers |-> IF Dial(t) THEN {job[t].phone} ELSE {job[t].phone} \cap job[t].ips,
                   id |-> job[t].id]
  OBVIOUS
<1>4. /\ mqtt' = mqtt \cup {n}
      /\ n.to = to /\ n.topic = (IF Dial(t) THEN "ccNewJoin" ELSE "ccCallDrop")
      /\ n.peers = {p}
  BY <1>2, <1>3 DEF Publish
<1>5. /\ \A q, r, topic : News(q, r, topic) => News(q, r, topic)'
      /\ News(to, p, IF Dial(t) THEN "ccNewJoin" ELSE "ccCallDrop")'
  <2>1. n \in mqtt' /\ \A m \in mqtt : m \in mqtt'
    BY <1>4
  <2>2. \A q, r, topic : News(q, r, topic) => News(q, r, topic)'
    BY <2>1 DEF News
  <2>3. p \in n.peers
    BY <1>4
  <2>4. News(to, p, n.topic)'
    BY <1>4, <2>1, <2>3 DEF News
  <2>. QED  BY <1>2, <1>4, <2>2, <2>4
<1>6. \A q : Working(q)' = Working(q) /\ Waiting(q)' = Waiting(q)
  <2>1. job'[t].phone = job[t].phone /\ job'[t].own = job[t].own
    BY <1>1
  <2>2. \A u \in Thread \ {t} : job'[u] = job[u]
    BY OthersStay
  <2>3. \A u \in Thread : \/ job'[u] = job[u]
                          \/ /\ Api(u)' = Api(u)
                             /\ job'[u].phone = job[u].phone /\ job'[u].own = job[u].own
    BY <1>1, <2>1, <2>2
  <2>. QED  BY <1>1, <2>3, WorkingStays DEF Waiting
<1>7. Tokens'
  BY <1>0, <1>1, <1>6, TokensStay
<1>8. ASSUME NEW q \in Phone
      PROVE  /\ Staying(q)' <=> Staying(q)
             /\ \A r : Informed(q, r)' <=> Informed(q, r)
  <2>1. ASSUME NEW u \in Working(q)
        PROVE  Dial(u)' = Dial(u) /\ job'[u].ips = job[u].ips
    <3>1. CASE u = t
      BY <1>1, <3>1 DEF Dial
    <3>2. CASE u # t
      <4>1. u \in Thread \ {t}
        BY <3>2 DEF Working
      <4>. QED  BY <4>1, OthersStay DEF Dial
    <3>. QED  BY <3>1, <3>2
  <2>. QED  BY <1>1, <1>6, <2>1, KnowledgeStays
<1>9. \A q, r \in Phone : Aware(q, r) => Aware(q, r)'
  BY <1>5, <1>8 DEF Aware
<1>10. ASSUME NEW q \in Phone, NEW r \in Phone, Excused(q, r) PROVE Excused(q, r)'
  <2>1. ASSUME NEW u \in Thread, Drop(u), ~job[u].own, job[u].phone = r, q \in job[u].untold
        PROVE  Excused(q, r)'
    <3>1. CASE u = t /\ q = to
      <4>1. News(q, r, "ccCallDrop")'
        BY <1>2, <1>5, <2>1, <3>1
      <4>. QED  BY <4>1 DEF Excused
    <3>2. CASE u = t /\ q # to
      <4>1. Leaving(q, r)'
        BY <1>1, <1>2, <2>1, <3>2 DEF Leaving
      <4>. QED  BY <4>1 DEF Excused
    <3>3. CASE u # t
      <4>1. Leaving(q, r)'
        BY <2>1, <3>3, OthersStay, ZenonT(30) DEF Leaving
      <4>. QED  BY <4>1 DEF Excused
    <3>. QED  BY <3>1, <3>2, <3>3
  <2>2. Rejoining(r) => Rejoining(r)'
    BY <1>1, <1>2, OthersStay DEF Rejoining
  <2>. QED  BY <1>5, <1>10, <2>1, <2>2 DEF Excused, Leaving
<1>11. MembersKnown' /\ GoneKnown'
  BY <1>0, <1>1, <1>8, <1>9, <1>10, MembersStay, GoneStay
<1>12. NotItself'
  <2>1. \A u \in Thread : Api(u)' \in CcApi => job'[u].phone \notin job'[u].untold
    BY <1>0, <1>1, OthersStay DEF NotItself
  <2>2. \A m \in mqtt' : m.topic \in CcTopic => m.to \notin m.peers
    BY <1>0, <1>3, <1>4 DEF NotItself
  <2>3. \A q \in Phone : ~Informed(q, q)'
    BY <1>0, <1>8 DEF NotItself
  <2>. QED  BY <2>1, <2>2, <2>3 DEF NotItself
<1>13. \A u \in Thread : u \in Between' <=> u \in Between
  BY <1>1, OthersStay DEF Between
<1>14. ASSUME NEW u \in Thread, u \in Between', Dial(u)' PROVE DialSection(u)'
  <2>1. DialSection(u) /\ Api(u) \in CcApi /\ u \in Between
    BY <1>0, <1>2, <1>13, <1>14, OthersStay DEF Sections, Between
  <2>. PICK r \in Phone : r = job[u].phone
    BY <2>1 DEF ConferenceTypes, CcTask
  <2>2. job'[u].phone = r /\ job'[u].ips = job[u].ips
    BY <1>1, OthersStay
  <2>3. ASSUME NEW q \in Phone, Staying(q)'
        PROVE  q \in job'[u].untold \/ Aware(q, r)'
    <3>1. q \in job[u].untold \/ Aware(q, r)
      BY <1>8, <2>1, <2>3 DEF DialSection
    <3>2. CASE u = t /\ q = to
      <4>1. News(q, r, "ccNewJoin")'
        BY <1>2, <1>5, <1>14, <3>2
      <4>. QED  BY <4>1 DEF Aware
    <3>3. CASE ~(u = t /\ q = to)
      BY <1>1, <1>9, <3>1, <3>3, OthersStay
    <3>. QED  BY <3>2, <3>3
  <2>4. \A v \in Between' : v = u
    <3>1. \A v \in Between' : v \in Between
      BY <1>13 DEF Between
    <3>. QED  BY <2>1, <3>1 DEF DialSection
  <2>. QED  BY <1>1, <2>1, <2>2, <2>3, <2>4 DEF DialSection
<1>15. ASSUME NEW u \in Thread, u \in Between', Drop(u)' PROVE DropSection(u)'
  <2>1. u # t
    BY <1>1, <1>2, <1>15 DEF Between
  <2>2. u \in Between /\ Drop(u) /\ job'[u] = job[u]
    BY <1>15, <2>1, OthersStay
  <2>. QED  BY <1>0, <1>1, <2>2 DEF Sections, DropSection
<1>16. \A u \in Thread : Drop(u)' /\ ~job'[u].unread => job'[u].phone \in job'[u].ips
  BY <1>0, <1>1, <1>2, OthersStay DEF Sections
<1>. QED  BY <1>7, <1>11, <1>12, <1>14, <1>15, <1>16 DEF Calm, Sections

(* The sender becomes a member when all that stay are aware of it.         *)
LEMMA AddKeeps ==
  ASSUME ConferenceTypes, Calm, NEW t \in Thread, AddMember(t)
  PROVE  Calm'
<1>0. Tokens /\ MembersKnown /\ GoneKnown /\ NotItself /\ Sections
  BY DEF Calm
<1>. PICK k \in CcTask : /\ job' = [job EXCEPT ![t] = k]
                         /\ k.api = job[t].api /\ k.phone = job[t].phone
                         /\ ~job[t].unread /\ ~k.unread /\ job[t].own /\ ~k.own
                         /\ k.untold = job[t].untold /\ k.ips = job[t].ips
  BY WriteTask
<1>a. job[t] \in CcTask /\ Api(t) = "ccDial"
  BY DEF AddMember, ConferenceTypes, CcApi
<1>. PICK p \in Phone : p = job[t].phone
  BY <1>a DEF CcTask
<1>1. /\ UNCHANGED <<mqtt, conference, peers, http>>
      /\ joined' = joined \cup {p}
      /\ job[t].untold = {}
      /\ job'[t] = k /\ Api(t)' = "ccDial"
  BY <1>a, OneTask DEF AddMember, Api
<1>2. Dial(t) /\ Dial(t)' /\ ~Drop(t) /\ ~Drop(t)'
  BY <1>a, <1>1 DEF Dial, Drop
<1>3. /\ t \in Between /\ t \notin Between'
      /\ p \notin joined /\ job[t].ips = joined
      /\ \A u \in Between : u = t
      /\ \A q \in Phone : Staying(q) => Aware(q, p)
  <2>1. t \in Between /\ t \notin Between'
    BY <1>a, <1>1 DEF Between, CcApi
  <2>2. DialSection(t)
    BY <1>0, <1>2, <2>1 DEF Sections
  <2>. QED  BY <1>1, <2>1, <2>2 DEF DialSection
<1>4. Waiting(p) = {} /\ Working(p) = {} /\ p \notin conference
  BY <1>0, <1>3 DEF Tokens, TokensOf
<1>5. /\ \A q : Waiting(q)' = Waiting(q)
      /\ Working(p)' = {t}
      /\ \A q \in Phone \ {p} : t \notin Working(q) /\ Working(q)' = Working(q)
  <2>1. \A q : t \notin Working(q)
    BY <1>2 DEF Working
  <2>2. \A q : t \in Working(q)' <=> q = p
    <3>1. job'[t].own = Drop(t)'
      BY <1>1, <1>2 DEF CcTask, Drop
    <3>2. Api(t)' \in CcApi /\ job'[t].phone = p
      BY <1>1 DEF CcApi
    <3>. QED  BY <3>1, <3>2 DEF Working
  <2>3. \A q : Working(q) \subseteq Thread /\ Working(q)' \subseteq Thread
    BY DEF Working
  <2>4. \A u \in Thread \ {t} : \A q : u \in Working(q)' <=> u \in Working(q)
    BY OthersStay
  <2>5. \A q : Waiting(q)' = Waiting(q)
    BY <1>1 DEF Waiting
  <2>6. Working(p)' = {t}
    BY <1>4, <2>2, <2>3, <2>4
  <2>7. \A q \in Phone \ {p} : Working(q)' = Working(q)
    BY <2>1, <2>2, <2>3, <2>4
  <2>. QED  BY <2>1, <2>5, <2>6, <2>7
<1>6. Tokens'
  <2>1. ASSUME NEW q \in Phone PROVE TokensOf(q)'
    <3>1. CASE q = p
      BY <1>1, <1>4, <1>5, <3>1 DEF TokensOf
    <3>2. CASE q # p
      BY <1>0, <1>1, <1>5, <3>2 DEF Tokens, TokensOf
    <3>. QED  BY <3>1, <3>2
  <2>. QED  BY <2>1 DEF Tokens
<1>7. Staying(p)' /\ \A q : Informed(p, q)' <=> q \in joined
  BY <1>1, <1>2, <1>3, <1>4, <1>5 DEF Staying, Informed
<1>8. ASSUME NEW q \in Phone \ {p}
      PROVE  /\ Staying(q)' <=> Staying(q)
             /\ \A r : Informed(q, r)' <=> Informed(q, r)
  <2>1. ASSUME NEW u \in Working(q)
        PROVE  Dial(u)' = Dial(u) /\ job'[u].ips = job[u].ips
    <3>1. u \in Thread \ {t}
      BY <1>5 DEF Working
    <3>. QED  BY <3>1, OthersStay DEF Dial
  <2>. QED  BY <1>1, <1>5, <2>1, KnowledgeStays
<1>9. /\ \A q, r, topic : News(q, r, topic)' <=> News(q, r, topic)
      /\ \A q, r : Leaving(q, r) => Leaving(q, r)'
      /\ \A r \in Phone \ {p} : Rejoining(r) => Rejoining(r)'
  <2>1. \A q, r, topic : News(q, r, topic)' <=> News(q, r, topic)
    BY <1>1 DEF News
  <2>2. \A q, r : Leaving(q, r) => Leaving(q, r)'
    BY <1>2, OthersStay, ZenonT(30) DEF Leaving
  <2>3. \A r \in Phone \ {p} : Rejoining(r) => Rejoining(r)'
    BY OthersStay DEF Rejoining
  <2>. QED  BY <2>1, <2>2, <2>3
<1>10. \A q \in Phone \ {p} : \A r \in Phone :
         /\ Aware(q, r)' <=> Aware(q, r)
         /\ r # p /\ Excused(q, r) => Excused(q, r)'
  BY <1>8, <1>9 DEF Aware, Excused
<1>11. MembersKnown'
  <2>1. ASSUME NEW q \in Phone, NEW r \in Phone, q # r, Staying(q)', r \in joined'
        PROVE  Aware(q, r)'
    <3>1. CASE q = p
      BY <1>1, <1>7, <2>1, <3>1 DEF Aware
    <3>2. CASE q # p
      <4>1. Staying(q) /\ (Aware(q, r)' <=> Aware(q, r))
        BY <1>8, <1>10, <2>1, <3>2
      <4>2. CASE r = p
        BY <1>3, <4>1, <4>2
      <4>3. CASE r # p
        BY <1>0, <1>1, <2>1, <4>1, <4>3 DEF MembersKnown
      <4>. QED  BY <4>2, <4>3
    <3>. QED  BY <3>1, <3>2
  <2>. QED  BY <2>1 DEF MembersKnown
<1>12. GoneKnown'
  <2>1. ASSUME NEW q \in Phone, NEW r \in Phone, Staying(q)', r \notin joined', Informed(q, r)'
        PROVE  Excused(q, r)'
    <3>1. r # p /\ r \notin joined
      BY <1>1, <2>1
    <3>2. q # p
      BY <1>7, <2>1, <3>1
    <3>3. Excused(q, r)
      BY <1>0, <1>8, <2>1, <3>1, <3>2 DEF GoneKnown
    <3>. QED  BY <1>10, <3>1, <3>2, <3>3
  <2>. QED  BY <2>1 DEF GoneKnown
<1>13. NotItself'
  <2>1. \A u \in Thread : Api(u)' \in CcApi => job'[u].phone \notin job'[u].untold
    BY <1>0, <1>1, OthersStay DEF NotItself
  <2>2. \A q \in Phone : ~Informed(q, q)'
    BY <1>0, <1>3, <1>7, <1>8 DEF NotItself
  <2>. QED  BY <1>0, <1>1, <2>1, <2>2 DEF NotItself
<1>14. \A u \in Thread : u \notin Between'
  BY <1>3, OthersStay
<1>15. \A u \in Thread : Drop(u)' /\ ~job'[u].unread => job'[u].phone \in job'[u].ips
  BY <1>0, <1>2, OthersStay DEF Sections
<1>. QED  BY <1>6, <1>11, <1>12, <1>13, <1>14, <1>15 DEF Calm, Sections

(* The sender is no member any more, and all that stay are told.           *)
LEMMA RemoveKeeps ==
  ASSUME ConferenceTypes, Calm, NEW t \in Thread, RemoveMember(t)
  PROVE  Calm'
<1>0. Tokens /\ MembersKnown /\ GoneKnown /\ NotItself /\ Sections
  BY DEF Calm
<1>. PICK k \in CcTask : /\ job' = [job EXCEPT ![t] = k]
                         /\ k.api = job[t].api /\ k.phone = job[t].phone
                         /\ ~job[t].unread /\ ~k.unread /\ job[t].own /\ ~k.own
                         /\ k.untold = job[t].untold /\ k.ips = job[t].ips
  BY WriteTask
<1>a. job[t] \in CcTask /\ Api(t) = "ccDrop"
  BY DEF RemoveMember, ConferenceTypes, CcApi
<1>. PICK p \in Phone : p = job[t].phone
  BY <1>a DEF CcTask
<1>1. /\ UNCHANGED <<mqtt, conference, peers, http>>
      /\ joined' = joined \ ({p} \cap job[t].ips)
      /\ job'[t] = k /\ Api(t)' = "ccDrop"
  BY <1>a, OneTask DEF RemoveMember, Api
<1>2. ~Dial(t) /\ ~Dial(t)' /\ Drop(t) /\ Drop(t)'
  BY <1>a, <1>1 DEF Dial, Drop
<1>3. /\ t \in Between /\ t \notin Between'
      /\ joined \subseteq job[t].ips /\ job[t].untold = job[t].ips \ {p}
      /\ p \in job[t].ips /\ joined' = joined \ {p}
      /\ \A u \in Between : ~Dial(u)
  <2>1. t \in Between /\ t \notin Between'
    BY <1>a, <1>1 DEF Between, CcApi
  <2>2. DropSection(t) /\ p \in job[t].ips
    BY <1>0, <1>2, <2>1 DEF Sections
  <2>3. \A u \in Between : ~Dial(u)
    BY <1>0, <1>2, <2>1 DEF Sections, DialSection, Between
  <2>. QED  BY <1>1, <2>1, <2>2, <2>3 DEF DropSection
<1>4. Working(p) = {t} /\ Waiting(p) = {} /\ p \notin conference
  <2>1. t \in Working(p)
    BY <1>a, <1>2 DEF Working, CcApi
  <2>. QED  BY <1>0, <2>1 DEF Tokens, TokensOf
<1>5. /\ \A q : Waiting(q)' = Waiting(q)
      /\ Working(p)' = {}
      /\ \A q \in Phone \ {p} : t \notin Working(q) /\ Working(q)' = Working(q)
  <2>1. \A q : q # p => t \notin Working(q)
    BY DEF Working
  <2>2. \A q : t \notin Working(q)'
    BY <1>1, <1>2 DEF Working
  <2>3. \A q : Working(q) \subseteq Thread /\ Working(q)' \subseteq Thread
    BY DEF Working
  <2>4. \A u \in Thread \ {t} : \A q : u \in Working(q)' <=> u \in Working(q)
    BY OthersStay
  <2>5. \A q : Waiting(q)' = Waiting(q)
    BY <1>1 DEF Waiting
  <2>6. Working(p)' = {}
    BY <1>4, <2>2, <2>3, <2>4
  <2>7. \A q \in Phone \ {p} : Working(q)' = Working(q)
    BY <2>1, <2>2, <2>3, <2>4
  <2>. QED  BY <2>1, <2>5, <2>6, <2>7
<1>6. Tokens'
  <2>1. ASSUME NEW q \in Phone PROVE TokensOf(q)'
    <3>1. CASE q = p
      BY <1>1, <1>3, <1>4, <1>5, <3>1 DEF TokensOf
    <3>2. CASE q # p
      BY <1>0, <1>1, <1>3, <1>5, <3>2 DEF Tokens, TokensOf
    <3>. QED  BY <3>1, <3>2
  <2>. QED  BY <2>1 DEF Tokens
<1>7. /\ ~Staying(p) /\ ~Staying(p)'
      /\ \A q : ~Informed(p, q) /\ ~Informed(p, q)'
  BY <1>1, <1>2, <1>4, <1>5 DEF Staying, Informed
<1>8. ASSUME NEW q \in Phone
      PROVE  /\ Staying(q)' <=> Staying(q)
             /\ \A r : Informed(q, r)' <=> Informed(q, r)
  <2>1. CASE q = p
    BY <1>7, <2>1
  <2>2. CASE q # p
    <3>1. ASSUME NEW u \in Working(q)
          PROVE  Dial(u)' = Dial(u) /\ job'[u].ips = job[u].ips
      <4>1. u \in Thread \ {t}
        BY <1>5, <2>2 DEF Working
      <4>. QED  BY <4>1, OthersStay DEF Dial
    <3>. QED  BY <1>1, <1>5, <2>2, <3>1, KnowledgeStays
  <2>. QED  BY <2>1, <2>2
<1>9. /\ \A q, r, topic : News(q, r, topic)' <=> News(q, r, topic)
      /\ \A q, r : Leaving(q, r) => Leaving(q, r)'
      /\ \A r : Rejoining(r) => Rejoining(r)'
  <2>1. \A q, r, topic : News(q, r, topic)' <=> News(q, r, topic)
    BY <1>1 DEF News
  <2>2. \A q, r : Leaving(q, r) => Leaving(q, r)'
    BY OthersStay DEF Leaving
  <2>3. \A r : Rejoining(r) => Rejoining(r)'
    BY <1>2, OthersStay, ZenonT(30) DEF Rejoining
  <2>. QED  BY <2>1, <2>2, <2>3
<1>10. \A q, r \in Phone : /\ Aware(q, r)' <=> Aware(q, r)
                           /\ Excused(q, r) => Excused(q, r)'
  BY <1>8, <1>9 DEF Aware, Excused
<1>11. MembersKnown'
  BY <1>0, <1>3, <1>8, <1>10, MembersStay
<1>12. GoneKnown'
  <2>1. ASSUME NEW q \in Phone, NEW r \in Phone, Staying(q)', r \notin joined', Informed(q, r)'
        PROVE  Excused(q, r)'
    <3>0. Staying(q) /\ Informed(q, r) /\ q # p
      BY <1>7, <1>8, <2>1
    <3>1. CASE r = p
      <4>1. q \in joined
        BY <1>0, <3>0, StayingJoined
      <4>2. q \in job'[t].untold /\ ~job'[t].own /\ job'[t].phone = r
        BY <1>1, <1>3, <3>0, <3>1, <4>1
      <4>. QED  BY <1>2, <4>2 DEF Excused, Leaving
    <3>2. CASE r # p
      <4>1. Excused(q, r)
        BY <1>0, <1>3, <2>1, <3>0, <3>2 DEF GoneKnown
      <4>. QED  BY <1>10, <4>1
    <3>. QED  BY <3>1, <3>2
  <2>. QED  BY <2>1 DEF GoneKnown
<1>13. NotItself'
  <2>a. job'[t].phone \notin job'[t].untold
    BY <1>1, <1>3
  <2>b. \A u \in Thread \ {t} : Api(u)' \in CcApi => job'[u].phone \notin job'[u].untold
    BY <1>0, OthersStay DEF NotItself
  <2>1. \A u \in Thread : Api(u)' \in CcApi => job'[u].phone \notin job'[u].untold
    BY <2>a, <2>b
  <2>2. \A q \in Phone : ~Informed(q, q)'
    BY <1>0, <1>8 DEF NotItself
  <2>. QED  BY <1>0, <1>1, <2>1, <2>2 DEF NotItself
<1>14. ASSUME NEW u \in Thread, u \in Between'
       PROVE  ~Dial(u)' /\ (Drop(u)' => DropSection(u)')
  <2>1. u # t
    BY <1>3, <1>14
  <2>2. u \in Between /\ (Dial(u)' <=> Dial(u)) /\ (Drop(u)' <=> Drop(u)) /\ job'[u] = job[u]
    BY <1>14, <2>1, OthersStay
  <2>. QED  BY <1>0, <1>3, <2>2 DEF Sections, DropSection
<1>15. \A u \in Thread : Drop(u)' /\ ~job'[u].unread => job'[u].phone \in job'[u].ips
  BY <1>0, <1>1, <1>3, OthersStay, ZenonT(30) DEF Sections
<1>. QED  BY <1>6, <1>11, <1>12, <1>13, <1>14, <1>15 DEF Calm, Sections

(* The answer to a start is what the phone will know.                      *)
LEMMA AnswerKeeps ==
  ASSUME ConferenceTypes, Calm, NEW t \in Thread, AnswerPhone(t)
  PROVE  Calm'
<1>0. Tokens /\ MembersKnown /\ GoneKnown /\ NotItself /\ Sections
  BY DEF Calm
<1>a. job[t] \in CcTask /\ Api(t) \in CcApi
  BY DEF AnswerPhone, ConferenceTypes
<1>. PICK p \in Phone : p = job[t].phone
  BY <1>a DEF CcTask
<1>. PICK n : n = Packet(IF Dial(t) THEN "joined" ELSE "stop", p, job[t].ips, job[t].id)
  OBVIOUS
<1>1. /\ UNCHANGED <<mqtt, joined, conference, peers>>
      /\ http' = http \cup {n}
      /\ n.phone = p /\ n.api = (IF Dial(t) THEN "joined" ELSE "stop") /\ n.peers = job[t].ips
      /\ ~job[t].own /\ job[t].untold = {}
      /\ job' = [job EXCEPT ![t] = Idle]
  BY DEF AnswerPhone, Answer, Goon, Packet, Dial
<1>2. /\ Api(t)' \notin CcApi
      /\ Dial(t) <=> ~Drop(t)
  <2>1. Api(t)' = Idle.api
    BY <1>1, OneTask
  <2>. QED  BY <1>a, <2>1 DEF Idle, CcApi, Dial, Drop
<1>3. \A q : t \in Working(q) <=> q = p /\ Dial(t)
  <2>1. job[t].own = Drop(t) <=> Dial(t)
    BY <1>a, <1>1, <1>2 DEF CcTask, Drop
  <2>. QED  BY <1>a, <2>1 DEF Working
<1>4. \A q : Working(q)' = Working(q) \ (IF q = p /\ Dial(t) THEN {t} ELSE {})
  <2>1. \A q : t \notin Working(q)'
    BY <1>2 DEF Working
  <2>2. \A q : Working(q) \subseteq Thread /\ Working(q)' \subseteq Thread
    BY DEF Working
  <2>3. \A u \in Thread \ {t} : \A q : u \in Working(q)' <=> u \in Working(q)
    BY <1>1, OthersStay
  <2>. QED  BY <1>3, <2>1, <2>2, <2>3
<1>5. \A q : Waiting(q)' = Waiting(q) \cup (IF q = p /\ Dial(t) THEN {n} ELSE {})
  BY <1>1 DEF Waiting
<1>6. Dial(t) => /\ Working(p) = {t} /\ Working(p)' = {}
                 /\ Waiting(p) = {} /\ Waiting(p)' = {n}
                 /\ p \notin conference /\ p \in joined
  <2>1. Dial(t) => t \in Working(p)
    BY <1>3
  <2>2. Dial(t) => Working(p) = {t} /\ Waiting(p) = {} /\ p \notin conference /\ p \in joined
    BY <1>0, <2>1 DEF Tokens, TokensOf
  <2>. QED  BY <1>4, <1>5, <2>2
<1>7. Tokens'
  <2>1. ASSUME NEW q \in Phone PROVE TokensOf(q)'
    <3>1. CASE q = p /\ Dial(t)
      BY <1>1, <1>6, <3>1 DEF TokensOf
    <3>2. CASE ~(q = p /\ Dial(t))
      <4>1. Working(q)' = Working(q) /\ Waiting(q)' = Waiting(q)
        BY <1>4, <1>5, <3>2
      <4>. QED  BY <1>0, <1>1, <4>1 DEF Tokens, TokensOf
    <3>. QED  BY <3>1, <3>2
  <2>. QED  BY <2>1 DEF Tokens
<1>8. ASSUME NEW q \in Phone
      PROVE  /\ Staying(q)' <=> Staying(q)
             /\ \A r : Informed(q, r)' <=> Informed(q, r)
  <2>1. CASE q = p /\ Dial(t)
    <3>1. Staying(q) /\ \A r : Informed(q, r) <=> r \in job[t].ips
      BY <1>6, <2>1 DEF Staying, Informed
    <3>2. Staying(q)' /\ \A r : Informed(q, r)' <=> r \in job[t].ips
      BY <1>1, <1>6, <2>1 DEF Staying, Informed
    <3>. QED  BY <3>1, <3>2
  <2>2. CASE ~(q = p /\ Dial(t))
    <3>1. Working(q)' = Working(q) /\ Waiting(q)' = Waiting(q)
      BY <1>4, <1>5, <2>2
    <3>2. ASSUME NEW u \in Working(q)
          PROVE  Dial(u)' = Dial(u) /\ job'[u].ips = job[u].ips
      <4>1. u \in Thread \ {t}
        BY <1>3, <2>2 DEF Working
      <4>. QED  BY <1>1, <4>1, OthersStay DEF Dial
    <3>. QED  BY <1>1, <3>1, <3>2, KnowledgeStays
  <2>. QED  BY <2>1, <2>2
<1>9. /\ \A q, r : Leaving(q, r) => Leaving(q, r)'
      /\ \A r : Rejoining(r) => Rejoining(r)'
  <2>1. \A q, r : Leaving(q, r) => Leaving(q, r)'
    BY <1>1, OthersStay DEF Leaving
  <2>2. \A r : Rejoining(r) => Rejoining(r)'
    BY <1>1, OthersStay DEF Rejoining
  <2>. QED  BY <2>1, <2>2
<1>10. t \notin Between' /\ Idle.api \notin CcApi
  BY <1>2 DEF Between, Idle, CcApi
<1>. QED  BY <1>0, <1>1, <1>7, <1>8, <1>9, <1>10, ThreadStays DEF CcApi

-----------------------------------------------------------------------------
(* The other services, on the same threads and the same broker. *)

(* At most threads that are not at a conference call go on.                *)
Beside ==
  /\ requests' \in Int
  /\ DOMAIN job' = Thread
  /\ \A t \in Thread : \/ job'[t] = job[t]
                       \/ Api(t) \notin CcApi /\ Api(t)' \notin CcApi

LEMMA ThreadBeside ==
  ASSUME ConferenceTypes, NEW t \in Thread, NEW r, job' = [job EXCEPT ![t] = r],
         requests' \in Int, Api(t) \notin CcApi, r.api \notin CcApi
  PROVE  Beside
BY OneTask DEF Beside

LEMMA BesideKeeps ==
  ASSUME ConferenceInv, Beside, UNCHANGED <<joined, conference, engaged, peers, http>>,
         \A m \in mqtt' : m.topic \in CcTopic => m \in mqtt,
         upset' = {} => /\ upset = {}
                        /\ \A m \in mqtt : m.topic \in CcTopic => m \in mqtt'
  PROVE  ConferenceInv'
<1>0. ConferenceTypes
  BY DEF ConferenceInv
<1>1. /\ \A t \in Thread : /\ Dial(t)' <=> Dial(t)
                           /\ Drop(t)' <=> Drop(t)
                           /\ Api(t)' \in CcApi <=> Api(t) \in CcApi
                           /\ Api(t) \in CcApi => job'[t] = job[t]
      /\ \A t \in Thread : Dial(t) \/ Drop(t) => Api(t) \in CcApi
  BY DEF Beside, Dial, Drop, Api, CcApi
<1>2. ConferenceTypes'
  BY <1>0, <1>1 DEF ConferenceTypes, Beside
<1>3. CASE upset' = {}
  <2>0. /\ Tokens /\ MembersKnown /\ GoneKnown /\ NotItself /\ Sections
        /\ \A m : m.topic \in CcTopic => (m \in mqtt' <=> m \in mqtt)
    BY <1>3 DEF ConferenceInv, Calm
  <2>1. \A p : Waiting(p)' = Waiting(p) /\ Working(p)' = Working(p)
    <3>1. \A p : Waiting(p)' = Waiting(p)
      BY DEF Waiting
    <3>2. ASSUME NEW p, NEW t \in Thread
          PROVE  t \in Working(p)' <=> t \in Working(p)
      <4>1. CASE Api(t) \in CcApi
        <5>1. (job'[t].own = Drop(t)') <=> (job[t].own = Drop(t))
          BY <1>1, <4>1 DEF Drop
        <5>. QED  BY <1>1, <4>1, <5>1 DEF Working
      <4>2. CASE Api(t) \notin CcApi
        BY <1>1, <4>2 DEF Working
      <4>. QED  BY <4>1, <4>2
    <3>3. \A p : Working(p) \subseteq Thread /\ Working(p)' \subseteq Thread
      BY DEF Working
    <3>4. \A p : Working(p)' = Working(p)
      BY <3>2, <3>3
    <3>. QED  BY <3>1, <3>4
  <2>2. Tokens'
    BY <2>0, <2>1, TokensStay
  <2>3. ASSUME NEW p \in Phone
        PROVE  /\ Staying(p)' <=> Staying(p)
               /\ \A q : Informed(p, q)' <=> Informed(p, q)
    <3>1. \A t \in Working(p) : Dial(t)' = Dial(t) /\ job'[t].ips = job[t].ips
      BY <1>1 DEF Working, Dial
    <3>. QED  BY <2>1, <3>1, KnowledgeStays
  <2>4. /\ \A q, r : News(q, r, "ccNewJoin")' <=> News(q, r, "ccNewJoin")
        /\ \A q, r : News(q, r, "ccCallDrop")' <=> News(q, r, "ccCallDrop")
        /\ \A q, r : Leaving(q, r) => Leaving(q, r)'
        /\ \A r : Rejoining(r) => Rejoining(r)'
    <3>1. \A q, r : News(q, r, "ccNewJoin")' <=> News(q, r, "ccNewJoin")
      BY <2>0 DEF News, CcTopic
    <3>2. \A q, r : News(q, r, "ccCallDrop")' <=> News(q, r, "ccCallDrop")
      BY <2>0 DEF News, CcTopic
    <3>3. \A q, r : Leaving(q, r) => Leaving(q, r)'
      BY <1>1 DEF Leaving
    <3>4. \A r : Rejoining(r) => Rejoining(r)'
      BY <1>1 DEF Rejoining
    <3>. QED  BY <3>1, <3>2, <3>3, <3>4
  <2>5. \A q, r \in Phone : /\ Aware(q, r)' <=> Aware(q, r)
                            /\ Excused(q, r) => Excused(q, r)'
    BY <2>3, <2>4 DEF Aware, Excused
  <2>6. MembersKnown' /\ GoneKnown'
    BY <2>0, <2>3, <2>5, MembersStay, GoneStay
  <2>7. NotItself'
    BY <1>1, <2>0, <2>3 DEF NotItself
  <2>8. \A t \in Thread : t \in Between' <=> t \in Between
    BY <1>1 DEF Between
  <2>9. ASSUME NEW t \in Thread, t \in Between', Dial(t)' PROVE DialSection(t)'
    <3>1. DialSection(t) /\ job'[t] = job[t] /\ Api(t) \in CcApi
      BY <1>1, <2>0, <2>8, <2>9 DEF Sections
    <3>. PICK q \in Phone : q = job[t].phone
      BY <1>0, <3>1 DEF ConferenceTypes, CcTask
    <3>2. \A u \in Between' : u = t
      BY <2>8, <3>1 DEF DialSection, Between
    <3>. QED  BY <2>3, <2>5, <3>1, <3>2 DEF DialSection
  <2>10. \A t \in Thread : t \in Between' /\ Drop(t)' => DropSection(t)'
    BY <1>1, <2>0, <2>8 DEF Sections, DropSection
  <2>11. \A t \in Thread : Drop(t)' /\ ~job'[t].unread => job'[t].phone \in job'[t].ips
    BY <1>1, <2>0 DEF Sections
  <2>. QED  BY <1>2, <2>2, <2>6, <2>7, <2>9, <2>10, <2>11 DEF ConferenceInv, Calm, Sections
<1>. QED  BY <1>2, <1>3 DEF ConferenceInv

(* Accounts are beside the conferences.                                    *)
LEMMA AccountBeside ==
  ASSUME BytesInv, ConferenceTypes, Account
  PROVE  Beside /\ UNCHANGED mqtt
<1>1. Idle.api \notin CcApi /\ \A api \in AccountApi : api \notin CcApi
  BY DEF Idle, AccountApi, CcApi
<1>2. requests \in Int
  BY DEF ConferenceTypes
<1>3. ASSUME NEW t \in Thread, NEW r, Begin(t, r), r.api \notin CcApi PROVE Beside
  <2>1. Api(t) \notin CcApi /\ requests' \in Int
    BY <1>1, <1>2, <1>3 DEF Begin, Api
  <2>. QED  BY <1>3, <2>1, ThreadBeside DEF Begin
<1>4. \A api \in AccountApi : \A n, who, checks, writes, whole :
        Request(api, n, who, checks, writes, whole).api \notin CcApi
  BY <1>1 DEF Request
<1>5. ASSUME NEW t \in Thread, NEW who \in Person, NEW k, BeginRegister(t, who, k)
      PROVE  Beside /\ UNCHANGED mqtt
  BY <1>3, <1>4, <1>5 DEF BeginRegister, AccountApi
<1>6. ASSUME NEW t \in Thread, NEW n, NEW who, NEW given, BeginUpdate(t, n, who, given)
      PROVE  Beside /\ UNCHANGED mqtt
  BY <1>3, <1>4, <1>6 DEF BeginUpdate, AccountApi
<1>7. ASSUME NEW t \in Thread, NEW api, NEW n, NEW who, BeginOther(t, api, n, who)
      PROVE  Beside /\ UNCHANGED mqtt
  BY <1>3, <1>4, <1>7 DEF BeginOther, AccountApi
<1>8. ASSUME NEW t \in Thread, AccountStep(t)
      PROVE  Beside /\ UNCHANGED mqtt
  <2>1. Api(t) \in AccountApi
    BY <1>8 DEF AccountStep, FindNumber, CheckExist, ReadField, CompareField, WriteField, Throw,
                EndWrites, Delete, Ready, AccountApi
  <2>2. "api" \in DOMAIN job[t]
    BY <2>1 DEF BytesInv, JobsOK, NotText, TextJob, AccountApi, Api
  <2>3. ASSUME NEW r, Goon(t, r), r.api = job[t].api \/ r = Idle PROVE Beside
    BY <1>1, <1>2, <2>1, <2>3, ThreadBeside DEF Goon, Api
  <2>4. ASSUME Answer(t) PROVE Beside
    BY <2>3, <2>4 DEF Answer
  <2>5. CASE FindNumber(t)
    BY <2>2, <2>3, <2>5 DEF FindNumber
  <2>6. CASE CheckExist(t)
    BY <2>2, <2>3, <2>4, <2>6 DEF CheckExist
  <2>7. CASE ReadField(t)
    BY <2>2, <2>3, <2>7 DEF ReadField
  <2>8. CASE CompareField(t)
    BY <2>2, <2>3, <2>4, <2>8 DEF CompareField
  <2>9. CASE WriteField(t)
    BY <2>2, <2>3, <2>9 DEF WriteField
  <2>10. CASE Throw(t) \/ EndWrites(t) \/ Delete(t)
    BY <2>4, <2>10 DEF Throw, EndWrites, Delete
  <2>. QED  BY <1>8, <2>5, <2>6, <2>7, <2>8, <2>9, <2>10 DEF AccountStep
<1>. QED  BY <1>5, <1>6, <1>7, <1>8 DEF Account

(* Texts are beside the conferences; their messages have another topic.    *)
LEMMA TextBeside ==
  ASSUME BytesInv, ConferenceTypes, Text
  PROVE  /\ Beside
         /\ \A m : m.topic \in CcTopic => (m \in mqtt' <=> m \in mqtt)
<1>1. Idle.api \notin CcApi /\ "txtMsg" \notin CcApi /\ "txtMsg" \notin CcTopic
  BY DEF Idle, CcApi, CcTopic
<1>2. requests \in Int
  BY DEF ConferenceTypes
<1>3. ASSUME NEW t \in Thread, NEW from, NEW to, NEW length, BeginText(t, from, to, length)
      PROVE  Beside /\ UNCHANGED mqtt
  <2>1. PICK r : job' = [job EXCEPT ![t] = r] /\ r.api = "txtMsg" /\ job[t] = Idle
    BY <1>3 DEF BeginText, Begin
  <2>2. requests' \in Int /\ UNCHANGED mqtt
    BY <1>2, <1>3 DEF BeginText, Begin
  <2>. QED  BY <1>1, <2>1, <2>2, ThreadBeside DEF Api
<1>4. ASSUME NEW t \in Thread, TextStep(t)
      PROVE  /\ Beside
             /\ \A m : m.topic \in CcTopic => (m \in mqtt' <=> m \in mqtt)
  <2>1. Api(t) = "txtMsg"
    BY <1>4 DEF TextStep, PublishText, ReadBytes, WriteBytes, EndText
  <2>2. TextJob(job[t])
    BY <2>1 DEF BytesInv, JobsOK, NotText, Api
  <2>3. ASSUME NEW r, Goon(t, r), r.api = "txtMsg" \/ r = Idle PROVE Beside
    BY <1>1, <1>2, <2>1, <2>3, ThreadBeside DEF Goon
  <2>4. CASE PublishText(t)
    <3>1. PICK to : /\ Goon(t, [job[t] EXCEPT !.unsent = @ \ {to}])
                    /\ Publish(to, "txtMsg", job[t].to \cup {job[t].from}, job[t].id)
      BY <2>4 DEF PublishText
    <3>2. [job[t] EXCEPT !.unsent = @ \ {to}].api = "txtMsg"
      BY <2>2 DEF TextJob, TextFields
    <3>3. \A m : m.topic \in CcTopic => (m \in mqtt' <=> m \in mqtt)
      BY <1>1, <3>1 DEF Publish
    <3>. QED  BY <2>3, <3>1, <3>2, <3>3
  <2>5. CASE ReadBytes(t)
    <3>1. PICK c : Goon(t, [job[t] EXCEPT !.row = {c}, !.total = bytes[c], !.uncounted = @ \ {c}])
      BY <2>5 DEF ReadBytes
    <3>2. [job[t] EXCEPT !.row = {c}, !.total = bytes[c], !.uncounted = @ \ {c}].api = "txtMsg"
      BY <2>2 DEF TextJob, TextFields
    <3>. QED  BY <2>3, <2>5, <3>1, <3>2 DEF ReadBytes
  <2>6. CASE WriteBytes(t)
    <3>1. Goon(t, [job[t] EXCEPT !.row = {}])
      BY <2>6 DEF WriteBytes
    <3>2. [job[t] EXCEPT !.row = {}].api = "txtMsg"
      BY <2>2 DEF TextJob, TextFields
    <3>. QED  BY <2>3, <2>6, <3>1, <3>2 DEF WriteBytes
  <2>7. CASE EndText(t)
    BY <2>3, <2>7 DEF EndText, Answer
  <2>. QED  BY <1>4, <2>4, <2>5, <2>6, <2>7 DEF TextStep
<1>. QED  BY <1>3, <1>4 DEF Text

(* What a phone does with a text is beside the conferences as well.        *)
LEMMA OnPhoneBeside ==
  ASSUME ConferenceTypes, OnPhone
  PROVE  /\ Beside
         /\ \A m : m.topic \in CcTopic => (m \in mqtt' <=> m \in mqtt)
<1>1. UNCHANGED <<job, requests>>
  BY DEF OnPhone, TextArrives, PhoneStep, FileMessage, OpenConversation, FindOpened, CreateOpened,
         AddOpenedMember, Invite, AddInvited, Rename, servlets
<1>2. ASSUME NEW m, TextArrives(m)
      PROVE  \A n : n.topic \in CcTopic => (n \in mqtt' <=> n \in mqtt)
  BY <1>2 DEF TextArrives, CcTopic
<1>3. ASSUME NEW p, PhoneStep(p) PROVE UNCHANGED mqtt
  BY <1>3 DEF PhoneStep, FileMessage, OpenConversation, FindOpened, CreateOpened,
              AddOpenedMember, Invite, AddInvited, Rename, servlets
<1>4. Beside
  BY <1>1 DEF Beside, ConferenceTypes
<1>. QED  BY <1>2, <1>3, <1>4 DEF OnPhone

-----------------------------------------------------------------------------
(* Every step of every service. *)

LEMMA ConferringTypesKept ==
  ASSUME ConferenceTypes, Conferring
  PROVE  ConferenceTypes' /\ upset \subseteq upset'
<1>1. ASSUME NEW t \in Thread, ConferenceStep(t) \/ \E m \in http : TakeRequest(t, m)
      PROVE  ConferenceTypes' /\ upset \subseteq upset'
  <2>1. upset \subseteq upset'
    BY <1>1 DEF ConferenceStep, ReadMembers, TellMember, AddMember, RemoveMember, AnswerPhone,
                TakeRequest, meeting
  <2>. QED  BY <1>1, <2>1, ThreadTypesKept
<1>2. \/ upset \subseteq upset'
      \/ \E t \in Thread : ConferenceStep(t) \/ \E m \in http : TakeRequest(t, m)
  BY DEF Conferring, Start, HangUp, Engage, Disengage, JoinedArrives, StopArrives, LosePacket,
         NewsArrives, Upset
<1>. QED  BY <1>1, <1>2, PhoneTypesKept DEF Conferring

LEMMA ConferringKeeps ==
  ASSUME ConferenceInv, Conferring
  PROVE  ConferenceInv'
<1>1. ConferenceTypes /\ ConferenceTypes' /\ upset \subseteq upset'
  BY ConferringTypesKept DEF ConferenceInv
<1>2. ASSUME upset' = {} PROVE Calm'
  <2>1. Calm
    BY <1>1, <1>2 DEF ConferenceInv
  <2>2. ASSUME NEW p \in Phone, Start(p) \/ HangUp(p) \/ Engage(p) \/ Disengage(p) PROVE Calm'
    BY <1>1, <1>2, <2>1, <2>2, StartKeeps, HangUpKeeps, EngageKeeps, DisengageKeeps
  <2>3. ASSUME NEW t \in Thread, NEW m \in http, TakeRequest(t, m) PROVE Calm'
    BY <1>1, <2>1, <2>3, TakeKeeps
  <2>4. ASSUME NEW t \in Thread, ConferenceStep(t) PROVE Calm'
    BY <1>1, <1>2, <2>1, <2>4, ReadKeeps, TellKeeps, AddKeeps, RemoveKeeps, AnswerKeeps
       DEF ConferenceStep
  <2>5. ASSUME NEW m \in http, JoinedArrives(m) \/ StopArrives(m) \/ LosePacket(m) PROVE Calm'
    <3>1. ~LosePacket(m)
      BY <1>2 DEF LosePacket, Upset
    <3>. QED  BY <1>1, <1>2, <2>1, <2>5, <3>1, JoinedKeeps, StopKeeps
  <2>6. ASSUME NEW m \in mqtt, NewsArrives(m) PROVE Calm'
    BY <1>1, <1>2, <2>1, <2>6, NewsKeeps
  <2>. QED  BY <2>2, <2>3, <2>4, <2>5, <2>6 DEF Conferring
<1>. QED  BY <1>1, <1>2 DEF ConferenceInv

LEMMA ConferenceInvStep ==
  ASSUME BytesInv, ConferenceInv, [Next]_vars
  PROVE  ConferenceInv'
<1>0. ConferenceTypes
  BY DEF ConferenceInv
<1>1. CASE Account
  <2>1. UNCHANGED <<joined, conference, engaged, peers, http, upset, mqtt>> /\ Beside
    BY <1>0, <1>1, AccountBeside DEF Account, meeting
  <2>. QED  BY <2>1, BesideKeeps
<1>2. CASE Text
  <2>1. UNCHANGED <<joined, conference, engaged, peers, http, upset>>
    BY <1>2 DEF Text, meeting
  <2>. QED  BY <1>0, <1>2, <2>1, TextBeside, BesideKeeps
<1>3. CASE OnPhone
  <2>1. UNCHANGED <<joined, conference, engaged, peers, http, upset>>
    BY <1>3 DEF OnPhone, meeting
  <2>. QED  BY <1>0, <1>3, <2>1, OnPhoneBeside, BesideKeeps
<1>4. CASE Conferring
  BY <1>4, ConferringKeeps
<1>5. CASE Lost
  <2>1. UNCHANGED <<joined, conference, engaged, peers, http, job, requests>>
    BY <1>5 DEF Lost, Lose
  <2>2. Beside
    BY <1>0, <2>1 DEF Beside, ConferenceTypes
  <2>3. PICK m \in mqtt : mqtt' = mqtt \ {m} /\ Upset("lost", m.topic # "txtMsg")
    BY <1>5 DEF Lost, Lose
  <2>4. ASSUME upset' = {}
        PROVE  upset = {} /\ \A n \in mqtt : n.topic \in CcTopic => n \in mqtt'
    BY <2>3, <2>4 DEF Upset, CcTopic
  <2>5. \A n \in mqtt' : n.topic \in CcTopic => n \in mqtt
    BY <2>3
  <2>. QED  BY <2>1, <2>2, <2>4, <2>5, BesideKeeps
<1>6. CASE UNCHANGED vars
  <2>1. UNCHANGED <<joined, conference, engaged, peers, http, upset, job, requests, mqtt>>
    BY <1>6 DEF vars, servlets, meeting
  <2>2. Beside
    BY <1>0, <2>1 DEF Beside, ConferenceTypes
  <2>. QED  BY <2>1, <2>2, BesideKeeps
<1>. QED  BY <1>1, <1>2, <1>3, <1>4, <1>5, <1>6 DEF Next

(* Before the first start nobody is a member.                              *)
LEMMA ConferenceInvStart == Init => ConferenceInv
<1>. SUFFICES ASSUME Init PROVE ConferenceInv
  OBVIOUS
<1>1. /\ job = [t \in Thread |-> Idle] /\ mqtt = {} /\ joined = {} /\ conference = {}
      /\ engaged = {} /\ peers = [p \in Phone |-> {}] /\ http = {} /\ requests = Menu[asked]
      /\ asked \in DOMAIN Menu
  BY DEF Init, ServletsInit, ConferenceInit
<1>2. \A t \in Thread : Api(t) \notin CcApi
  BY <1>1 DEF Api, Idle, CcApi
<1>3. requests \in Int
  BY <1>1, ServicesAssumption
<1>4. ConferenceTypes
  BY <1>1, <1>2, <1>3 DEF ConferenceTypes
<1>5. \A p : Waiting(p) = {} /\ Working(p) = {} /\ ~Staying(p)
  BY <1>1, <1>2 DEF Waiting, Working, Staying
<1>6. Tokens /\ MembersKnown /\ GoneKnown
  BY <1>1, <1>5 DEF Tokens, TokensOf, MembersKnown, GoneKnown
<1>7. NotItself
  BY <1>1, <1>2, <1>5 DEF NotItself, Informed
<1>8. Sections
  BY <1>2 DEF Sections, Between, Drop, CcApi
<1>. QED  BY <1>4, <1>6, <1>7, <1>8 DEF ConferenceInv, Calm

(* A conference at rest is the same to the phones and to the server: those *)
(* that are in it are its members, and each has the others for its peers,  *)
(* unless one of the eight things has happened that part them (upset).     *)
THEOREM ConferencesAgree == Spec => []ConferenceAgrees
<1>1. ConferenceInv => ConferenceAgrees
  <2>. SUFFICES ASSUME ConferenceInv, upset = {}, http = {},
                       \A t \in Thread : Api(t) \notin CcApi,
                       \A m \in mqtt : m.topic \notin {"ccNewJoin", "ccCallDrop"}
                PROVE  conference = joined /\ \A p \in conference : peers[p] = joined \ {p}
    BY DEF ConferenceAgrees
  <2>1. /\ ConferenceTypes
        /\ Tokens /\ MembersKnown /\ GoneKnown /\ NotItself
    BY DEF ConferenceInv, Calm
  <2>2. \A p : Waiting(p) = {} /\ Working(p) = {}
    BY DEF Waiting, Working
  <2>3. conference = joined
    BY <2>1, <2>2 DEF Tokens, TokensOf, ConferenceTypes
  <2>4. \A p, q : /\ ~News(p, q, "ccNewJoin") /\ ~News(p, q, "ccCallDrop")
                  /\ ~Leaving(p, q) /\ ~Rejoining(q)
    BY DEF News, Leaving, Rejoining, Dial, Drop, CcApi
  <2>5. \A p, q : Informed(p, q) <=> p \in conference /\ q \in peers[p]
    BY <2>2 DEF Informed
  <2>6. ASSUME NEW p \in conference, NEW q \in Phone
        PROVE  q \in peers[p] <=> q \in joined \ {p}
    <3>1. p \in Phone /\ Staying(p)
      BY <2>1 DEF ConferenceTypes, Staying
    <3>2. q \in joined \ {p} => q \in peers[p]
      BY <2>1, <2>4, <2>5, <3>1 DEF MembersKnown, Aware
    <3>3. q \in peers[p] => q \in joined
      BY <2>1, <2>4, <2>5, <3>1 DEF GoneKnown, Excused
    <3>4. p \notin peers[p]
      BY <2>1, <2>5, <3>1 DEF NotItself
    <3>. QED  BY <3>2, <3>3, <3>4
  <2>7. \A p \in conference : peers[p] \subseteq Phone /\ joined \subseteq Phone
    BY <2>1 DEF ConferenceTypes
  <2>. QED  BY <2>3, <2>6, <2>7
<1>2. Init => BytesInv /\ ConferenceInv
  BY BytesStart, ConferenceInvStart
<1>3. BytesInv /\ ConferenceInv /\ [Next]_vars => (BytesInv /\ ConferenceInv)'
  BY BytesStep, ConferenceInvStep
<1>. QED  BY <1>1, <1>2, <1>3, PTL DEF Spec

-----------------------------------------------------------------------------
(* The types of all the services. *)

Id == 1 .. Menu[asked]

(* What a thread has in hand, beside what BytesInv, AccountInv and         *)
(* ConferenceTypes say of it.                                              *)
ServiceJob(r) ==
  \/ r = Idle
  \/ r.api \in AccountApi /\ r.writes \in Seq(Field)
  \/ r.api = "txtMsg" /\ r.id \in Id /\ r.unsent \subseteq Phone /\ r.total \in Nat
  \/ r.api \in CcApi /\ r.id \in Id

Message(m) ==
  /\ m.to \in Phone
  /\ m.topic \in {"txtMsg", "ccNewJoin", "ccCallDrop"}
  /\ m.peers \subseteq Phone
  /\ m.id \in Id

ServerTypes ==
  /\ asked \in DOMAIN Menu /\ requests \in 0 .. Menu[asked]
  /\ \A t \in Thread : ServiceJob(job[t])
  /\ \A m \in mqtt : Message(m)
  /\ \A m \in http : m.id \in Id
  /\ bytes \in [Counter -> Nat]

(* The encrypted fields, and the threads at the key.                       *)
KeyTypes == garbled \subseteq Number \X Field /\ clashed \subseteq Thread

(* The messages that a phone files are of others and itself, without       *)
(* itself.                                                                 *)
SelfOut(p) ==
  /\ \A i \in DOMAIN inbox[p] : p \notin inbox[p][i].others
  /\ \A f \in filed[p] : f[1] \subseteq Phone \ {p}

(* A thread takes a request, or goes on with it.                           *)
LEMMA JobTypes ==
  ASSUME BytesInv, ServerTypes, NEW t \in Thread, NEW r, ServiceJob(r),
         job' = [job EXCEPT ![t] = r], UNCHANGED asked
  PROVE  (\A u \in Thread : ServiceJob(job[u]))'
<1>1. Id' = Id
  BY DEF Id
<1>2. \A u \in Thread : job'[u] = r \/ job'[u] = job[u]
  BY DEF BytesInv, JobsOK
<1>. QED  BY <1>1, <1>2 DEF ServerTypes, ServiceJob

(* A request that begins has the number of requests still to come.         *)
LEMMA RequestTypes ==
  ASSUME ServerTypes, requests > 0
  PROVE  requests \in Id /\ requests - 1 \in 0 .. Menu[asked]
<1>1. Menu[asked] \in Nat
  BY ServicesAssumption DEF ServerTypes
<1>. QED  BY <1>1 DEF ServerTypes, Id

(* The requests of the accounts.                                           *)
LEMMA AccountTypes ==
  ASSUME BytesInv, AccountInv, ServerTypes, Account
  PROVE  ServerTypes'
<1>1. UNCHANGED <<bytes, http, asked, mqtt>>
  BY AccountSilent DEF Account, texts, meeting
<1>2. ASSUME NEW t \in Thread, NEW r, ServiceJob(r), Begin(t, r) \/ Goon(t, r)
      PROVE  ServerTypes'
  <2>1. job' = [job EXCEPT ![t] = r] /\ requests' \in 0 .. Menu[asked]
    BY <1>2, RequestTypes DEF Begin, Goon, ServerTypes
  <2>2. (\A u \in Thread : ServiceJob(job[u]))'
    BY <1>1, <1>2, <2>1, JobTypes
  <2>3. (\A m \in mqtt : Message(m))' /\ (\A m \in http : m.id \in Id)'
    BY <1>1 DEF ServerTypes, Message, Id
  <2>. QED  BY <1>1, <2>1, <2>2, <2>3 DEF ServerTypes, Counter
<1>3. \A api \in AccountApi, writes \in Seq(Field) : \A n, who, checks, whole :
        ServiceJob(Request(api, n, who, checks, writes, whole))
  BY DEF ServiceJob, Request
<1>4. ServiceJob(Idle)
  BY DEF ServiceJob
<1>5. /\ Fields \in Seq(Field) /\ OwnFields \in Seq(Field) /\ CardFields \in Seq(Field)
      /\ <<"password">> \in Seq(Field) /\ <<>> \in Seq(Field)
      /\ <<Head(OwnFields)>> \in Seq(Field)
  <2>1. OwnFields \in Seq(Field) /\ CardFields \in Seq(Field)
    BY FieldFacts, AccountAssumption
  <2>2. Head(OwnFields) \in Field
    <3>1. Len(OwnFields) >= 1
      BY <2>1, AccountAssumption DEF ToSet
    <3>. QED  BY <2>1, <3>1
  <2>. QED  BY <2>1, <2>2, FieldFacts
<1>6. ASSUME NEW t \in Thread, NEW who, NEW k \in 0 .. Len(Fields), BeginRegister(t, who, k)
      PROVE  ServerTypes'
  <2>1. SubSeq(Fields, 1, k) \in Seq(Field)
    BY <1>5
  <2>. QED  BY <1>2, <1>3, <1>6, <2>1 DEF BeginRegister, AccountApi
<1>7. ASSUME NEW t \in Thread, NEW n, NEW who,
             NEW given \in {<<Head(OwnFields)>>, OwnFields, OwnFields \o CardFields},
             BeginUpdate(t, n, who, given)
      PROVE  ServerTypes'
  <2>1. given \in Seq(Field)
    <3>1. OwnFields \o CardFields \in Seq(Field)
      BY <1>5, ConcatProperties
    <3>. QED  BY <1>5, <3>1
  <2>. QED  BY <1>2, <1>3, <1>7, <2>1 DEF BeginUpdate, AccountApi
<1>8. ASSUME NEW t \in Thread, NEW api, NEW n, NEW who, BeginOther(t, api, n, who)
      PROVE  ServerTypes'
  BY <1>2, <1>3, <1>5, <1>8 DEF BeginOther, AccountApi
<1>9. ASSUME NEW t \in Thread, AccountStep(t) PROVE ServerTypes'
  <2>1. Api(t) \in AccountApi
    BY <1>9 DEF AccountStep, FindNumber, CheckExist, ReadField, CompareField, WriteField, Throw,
                EndWrites, Delete, Ready, AccountApi
  <2>2. AccountJob(job[t]) /\ job[t].writes \in Seq(Field) /\ DOMAIN job[t] = AccountFields
    BY <2>1 DEF AccountInv, AccountsOK, AccountJob, ServerTypes, ServiceJob, Api, Idle, AccountApi,
                CcApi
  <2>3. ASSUME NEW r, r.api = job[t].api, r.writes \in Seq(Field), Goon(t, r)
        PROVE  ServerTypes'
    BY <1>2, <2>1, <2>3 DEF ServiceJob, Api
  <2>4. ASSUME Answer(t) PROVE ServerTypes'
    BY <1>2, <1>4, <2>4 DEF Answer
  <2>5. CASE FindNumber(t)
    <3>1. PICK n : Goon(t, [job[t] EXCEPT !.number = {n}])
      BY <2>5 DEF FindNumber
    <3>2. /\ [job[t] EXCEPT !.number = {n}].api = job[t].api
          /\ [job[t] EXCEPT !.number = {n}].writes = job[t].writes
      BY <2>2 DEF AccountFields
    <3>. QED  BY <2>2, <2>3, <3>1, <3>2
  <2>6. CASE CheckExist(t)
    <3>1. Goon(t, [job[t] EXCEPT !.checks = Tail(@)]) \/ Answer(t)
      BY <2>6 DEF CheckExist
    <3>2. /\ [job[t] EXCEPT !.checks = Tail(@)].api = job[t].api
          /\ [job[t] EXCEPT !.checks = Tail(@)].writes = job[t].writes
      BY <2>2 DEF AccountFields
    <3>. QED  BY <2>2, <2>3, <2>4, <3>1, <3>2
  <2>7. CASE ReadField(t)
    <3>1. PICK seen : Goon(t, [job[t] EXCEPT !.checks = Tail(@), !.seen = seen])
      BY <2>7 DEF ReadField
    <3>2. /\ [job[t] EXCEPT !.checks = Tail(@), !.seen = seen].api = job[t].api
          /\ [job[t] EXCEPT !.checks = Tail(@), !.seen = seen].writes = job[t].writes
      BY <2>2 DEF AccountFields
    <3>. QED  BY <2>2, <2>3, <3>1, <3>2
  <2>8. CASE CompareField(t)
    <3>1. Goon(t, [job[t] EXCEPT !.seen = "nothing"]) \/ Answer(t)
      BY <2>8 DEF CompareField
    <3>2. /\ [job[t] EXCEPT !.seen = "nothing"].api = job[t].api
          /\ [job[t] EXCEPT !.seen = "nothing"].writes = job[t].writes
      BY <2>2 DEF AccountFields
    <3>. QED  BY <2>2, <2>3, <2>4, <3>1, <3>2
  <2>9. CASE WriteField(t)
    <3>1. Goon(t, [job[t] EXCEPT !.writes = Tail(@)]) /\ job[t].writes # <<>>
      BY <2>9 DEF WriteField
    <3>2. /\ [job[t] EXCEPT !.writes = Tail(@)].api = job[t].api
          /\ [job[t] EXCEPT !.writes = Tail(@)].writes = Tail(job[t].writes)
      BY <2>2 DEF AccountFields
    <3>3. Tail(job[t].writes) \in Seq(Field)
      BY <2>2, <3>1
    <3>. QED  BY <2>3, <3>1, <3>2, <3>3
  <2>10. CASE Throw(t) \/ EndWrites(t) \/ Delete(t)
    BY <2>4, <2>10 DEF Throw, EndWrites, Delete
  <2>. QED  BY <1>9, <2>5, <2>6, <2>7, <2>8, <2>9, <2>10 DEF AccountStep
<1>10. ASSUME NEW t \in Thread, NEW who \in Person, NEW k \in Cuts \cup {Len(Fields)},
              BeginRegister(t, who, k)
       PROVE  ServerTypes'
  <2>1. Len(Fields) \in Nat /\ k \in 0 .. Len(Fields)
    BY <1>5, ServicesAssumption
  <2>. QED  BY <1>6, <1>10, <2>1
<1>. QED  BY <1>7, <1>8, <1>9, <1>10 DEF Account

(* A field that is written is one of an account's.                         *)
LEMMA KeyTypesStep ==
  ASSUME BytesInv, AccountInv, ServerTypes, KeyTypes, [Next]_vars
  PROVE  KeyTypes'
<1>1. ASSUME UNCHANGED <<garbled, clashed>> PROVE KeyTypes'
  BY <1>1 DEF KeyTypes
<1>2. ASSUME NEW t \in Thread, UseKey(t) PROVE clashed' \subseteq Thread
  <2>1. AtKey \subseteq Thread
    BY DEF AtKey
  <2>. QED  BY <1>2, <2>1 DEF UseKey, KeyTypes
<1>3. ASSUME NEW t \in Thread, AccountStep(t) PROVE KeyTypes'
  <2>1. CASE FindNumber(t) \/ CheckExist(t) \/ ReadField(t) \/ EndWrites(t)
    BY <1>1, <2>1 DEF FindNumber, CheckExist, ReadField, EndWrites, accounts
  <2>2. CASE CompareField(t) \/ Throw(t)
    BY <1>2, <2>2 DEF CompareField, Throw, KeyTypes
  <2>3. CASE WriteField(t)
    <3>1. Api(t) \in AccountApi /\ job[t].writes # <<>>
      BY <2>3 DEF WriteField, Ready
    <3>2. job[t].writes \in Seq(Field) /\ job[t].number \subseteq Number
      BY <3>1 DEF AccountInv, AccountsOK, AccountJob, ServerTypes, ServiceJob, Api, Idle,
                  AccountApi, CcApi
    <3>3. Head(job[t].writes) \in Field
      BY <3>1, <3>2
    <3>4. PICK n \in job[t].number, wrong \in {FALSE, Shares(t)} :
            garbled' = IF wrong THEN garbled \cup {<<n, Head(job[t].writes)>>}
                       ELSE garbled \ {<<n, Head(job[t].writes)>>}
      BY <2>3 DEF WriteField
    <3>5. garbled' \subseteq Number \X Field
      BY <3>2, <3>3, <3>4 DEF KeyTypes
    <3>6. clashed' \subseteq Thread
      BY <1>2, <2>3 DEF WriteField
    <3>. QED  BY <3>5, <3>6 DEF KeyTypes
  <2>4. CASE Delete(t)
    BY <2>4 DEF Delete, KeyTypes
  <2>. QED  BY <1>3, <2>1, <2>2, <2>3, <2>4 DEF AccountStep
<1>4. CASE Account
  BY <1>1, <1>3, <1>4 DEF Account, BeginRegister, BeginUpdate, BeginOther, accounts
<1>. QED  BY <1>1, <1>4 DEF Next, Text, OnPhone, Conferring, Lost, vars, accounts

(* The texts, their counters and messages.                                 *)
LEMMA TextTypes ==
  ASSUME BytesInv, Addressed, ServerTypes, Text
  PROVE  ServerTypes'
<1>1. UNCHANGED <<http, asked>> /\ Id' = Id /\ Menu[asked'] = Menu[asked]
  BY DEF Text, meeting, Id
<1>2. ASSUME NEW t \in Thread, NEW r, ServiceJob(r), job' = [job EXCEPT ![t] = r],
             requests' \in 0 .. Menu[asked], bytes' \in [Counter -> Nat],
             \A m \in mqtt' : m \in mqtt \/ Message(m)
      PROVE  ServerTypes'
  <2>1. (\A u \in Thread : ServiceJob(job[u]))'
    BY <1>1, <1>2, JobTypes
  <2>2. (\A m \in mqtt : Message(m))' /\ (\A m \in http : m.id \in Id)'
    BY <1>1, <1>2 DEF ServerTypes, Message
  <2>. QED  BY <1>1, <1>2, <2>1, <2>2 DEF ServerTypes, Counter
<1>3. ASSUME NEW t \in Thread, NEW from \in Phone, NEW to \in Groups, NEW length \in MessageBytes,
             BeginText(t, from, to, length)
      PROVE  ServerTypes'
  <2>. DEFINE r == [api |-> "txtMsg", id |-> requests, from |-> from, to |-> to,
                    unsent |-> to, uncounted |-> {<<from, "SEND">>} \cup (to \X {"RECEIVE"}),
                    row |-> {}, total |-> 0, length |-> length]
  <2>1. /\ job' = [job EXCEPT ![t] = r] /\ requests > 0 /\ requests' = requests - 1
        /\ UNCHANGED <<mqtt, bytes>>
    BY <1>3 DEF BeginText, Begin, texts
  <2>2. ServiceJob(r)
    BY <2>1, RequestTypes, ServicesAssumption DEF ServiceJob
  <2>. HIDE DEF r
  <2>. QED  BY <1>2, <2>1, <2>2, RequestTypes DEF ServerTypes
<1>4. ASSUME NEW t \in Thread, TextStep(t) PROVE ServerTypes'
  <2>1. Api(t) = "txtMsg"
    BY <1>4 DEF TextStep, PublishText, ReadBytes, WriteBytes, EndText
  <2>2. /\ TextJob(job[t]) /\ DOMAIN job[t] = TextFields /\ job[t].api = "txtMsg"
        /\ job[t].id \in Id /\ job[t].unsent \subseteq Phone /\ job[t].total \in Nat
        /\ job[t].from \in Phone /\ job[t].to \subseteq Phone
    BY <2>1 DEF BytesInv, JobsOK, NotText, TextJob, ServerTypes, ServiceJob, Addressed, Api, Idle,
                AccountApi, CcApi
  <2>3. requests \in 0 .. Menu[asked] /\ bytes \in [Counter -> Nat]
    BY DEF ServerTypes
  <2>4. CASE PublishText(t)
    <3>1. PICK to \in job[t].unsent :
            /\ Publish(to, "txtMsg", job[t].to \cup {job[t].from}, job[t].id)
            /\ Goon(t, [job[t] EXCEPT !.unsent = @ \ {to}])
      BY <2>4 DEF PublishText
    <3>2. \A m \in mqtt' : m \in mqtt \/ Message(m)
      BY <2>2, <3>1 DEF Publish, Message
    <3>3. ServiceJob([job[t] EXCEPT !.unsent = @ \ {to}])
      BY <2>2 DEF ServiceJob, TextFields
    <3>4. UNCHANGED bytes
      BY <2>4 DEF PublishText, texts
    <3>. QED  BY <1>2, <2>3, <3>1, <3>2, <3>3, <3>4 DEF Goon
  <2>5. CASE ReadBytes(t)
    <3>1. PICK c \in job[t].uncounted :
            Goon(t, [job[t] EXCEPT !.row = {c}, !.total = bytes[c], !.uncounted = @ \ {c}])
      BY <2>5 DEF ReadBytes
    <3>2. bytes[c] \in Nat
      BY <2>2, <2>3 DEF TextJob
    <3>3. ServiceJob([job[t] EXCEPT !.row = {c}, !.total = bytes[c], !.uncounted = @ \ {c}])
      BY <2>2, <3>2 DEF ServiceJob, TextFields
    <3>4. UNCHANGED <<mqtt, bytes>>
      BY <2>5 DEF ReadBytes
    <3>. QED  BY <1>2, <2>3, <3>1, <3>3, <3>4 DEF Goon
  <2>6. CASE WriteBytes(t)
    <3>1. PICK c \in job[t].row : bytes' = [bytes EXCEPT ![c] = job[t].total + job[t].length]
      BY <2>6 DEF WriteBytes
    <3>2. bytes' \in [Counter -> Nat]
      <4>1. job[t].total + job[t].length \in Nat
        BY <2>2 DEF TextJob
      <4>. QED  BY <2>3, <3>1, <4>1
    <3>3. ServiceJob([job[t] EXCEPT !.row = {}])
      BY <2>2 DEF ServiceJob, TextFields
    <3>4. Goon(t, [job[t] EXCEPT !.row = {}]) /\ UNCHANGED mqtt
      BY <2>6 DEF WriteBytes
    <3>. QED  BY <1>2, <2>3, <3>2, <3>3, <3>4 DEF Goon
  <2>7. CASE EndText(t)
    <3>1. Goon(t, Idle) /\ UNCHANGED <<mqtt, bytes>>
      BY <2>7 DEF EndText, Answer, texts
    <3>2. ServiceJob(Idle)
      BY DEF ServiceJob
    <3>. QED  BY <1>2, <2>3, <3>1, <3>2 DEF Goon
  <2>. QED  BY <1>4, <2>4, <2>5, <2>6, <2>7 DEF TextStep
<1>. QED  BY <1>3, <1>4 DEF Text

(* The conference calls: their packets and messages have the number of     *)
(* their request.                                                          *)
LEMMA ConferringTypes ==
  ASSUME BytesInv, ConferenceTypes, ServerTypes, Conferring
  PROVE  ServerTypes'
<1>1. /\ UNCHANGED <<bytes, asked>> /\ Id' = Id
      /\ requests \in 0 .. Menu[asked] /\ asked \in DOMAIN Menu
      /\ bytes \in [Counter -> Nat]
  BY DEF Conferring, texts, Id, ServerTypes
<1>2. ASSUME requests' \in 0 .. Menu[asked],
             (\A u \in Thread : ServiceJob(job[u]))',
             \A m \in mqtt' : m \in mqtt \/ Message(m),
             \A m \in http' : m \in http \/ m.id \in Id
      PROVE  ServerTypes'
  <2>1. (\A m \in mqtt : Message(m))' /\ (\A m \in http : m.id \in Id)'
    BY <1>1, <1>2 DEF ServerTypes, Message
  <2>. QED  BY <1>1, <1>2, <2>1 DEF ServerTypes, Counter
<1>3. ASSUME UNCHANGED job PROVE (\A u \in Thread : ServiceJob(job[u]))'
  BY <1>1, <1>3 DEF ServerTypes, ServiceJob
<1>4. ASSUME NEW p \in Phone, Start(p) \/ HangUp(p) PROVE ServerTypes'
  <2>1. /\ requests > 0 /\ requests' = requests - 1 /\ UNCHANGED <<job, mqtt>>
        /\ \E api : http' = http \cup {Packet(api, p, {}, requests)}
    BY <1>4 DEF Start, HangUp
  <2>2. \A api : Packet(api, p, {}, requests).id = requests
    BY DEF Packet
  <2>. QED  BY <1>1, <1>2, <1>3, <2>1, <2>2, RequestTypes
<1>5. ASSUME NEW p \in Phone, Engage(p) \/ Disengage(p) PROVE ServerTypes'
  <2>1. /\ UNCHANGED <<job, mqtt, http>>
        /\ requests' = requests \/ (requests > 0 /\ requests' = requests - 1)
    BY <1>5 DEF Engage, Disengage, servlets
  <2>. QED  BY <1>1, <1>2, <1>3, <2>1, RequestTypes
<1>6. ASSUME NEW t \in Thread, NEW m \in http, TakeRequest(t, m) PROVE ServerTypes'
  <2>. DEFINE r == [api |-> m.api, phone |-> m.phone, id |-> m.id, unread |-> TRUE,
                    own |-> TRUE, untold |-> {}, ips |-> {}]
  <2>1. /\ m.api \in CcApi /\ job' = [job EXCEPT ![t] = r]
        /\ UNCHANGED <<requests, mqtt>> /\ http' \subseteq http
    BY <1>6 DEF TakeRequest, Goon
  <2>2. ServiceJob(r)
    BY <2>1 DEF ServiceJob, ServerTypes
  <2>. HIDE DEF r
  <2>3. (\A u \in Thread : ServiceJob(job[u]))'
    BY <1>1, <2>1, <2>2, JobTypes
  <2>. QED  BY <1>1, <1>2, <2>1, <2>3
<1>7. ASSUME NEW t \in Thread, ConferenceStep(t) PROVE ServerTypes'
  <2>1. Api(t) \in CcApi
    BY <1>7 DEF ConferenceStep, ReadMembers, TellMember, AddMember, RemoveMember, AnswerPhone, CcApi
  <2>2. job[t] \in CcTask /\ job[t].id \in Id
    BY <2>1 DEF ConferenceTypes, ServerTypes, ServiceJob, Api, Idle, AccountApi, CcApi
  <2>3. ASSUME NEW r, r.api = job[t].api, r.id = job[t].id, Goon(t, r)
        PROVE  (\A u \in Thread : ServiceJob(job[u]))' /\ requests' = requests
    <3>1. ServiceJob(r)
      BY <2>1, <2>2, <2>3 DEF ServiceJob, Api
    <3>. QED  BY <1>1, <2>3, <3>1, JobTypes DEF Goon
  <2>4. CASE ReadMembers(t)
    <3>. DEFINE r == [job[t] EXCEPT !.unread = FALSE, !.ips = joined,
                        !.untold = IF Api(t) = "ccDial" THEN joined ELSE joined \ {job[t].phone}]
    <3>1. r.api = job[t].api /\ r.id = job[t].id
      BY <2>2 DEF CcTask
    <3>2. Goon(t, r) /\ UNCHANGED <<mqtt, http>>
      BY <2>4 DEF ReadMembers
    <3>. HIDE DEF r
    <3>. QED  BY <1>1, <1>2, <2>3, <3>1, <3>2
  <2>5. CASE TellMember(t)
    <3>1. PICK to \in job[t].untold :
            /\ Publish(to, IF Api(t) = "ccDial" THEN "ccNewJoin" ELSE "ccCallDrop",
                       IF Api(t) = "ccDial" THEN {job[t].phone} ELSE {job[t].phone} \cap job[t].ips,
                       job[t].id)
            /\ Goon(t, [job[t] EXCEPT !.untold = @ \ {to}])
      BY <2>5 DEF TellMember
    <3>2. /\ [job[t] EXCEPT !.untold = @ \ {to}].api = job[t].api
          /\ [job[t] EXCEPT !.untold = @ \ {to}].id = job[t].id
          /\ to \in Phone /\ job[t].phone \in Phone
      BY <2>2 DEF CcTask
    <3>3. \A m \in mqtt' : m \in mqtt \/ Message(m)
      BY <2>2, <3>1, <3>2 DEF Publish, Message
    <3>4. UNCHANGED http
      BY <2>5 DEF TellMember, meeting
    <3>. QED  BY <1>1, <1>2, <2>3, <3>1, <3>2, <3>3, <3>4
  <2>6. CASE AddMember(t) \/ RemoveMember(t)
    <3>1. [job[t] EXCEPT !.own = FALSE].api = job[t].api /\ [job[t] EXCEPT !.own = FALSE].id = job[t].id
      BY <2>2 DEF CcTask
    <3>2. Goon(t, [job[t] EXCEPT !.own = FALSE]) /\ UNCHANGED <<mqtt, http>>
      BY <2>6 DEF AddMember, RemoveMember
    <3>. QED  BY <1>1, <1>2, <2>3, <3>1, <3>2
  <2>7. CASE AnswerPhone(t)
    <3>1. /\ job' = [job EXCEPT ![t] = Idle] /\ UNCHANGED <<requests, mqtt>>
          /\ \E api : http' = http \cup {Packet(api, job[t].phone, job[t].ips, job[t].id)}
      BY <2>7 DEF AnswerPhone, Answer, Goon
    <3>2. \A api : Packet(api, job[t].phone, job[t].ips, job[t].id).id = job[t].id
      BY DEF Packet
    <3>3. ServiceJob(Idle)
      BY DEF ServiceJob
    <3>4. (\A u \in Thread : ServiceJob(job[u]))'
      BY <1>1, <3>1, <3>3, JobTypes
    <3>. QED  BY <1>1, <1>2, <2>2, <3>1, <3>2, <3>4
  <2>. QED  BY <1>7, <2>4, <2>5, <2>6, <2>7 DEF ConferenceStep
<1>8. ASSUME NEW m, JoinedArrives(m) \/ StopArrives(m) \/ LosePacket(m) \/ NewsArrives(m)
      PROVE  ServerTypes'
  <2>1. UNCHANGED <<job, requests>> /\ mqtt' \subseteq mqtt /\ http' \subseteq http
    BY <1>8 DEF JoinedArrives, StopArrives, LosePacket, NewsArrives, servlets
  <2>. QED  BY <1>1, <1>2, <1>3, <2>1
<1>. QED  BY <1>4, <1>5, <1>6, <1>7, <1>8 DEF Conferring

(* Every step of every service.                                            *)
LEMMA ServerTypesStep ==
  ASSUME BytesInv, AccountInv, Addressed, ConferenceTypes, ServerTypes, [Next]_vars
  PROVE  ServerTypes'
<1>1. ASSUME UNCHANGED <<job, requests, http, bytes, asked>>, mqtt' \subseteq mqtt
      PROVE  ServerTypes'
  <2>1. Id' = Id
    BY <1>1 DEF Id
  <2>. QED  BY <1>1, <2>1 DEF ServerTypes, ServiceJob, Message, Counter
<1>2. CASE OnPhone
  <2>1. UNCHANGED <<job, requests>> /\ mqtt' \subseteq mqtt
    BY <1>2 DEF OnPhone, TextArrives, PhoneStep, FileMessage, OpenConversation, FindOpened, CreateOpened,
                AddOpenedMember, Invite, AddInvited, Rename, servlets
  <2>. QED  BY <1>1, <1>2, <2>1 DEF OnPhone, texts, meeting
<1>3. CASE Lost
  BY <1>1, <1>3 DEF Lost, Lose, texts
<1>4. CASE UNCHANGED vars
  BY <1>1, <1>4 DEF vars, servlets, texts, meeting
<1>. QED  BY <1>2, <1>3, <1>4, AccountTypes, TextTypes, ConferringTypes DEF Next

(* A text on its way through the inbox keeps its people.                   *)
LEMMA OthersStayInbox ==
  ASSUME PhonesInv, NEW p \in Owner, inbox[p] # <<>>, NEW at, NEW in, Moves(p, at, in)
  PROVE  /\ DOMAIN inbox'[p] = DOMAIN inbox[p]
         /\ \A i \in DOMAIN inbox[p] : inbox'[p][i].others = inbox[p][i].others
<1>1. inbox[p] \in Seq(Work) /\ DOMAIN inbox = Owner
  BY DEF PhonesInv, Slices, PhoneInv, PhoneOK
<1>2. 1 \in DOMAIN inbox[p] /\ inbox[p][1] \in Work
  BY <1>1, TailFacts
<1>. DEFINE w == [[inbox[p][1] EXCEPT !.at = at] EXCEPT !.in = in]
<1>3. w.others = inbox[p][1].others
  BY <1>2 DEF Work
<1>4. inbox'[p] = [inbox[p] EXCEPT ![1] = w]
  BY <1>1, <1>2 DEF Moves
<1>. HIDE DEF w
<1>. QED  BY <1>2, <1>3, <1>4

(* The messages that a phone has and has filed.                            *)
LEMMA PhoneAlone ==
  ASSUME PhonesInv, NEW p \in Owner, FileMessage(p), NEW q \in Owner \ {p}
  PROVE  inbox'[q] = inbox[q] /\ filed'[q] = filed[q]
BY DEF PhonesInv, Slices, FileMessage

(* The screens leave the messages alone.                                   *)
LEMMA ScreensBeside ==
  ASSUME NEW p \in Owner, PhoneStep(p), ~FileMessage(p)
  PROVE  UNCHANGED <<inbox, filed>>
BY DEF PhoneStep, OpenConversation, FindOpened, CreateOpened, AddOpenedMember, Invite, AddInvited,
       Rename

(* The service files a text.                                               *)
LEMMA SelfOutFiled ==
  ASSUME PhonesInv, NEW p \in Owner, SelfOut(p), FileMessage(p)
  PROVE  SelfOut(p)'
<1>. PICK m : m = Head(inbox[p])
  OBVIOUS
<1>1. /\ inbox[p] # <<>> /\ inbox[p] \in Seq(Work)
      /\ DOMAIN inbox = Owner /\ DOMAIN filed = Owner
  BY DEF PhonesInv, Slices, PhoneInv, PhoneOK, FileMessage
<1>2. m = inbox[p][1] /\ 1 \in DOMAIN inbox[p] /\ m \in Work
  BY <1>1, TailFacts
<1>3. m.others \in SUBSET Phone /\ p \notin m.others
  BY <1>2 DEF Work, SelfOut
<1>4. \/ UNCHANGED filed /\ \E at, in : Moves(p, at, in)
      \/ /\ filed' = [filed EXCEPT ![p] = @ \cup ({m.others} \X m.in)]
         /\ inbox' = [inbox EXCEPT ![p] = Tail(@)]
  BY DEF FileMessage, Moves
<1>5. \A f \in filed'[p] : f[1] \subseteq Phone \ {p}
  <2>1. filed'[p] = filed[p] \/ filed'[p] = filed[p] \cup ({m.others} \X m.in)
    BY <1>1, <1>4
  <2>. QED  BY <1>3, <2>1 DEF SelfOut
<1>6. \A i \in DOMAIN inbox'[p] : p \notin inbox'[p][i].others
  <2>1. ASSUME NEW at, NEW in, Moves(p, at, in)
        PROVE  \A i \in DOMAIN inbox'[p] : p \notin inbox'[p][i].others
    BY <1>1, <2>1, OthersStayInbox DEF SelfOut
  <2>2. CASE inbox' = [inbox EXCEPT ![p] = Tail(@)]
    <3>1. inbox'[p] = Tail(inbox[p])
      BY <1>1, <2>2
    <3>. QED  BY <1>1, <3>1, TailFacts DEF SelfOut
  <2>. QED  BY <1>4, <2>1, <2>2
<1>. QED  BY <1>5, <1>6 DEF SelfOut

(* Every step: a text arrives without the phone it arrives at.             *)
LEMMA SelfOutStep ==
  ASSUME PhonesInv, \A p \in Owner : SelfOut(p), [Next]_vars
  PROVE  (\A p \in Owner : SelfOut(p))'
<1>1. ASSUME NEW q \in Owner, inbox'[q] = inbox[q], filed'[q] = filed[q]
      PROVE  SelfOut(q)'
  BY <1>1 DEF SelfOut
<1>2. CASE UNCHANGED phones
  BY <1>1, <1>2 DEF phones
<1>3. ASSUME NEW m \in mqtt, TextArrives(m) PROVE (\A p \in Owner : SelfOut(p))'
  <2>1. PICK p, w : p = m.to /\ w = [others |-> m.peers \ {p}, at |-> "lookup", in |-> {}]
    OBVIOUS
  <2>2. /\ p \in Owner /\ inbox' = [inbox EXCEPT ![p] = Append(@, w)]
        /\ UNCHANGED filed /\ p \notin w.others
    BY <1>3, <2>1 DEF TextArrives
  <2>3. inbox[p] \in Seq(Work) /\ DOMAIN inbox = Owner
    BY <2>2 DEF PhonesInv, Slices, PhoneInv, PhoneOK
  <2>4. inbox'[p] = Append(inbox[p], w) /\ \A q \in Owner \ {p} : inbox'[q] = inbox[q]
    BY <2>2, <2>3
  <2>5. /\ DOMAIN inbox'[p] = DOMAIN inbox[p] \cup {Len(inbox[p]) + 1}
        /\ \A i \in DOMAIN inbox[p] : inbox'[p][i] = inbox[p][i]
        /\ inbox'[p][Len(inbox[p]) + 1] = w
    BY <2>3, <2>4
  <2>6. SelfOut(p)'
    BY <2>2, <2>5 DEF SelfOut
  <2>. QED  BY <1>1, <2>2, <2>4, <2>6
<1>4. ASSUME NEW p \in Owner, PhoneStep(p) PROVE (\A q \in Owner : SelfOut(q))'
  <2>1. CASE FileMessage(p)
    BY <1>1, <2>1, PhoneAlone, SelfOutFiled
  <2>2. CASE ~FileMessage(p)
    BY <1>1, <1>4, <2>2, ScreensBeside
  <2>. QED  BY <2>1, <2>2
<1>5. CASE OnPhone
  BY <1>3, <1>4, <1>5 DEF OnPhone
<1>. QED  BY <1>2, <1>5 DEF Next, Account, Text, Conferring, Lost, vars

(* Before the first request.                                               *)
LEMMA ServicesStart ==
  ASSUME Init
  PROVE  ServerTypes /\ KeyTypes /\ \A p \in Owner : SelfOut(p)
<1>1. /\ job = [t \in Thread |-> Idle] /\ mqtt = {} /\ http = {}
      /\ asked \in DOMAIN Menu /\ requests = Menu[asked] /\ bytes = [c \in Counter |-> 0]
  BY DEF Init, ServletsInit, ConferenceInit, TextsInit
<1>2. Menu[asked] \in Nat
  BY <1>1, ServicesAssumption
<1>3. ServerTypes
  BY <1>1, <1>2 DEF ServerTypes, ServiceJob
<1>4. KeyTypes
  BY DEF Init, AccountsInit, KeyTypes
<1>5. ASSUME NEW p \in Owner PROVE SelfOut(p)
  <2>1. inbox[p] = <<>> /\ filed[p] = {}
    BY DEF Init, ConversationsInit
  <2>. QED  BY <2>1 DEF SelfOut
<1>. QED  BY <1>3, <1>4, <1>5

(* The types of the services: the threads work for accounts, texts or      *)
(* conferences on what these are about, messages are for phones, counters  *)
(* are never negative, and what a phone has filed is of others, without    *)
(* itself, in a conversation that it has.                                  *)
THEOREM ServicesTypeCorrect == Spec => []TypeOK
<1>. DEFINE All == /\ MailInv /\ AccountInv /\ ConferenceInv /\ ServerTypes /\ KeyTypes
                   /\ \A p \in Owner : SelfOut(p)
<1>1. Init => All
  BY MailStart, AccountStart, ConferenceInvStart, ServicesStart
<1>2. All /\ [Next]_vars => All'
  <2>. SUFFICES ASSUME All, [Next]_vars PROVE All'
    OBVIOUS
  <2>1. BytesInv /\ Addressed /\ PhonesInv /\ ConferenceTypes
    BY DEF MailInv, ConferenceInv
  <2>. QED  BY <2>1, MailStep, AccountStepKeeps, ConferenceInvStep, ServerTypesStep, KeyTypesStep,
               SelfOutStep
<1>3. All => TypeOK
  <2>. SUFFICES ASSUME All PROVE TypeOK
    OBVIOUS
  <2>1. BytesInv /\ PhonesInv /\ ConferenceTypes /\ AccountsOK /\ ServerTypes
    BY DEF MailInv, ConferenceInv, AccountInv
  <2>2. ASSUME NEW t \in Thread
        PROVE  \/ job[t] = Idle
               \/ Api(t) \in AccountApi /\ ToSet(job[t].writes) \subseteq ToSet(Fields)
               \/ Api(t) = "txtMsg" /\ job[t].uncounted \cup job[t].row \subseteq Counter
               \/ Api(t) \in CcApi /\ job[t].untold \cup job[t].ips \subseteq Phone
    <3>1. CASE job[t].api \in AccountApi /\ job[t].writes \in Seq(Field)
      <4>1. ToSet(job[t].writes) \subseteq Field
        BY <3>1 DEF ToSet
      <4>. QED  BY <3>1, <4>1 DEF Api, Field
    <3>2. CASE job[t].api = "txtMsg"
      BY <2>1, <3>2 DEF BytesInv, JobsOK, NotText, TextJob, Api
    <3>3. CASE job[t].api \in CcApi
      BY <2>1, <3>3 DEF ConferenceTypes, CcTask, Api
    <3>. QED  BY <2>1, <3>1, <3>2, <3>3 DEF ServerTypes, ServiceJob
  <2>3. ASSUME NEW p \in Owner
        PROVE  /\ \A c \in DOMAIN conversation[p] :
                    conversation[p][c].hash \cup conversation[p][c].members \subseteq Phone
               /\ \A f \in filed[p] :
                    f[1] \subseteq Phone \ {p} /\ f[2] \in DOMAIN conversation[p]
    <3>1. PhoneOK(p) /\ FiledInv(p) /\ SelfOut(p)
      BY <2>1 DEF PhonesInv, PhoneInv
    <3>2. ASSUME NEW c \in DOMAIN conversation[p]
          PROVE  conversation[p][c].hash \subseteq Phone /\ conversation[p][c].members \subseteq Phone
      <4>1. conversation[p][c] \in Conversation
        BY <3>1 DEF PhoneOK
      <4>. QED  BY <4>1 DEF Conversation
    <3>. QED  BY <3>1, <3>2 DEF SelfOut, FiledInv
  <2>4. /\ user \in [Number -> [ToSet(Fields) -> Person \cup {Nobody}]]
        /\ told \in [Number -> SUBSET Person]
        /\ garbled \subseteq Number \X ToSet(Fields) /\ clashed \subseteq Thread
    BY <2>1 DEF AccountsOK, KeyTypes, Field
  <2>5. /\ requests \in 0 .. Menu[asked] /\ bytes \in [Counter -> Nat]
        /\ \A m \in mqtt : /\ m.to \in Phone
                           /\ m.topic \in {"txtMsg", "ccNewJoin", "ccCallDrop"}
                           /\ m.peers \subseteq Phone
                           /\ m.id \in 1 .. Menu[asked]
    BY <2>1 DEF ServerTypes, Message, Id
  <2>6. /\ joined \cup conference \cup engaged \subseteq Phone
        /\ peers \in [Phone -> SUBSET Phone]
    BY <2>1 DEF ConferenceTypes
  <2>. QED  BY <2>2, <2>3, <2>4, <2>5, <2>6 DEF TypeOK
<1>. HIDE DEF All
<1>. QED  BY <1>1, <1>2, <1>3, PTL DEF Spec

=============================================================================
