---------------------------- MODULE Conference ----------------------------
(***************************************************************************)
(* A conference call of the phones: CcController.startCall and endCall on  *)
(* the set of its members in Redis, the requests and answers of the phones *)
(* (RestApi), the ccNewJoin and ccCallDrop messages, and what the call     *)
(* session of a phone does with them (CallSessionService).                 *)
(*                                                                         *)
(* The phones have one conference among them. Its peers are the addresses  *)
(* that the session of a phone has been told of; the audio behind a peer   *)
(* is the subject of InCallAudio, the seconds of the bill are the subject  *)
(* of CallServer, and of a voice call there is only what keeps a phone     *)
(* from its conference. A phone that starts a conference has its call      *)
(* start before it has the answer, so that the end never fails for want of *)
(* one.                                                                    *)
(***************************************************************************)
EXTENDS Servlets

VARIABLES
  joined,      \* the set cccall:<number>
  conference,  \* the phones that are IN_CONFERENCE_CALL
  engaged,     \* those that are CALLING, INCOMING or IN_CALL; the rest LISTENING
  peers,       \* the addresses each of them has
  http,        \* requests not yet taken by a thread, and answers on their way
  upset        \* history: what can part phones and server, see ConferenceAgrees

meeting == <<joined, conference, engaged, peers, http, upset>>

ConferenceInit ==
  /\ joined = {}
  /\ conference = {}
  /\ engaged = {}
  /\ peers = [p \in Phone |-> {}]
  /\ http = {}
  /\ upset = {}

Upset(what, happened) == upset' = upset \cup IF happened THEN {what} ELSE {}

Packet(api, p, ips, id) == [api |-> api, phone |-> p, peers |-> ips, id |-> id]

-----------------------------------------------------------------------------
(* The phone's user starts the conference, whatever the phone is doing, or *)
(* leaves it: the session does not wait for the server to agree.           *)
Start(p) ==
  /\ requests > 0
  /\ http' = http \cup {Packet("ccDial", p, {}, requests)}
  /\ requests' = requests - 1
  /\ UNCHANGED <<job, mqtt, joined, conference, engaged, peers, upset>>

HangUp(p) ==
  /\ requests > 0
  /\ p \in conference
  /\ http' = http \cup {Packet("ccDrop", p, {}, requests)}
  /\ requests' = requests - 1
  /\ conference' = conference \ {p}
  /\ peers' = [peers EXCEPT ![p] = {}]
  /\ UNCHANGED <<job, mqtt, joined, engaged, upset>>

(* A voice call: one that comes in rings when the phone is LISTENING only, *)
(* one that goes out takes the phone out of its conference, and nobody is  *)
(* told.                                                                   *)
Engage(p) ==
  /\ requests > 0
  /\ p \notin engaged
  /\ requests' = requests - 1
  /\ engaged' = engaged \cup {p}
  /\ conference' = conference \ {p}
  /\ Upset("called away", p \in conference)
  /\ UNCHANGED <<job, mqtt, joined, peers, http>>

(* The voice call ends. If it had been connected, its audio had taken the  *)
(* place of what the conference had left.                                  *)
Disengage(p) ==
  /\ p \in engaged
  /\ engaged' = engaged \ {p}
  /\ peers' \in {peers, [peers EXCEPT ![p] = {}]}
  /\ UNCHANGED <<servlets, joined, conference, http, upset>>

-----------------------------------------------------------------------------
(* unread: the members are still to be read. own: the sender's entry is    *)
(* still to be added or removed. untold: the members still to be told.     *)
(* ips: the members that were read. A sender that is not among them has no *)
(* address to drop: the others are told of null.                           *)
CcApi == {"ccDial", "ccDrop"}

TakeRequest(t, m) ==
  /\ m \in http
  /\ m.api \in CcApi
  /\ job[t] = Idle
  /\ Goon(t, [api |-> m.api, phone |-> m.phone, id |-> m.id, unread |-> TRUE,
              own |-> TRUE, untold |-> {}, ips |-> {}])
  /\ http' = http \ {m}
  /\ UNCHANGED <<mqtt, joined, conference, engaged, peers, upset>>

(* Threads between their reading and their writing of the set.             *)
Between == {t \in Thread : Api(t) \in CcApi /\ ~job[t].unread /\ job[t].own}

ReadMembers(t) ==
  /\ Api(t) \in CcApi
  /\ job[t].unread
  /\ Goon(t, [job[t] EXCEPT
       !.unread = FALSE, !.ips = joined,
       !.untold = IF Api(t) = "ccDial" THEN joined ELSE joined \ {job[t].phone}])
  /\ upset' = upset
       \cup (IF \E u \in Between : "ccDial" \in {Api(t), Api(u)} THEN {"at once"} ELSE {})
       \cup (IF Api(t) = "ccDial" /\ job[t].phone \in joined THEN {"again"} ELSE {})
  /\ UNCHANGED <<mqtt, joined, conference, engaged, peers, http>>

TellMember(t) ==
  /\ Api(t) \in CcApi
  /\ Api(t) = "ccDrop" => ~job[t].own
  /\ \E to \in job[t].untold :
       /\ Publish(to, IF Api(t) = "ccDial" THEN "ccNewJoin" ELSE "ccCallDrop",
                  IF Api(t) = "ccDial" THEN {job[t].phone} ELSE {job[t].phone} \cap job[t].ips,
                  job[t].id)
       /\ Goon(t, [job[t] EXCEPT !.untold = @ \ {to}])
  /\ UNCHANGED meeting

(* startCall: the sender is a member when the others have been told.       *)
AddMember(t) ==
  /\ Api(t) = "ccDial"
  /\ ~job[t].unread /\ job[t].untold = {} /\ job[t].own
  /\ joined' = joined \cup {job[t].phone}
  /\ Goon(t, [job[t] EXCEPT !.own = FALSE])
  /\ UNCHANGED <<mqtt, conference, engaged, peers, http, upset>>

(* Mutant: the entry is removed, and nobody is told.                       *)
RemoveMember_TellsNobody(t) ==
  /\ Api(t) = "ccDrop"
  /\ ~job[t].unread /\ job[t].own
  /\ joined' = joined \ ({job[t].phone} \cap job[t].ips)
  /\ Goon(t, [job[t] EXCEPT !.own = FALSE, !.untold = {}])
  /\ UNCHANGED <<mqtt, conference, engaged, peers, http, upset>>

(* endCall: the sender's entry goes, then the others are told.             *)
RemoveMember(t) ==
  /\ Api(t) = "ccDrop"
  /\ ~job[t].unread /\ job[t].own
  /\ joined' = joined \ ({job[t].phone} \cap job[t].ips)
  /\ Goon(t, [job[t] EXCEPT !.own = FALSE])
  /\ UNCHANGED <<mqtt, conference, engaged, peers, http, upset>>

AnswerPhone(t) ==
  /\ Api(t) \in CcApi
  /\ ~job[t].own /\ job[t].untold = {}
  /\ http' = http \cup {Packet(IF Api(t) = "ccDial" THEN "joined" ELSE "stop",
                               job[t].phone, job[t].ips, job[t].id)}
  /\ Answer(t)
  /\ UNCHANGED <<mqtt, joined, conference, engaged, peers, upset>>

ConferenceStep(t) ==
  ReadMembers(t) \/ TellMember(t) \/ AddMember(t) \/ RemoveMember(t) \/ AnswerPhone(t)

-----------------------------------------------------------------------------
(* START_CONFERENCE is for a phone that is LISTENING; one that is engaged  *)
(* does not take it, and is a member to the server all the same.           *)
JoinedArrives(m) ==
  /\ m \in http
  /\ m.api = "joined"
  /\ http' = http \ {m}
  /\ conference' = conference \cup ({m.phone} \ engaged)
  /\ peers' = [peers EXCEPT ![m.phone] =
       IF m.phone \in conference \cup engaged THEN @ ELSE m.peers]
  /\ Upset("engaged", m.phone \in engaged)
  /\ UNCHANGED <<servlets, joined, engaged>>

(* STOP_CONFERENCE ends the conference the phone is in by now: the numbers *)
(* are not compared. The server is not told.                               *)
StopArrives(m) ==
  /\ m \in http
  /\ m.api = "stop"
  /\ http' = http \ {m}
  /\ conference' = conference \ {m.phone}
  /\ peers' = [peers EXCEPT ![m.phone] = IF m.phone \in conference THEN {} ELSE @]
  /\ Upset("late answer", m.phone \in conference)
  /\ UNCHANGED <<servlets, joined, engaged>>

Joining(p) == p \in joined \/ \E t \in Thread : Api(t) = "ccDial" /\ job[t].phone = p

(* PEER_JOIN_CONFERENCE and PEER_LEAVE_CONFERENCE are for a phone that is  *)
(* in the conference. A phone is early that has been added and not yet     *)
(* answered; news is late when it is no longer so.                         *)
NewsArrives(m) ==
  /\ m \in mqtt
  /\ m.topic \in {"ccNewJoin", "ccCallDrop"}
  /\ mqtt' = mqtt \ {m}
  /\ peers' = [peers EXCEPT ![m.to] =
       IF m.to \notin conference THEN @
       ELSE IF m.topic = "ccNewJoin" THEN @ \cup m.peers ELSE @ \ m.peers]
  /\ upset' = upset
       \cup (IF m.to \in joined \ conference THEN {"early"} ELSE {})
       \cup (IF m.to \in conference /\ \E p \in m.peers : (m.topic = "ccNewJoin") # Joining(p)
             THEN {"late news"} ELSE {})
  /\ UNCHANGED <<job, requests, joined, conference, engaged, http>>

(* A request or an answer is lost, or takes longer than the phone waits.   *)
LosePacket(m) ==
  /\ m \in http
  /\ http' = http \ {m}
  /\ Upset("lost", TRUE)
  /\ UNCHANGED <<servlets, joined, conference, engaged, peers>>

-----------------------------------------------------------------------------
(* A conference at rest is the same to the phones and to the server: those *)
(* that are in it are the members, and each has the others for its peers.  *)
(* There are eight ways to part them while the server, the broker and the  *)
(* apps run: two threads that have read the members and not yet written    *)
(* their own (at once), a start by a member (again), news of a phone that  *)
(* has come or gone before one has the answer to one's own start (early)   *)
(* or that is no longer so when it arrives (late news), the answer to a    *)
(* hangup that finds the phone in the conference again (late answer), the  *)
(* answer to a start that finds it in a voice call (engaged), a voice call *)
(* that it makes from the conference (called away), and a lost packet.     *)
ConferenceAgrees ==
  /\ upset = {}
  /\ http = {}
  /\ \A t \in Thread : Api(t) \notin CcApi
  /\ \A m \in mqtt : m.topic \notin {"ccNewJoin", "ccCallDrop"}
  => /\ conference = joined
     /\ \A p \in conference : peers[p] = joined \ {p}

=============================================================================
