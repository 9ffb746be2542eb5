----------------------------- MODULE CallServer -----------------------------
(***************************************************************************)
(* The telephone exchange of the TinyTalk server: the three call requests  *)
(* (business/call/CallController), the usage records behind the bill       *)
(* (business/usage/UsageManager), the Redis rows they share and the MQTT   *)
(* messages they publish.                                                  *)
(*                                                                         *)
(* Every request runs in a thread of the servlet container; nothing is     *)
(* locked and nothing is transactional, so a thread's steps are its single *)
(* Redis and MQTT operations and the steps of the threads interleave.      *)
(* Requests are taken as authenticated, and all of them fall into one      *)
(* billing period.                                                         *)
(***************************************************************************)
EXTENDS Integers, FiniteSets

CONSTANTS
  Phone,       \* telephone numbers; a phone's address is written as itself
  NoPhone,     \* the empty string: no partner recorded
  Thread,      \* threads of the container
  IntSpan,     \* how many seconds of milliseconds a Java int can hold
  MaxTime,     \* bound: the clock stops there
  MaxRequests  \* bound: requests the environment sends

ASSUME ServerAssumption ==
  /\ NoPhone \notin Phone
  /\ IntSpan \in Nat \ {0}
  /\ MaxTime \in Nat
  /\ MaxRequests \in Nat

VARIABLES
  partner,    \* CALL:<phone>.partner
  callType,   \* CALL:<phone>.type
  callStart,  \* CALL_START:<phone>.start, or NoTime
  history,    \* CALL_HISTORY:<phone>:<period>, seconds in and out
  thread,     \* the request each thread is working on
  mqtt,       \* published and not yet delivered, counted
  now,        \* the server's clock
  charged,    \* history only: what the drops have computed
  accepted,   \* history only: <<p, q>> when an acceptance by p went to q
  raced,      \* history only: rows that two threads were updating at once
  requests    \* bound only: requests sent so far

vars == <<partner, callType, callStart, history, thread, mqtt, now, charged,
          accepted, raced, requests>>

-----------------------------------------------------------------------------
NoTime == -1
Kind == {"in", "out"}
Response == {"accept", "deny", "busy"}
Api == {"none", "dial", "drop"} \cup Response
Step == {"idle", "publish", "partner1", "type1", "partner2", "type2", "lookup",
         "start1", "start2", "readStart", "readType", "readHistory",
         "writeHistory", "done", "failed"}

(* leg: which dropCall of a drop runs, 1 for the phone that sent it and 2  *)
(* for its partner. amount, kind, total: the locals of that dropCall.      *)
Task == [step : Step, api : Api, phone : Phone \cup {NoPhone},
         peer : Phone \cup {NoPhone}, leg : {1, 2}, amount : Int,
         kind : Kind, total : Int]

IdleTask == [step |-> "idle", api |-> "none", phone |-> NoPhone, peer |-> NoPhone,
             leg |-> 1, amount |-> 0, kind |-> "in", total |-> 0]

(* A dial and an acceptance carry an address, the others are bare.         *)
Message == [topic : {"dial", "accept"}, peers : {{p} : p \in Phone}]
     \cup [topic : {"deny", "busy", "callDrop"}, peers : {{}}]

TypeOK ==
  /\ partner \in [Phone -> Phone \cup {NoPhone}]
  /\ callType \in [Phone -> {"", "SENDER", "RECEIVER"}]
  /\ callStart \in [Phone -> Nat \cup {NoTime}]
  /\ history \in [Phone -> [Kind -> Int]]
  /\ thread \in [Thread -> Task]
  /\ mqtt \in [Phone -> [Message -> Nat]]
  /\ now \in Nat
  /\ charged \in [Phone -> [Kind -> Int]]
  /\ accepted \subseteq Phone \X Phone
  /\ raced \subseteq Phone \X (Kind \cup {"call"})
  /\ requests \in Nat

Init ==
  /\ partner = [p \in Phone |-> NoPhone]
  /\ callType = [p \in Phone |-> ""]
  /\ callStart = [p \in Phone |-> NoTime]
  /\ history = [p \in Phone |-> [k \in Kind |-> 0]]
  /\ thread = [t \in Thread |-> IdleTask]
  /\ mqtt = [p \in Phone |-> [m \in Message |-> 0]]
  /\ now = 0
  /\ charged = [p \in Phone |-> [k \in Kind |-> 0]]
  /\ accepted = {}
  /\ raced = {}
  /\ requests = 0

-----------------------------------------------------------------------------
At(t, step) == thread[t].step = step
Goto(t, step) == thread' = [thread EXCEPT ![t].step = step]
Publish(p, m) == mqtt' = [mqtt EXCEPT ![p][m] = @ + 1]

rows == <<partner, callType, callStart>>
usage == <<history, charged, raced, accepted>>

(* A request reaches its controller.                                       *)
Begin(t, api, p, q) ==
  /\ At(t, "idle")
  /\ thread' = [thread EXCEPT ![t] =
       [IdleTask EXCEPT !.api = api, !.phone = p, !.peer = q,
                        !.step = IF api = "dial" THEN "publish" ELSE "lookup"]]
  /\ UNCHANGED <<rows, usage, mqtt, now>>

(* The response is on its way; the phone treats every status alike.        *)
End(t) ==
  /\ thread[t].step \in {"done", "failed"}
  /\ thread' = [thread EXCEPT ![t] = IdleTask]
  /\ UNCHANGED <<rows, usage, mqtt, now>>

-----------------------------------------------------------------------------
(* dial: the callee is told first, the rows are written afterwards. *)

PublishDial(t) ==
  /\ At(t, "publish")
  /\ thread[t].api = "dial"
  /\ Publish(thread[t].peer, [topic |-> "dial", peers |-> {thread[t].phone}])
  /\ Goto(t, "partner1")
  /\ UNCHANGED <<rows, usage, now>>

(* Another dial with a phone in common has begun its writes as well.       *)
Begun == {"type1", "partner2", "type2"}
Parties(t) == {thread[t].phone, thread[t].peer}
Overlap(t) == UNION {Parties(t) \cap Parties(u) : u \in {u \in Thread \ {t} :
                     thread[u].step \in Begun}}

(* Mutant of WriteCallInfo: the partners are written before the types.     *)
WriteCallInfo_PartnersFirst(t) ==
  LET sender   == thread[t].phone
      receiver == thread[t].peer
  IN
  /\ \/ /\ At(t, "partner1")
        /\ partner' = [partner EXCEPT ![sender] = receiver]
        /\ Goto(t, "partner2")
        /\ UNCHANGED callType
     \/ /\ At(t, "partner2")
        /\ partner' = [partner EXCEPT ![receiver] = sender]
        /\ Goto(t, "type1")
        /\ UNCHANGED callType
     \/ /\ At(t, "type1")
        /\ callType' = [callType EXCEPT ![sender] = "SENDER"]
        /\ Goto(t, "type2")
        /\ UNCHANGED partner
     \/ /\ At(t, "type2")
        /\ callType' = [callType EXCEPT ![receiver] = "RECEIVER"]
        /\ Goto(t, "done")
        /\ UNCHANGED partner
  /\ raced' = raced \cup (Overlap(t) \X {"call"})
  /\ UNCHANGED <<callStart, history, charged, accepted, mqtt, now>>

(* Mutant of WriteCallInfo: the receiver keeps the type of its last call.  *)
WriteCallInfo_OneType(t) ==
  /\ \/ /\ At(t, "partner1")
        /\ partner' = [partner EXCEPT ![thread[t].phone] = thread[t].peer]
        /\ Goto(t, "type1")
        /\ UNCHANGED callType
     \/ /\ At(t, "type1")
        /\ callType' = [callType EXCEPT ![thread[t].phone] = "SENDER"]
        /\ Goto(t, "partner2")
        /\ UNCHANGED partner
     \/ /\ At(t, "partner2")
        /\ partner' = [partner EXCEPT ![thread[t].peer] = thread[t].phone]
        /\ Goto(t, "done")
        /\ UNCHANGED callType
  /\ raced' = raced \cup (Overlap(t) \X {"call"})
  /\ UNCHANGED <<callStart, history, charged, accepted, mqtt, now>>

(* The four writes of writeCallInfo, in their order. *)
WriteCallInfo(t) ==
  LET sender   == thread[t].phone
      receiver == thread[t].peer
  IN
  /\ \/ /\ At(t, "partner1")
        /\ partner' = [partner EXCEPT ![sender] = receiver]
        /\ Goto(t, "type1")
        /\ UNCHANGED callType
     \/ /\ At(t, "type1")
        /\ callType' = [callType EXCEPT ![sender] = "SENDER"]
        /\ Goto(t, "partner2")
        /\ UNCHANGED partner
     \/ /\ At(t, "partner2")
        /\ partner' = [partner EXCEPT ![receiver] = sender]
        /\ Goto(t, "type2")
        /\ UNCHANGED callType
     \/ /\ At(t, "type2")
        /\ callType' = [callType EXCEPT ![receiver] = "RECEIVER"]
        /\ Goto(t, "done")
        /\ UNCHANGED partner
  /\ raced' = raced \cup (Overlap(t) \X {"call"})
  /\ UNCHANGED <<callStart, history, charged, accepted, mqtt, now>>

-----------------------------------------------------------------------------
(* dialResponse and drop first look the partner up. *)

(* A response without a recorded partner is dropped with a line in the log;*)
(* a drop goes on.                                                         *)
Lookup(t) ==
  LET p == thread[t].phone IN
  /\ At(t, "lookup")
  /\ thread' = [thread EXCEPT
       ![t].peer = partner[p],
       ![t].step = IF partner[p] = NoPhone /\ thread[t].api \in Response
                   THEN "done" ELSE "publish"]
  /\ UNCHANGED <<rows, usage, mqtt, now>>

(* Mutant of PublishResponse: every response starts the clock.             *)
PublishResponse_AlwaysStarts(t) ==
  /\ At(t, "publish")
  /\ thread[t].api \in Response
  /\ Publish(thread[t].peer,
             [topic |-> thread[t].api,
              peers |-> IF thread[t].api = "accept" THEN {thread[t].phone} ELSE {}])
  /\ Goto(t, "start1")
  /\ UNCHANGED <<rows, usage, now>>

PublishResponse(t) ==
  /\ At(t, "publish")
  /\ thread[t].api \in Response
  /\ Publish(thread[t].peer,
             [topic |-> thread[t].api,
              peers |-> IF thread[t].api = "accept" THEN {thread[t].phone} ELSE {}])
  /\ Goto(t, IF thread[t].api = "accept" THEN "start1" ELSE "done")
  /\ accepted' = IF thread[t].api = "accept"
                 THEN accepted \cup {<<thread[t].phone, thread[t].peer>>} ELSE accepted
  /\ UNCHANGED <<rows, history, charged, raced, now>>

(* Mutant of CallStart: only the caller gets a start time.                 *)
CallStart_CallerOnly(t) ==
  /\ At(t, "start1")
  /\ callStart' = [callStart EXCEPT ![thread[t].peer] = now]
  /\ Goto(t, "done")
  /\ UNCHANGED <<partner, callType, usage, mqtt, now>>

(* UsageManager.callStart, for the caller and then for the callee.         *)
CallStart(t) ==
  /\ \/ /\ At(t, "start1")
        /\ callStart' = [callStart EXCEPT ![thread[t].peer] = now]
        /\ Goto(t, "start2")
     \/ /\ At(t, "start2")
        /\ callStart' = [callStart EXCEPT ![thread[t].phone] = now]
        /\ Goto(t, "done")
  /\ UNCHANGED <<partner, callType, usage, mqtt, now>>

(* Mutant of PublishDrop: the phone that hung up is told, not its partner. *)
PublishDrop_ToSender(t) ==
  /\ At(t, "publish")
  /\ thread[t].api = "drop"
  /\ IF thread[t].peer = NoPhone
     THEN Goto(t, "failed") /\ UNCHANGED mqtt
     ELSE /\ Publish(thread[t].phone, [topic |-> "callDrop", peers |-> {}])
          /\ Goto(t, "readStart")
  /\ UNCHANGED <<rows, usage, now>>

(* Publishing to the empty topic throws, and nothing is billed.            *)
PublishDrop(t) ==
  /\ At(t, "publish")
  /\ thread[t].api = "drop"
  /\ IF thread[t].peer = NoPhone
     THEN Goto(t, "failed") /\ UNCHANGED mqtt
     ELSE /\ Publish(thread[t].peer, [topic |-> "callDrop", peers |-> {}])
          /\ Goto(t, "readStart")
  /\ UNCHANGED <<rows, usage, now>>

-----------------------------------------------------------------------------
(* UsageManager.dropCall. *)

Subject(t) == IF thread[t].leg = 1 THEN thread[t].phone ELSE thread[t].peer

(* (int)(now - start) / 1000: the cast comes before the division.          *)
Seconds(elapsed) == ((elapsed + IntSpan) % (2 * IntSpan)) - IntSpan

(* Without a start time parseLong throws; the steps taken stay done.       *)
ReadStart(t) ==
  /\ At(t, "readStart")
  /\ IF callStart[Subject(t)] = NoTime
     THEN Goto(t, "failed")
     ELSE thread' = [thread EXCEPT ![t].amount = Seconds(now - callStart[Subject(t)]),
                                   ![t].step = "readType"]
  /\ UNCHANGED <<rows, usage, mqtt, now>>

ReadType(t) ==
  /\ At(t, "readType")
  /\ thread' = [thread EXCEPT
       ![t].kind = IF callType[Subject(t)] = "SENDER" THEN "out" ELSE "in",
       ![t].step = "readHistory"]
  /\ UNCHANGED <<rows, usage, mqtt, now>>

(* updateCallSecond reads the row ...                                      *)
ReadHistory(t) ==
  LET n == Subject(t)
      k == thread[t].kind
      rival(u) == u # t /\ At(u, "writeHistory") /\ Subject(u) = n /\ thread[u].kind = k
  IN
  /\ At(t, "readHistory")
  /\ thread' = [thread EXCEPT ![t].total = history[n][k], ![t].step = "writeHistory"]
  /\ charged' = [charged EXCEPT ![n][k] = @ + thread[t].amount]
  /\ raced' = raced \cup (IF \E u \in Thread : rival(u) THEN {<<n, k>>} ELSE {})
  /\ UNCHANGED <<rows, history, accepted, mqtt, now>>

(* Mutant of WriteHistory: the amount replaces the total.                  *)
WriteHistory_Replaces(t) ==
  /\ At(t, "writeHistory")
  /\ history' = [history EXCEPT ![Subject(t)][thread[t].kind] = thread[t].amount]
  /\ thread' = IF thread[t].leg = 1
               THEN [thread EXCEPT ![t].leg = 2, ![t].step = "readStart"]
               ELSE [thread EXCEPT ![t].step = "done"]
  /\ UNCHANGED <<rows, charged, raced, accepted, mqtt, now>>

(* ... and writes it back.                                                 *)
WriteHistory(t) ==
  /\ At(t, "writeHistory")
  /\ history' = [history EXCEPT
       ![Subject(t)][thread[t].kind] = thread[t].total + thread[t].amount]
  /\ thread' = IF thread[t].leg = 1
               THEN [thread EXCEPT ![t].leg = 2, ![t].step = "readStart"]
               ELSE [thread EXCEPT ![t].step = "done"]
  /\ UNCHANGED <<rows, charged, raced, accepted, mqtt, now>>

Serve(t) ==
  \/ PublishDial(t) \/ WriteCallInfo(t)
  \/ Lookup(t) \/ PublishResponse(t) \/ CallStart(t) \/ PublishDrop(t)
  \/ ReadStart(t) \/ ReadType(t) \/ ReadHistory(t) \/ WriteHistory(t)

-----------------------------------------------------------------------------
(* Time and the broker. Every message is published with QoS 0 on a         *)
(* connection of its own: it can be lost, and messages overtake each other.*)

Tick ==
  /\ now < MaxTime
  /\ now' = now + 1
  /\ UNCHANGED <<rows, usage, thread, mqtt>>

(* Mutant of Delivered: a message that was never published.                *)
Delivered_Twice(p, m) == mqtt' = [mqtt EXCEPT ![p][m] = @ - 1]

Delivered(p, m) ==
  /\ mqtt[p][m] > 0
  /\ mqtt' = [mqtt EXCEPT ![p][m] = @ - 1]

Deliver(p, m) ==
  /\ Delivered(p, m)
  /\ UNCHANGED <<rows, usage, thread, now>>

-----------------------------------------------------------------------------
(* The server against any phones: the REST interface accepts every request *)
(* in every order.                                                         *)

Request ==
  /\ requests < MaxRequests
  /\ requests' = requests + 1
  /\ \E t \in Thread, p \in Phone :
       \/ \E q \in Phone \ {p} : Begin(t, "dial", p, q)
       \/ \E api \in Response \cup {"drop"} : Begin(t, api, p, NoPhone)

Next ==
  \/ Request
  \/ /\ \/ \E t \in Thread : Serve(t) \/ End(t)
        \/ \E p \in Phone, m \in Message : Deliver(p, m)
        \/ Tick
     /\ UNCHANGED requests

Spec == Init /\ [][Next]_vars

-----------------------------------------------------------------------------
(* Properties. *)

Updating(n, k) ==
  \E t \in Thread : At(t, "writeHistory") /\ Subject(t) = n /\ thread[t].kind = k

(* The seconds a drop has computed are stored in CALL_HISTORY: nothing is  *)
(* lost between the read and the write of updateCallSecond, unless two     *)
(* threads update the same row at once.                                    *)
UsageStored ==
  \A n \in Phone, k \in Kind :
    <<n, k>> \notin raced /\ ~Updating(n, k) => history[n][k] = charged[n][k]

(* Of two phones that are each other's partner one is the SENDER, who pays,*)
(* and the other the RECEIVER, however calls between third phones and new  *)
(* dials are mixed, unless two dials wrote the rows of a phone at once.    *)
OnePayer ==
  \A p, q \in Phone :
    /\ partner[p] = q /\ partner[q] = p
    /\ {p, q} \X {"call"} \cap raced = {}
    /\ \A t \in Thread : thread[t].step \in Begun => Parties(t) \cap {p, q} = {}
    => {callType[p], callType[q]} = {"SENDER", "RECEIVER"}

(* An acceptance that was forwarded starts the clock of both phones, and   *)
(* the clock stays started: once its thread is through, no drop of either  *)
(* phone fails for want of a start time, whatever other calls do.          *)
AcceptedCallHasStart ==
  \A p, q \in Phone :
    <<p, q>> \in accepted =>
      \/ callStart[p] # NoTime /\ callStart[q] # NoTime
      \/ \E t \in Thread : /\ thread[t].step \in {"start1", "start2"}
                           /\ thread[t].phone = p /\ thread[t].peer = q

(* Usage is computed only for calls that were accepted: rest_api_examples  *)
(* makes the acceptance the start of a call.                               *)
OnlyAcceptedBilled ==
  \A t \in Thread :
    thread[t].step \in {"readType", "readHistory", "writeHistory"} =>
      \/ <<thread[t].phone, thread[t].peer>> \in accepted
      \/ <<thread[t].peer, thread[t].phone>> \in accepted

=============================================================================
