------------------------- MODULE CallServer_proofs -------------------------
(***************************************************************************)
(* What holds of the exchange for every set of phones and threads and any  *)
(* number of requests: its types, that an accepted call has start times,   *)
(* that computed usage is stored, and that one of two partners pays.       *)
(***************************************************************************)
EXTENDS CallServer, TLAPS

-----------------------------------------------------------------------------
(* Types. *)

(* A thread that serves a request knows the phone that sent it, and from   *)
(* the moment it needs a partner it has one; only a drop may be without.   *)
(* Only a response and a drop look a partner up.                           *)
TaskKnown(task) ==
  /\ task.step = "lookup" => task.api \in Response \cup {"drop"}
  /\ task.step # "idle" => task.phone \in Phone
  /\ task.step \notin {"idle", "lookup", "done", "failed"} =>
       task.peer \in Phone \/ (task.step = "publish" /\ task.api = "drop")

TasksKnown == \A t \in Thread : TaskKnown(thread[t])

TypeInv == TypeOK /\ TasksKnown

(* What a step may put into a thread's task.                               *)
LEMMA GotoType ==
  ASSUME TypeInv, NEW t \in Thread, NEW s \in Step, Goto(t, s)
  PROVE  thread' \in [Thread -> Task] /\ thread' = [thread EXCEPT ![t] = [thread[t] EXCEPT !.step = s]]
<1>1. [thread[t] EXCEPT !.step = s] \in Task
  <2>1. thread[t] \in Task
    BY DEF TypeInv, TypeOK
  <2>. QED  BY <2>1 DEF Task
<1>. QED  BY <1>1 DEF Goto, TypeInv, TypeOK

(* A thread that goes on to a step for which it knows enough.              *)
LEMMA GotoKnown ==
  ASSUME TypeInv, NEW t \in Thread, NEW s \in Step, Goto(t, s),
         s # "idle" => thread[t].phone \in Phone, s # "lookup",
         s \notin {"idle", "lookup", "done", "failed"} => thread[t].peer \in Phone
  PROVE  thread' \in [Thread -> Task] /\ TasksKnown'
<1>1. thread' \in [Thread -> Task] /\ thread' = [thread EXCEPT ![t] = [thread[t] EXCEPT !.step = s]]
  BY GotoType
<1>2. TaskKnown([thread[t] EXCEPT !.step = s])
  BY ZenonT(30) DEF TaskKnown, TypeInv, TypeOK, Task
<1>. QED  BY <1>1, <1>2 DEF TasksKnown, TypeInv, TypeOK

(* Any other change of one task to one that knows enough.                  *)
LEMMA TaskKept ==
  ASSUME TypeInv, NEW t \in Thread, NEW task \in Task, TaskKnown(task),
         thread' = [thread EXCEPT ![t] = task]
  PROVE  thread' \in [Thread -> Task] /\ TasksKnown'
BY DEF TasksKnown, TypeInv, TypeOK

(* Publishing adds one message and changes nothing else.                   *)
LEMMA PublishType ==
  ASSUME TypeInv, NEW p, NEW m, Publish(p, m)
  PROVE  mqtt' \in [Phone -> [Message -> Nat]]
<1>1. CASE p \in Phone
  <2>1. mqtt[p] \in [Message -> Nat]
    BY <1>1 DEF TypeInv, TypeOK
  <2>2. [mqtt[p] EXCEPT ![m] = @ + 1] \in [Message -> Nat]
    <3>1. CASE m \in Message
      <4>1. mqtt[p][m] + 1 \in Nat
        BY <2>1, <3>1
      <4>. QED  BY <2>1, <4>1
    <3>2. CASE m \notin Message
      BY <2>1, <3>2
    <3>. QED  BY <3>1, <3>2
  <2>. QED  BY <1>1, <2>2 DEF Publish, TypeInv, TypeOK
<1>2. CASE p \notin Phone
  BY <1>2 DEF Publish, TypeInv, TypeOK
<1>. QED  BY <1>1, <1>2

(* A drop that reads or writes usage does so for a phone.                  *)
LEMMA SubjectType ==
  ASSUME TypeInv, NEW t \in Thread,
         thread[t].step \in {"readStart", "readType", "readHistory", "writeHistory"}
  PROVE  Subject(t) \in Phone
BY DEF Subject, TypeInv, TypeOK, TasksKnown, TaskKnown

(* The billed seconds are a number, negative ones included.                *)
LEMMA SecondsType ==
  ASSUME ServerAssumption, NEW e \in Int
  PROVE  Seconds(e) \in Int
BY DEF Seconds, ServerAssumption

(* Only phones are recorded as written by two dials at once.               *)
LEMMA OverlapType ==
  ASSUME TypeInv, NEW t \in Thread
  PROVE  Overlap(t) \subseteq Phone
<1>1. \A u \in Thread : thread[u].step \in Begun => Parties(u) \subseteq Phone
  BY DEF Begun, Parties, TypeInv, TypeOK, TasksKnown, TaskKnown
<1>. QED  BY <1>1 DEF Overlap

-----------------------------------------------------------------------------
(* Every step keeps TypeInv. *)

(* A request gives an idle thread a well-formed task.                      *)
LEMMA BeginTypes ==
  ASSUME TypeInv, NEW t \in Thread, NEW p \in Phone, NEW api \in Api,
         NEW q \in Phone \cup {NoPhone}, Begin(t, api, p, q),
         IF api = "dial" THEN q \in Phone ELSE api \in Response \cup {"drop"},
         requests' \in Nat
  PROVE  TypeInv'
<1>. DEFINE task == [IdleTask EXCEPT !.api = api, !.phone = p, !.peer = q,
                       !.step = IF api = "dial" THEN "publish" ELSE "lookup"]
<1>0. IdleTask \in Task
  BY DEF IdleTask, Task, Step, Api, Kind
<1>1. task \in Task
  BY <1>0 DEF Task, Step
<1>. HIDE DEF IdleTask
<1>2. TaskKnown(task)
  <2>1. /\ task.step = IF api = "dial" THEN "publish" ELSE "lookup"
        /\ task.api = api /\ task.phone = p /\ task.peer = q
    BY <1>0 DEF Task
  <2>. QED  BY <2>1 DEF TaskKnown
<1>3. thread' = [thread EXCEPT ![t] = task]
  BY DEF Begin
<1>4. thread' \in [Thread -> Task] /\ TasksKnown'
  BY <1>1, <1>2, <1>3, TaskKept
<1>. QED  BY <1>4 DEF Begin, rows, usage, TypeInv, TypeOK

LEMMA RequestTypes ==
  ASSUME ServerAssumption, TypeInv, Request
  PROVE  TypeInv'
<1>. PICK t \in Thread, p \in Phone :
       \/ \E q \in Phone \ {p} : Begin(t, "dial", p, q)
       \/ \E api \in Response \cup {"drop"} : Begin(t, api, p, NoPhone)
  BY DEF Request
<1>. PICK api \in Api, q \in Phone \cup {NoPhone} :
       /\ Begin(t, api, p, q)
       /\ IF api = "dial" THEN q \in Phone ELSE api \in Response \cup {"drop"}
  BY DEF Api, Response
<1>1. requests' \in Nat
  <2>1. requests \in Nat
    BY DEF TypeInv, TypeOK
  <2>2. requests' = requests + 1
    BY DEF Request
  <2>. QED  BY <2>1, <2>2
<1>. QED  BY <1>1, BeginTypes

(* The steps of dial.                                                      *)
LEMMA DialTypes ==
  ASSUME ServerAssumption, TypeInv, NEW t \in Thread,
         PublishDial(t) \/ WriteCallInfo(t), UNCHANGED requests
  PROVE  TypeInv'
<1>0. thread[t].phone \in Phone /\ thread[t].peer \in Phone
  BY DEF PublishDial, WriteCallInfo, At, TypeInv, TasksKnown, TaskKnown
<1>1. CASE PublishDial(t)
  <2>1. Goto(t, "partner1") /\ "partner1" \in Step
    BY <1>1 DEF PublishDial, Step
  <2>2. thread' \in [Thread -> Task] /\ TasksKnown'
    BY <1>0, <2>1, GotoKnown
  <2>3. mqtt' \in [Phone -> [Message -> Nat]]
    BY <1>1, PublishType DEF PublishDial
  <2>. QED  BY <1>1, <2>2, <2>3 DEF PublishDial, rows, usage, TypeInv, TypeOK
<1>2. CASE WriteCallInfo(t)
  <2>1. \E s \in {"type1", "partner2", "type2", "done"} : Goto(t, s)
    BY <1>2 DEF WriteCallInfo
  <2>2. {"type1", "partner2", "type2", "done"} \subseteq Step
    BY DEF Step
  <2>3. thread' \in [Thread -> Task] /\ TasksKnown'
    BY <1>0, <2>1, <2>2, GotoKnown
  <2>4. /\ partner' \in [Phone -> Phone \cup {NoPhone}]
        /\ callType' \in [Phone -> {"", "SENDER", "RECEIVER"}]
    BY <1>0, <1>2 DEF WriteCallInfo, TypeInv, TypeOK
  <2>5. raced' \subseteq Phone \X (Kind \cup {"call"})
    BY <1>2, OverlapType DEF WriteCallInfo, TypeInv, TypeOK
  <2>. QED  BY <1>2, <2>3, <2>4, <2>5 DEF WriteCallInfo, TypeInv, TypeOK
<1>. QED  BY <1>1, <1>2

(* The steps of dialResponse, and those of drop that come before billing.  *)
LEMMA AnswerTypes ==
  ASSUME ServerAssumption, TypeInv, NEW t \in Thread,
         \/ Lookup(t) \/ PublishResponse(t) \/ CallStart(t) \/ PublishDrop(t),
         UNCHANGED requests
  PROVE  TypeInv'
<1>0. thread[t].phone \in Phone
  BY DEF Lookup, PublishResponse, CallStart, PublishDrop, At, TypeInv, TasksKnown, TaskKnown
<1>1. CASE Lookup(t)
  <2>. DEFINE q == partner[thread[t].phone]
              s == IF q = NoPhone /\ thread[t].api \in Response THEN "done" ELSE "publish"
              task == [thread[t] EXCEPT !.peer = q, !.step = s]
  <2>1. thread[t] \in Task /\ q \in Phone \cup {NoPhone} /\ s \in Step
    BY <1>0 DEF TypeInv, TypeOK, Step
  <2>2. task \in Task
    BY <2>1 DEF Task
  <2>3. TaskKnown(task)
    <3>1. task.phone \in Phone /\ task.peer = q /\ task.step = s /\ task.api = thread[t].api
      BY <1>0, <2>1 DEF Task
    <3>2. thread[t].api \in Response \cup {"drop"}
      BY <1>1 DEF Lookup, At, TypeInv, TasksKnown, TaskKnown
    <3>3. CASE q = NoPhone /\ thread[t].api \in Response
      BY <3>1, <3>3 DEF TaskKnown
    <3>4. CASE q = NoPhone /\ thread[t].api \notin Response
      BY <3>1, <3>2, <3>4 DEF TaskKnown
    <3>5. CASE q # NoPhone
      BY <2>1, <3>1, <3>5 DEF TaskKnown
    <3>. QED  BY <3>3, <3>4, <3>5
  <2>4. thread' = [thread EXCEPT ![t] = task]
    BY <1>1 DEF Lookup, TypeInv, TypeOK
  <2>5. thread' \in [Thread -> Task] /\ TasksKnown'
    BY <2>2, <2>3, <2>4, TaskKept
  <2>. QED  BY <1>1, <2>5 DEF Lookup, rows, usage, TypeInv, TypeOK
<1>2. CASE PublishResponse(t)
  <2>0. thread[t].peer \in Phone
    BY <1>2 DEF PublishResponse, Response, At, TypeInv, TasksKnown, TaskKnown
  <2>1. \E s \in {"start1", "done"} : Goto(t, s)
    BY <1>2 DEF PublishResponse
  <2>2. {"start1", "done"} \subseteq Step
    BY DEF Step
  <2>3. thread' \in [Thread -> Task] /\ TasksKnown'
    BY <1>0, <2>0, <2>1, <2>2, GotoKnown
  <2>4. mqtt' \in [Phone -> [Message -> Nat]]
    BY <1>2, PublishType DEF PublishResponse
  <2>5. accepted' \subseteq Phone \X Phone
    <3>1. accepted \subseteq Phone \X Phone
      BY DEF TypeInv, TypeOK
    <3>2. accepted' \subseteq accepted \cup {<<thread[t].phone, thread[t].peer>>}
      BY <1>2 DEF PublishResponse
    <3>. QED  BY <1>0, <2>0, <3>1, <3>2
  <2>. QED  BY <1>2, <2>3, <2>4, <2>5 DEF PublishResponse, rows, TypeInv, TypeOK
<1>3. CASE CallStart(t)
  <2>0. thread[t].peer \in Phone
    BY <1>3 DEF CallStart, At, TypeInv, TasksKnown, TaskKnown
  <2>1. \E s \in {"start2", "done"} : Goto(t, s)
    BY <1>3 DEF CallStart
  <2>2. {"start2", "done"} \subseteq Step
    BY DEF Step
  <2>3. thread' \in [Thread -> Task] /\ TasksKnown'
    BY <1>0, <2>0, <2>1, <2>2, GotoKnown
  <2>4. callStart' \in [Phone -> Nat \cup {NoTime}]
    BY <1>0, <1>3, <2>0 DEF CallStart, TypeInv, TypeOK
  <2>. QED  BY <1>3, <2>3, <2>4 DEF CallStart, usage, TypeInv, TypeOK
<1>4. CASE PublishDrop(t)
  <2>1. CASE thread[t].peer = NoPhone
    <3>1. Goto(t, "failed") /\ UNCHANGED mqtt /\ "failed" \in Step
      BY <1>4, <2>1 DEF PublishDrop, Step
    <3>2. thread' \in [Thread -> Task] /\ TasksKnown'
      BY <1>0, <3>1, GotoKnown
    <3>. QED  BY <1>4, <3>1, <3>2 DEF PublishDrop, rows, usage, TypeInv, TypeOK
  <2>2. CASE thread[t].peer # NoPhone
    <3>0. thread[t].peer \in Phone
      BY <2>2 DEF TypeInv, TypeOK, Task
    <3>1. /\ Goto(t, "readStart") /\ "readStart" \in Step
          /\ Publish(thread[t].peer, [topic |-> "callDrop", peers |-> {}])
      BY <1>4, <2>2 DEF PublishDrop, Step
    <3>2. thread' \in [Thread -> Task] /\ TasksKnown'
      BY <1>0, <3>0, <3>1, GotoKnown
    <3>3. mqtt' \in [Phone -> [Message -> Nat]]
      BY <3>1, PublishType
    <3>. QED  BY <1>4, <3>2, <3>3 DEF PublishDrop, rows, usage, TypeInv, TypeOK
  <2>. QED  BY <2>1, <2>2
<1>. QED  BY <1>1, <1>2, <1>3, <1>4

(* The steps of UsageManager.dropCall.                                     *)
LEMMA UsageTypes ==
  ASSUME ServerAssumption, TypeInv, NEW t \in Thread,
         \/ ReadStart(t) \/ ReadType(t) \/ ReadHistory(t) \/ WriteHistory(t),
         UNCHANGED requests
  PROVE  TypeInv'
<1>0. /\ thread[t].phone \in Phone /\ thread[t].peer \in Phone
      /\ thread[t] \in Task /\ Subject(t) \in Phone
  BY SubjectType DEF ReadStart, ReadType, ReadHistory, WriteHistory, At,
     TypeInv, TypeOK, TasksKnown, TaskKnown
<1>a. ASSUME NEW task \in Task, task.step # "lookup", task.phone = thread[t].phone, task.peer = thread[t].peer,
             thread' = [thread EXCEPT ![t] = task]
      PROVE  thread' \in [Thread -> Task] /\ TasksKnown'
  <2>1. TaskKnown(task)
    BY <1>0, <1>a DEF TaskKnown
  <2>. QED  BY <1>a, <2>1, TaskKept
<1>1. CASE ReadStart(t)
  <2>1. CASE callStart[Subject(t)] = NoTime
    <3>1. Goto(t, "failed") /\ "failed" \in Step
      BY <1>1, <2>1 DEF ReadStart, Step
    <3>2. thread' \in [Thread -> Task] /\ TasksKnown'
      BY <1>0, <3>1, GotoKnown
    <3>. QED  BY <1>1, <3>2 DEF ReadStart, rows, usage, TypeInv, TypeOK
  <2>2. CASE callStart[Subject(t)] # NoTime
    <3>. DEFINE a == Seconds(now - callStart[Subject(t)])
                task == [thread[t] EXCEPT !.amount = a, !.step = "readType"]
    <3>1. callStart[Subject(t)] \in Nat /\ now \in Nat
      BY <1>0, <2>2 DEF TypeInv, TypeOK
    <3>2. a \in Int
      BY <3>1, SecondsType
    <3>3. /\ task \in Task /\ task.step # "lookup"
          /\ task.phone = thread[t].phone /\ task.peer = thread[t].peer
      BY <1>0, <3>2 DEF Task, Step
    <3>4. thread' = [thread EXCEPT ![t] = task]
      BY <1>1, <2>2 DEF ReadStart, TypeInv, TypeOK
    <3>5. thread' \in [Thread -> Task] /\ TasksKnown'
      BY <1>a, <3>3, <3>4
    <3>. QED  BY <1>1, <3>5 DEF ReadStart, rows, usage, TypeInv, TypeOK
  <2>. QED  BY <2>1, <2>2
<1>2. CASE ReadType(t)
  <2>. DEFINE k == IF callType[Subject(t)] = "SENDER" THEN "out" ELSE "in"
              task == [thread[t] EXCEPT !.kind = k, !.step = "readHistory"]
  <2>1. /\ task \in Task /\ task.step # "lookup"
        /\ task.phone = thread[t].phone /\ task.peer = thread[t].peer
    BY <1>0 DEF Task, Step, Kind
  <2>2. thread' = [thread EXCEPT ![t] = task]
    BY <1>2 DEF ReadType, TypeInv, TypeOK
  <2>. HIDE DEF task
  <2>3. thread' \in [Thread -> Task] /\ TasksKnown'
    BY <1>a, <2>1, <2>2
  <2>. QED  BY <1>2, <2>3 DEF ReadType, rows, usage, TypeInv, TypeOK
<1>3. CASE ReadHistory(t)
  <2>. DEFINE n == Subject(t)
              k == thread[t].kind
              task == [thread[t] EXCEPT !.total = history[n][k], !.step = "writeHistory"]
  <2>0. n \in Phone /\ k \in Kind /\ thread[t].amount \in Int
    BY <1>0 DEF Task
  <2>1. history[n][k] \in Int /\ charged[n][k] \in Int /\ charged[n] \in [Kind -> Int]
    <3>1. history \in [Phone -> [Kind -> Int]] /\ charged \in [Phone -> [Kind -> Int]]
      BY DEF TypeInv, TypeOK
    <3>. HIDE DEF n, k
    <3>2. history[n] \in [Kind -> Int] /\ charged[n] \in [Kind -> Int]
      BY <2>0, <3>1
    <3>. QED  BY <2>0, <3>2
  <2>2. /\ task \in Task /\ task.step # "lookup"
        /\ task.phone = thread[t].phone /\ task.peer = thread[t].peer
    BY <1>0, <2>1 DEF Task, Step
  <2>3. thread' = [thread EXCEPT ![t] = task]
    BY <1>3 DEF ReadHistory, TypeInv, TypeOK
  <2>4. thread' \in [Thread -> Task] /\ TasksKnown'
    BY <1>a, <2>2, <2>3
  <2>5. charged' \in [Phone -> [Kind -> Int]]
    <3>1. [charged[n] EXCEPT ![k] = @ + thread[t].amount] \in [Kind -> Int]
      BY <2>0, <2>1
    <3>2. charged' = [charged EXCEPT ![n] = [charged[n] EXCEPT ![k] = @ + thread[t].amount]]
      BY <1>3 DEF ReadHistory, TypeInv, TypeOK
    <3>. QED  BY <2>0, <3>1, <3>2 DEF TypeInv, TypeOK
  <2>6. raced' \subseteq Phone \X (Kind \cup {"call"})
    <3>1. raced' \subseteq raced \cup {<<n, k>>}
      BY <1>3 DEF ReadHistory
    <3>2. raced \subseteq Phone \X (Kind \cup {"call"})
      BY DEF TypeInv, TypeOK
    <3>. HIDE DEF n, k
    <3>. QED  BY <2>0, <3>1, <3>2
  <2>. QED  BY <1>3, <2>4, <2>5, <2>6 DEF ReadHistory, rows, TypeInv, TypeOK
<1>4. CASE WriteHistory(t)
  <2>. DEFINE n == Subject(t)
              k == thread[t].kind
              task == IF thread[t].leg = 1
                      THEN [thread[t] EXCEPT !.leg = 2, !.step = "readStart"]
                      ELSE [thread[t] EXCEPT !.step = "done"]
  <2>0. n \in Phone /\ k \in Kind /\ thread[t].total + thread[t].amount \in Int
    BY <1>0 DEF Task
  <2>1. /\ task \in Task /\ task.step # "lookup"
        /\ task.phone = thread[t].phone /\ task.peer = thread[t].peer
    BY <1>0 DEF Task, Step
  <2>2. thread' = [thread EXCEPT ![t] = task]
    BY <1>4 DEF WriteHistory, TypeInv, TypeOK
  <2>3. thread' \in [Thread -> Task] /\ TasksKnown'
    BY <1>a, <2>1, <2>2
  <2>4. history' \in [Phone -> [Kind -> Int]]
    <3>1. [history[n] EXCEPT ![k] = thread[t].total + thread[t].amount] \in [Kind -> Int]
      BY <2>0 DEF TypeInv, TypeOK
    <3>2. history' = [history EXCEPT ![n] =
                        [history[n] EXCEPT ![k] = thread[t].total + thread[t].amount]]
      BY <1>4 DEF WriteHistory, TypeInv, TypeOK
    <3>. QED  BY <2>0, <3>1, <3>2 DEF TypeInv, TypeOK
  <2>. QED  BY <1>4, <2>3, <2>4 DEF WriteHistory, rows, TypeInv, TypeOK
<1>. QED  BY <1>1, <1>2, <1>3, <1>4

(* The end of a request.                                                   *)
LEMMA EndTypes ==
  ASSUME ServerAssumption, TypeInv, NEW t \in Thread, End(t), UNCHANGED requests
  PROVE  TypeInv'
<1>1. IdleTask \in Task /\ TaskKnown(IdleTask)
  BY DEF IdleTask, Task, TaskKnown, Step, Api, Kind
<1>2. thread' \in [Thread -> Task] /\ TasksKnown'
  BY <1>1, TaskKept DEF End
<1>. QED  BY <1>2 DEF End, rows, usage, TypeInv, TypeOK

(* The clock and the broker.                                               *)
LEMMA NetworkTypes ==
  ASSUME ServerAssumption, TypeInv, UNCHANGED requests,
         Tick \/ \E p \in Phone, m \in Message : Deliver(p, m)
  PROVE  TypeInv'
<1>1. CASE Tick
  <2>0. now \in Nat /\ now' = now + 1
    BY <1>1 DEF Tick, TypeInv, TypeOK
  <2>1. now' \in Nat
    BY <2>0
  <2>2. TasksKnown'
    BY <1>1 DEF Tick, TypeInv, TasksKnown
  <2>. QED  BY <1>1, <2>1, <2>2 DEF Tick, rows, usage, TypeInv, TypeOK
<1>2. ASSUME NEW p \in Phone, NEW m \in Message, Deliver(p, m)
      PROVE  TypeInv'
  <2>0. mqtt \in [Phone -> [Message -> Nat]] /\ mqtt[p][m] > 0
    BY <1>2 DEF Deliver, Delivered, TypeInv, TypeOK
  <2>1. mqtt[p] \in [Message -> Nat] /\ mqtt[p][m] - 1 \in Nat
    BY <2>0
  <2>2. mqtt' = [mqtt EXCEPT ![p] = [mqtt[p] EXCEPT ![m] = mqtt[p][m] - 1]]
    BY <1>2 DEF Deliver, Delivered, TypeInv, TypeOK
  <2>3. mqtt' \in [Phone -> [Message -> Nat]]
    BY <2>0, <2>1, <2>2
  <2>4. TasksKnown'
    BY <1>2 DEF Deliver, TypeInv, TasksKnown
  <2>. QED  BY <1>2, <2>3, <2>4 DEF Deliver, rows, usage, TypeInv, TypeOK
<1>. QED  BY <1>1, <1>2

(* TypeInv is inductive: every step keeps it ...                           *)
LEMMA TypeStep == ServerAssumption /\ TypeInv /\ [Next]_vars => TypeInv'
<1>. SUFFICES ASSUME ServerAssumption, TypeInv, [Next]_vars
              PROVE  TypeInv'
  OBVIOUS
<1>1. CASE UNCHANGED vars
  BY <1>1 DEF vars, TypeInv, TypeOK, TasksKnown
<1>2. CASE Request
  BY <1>2, RequestTypes
<1>3. ASSUME NEW t \in Thread, Serve(t), UNCHANGED requests
      PROVE  TypeInv'
  BY <1>3, DialTypes, AnswerTypes, UsageTypes DEF Serve
<1>4. ASSUME NEW t \in Thread, End(t), UNCHANGED requests
      PROVE  TypeInv'
  BY <1>4, EndTypes
<1>5. CASE /\ Tick \/ \E p \in Phone, m \in Message : Deliver(p, m)
           /\ UNCHANGED requests
  BY <1>5, NetworkTypes
<1>. QED  BY <1>1, <1>2, <1>3, <1>4, <1>5 DEF Next

(* ... and it holds when the server starts.                                *)
LEMMA TypeStart == Init => TypeInv
<1>. SUFFICES ASSUME Init PROVE TypeInv
  OBVIOUS
<1>1. IdleTask \in Task /\ TaskKnown(IdleTask)
  BY DEF IdleTask, Task, TaskKnown, Step, Api, Kind
<1>2. thread \in [Thread -> Task] /\ TasksKnown
  BY <1>1 DEF Init, TasksKnown
<1>3. /\ partner \in [Phone -> Phone \cup {NoPhone}]
      /\ callType \in [Phone -> {"", "SENDER", "RECEIVER"}]
      /\ callStart \in [Phone -> Nat \cup {NoTime}]
  BY DEF Init
<1>4. history \in [Phone -> [Kind -> Int]] /\ charged \in [Phone -> [Kind -> Int]]
  <2>1. [k \in Kind |-> 0] \in [Kind -> Int]
    OBVIOUS
  <2>. QED  BY <2>1 DEF Init
<1>5. mqtt \in [Phone -> [Message -> Nat]]
  <2>1. [m \in Message |-> 0] \in [Message -> Nat]
    OBVIOUS
  <2>. QED  BY <2>1 DEF Init
<1>6. /\ now \in Nat /\ requests \in Nat
      /\ accepted \subseteq Phone \X Phone
      /\ raced \subseteq Phone \X (Kind \cup {"call"})
  BY DEF Init
<1>. QED  BY <1>2, <1>3, <1>4, <1>5, <1>6 DEF TypeInv, TypeOK

(* The types, together with what a thread knows at each of its steps.      *)
THEOREM TypeInvariant == Spec => []TypeInv
BY TypeStart, TypeStep, ServerAssumption, PTL DEF Spec

(* The rows, the tasks of the threads and the messages keep their types,   *)
(* whatever the threads of the server interleave.                          *)
THEOREM TypeCorrect == Spec => []TypeOK
BY TypeInvariant, PTL DEF TypeInv

-----------------------------------------------------------------------------
(* The start times of an accepted call. *)

(* The thread that forwarded the acceptance of p to q has a start time     *)
(* left to write; it wrote the one of q first.                             *)
Starting(t, p, q) ==
  /\ thread[t].phone = p /\ thread[t].peer = q
  /\ \/ thread[t].step = "start1"
     \/ thread[t].step = "start2" /\ callStart[q] # NoTime

StartInv ==
  \A p, q \in Phone :
    <<p, q>> \in accepted =>
      \/ callStart[p] # NoTime /\ callStart[q] # NoTime
      \/ \E t \in Thread : Starting(t, p, q)

(* A step of one request is a step of its thread only.                     *)
LEMMA OthersKept ==
  ASSUME NEW t \in Thread, Serve(t) \/ End(t), NEW u \in Thread \ {t}, TypeInv
  PROVE  thread'[u] = thread[u]
<1>. USE DEF TypeInv, TypeOK, Goto
<1>1. CASE PublishDial(t) \/ WriteCallInfo(t) \/ Lookup(t) \/ PublishResponse(t)
  BY <1>1 DEF PublishDial, WriteCallInfo, Lookup, PublishResponse
<1>2. CASE CallStart(t) \/ PublishDrop(t) \/ End(t)
  BY <1>2 DEF CallStart, PublishDrop, End
<1>3. CASE ReadStart(t) \/ ReadType(t) \/ ReadHistory(t)
  BY <1>3 DEF ReadStart, ReadType, ReadHistory
<1>4. CASE WriteHistory(t)
  BY <1>4 DEF WriteHistory
<1>. QED  BY <1>1, <1>2, <1>3, <1>4 DEF Serve

(* A thread that writes no start time cannot undo what StartInv says, as   *)
(* long as no acceptance is added.                                         *)
LEMMA StartKept ==
  ASSUME StartInv, NEW t \in Thread, thread[t].step \notin {"start1", "start2"},
         \A u \in Thread \ {t} : thread'[u] = thread[u],
         accepted' = accepted, callStart' = callStart
  PROVE  StartInv'
<1>1. \A u \in Thread, p, q \in Phone : Starting(u, p, q) => Starting(u, p, q)'
  BY DEF Starting
<1>. QED  BY <1>1 DEF StartInv

(* Forwarding an acceptance: the thread goes on to write the start times.  *)
LEMMA StartAccepted ==
  ASSUME TypeInv, StartInv, NEW t \in Thread, PublishResponse(t)
  PROVE  StartInv'
<1>1. \A u \in Thread \ {t} : thread'[u] = thread[u]
  BY OthersKept DEF Serve
<1>2. CASE thread[t].api # "accept"
  BY <1>1, <1>2, StartKept DEF PublishResponse, At, rows
<1>3. CASE thread[t].api = "accept"
  <2>1. thread[t].step = "publish" /\ callStart' = callStart
        /\ accepted' = accepted \cup {<<thread[t].phone, thread[t].peer>>}
    BY <1>3 DEF PublishResponse, At, rows
  <2>2. \A u \in Thread, p, q \in Phone : Starting(u, p, q) => Starting(u, p, q)'
    BY <1>1, <2>1 DEF Starting
  <2>3. thread'[t] = [thread[t] EXCEPT !.step = "start1"]
    BY <1>3 DEF PublishResponse, Goto, TypeInv, TypeOK
  <2>4. thread[t] \in Task
    BY DEF TypeInv, TypeOK
  <2>5. /\ thread'[t].step = "start1"
        /\ thread'[t].phone = thread[t].phone /\ thread'[t].peer = thread[t].peer
    BY <2>3, <2>4 DEF Task
  <2>6. Starting(t, thread[t].phone, thread[t].peer)'
    BY <2>5 DEF Starting
  <2>7. ASSUME NEW p \in Phone, NEW q \in Phone, <<p, q>> \in accepted'
        PROVE  \/ callStart'[p] # NoTime /\ callStart'[q] # NoTime
               \/ \E u \in Thread : Starting(u, p, q)'
    <3>1. CASE <<p, q>> \in accepted
      BY <2>1, <2>2, <3>1 DEF StartInv
    <3>2. CASE p = thread[t].phone /\ q = thread[t].peer
      <4>1. /\ thread'[t].phone = p /\ thread'[t].peer = q
            /\ thread'[t].step = "start1"
        BY <2>5, <3>2
      <4>. QED  BY <4>1 DEF Starting
    <3>. QED  BY <2>1, <2>7, <3>1, <3>2
  <2>. QED  BY <2>7 DEF StartInv
<1>. QED  BY <1>2, <1>3

(* Writing the start times: first the caller's, then the callee's.         *)
LEMMA StartWritten ==
  ASSUME TypeInv, StartInv, NEW t \in Thread, CallStart(t)
  PROVE  StartInv'
<1>1. \A u \in Thread \ {t} : thread'[u] = thread[u]
  BY OthersKept DEF Serve
<1>2. /\ now \in Nat /\ now # NoTime /\ callStart \in [Phone -> Nat \cup {NoTime}]
      /\ thread[t] \in Task /\ thread \in [Thread -> Task]
      /\ thread[t].phone \in Phone /\ thread[t].peer \in Phone
  <2>1. now \in Nat /\ callStart \in [Phone -> Nat \cup {NoTime}]
        /\ thread[t] \in Task /\ thread \in [Thread -> Task]
    BY DEF TypeInv, TypeOK
  <2>2. now # NoTime
    BY <2>1 DEF NoTime
  <2>3. thread[t].phone \in Phone /\ thread[t].peer \in Phone
    BY DEF TypeInv, CallStart, At, TasksKnown, TaskKnown
  <2>. QED  BY <2>1, <2>2, <2>3
<1>3. accepted' = accepted
  BY DEF CallStart, usage
<1>4. \A p \in Phone : callStart[p] # NoTime => callStart'[p] # NoTime
  BY <1>2 DEF CallStart
<1>5. \A u \in Thread \ {t}, p, q \in Phone : Starting(u, p, q) => Starting(u, p, q)'
  BY <1>1, <1>4 DEF Starting
<1>6. ASSUME NEW p \in Phone, NEW q \in Phone, Starting(t, p, q)
      PROVE  \/ callStart'[p] # NoTime /\ callStart'[q] # NoTime
             \/ Starting(t, p, q)'
  <2>1. p = thread[t].phone /\ q = thread[t].peer
    BY <1>6 DEF Starting
  <2>2. CASE At(t, "start1")
    <3>1. callStart' = [callStart EXCEPT ![q] = now]
          /\ thread'[t] = [thread[t] EXCEPT !.step = "start2"]
      BY <1>2, <2>1, <2>2 DEF CallStart, At, Goto
    <3>2. /\ thread'[t].step = "start2"
          /\ thread'[t].phone = p /\ thread'[t].peer = q
      BY <1>2, <2>1, <3>1 DEF Task
    <3>3. callStart'[q] # NoTime
      BY <1>2, <3>1
    <3>. QED  BY <3>2, <3>3 DEF Starting
  <2>3. CASE At(t, "start2")
    <3>1. callStart' = [callStart EXCEPT ![p] = now]
      BY <2>1, <2>3 DEF CallStart, At
    <3>2. callStart[q] # NoTime
      BY <1>6, <2>3 DEF Starting, At
    <3>. QED  BY <1>2, <1>4, <3>1, <3>2
  <2>. QED  BY <2>2, <2>3 DEF CallStart
<1>7. ASSUME NEW p \in Phone, NEW q \in Phone, <<p, q>> \in accepted'
      PROVE  \/ callStart'[p] # NoTime /\ callStart'[q] # NoTime
             \/ \E u \in Thread : Starting(u, p, q)'
  <2>1. CASE callStart[p] # NoTime /\ callStart[q] # NoTime
    BY <1>4, <2>1
  <2>2. CASE \E u \in Thread \ {t} : Starting(u, p, q)
    BY <1>5, <2>2
  <2>3. CASE Starting(t, p, q)
    BY <1>6, <2>3
  <2>. QED  BY <1>3, <1>7, <2>1, <2>2, <2>3 DEF StartInv
<1>. QED  BY <1>7 DEF StartInv

(* Every step keeps StartInv.                                              *)
LEMMA StartStep ==
  ASSUME TypeInv, StartInv, [Next]_vars
  PROVE  StartInv'
<1>1. CASE UNCHANGED vars
  BY <1>1 DEF vars, StartInv, Starting
<1>2. CASE Request
  <2>. PICK t \in Thread, api \in Api, p \in Phone, q \in Phone \cup {NoPhone} :
         Begin(t, api, p, q)
    BY <1>2 DEF Request, Api, Response
  <2>1. \A u \in Thread \ {t} : thread'[u] = thread[u]
    BY DEF Begin, TypeInv, TypeOK
  <2>. QED  BY <2>1, StartKept DEF Begin, At, rows, usage
<1>3. ASSUME NEW t \in Thread, Serve(t) \/ End(t)
      PROVE  StartInv'
  <2>1. \A u \in Thread \ {t} : thread'[u] = thread[u]
    BY <1>3, OthersKept
  <2>2. CASE PublishResponse(t)
    BY <2>2, StartAccepted
  <2>3. CASE CallStart(t)
    BY <2>3, StartWritten
  <2>4. CASE PublishDial(t) \/ WriteCallInfo(t) \/ Lookup(t) \/ PublishDrop(t) \/ End(t)
    <3>1. /\ thread[t].step \notin {"start1", "start2"}
          /\ accepted' = accepted /\ callStart' = callStart
      BY <2>4 DEF PublishDial, WriteCallInfo, Lookup, PublishDrop, End, At, rows, usage
    <3>. QED  BY <2>1, <3>1, StartKept
  <2>5. CASE ReadStart(t) \/ ReadType(t) \/ ReadHistory(t) \/ WriteHistory(t)
    <3>1. /\ thread[t].step \notin {"start1", "start2"}
          /\ accepted' = accepted /\ callStart' = callStart
      BY <2>5 DEF ReadStart, ReadType, ReadHistory, WriteHistory, At, rows, usage
    <3>. QED  BY <2>1, <3>1, StartKept
  <2>. QED  BY <1>3, <2>2, <2>3, <2>4, <2>5 DEF Serve
<1>4. CASE Tick \/ \E p \in Phone, m \in Message : Deliver(p, m)
  BY <1>4 DEF Tick, Deliver, rows, usage, StartInv, Starting
<1>. QED  BY <1>1, <1>2, <1>3, <1>4 DEF Next

(* An acceptance that was forwarded starts the clock of both phones, or    *)
(* its thread is still at work on it: whatever other requests do in        *)
(* between, no drop of an accepted call fails for want of a start time.    *)
THEOREM AcceptedCallStarts == Spec => []AcceptedCallHasStart
<1>1. Init => StartInv
  BY DEF Init, StartInv
<1>2. TypeInv /\ StartInv /\ [Next]_vars => StartInv'
  BY StartStep
<1>3. StartInv => AcceptedCallHasStart
  BY DEF StartInv, Starting, AcceptedCallHasStart
<1>. QED  BY <1>1, <1>2, <1>3, TypeInvariant, PTL DEF Spec

-----------------------------------------------------------------------------
(* The usage a drop has computed. *)

Writing(t, n, k) == At(t, "writeHistory") /\ Subject(t) = n /\ thread[t].kind = k

(* While no two threads were at work on a row at once, the row is what the *)
(* drops have computed, or one thread holds what it was and will write the *)
(* rest.                                                                   *)
RowKept(n, k) ==
  /\ \A t, u \in Thread : Writing(t, n, k) /\ Writing(u, n, k) => t = u
  /\ \A t \in Thread : Writing(t, n, k) =>
       /\ thread[t].total = history[n][k]
       /\ charged[n][k] = history[n][k] + thread[t].amount
  /\ (\A t \in Thread : ~Writing(t, n, k)) => history[n][k] = charged[n][k]

UsageInv == \A n \in Phone, k \in Kind : <<n, k>> \notin raced => RowKept(n, k)

(* A row that a thread neither begins nor ends to write stays as it was.   *)
LEMMA RowUntouched ==
  ASSUME NEW n \in Phone, NEW k \in Kind, RowKept(n, k), NEW t \in Thread,
         \A u \in Thread \ {t} : thread'[u] = thread[u],
         ~Writing(t, n, k), ~Writing(t, n, k)',
         history'[n][k] = history[n][k], charged'[n][k] = charged[n][k]
  PROVE  RowKept(n, k)'
<1>1. \A u \in Thread : Writing(u, n, k)' <=> Writing(u, n, k)
  BY DEF Writing, At, Subject
<1>2. \A u \in Thread : Writing(u, n, k) => thread'[u] = thread[u]
  OBVIOUS
<1>. QED  BY <1>1, <1>2 DEF RowKept

(* A thread that is at neither end of updateCallSecond.                    *)
LEMMA UsageKept ==
  ASSUME UsageInv, NEW t \in Thread,
         \A u \in Thread \ {t} : thread'[u] = thread[u],
         thread[t].step # "writeHistory", thread'[t].step # "writeHistory",
         history' = history, charged' = charged, raced \subseteq raced'
  PROVE  UsageInv'
<1>1. ASSUME NEW n \in Phone, NEW k \in Kind, <<n, k>> \notin raced'
      PROVE  RowKept(n, k)'
  <2>1. RowKept(n, k)
    BY <1>1 DEF UsageInv
  <2>2. ~Writing(t, n, k) /\ ~Writing(t, n, k)'
    BY DEF Writing, At
  <2>. QED  BY <2>1, <2>2, RowUntouched
<1>. QED  BY <1>1 DEF UsageInv

(* Reading a row: another thread that has read it and not written it back  *)
(* makes a race of it, and without one the row was what the drops computed.*)
LEMMA UsageRead ==
  ASSUME TypeInv, UsageInv, NEW t \in Thread, ReadHistory(t)
  PROVE  UsageInv'
<1>1. \A u \in Thread \ {t} : thread'[u] = thread[u]
  BY OthersKept DEF Serve
<1>. DEFINE m == Subject(t)
            j == thread[t].kind
<1>2. /\ thread[t] \in Task /\ thread \in [Thread -> Task]
      /\ m \in Phone /\ j \in Kind /\ charged \in [Phone -> [Kind -> Int]]
      /\ history \in [Phone -> [Kind -> Int]] /\ thread[t].amount \in Int
  BY SubjectType DEF ReadHistory, At, TypeInv, TypeOK, Task
<1>3. /\ thread'[t].step = "writeHistory" /\ thread'[t].total = history[m][j]
      /\ thread'[t].kind = j /\ thread'[t].leg = thread[t].leg
      /\ thread'[t].phone = thread[t].phone /\ thread'[t].peer = thread[t].peer
      /\ thread'[t].amount = thread[t].amount
  <2>1. thread'[t] = [thread[t] EXCEPT !.total = history[m][j], !.step = "writeHistory"]
    BY <1>2 DEF ReadHistory
  <2>. QED  BY <1>2, <2>1 DEF Task
<1>4. Subject(t)' = m
  BY <1>3 DEF Subject
<1>5. /\ history' = history
      /\ charged' = [charged EXCEPT ![m] = [charged[m] EXCEPT ![j] = @ + thread[t].amount]]
  BY <1>2 DEF ReadHistory
<1>6. ~At(t, "writeHistory")
  BY DEF ReadHistory, At
<1>7. ASSUME NEW n \in Phone, NEW k \in Kind, <<n, k>> \notin raced'
      PROVE  RowKept(n, k)'
  <2>1. RowKept(n, k)
    BY <1>7 DEF UsageInv, ReadHistory
  <2>2. CASE n = m /\ k = j
    <3>1. \A u \in Thread \ {t} : ~Writing(u, n, k)
      BY <1>7, <2>2 DEF ReadHistory, Writing
    <3>2. \A u \in Thread \ {t} : ~Writing(u, n, k)'
      BY <1>1, <3>1 DEF Writing, At, Subject
    <3>3. history[n][k] = charged[n][k]
      BY <1>6, <2>1, <3>1 DEF RowKept, Writing
    <3>4. charged'[n][k] = charged[n][k] + thread[t].amount
      BY <1>2, <1>5, <2>2
    <3>5. Writing(t, n, k)'
      BY <1>3, <1>4, <2>2 DEF Writing, At
    <3>6. /\ thread'[t].total = history'[n][k]
          /\ charged'[n][k] = history'[n][k] + thread'[t].amount
      BY <1>3, <1>5, <2>2, <3>3, <3>4
    <3>. QED  BY <3>2, <3>5, <3>6 DEF RowKept
  <2>3. CASE ~(n = m /\ k = j)
    <3>1. charged'[n][k] = charged[n][k]
      BY <1>2, <1>5, <2>3
    <3>2. ~Writing(t, n, k) /\ ~Writing(t, n, k)'
      BY <1>3, <1>4, <1>6, <2>3 DEF Writing
    <3>. QED  BY <1>1, <1>5, <2>1, <3>1, <3>2, RowUntouched
  <2>. QED  BY <2>2, <2>3
<1>. QED  BY <1>7 DEF UsageInv

(* Writing a row back.                                                     *)
LEMMA UsageWritten ==
  ASSUME TypeInv, UsageInv, NEW t \in Thread, WriteHistory(t)
  PROVE  UsageInv'
<1>1. \A u \in Thread \ {t} : thread'[u] = thread[u]
  BY OthersKept DEF Serve
<1>. DEFINE m == Subject(t)
            j == thread[t].kind
            sum == thread[t].total + thread[t].amount
<1>2. /\ thread[t] \in Task /\ thread \in [Thread -> Task]
      /\ m \in Phone /\ j \in Kind
      /\ history \in [Phone -> [Kind -> Int]]
  BY SubjectType DEF WriteHistory, At, TypeInv, TypeOK, Task
<1>3. thread'[t].step # "writeHistory"
  <2>1. CASE thread[t].leg = 1
    <3>1. thread'[t] = [thread[t] EXCEPT !.leg = 2, !.step = "readStart"]
      BY <1>2, <2>1 DEF WriteHistory
    <3>. QED  BY <1>2, <3>1 DEF Task
  <2>2. CASE thread[t].leg # 1
    <3>1. thread'[t] = [thread[t] EXCEPT !.step = "done"]
      BY <1>2, <2>2 DEF WriteHistory
    <3>. QED  BY <1>2, <3>1 DEF Task
  <2>. QED  BY <2>1, <2>2
<1>4. /\ history' = [history EXCEPT ![m] = [history[m] EXCEPT ![j] = sum]]
      /\ charged' = charged /\ raced' = raced
  BY <1>2 DEF WriteHistory
<1>5. ASSUME NEW n \in Phone, NEW k \in Kind, <<n, k>> \notin raced'
      PROVE  RowKept(n, k)'
  <2>1. RowKept(n, k)
    BY <1>4, <1>5 DEF UsageInv
  <2>2. ~Writing(t, n, k)'
    BY <1>3 DEF Writing, At
  <2>3. CASE n = m /\ k = j
    <3>1. Writing(t, n, k)
      BY <2>3 DEF Writing, WriteHistory
    <3>2. \A u \in Thread \ {t} : ~Writing(u, n, k)
      BY <2>1, <3>1 DEF RowKept
    <3>3. \A u \in Thread : ~Writing(u, n, k)'
      BY <1>1, <2>2, <3>2 DEF Writing, At, Subject
    <3>4. charged[n][k] = sum
      BY <2>1, <3>1 DEF RowKept
    <3>5. history'[n][k] = sum
      BY <1>2, <1>4, <2>3
    <3>. QED  BY <1>4, <3>3, <3>4, <3>5 DEF RowKept
  <2>4. CASE ~(n = m /\ k = j)
    <3>1. history'[n][k] = history[n][k]
      BY <1>2, <1>4, <2>4
    <3>2. ~Writing(t, n, k)
      BY <2>4 DEF Writing
    <3>. QED  BY <1>1, <1>4, <2>1, <2>2, <3>1, <3>2, RowUntouched
  <2>. QED  BY <2>3, <2>4
<1>. QED  BY <1>5 DEF UsageInv

(* Every step keeps UsageInv.                                              *)
LEMMA UsageStep ==
  ASSUME TypeInv, UsageInv, [Next]_vars
  PROVE  UsageInv'
<1>1. CASE UNCHANGED vars
  BY <1>1 DEF vars, UsageInv, RowKept, Writing, At, Subject
<1>2. CASE Request
  <2>. PICK t \in Thread, api \in Api, p \in Phone, q \in Phone \cup {NoPhone} :
         Begin(t, api, p, q)
    BY <1>2 DEF Request, Api, Response
  <2>1. /\ \A u \in Thread \ {t} : thread'[u] = thread[u]
        /\ thread'[t] = [IdleTask EXCEPT !.api = api, !.phone = p, !.peer = q,
                           !.step = IF api = "dial" THEN "publish" ELSE "lookup"]
    BY DEF Begin, TypeInv, TypeOK
  <2>2. thread'[t].step # "writeHistory"
    BY <2>1 DEF IdleTask
  <2>. QED  BY <2>1, <2>2, UsageKept DEF Begin, At, usage
<1>3. ASSUME NEW t \in Thread, Serve(t) \/ End(t)
      PROVE  UsageInv'
  <2>1. \A u \in Thread \ {t} : thread'[u] = thread[u]
    BY <1>3, OthersKept
  <2>2. thread \in [Thread -> Task] /\ thread[t] \in Task
    BY DEF TypeInv, TypeOK
  <2>3. CASE ReadHistory(t)
    BY <2>3, UsageRead
  <2>4. CASE WriteHistory(t)
    BY <2>4, UsageWritten
  <2>5. CASE PublishDial(t) \/ PublishResponse(t) \/ CallStart(t) \/ PublishDrop(t)
             \/ WriteCallInfo(t)
    <3>1. /\ thread[t].step # "writeHistory"
          /\ \E s \in {"partner1", "type1", "partner2", "type2", "done", "start1",
                       "start2", "failed", "readStart"} : Goto(t, s)
          /\ history' = history /\ charged' = charged /\ raced \subseteq raced'
      BY <2>5 DEF PublishDial, PublishResponse, CallStart, PublishDrop,
         WriteCallInfo, At, usage
    <3>2. thread'[t].step # "writeHistory"
      BY <2>2, <3>1 DEF Goto, Task
    <3>. QED  BY <2>1, <3>1, <3>2, UsageKept
  <2>6. CASE Lookup(t) \/ ReadStart(t) \/ ReadType(t) \/ End(t)
    <3>1. /\ thread[t].step # "writeHistory"
          /\ history' = history /\ charged' = charged /\ raced' = raced
      BY <2>6 DEF Lookup, ReadStart, ReadType, End, At, usage
    <3>2. thread'[t].step # "writeHistory"
      BY <2>2, <2>6 DEF Lookup, ReadStart, ReadType, End, Goto, Task, IdleTask
    <3>. QED  BY <2>1, <3>1, <3>2, UsageKept
  <2>. QED  BY <1>3, <2>3, <2>4, <2>5, <2>6 DEF Serve
<1>4. CASE Tick \/ \E p \in Phone, m \in Message : Deliver(p, m)
  BY <1>4 DEF Tick, Deliver, usage, UsageInv, RowKept, Writing, At, Subject
<1>. QED  BY <1>1, <1>2, <1>3, <1>4 DEF Next

(* The seconds a drop has computed are stored: between the read and the    *)
(* write of updateCallSecond nothing is lost unless two threads update the *)
(* same row at once.                                                       *)
THEOREM ComputedUsageStored == Spec => []UsageStored
<1>1. Init => UsageInv
  <2>. SUFFICES ASSUME Init PROVE UsageInv
    OBVIOUS
  <2>1. \A t \in Thread : ~At(t, "writeHistory")
    BY DEF Init, At, IdleTask
  <2>2. \A n \in Phone, k \in Kind : history[n][k] = 0 /\ charged[n][k] = 0
    BY DEF Init
  <2>. QED  BY <2>1, <2>2 DEF UsageInv, RowKept, Writing
<1>2. TypeInv /\ UsageInv /\ [Next]_vars => UsageInv'
  BY UsageStep
<1>3. UsageInv => UsageStored
  BY DEF UsageInv, RowKept, Writing, UsageStored, Updating
<1>. QED  BY <1>1, <1>2, <1>3, TypeInvariant, PTL DEF Spec

-----------------------------------------------------------------------------
(* The one who pays. *)

InDial == {"partner1"} \cup Begun
Alone(p) == <<p, "call">> \notin raced

(* A dial is between two phones, and finds what it has written of a phone  *)
(* as long as no other dial was writing that phone's row.                  *)
DialKept(t) ==
  /\ thread[t].api = "dial" => thread[t].phone # thread[t].peer
  /\ thread[t].step \in InDial => thread[t].api = "dial"
  /\ thread[t].step \in Begun /\ Alone(thread[t].phone) =>
       /\ partner[thread[t].phone] = thread[t].peer
       /\ thread[t].step # "type1" => callType[thread[t].phone] = "SENDER"
  /\ thread[t].step = "type2" /\ Alone(thread[t].peer) =>
       partner[thread[t].peer] = thread[t].phone

(* Each is the other's partner, and no dial is or was in the way.          *)
Paired(p, q) ==
  /\ partner[p] = q /\ partner[q] = p
  /\ Alone(p) /\ Alone(q)
  /\ \A t \in Thread : thread[t].step \in Begun => Parties(t) \cap {p, q} = {}

PayerInv ==
  /\ \A t \in Thread : DialKept(t)
  /\ \A p, q \in Phone : Paired(p, q) => {callType[p], callType[q]} = {"SENDER", "RECEIVER"}

(* Steps that write no CALL row.                                           *)
LEMMA PayerKept ==
  ASSUME PayerInv, NEW t \in Thread,
         \A u \in Thread \ {t} : thread'[u] = thread[u],
         thread[t].step \notin Begun, thread'[t].step \notin Begun,
         thread'[t].step \in InDial => thread'[t].api = "dial",
         thread'[t].api = "dial" => thread'[t].phone # thread'[t].peer,
         partner' = partner, callType' = callType, raced \subseteq raced'
  PROVE  PayerInv'
<1>1. \A p : Alone(p)' => Alone(p)
  BY DEF Alone
<1>2. ASSUME NEW u \in Thread PROVE DialKept(u)'
  <2>1. CASE u = t
    <3>1. thread'[t].step # "type2"
      BY DEF Begun
    <3>. QED  BY <2>1, <3>1 DEF DialKept
  <2>2. CASE u # t
    <3>1. thread'[u] = thread[u] /\ DialKept(u)
      BY <2>2 DEF PayerInv
    <3>. QED  BY <1>1, <3>1 DEF DialKept
  <2>. QED  BY <2>1, <2>2
<1>3. ASSUME NEW p \in Phone, NEW q \in Phone, Paired(p, q)' PROVE Paired(p, q)
  <2>1. ASSUME NEW u \in Thread, thread[u].step \in Begun PROVE Parties(u) \cap {p, q} = {}
    <3>1. thread'[u] = thread[u]
      BY <2>1
    <3>2. Parties(u)' = Parties(u)
      BY <3>1 DEF Parties
    <3>3. Parties(u)' \cap {p, q} = {}
      BY <1>3, <2>1, <3>1 DEF Paired
    <3>. QED  BY <3>2, <3>3
  <2>. QED  BY <1>1, <1>3, <2>1 DEF Paired
<1>. QED  BY <1>2, <1>3 DEF PayerInv

(* The steps of writeCallInfo. The rows of two phones that are paired      *)
(* afterwards were paired before and are not written, or this is the last  *)
(* of the four writes, which found the other three.                        *)
LEMMA PayerWritten ==
  ASSUME TypeInv, PayerInv, NEW t \in Thread, WriteCallInfo(t)
  PROVE  PayerInv'
<1>. DEFINE s == thread[t].phone
            r == thread[t].peer
<1>1. \A u \in Thread \ {t} : thread'[u] = thread[u]
  BY OthersKept DEF Serve
<1>2. /\ thread \in [Thread -> Task] /\ thread[t] \in Task
      /\ partner \in [Phone -> Phone \cup {NoPhone}]
      /\ callType \in [Phone -> {"", "SENDER", "RECEIVER"}]
      /\ s \in Phone /\ r \in Phone
  BY DEF WriteCallInfo, At, TypeInv, TypeOK, TasksKnown, TaskKnown
<1>3. DialKept(t) /\ thread[t].step \in InDial /\ thread[t].api = "dial" /\ s # r
  BY DEF PayerInv, DialKept, WriteCallInfo, At, InDial, Begun
<1>4. /\ thread'[t].phone = s /\ thread'[t].peer = r /\ thread'[t].api = thread[t].api
      /\ thread'[t].step = CASE At(t, "partner1") -> "type1"
                             [] At(t, "type1") -> "partner2"
                             [] At(t, "partner2") -> "type2"
                             [] At(t, "type2") -> "done"
  <2>1. PICK step \in {"type1", "partner2", "type2", "done"} :
          /\ thread' = [thread EXCEPT ![t].step = step]
          /\ step = CASE At(t, "partner1") -> "type1"
                      [] At(t, "type1") -> "partner2"
                      [] At(t, "partner2") -> "type2"
                      [] At(t, "type2") -> "done"
    BY DEF WriteCallInfo, Goto, At
  <2>2. thread'[t] = [thread[t] EXCEPT !.step = step]
    BY <1>2, <2>1
  <2>. QED  BY <1>2, <2>1, <2>2 DEF Task
<1>5. \A p : Alone(p)' => Alone(p) /\ p \notin Overlap(t)
  BY DEF WriteCallInfo, Alone
<1>6. \A p \in Phone \ {s, r} : partner'[p] = partner[p] /\ callType'[p] = callType[p]
  BY <1>2 DEF WriteCallInfo
<1>7. ASSUME NEW u \in Thread \ {t} PROVE DialKept(u)'
  <2>1. thread'[u] = thread[u] /\ DialKept(u)
    BY <1>1 DEF PayerInv
  <2>2. CASE thread[u].step \notin Begun
    BY <2>1, <2>2 DEF DialKept, Begun
  <2>3. CASE thread[u].step \in Begun
    <3>1. /\ thread[u].phone \in Phone /\ thread[u].peer \in Phone
      BY <2>3 DEF TypeInv, TasksKnown, TaskKnown, Begun
    <3>2. \A p \in {thread[u].phone, thread[u].peer} : Alone(p)' => p \notin {s, r}
      <4>1. Parties(t) \cap Parties(u) \subseteq Overlap(t)
        BY <2>3 DEF Overlap
      <4>. QED  BY <1>5, <4>1 DEF Parties
    <3>. QED  BY <1>5, <1>6, <2>1, <3>1, <3>2 DEF DialKept
  <2>. QED  BY <2>2, <2>3
<1>8. DialKept(t)'
  <2>1. CASE At(t, "partner1")
    <3>1. partner'[s] = r /\ thread'[t].step = "type1"
      BY <1>2, <1>4, <2>1 DEF WriteCallInfo, At
    <3>. QED  BY <1>3, <1>4, <3>1 DEF DialKept
  <2>2. CASE At(t, "type1")
    <3>1. callType'[s] = "SENDER" /\ partner' = partner /\ thread'[t].step = "partner2"
      BY <1>2, <1>4, <2>2 DEF WriteCallInfo, At
    <3>2. Alone(s)' => partner[s] = r
      BY <1>3, <1>4, <1>5, <2>2 DEF DialKept, At, Begun
    <3>. QED  BY <1>3, <1>4, <3>1, <3>2 DEF DialKept
  <2>3. CASE At(t, "partner2")
    <3>1. /\ partner' = [partner EXCEPT ![r] = s] /\ callType' = callType
          /\ thread'[t].step = "type2"
      BY <1>2, <1>4, <2>3 DEF WriteCallInfo, At
    <3>2. Alone(s)' => partner[s] = r /\ callType[s] = "SENDER"
      BY <1>3, <1>4, <1>5, <2>3 DEF DialKept, At, Begun
    <3>3. partner'[r] = s /\ partner'[s] = partner[s]
      BY <1>2, <1>3, <3>1
    <3>. QED  BY <1>3, <1>4, <3>1, <3>2, <3>3 DEF DialKept
  <2>4. CASE At(t, "type2")
    <3>1. thread'[t].step = "done"
      BY <1>4, <2>4 DEF At
    <3>. QED  BY <1>3, <1>4, <3>1 DEF DialKept, InDial, Begun
  <2>. QED  BY <2>1, <2>2, <2>3, <2>4 DEF WriteCallInfo
<1>9. ASSUME NEW p \in Phone, NEW q \in Phone, Paired(p, q)'
      PROVE  {callType'[p], callType'[q]} = {"SENDER", "RECEIVER"}
  <2>1. /\ partner'[p] = q /\ partner'[q] = p /\ Alone(p) /\ Alone(q)
        /\ \A u \in Thread : thread'[u].step \in Begun => Parties(u)' \cap {p, q} = {}
    BY <1>5, <1>9 DEF Paired
  <2>2. CASE {s, r} \cap {p, q} = {}
    <3>1. \A u \in Thread : thread[u].step \in Begun => Parties(u) \cap {p, q} = {}
      <4>1. \A u \in Thread \ {t} : Parties(u)' = Parties(u)
        BY <1>1 DEF Parties
      <4>. QED  BY <1>1, <2>1, <2>2, <4>1 DEF Parties
    <3>2. partner[p] = q /\ partner[q] = p
      BY <1>6, <2>1, <2>2
    <3>3. Paired(p, q)
      BY <2>1, <3>1, <3>2 DEF Paired
    <3>. QED  BY <1>6, <2>2, <3>3 DEF PayerInv
  <2>3. CASE {s, r} \cap {p, q} # {}
    <3>1. At(t, "type2")
      <4>1. thread'[t].step \notin Begun
        BY <1>4, <2>1, <2>3 DEF Parties
      <4>. QED  BY <1>4, <4>1 DEF WriteCallInfo, Begun
    <3>2. /\ partner' = partner /\ callType' = [callType EXCEPT ![r] = "RECEIVER"]
      BY <3>1 DEF WriteCallInfo, At
    <3>3. /\ Alone(s) => partner[s] = r /\ callType[s] = "SENDER"
          /\ Alone(r) => partner[r] = s
      BY <1>3, <3>1 DEF DialKept, At, Begun
    <3>4. {p, q} = {s, r} /\ Alone(s)
      BY <2>1, <2>3, <3>2, <3>3
    <3>5. callType'[s] = "SENDER" /\ callType'[r] = "RECEIVER"
      BY <1>2, <1>3, <3>2, <3>3, <3>4
    <3>. QED  BY <3>4, <3>5
  <2>. QED  BY <2>2, <2>3
<1>. QED  BY <1>7, <1>8, <1>9 DEF PayerInv

(* Every step keeps PayerInv.                                              *)
LEMMA PayerStep ==
  ASSUME TypeInv, PayerInv, [Next]_vars
  PROVE  PayerInv'
<1>1. CASE UNCHANGED vars
  BY <1>1 DEF vars, PayerInv, DialKept, Paired, Alone, Parties
<1>2. CASE Request
  <2>1. PICK t \in Thread, api \in Api, p \in Phone, q \in Phone \cup {NoPhone} :
          Begin(t, api, p, q) /\ (api = "dial" => p # q)
    <3>1. PICK t \in Thread, p \in Phone :
            \/ \E q \in Phone \ {p} : Begin(t, "dial", p, q)
            \/ \E api \in Response \cup {"drop"} : Begin(t, api, p, NoPhone)
      BY <1>2 DEF Request
    <3>2. Response \cup {"drop"} \subseteq Api \ {"dial"} /\ "dial" \in Api
      BY DEF Api, Response
    <3>. QED  BY <3>1, <3>2
  <2>2. /\ \A u \in Thread \ {t} : thread'[u] = thread[u]
        /\ thread'[t] = [IdleTask EXCEPT !.api = api, !.phone = p, !.peer = q,
                           !.step = IF api = "dial" THEN "publish" ELSE "lookup"]
    BY <2>1 DEF Begin, TypeInv, TypeOK
  <2>3. /\ thread'[t].step \notin InDial \cup Begun
        /\ thread'[t].api = "dial" => thread'[t].phone # thread'[t].peer
    BY <2>1, <2>2 DEF IdleTask, InDial, Begun
  <2>4. /\ thread[t].step \notin Begun
        /\ partner' = partner /\ callType' = callType /\ raced' = raced
    BY <2>1 DEF Begin, At, Begun, rows, usage
  <2>. QED  BY <2>2, <2>3, <2>4, PayerKept
<1>3. ASSUME NEW t \in Thread, Serve(t) \/ End(t)
      PROVE  PayerInv'
  <2>1. \A u \in Thread \ {t} : thread'[u] = thread[u]
    BY <1>3, OthersKept
  <2>2. /\ thread \in [Thread -> Task] /\ thread[t] \in Task
        /\ DialKept(t) /\ TaskKnown(thread[t])
    BY DEF TypeInv, TypeOK, PayerInv, TasksKnown
  <2>3. CASE WriteCallInfo(t)
    BY <2>3, PayerWritten
  <2>4. CASE PublishDial(t) \/ PublishResponse(t) \/ CallStart(t) \/ PublishDrop(t)
    <3>1. /\ thread[t].step \notin Begun
          /\ \/ thread[t].api = "dial" /\ Goto(t, "partner1")
             \/ \E s \in {"done", "start1", "start2", "failed", "readStart"} : Goto(t, s)
          /\ partner' = partner /\ callType' = callType /\ raced' = raced
      BY <2>4 DEF PublishDial, PublishResponse, CallStart, PublishDrop, At, Begun, rows, usage
    <3>2. /\ thread'[t].step \notin Begun
          /\ thread'[t].step \in InDial => thread[t].api = "dial"
          /\ thread'[t].api = thread[t].api
          /\ thread'[t].phone = thread[t].phone /\ thread'[t].peer = thread[t].peer
      BY <2>2, <3>1 DEF Goto, Task, InDial, Begun
    <3>. QED  BY <2>1, <2>2, <3>1, <3>2, PayerKept DEF DialKept
  <2>5. CASE Lookup(t) \/ End(t)
    <3>1. /\ thread[t].step \notin Begun
          /\ partner' = partner /\ callType' = callType /\ raced' = raced
      BY <2>5 DEF Lookup, End, At, Begun, rows, usage
    <3>2. thread'[t].step \notin InDial \cup Begun /\ thread'[t].api # "dial"
      <4>1. CASE Lookup(t)
        <5>1. thread[t].api # "dial"
          BY <2>2, <4>1 DEF Lookup, At, TaskKnown, Response
        <5>2. \E q, s : /\ thread'[t] = [thread[t] EXCEPT !.peer = q, !.step = s]
                        /\ s \in {"done", "publish"}
          BY <2>2, <4>1 DEF Lookup
        <5>. QED  BY <2>2, <5>1, <5>2 DEF Task, InDial, Begun
      <4>2. CASE End(t)
        <5>1. thread'[t] = IdleTask
          BY <2>2, <4>2 DEF End
        <5>. QED  BY <5>1 DEF IdleTask, InDial, Begun
      <4>. QED  BY <2>5, <4>1, <4>2
    <3>. QED  BY <2>1, <3>1, <3>2, PayerKept
  <2>6. CASE ReadStart(t) \/ ReadType(t) \/ ReadHistory(t) \/ WriteHistory(t)
    <3>1. /\ thread[t].step \notin Begun
          /\ partner' = partner /\ callType' = callType /\ raced \subseteq raced'
      BY <2>6 DEF ReadStart, ReadType, ReadHistory, WriteHistory, At, Begun, rows, usage
    <3>2. /\ thread'[t].step \in {"failed", "readType", "readHistory", "writeHistory", "readStart", "done"}
          /\ thread'[t].api = thread[t].api
          /\ thread'[t].phone = thread[t].phone /\ thread'[t].peer = thread[t].peer
      BY <2>2, <2>6 DEF ReadStart, ReadType, ReadHistory, WriteHistory, Goto, Task
    <3>3. thread'[t].step \notin InDial \cup Begun
      BY <3>2 DEF InDial, Begun
    <3>. QED  BY <2>1, <2>2, <3>1, <3>2, <3>3, PayerKept DEF DialKept
  <2>. QED  BY <1>3, <2>3, <2>4, <2>5, <2>6 DEF Serve
<1>4. CASE Tick \/ \E p \in Phone, m \in Message : Deliver(p, m)
  BY <1>4 DEF Tick, Deliver, rows, usage, PayerInv, DialKept, Paired, Alone, Parties
<1>. QED  BY <1>1, <1>2, <1>3, <1>4 DEF Next

(* Of two phones that are each other's partner exactly one is the SENDER,  *)
(* and pays: whatever dials come between them and third phones, the four   *)
(* writes of writeCallInfo leave no pair with two senders, two receivers   *)
(* or a type of an older call, unless two dials wrote a phone's row at     *)
(* once.                                                                   *)
THEOREM ExactlyOnePays == Spec => []OnePayer
<1>1. Init => PayerInv
  <2>. SUFFICES ASSUME Init PROVE PayerInv
    OBVIOUS
  <2>1. \A t \in Thread : thread[t].step = "idle" /\ thread[t].api = "none"
    BY DEF Init, IdleTask
  <2>2. \A p, q \in Phone : partner[p] # q
    BY ServerAssumption DEF Init
  <2>. QED  BY <2>1, <2>2 DEF PayerInv, DialKept, Paired, InDial, Begun
<1>2. TypeInv /\ PayerInv /\ [Next]_vars => PayerInv'
  BY PayerStep
<1>3. PayerInv => OnePayer
  <2>1. \A p, q \in Phone : {p, q} \X {"call"} \cap raced = {} => Alone(p) /\ Alone(q)
    BY DEF Alone
  <2>. QED  BY <2>1 DEF PayerInv, Paired, OnePayer
<1>. QED  BY <1>1, <1>2, <1>3, TypeInvariant, PTL DEF Spec

=============================================================================
