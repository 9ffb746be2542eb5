------------------------------ MODULE Servlets ------------------------------
(***************************************************************************)
(* What the other services of the TinyTalk server share: the threads of    *)
(* the servlet container and the messages they publish. As in CallServer a *)
(* step of a thread is one operation of Redis or MQTT, and a record of the *)
(* thread has the locals of the request it works on.                       *)
(***************************************************************************)
EXTENDS Integers, Sequences, FiniteSets

CONSTANTS
  Thread,        \* threads of the container
  Phone          \* telephone numbers; a phone's address is written as itself

VARIABLES
  job,           \* what each thread is working on
  requests,      \* bound: requests still to come
  mqtt           \* published, and neither delivered nor lost

servlets == <<job, requests, mqtt>>

Idle == [api |-> "idle"]

ServletsInit ==
  /\ job = [t \in Thread |-> Idle]
  /\ mqtt = {}

Api(t) == job[t].api

(* A request reaches its controller.                                       *)
Begin(t, request) ==
  /\ job[t] = Idle
  /\ requests > 0
  /\ job' = [job EXCEPT ![t] = request]
  /\ requests' = requests - 1

Goon(t, request) == job' = [job EXCEPT ![t] = request] /\ UNCHANGED requests
Answer(t) == Goon(t, Idle)

(* One message of a request, to one phone: QoS 0, on a connection of its   *)
(* own, so that messages overtake each other. id: the request's number.    *)
Publish(to, topic, peers, id) ==
  mqtt' = mqtt \cup {[to |-> to, topic |-> topic, peers |-> peers, id |-> id]}

Lose(m) ==
  /\ m \in mqtt
  /\ mqtt' = mqtt \ {m}
  /\ UNCHANGED <<job, requests>>

=============================================================================
