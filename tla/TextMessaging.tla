--------------------------- MODULE TextMessaging ---------------------------
(***************************************************************************)
(* Text messages on the server: TxtMsgController.sendMsg publishes one to  *)
(* each receiver, and UsageManager.txtMsg adds its bytes to a counter of   *)
(* the sender and of each receiver. An invitation to a conference call     *)
(* (CcController.create, CcrequestApiServiceImpl) is a message to all the  *)
(* members, the sender among them.                                         *)
(***************************************************************************)
EXTENDS Servlets

CONSTANT MessageBytes    \* lengths of messages

ASSUME TextAssumption == MessageBytes \subseteq Nat

VARIABLES
  bytes,     \* TXTMSG_HISTORY:<phone>:<period>, sentBytes and receivedBytes
  due,       \* history: what the threads have been adding to them
  torn       \* history: counters that two threads were updating at once

texts == <<bytes, due, torn>>

Counter == Phone \X {"SEND", "RECEIVE"}

TextsInit ==
  /\ bytes = [c \in Counter |-> 0]
  /\ due = [c \in Counter |-> 0]
  /\ torn = {}

(* unsent, uncounted: receivers still to be told and counters to be added  *)
(* to; row: the counter just read, with its total.                         *)
BeginText(t, from, to, length) ==
  LET counters == {<<from, "SEND">>} \cup (to \X {"RECEIVE"})
  IN  /\ Begin(t, [api |-> "txtMsg", id |-> requests, from |-> from, to |-> to,
                   unsent |-> to, uncounted |-> counters, row |-> {}, total |-> 0,
                   length |-> length])
      /\ UNCHANGED <<mqtt, texts>>

(* What arrives has the receivers and the sender for its participants.     *)
PublishText(t) ==
  /\ Api(t) = "txtMsg"
  /\ \E to \in job[t].unsent :
       /\ Publish(to, "txtMsg", job[t].to \cup {job[t].from}, job[t].id)
       /\ Goon(t, [job[t] EXCEPT !.unsent = @ \ {to}])
  /\ UNCHANGED texts

(* txtMsg reads a counter: the sender's first ...                          *)
ReadBytes(t) ==
  /\ Api(t) = "txtMsg"
  /\ job[t].unsent = {}
  /\ job[t].row = {}
  /\ \E c \in job[t].uncounted :
       /\ <<job[t].from, "SEND">> \in job[t].uncounted => c = <<job[t].from, "SEND">>
       /\ Goon(t, [job[t] EXCEPT !.row = {c}, !.total = bytes[c],
                                 !.uncounted = @ \ {c}])
       /\ due' = [due EXCEPT ![c] = @ + job[t].length]
       /\ torn' = torn \cup IF \E u \in Thread \ {t} : Api(u) = "txtMsg" /\ job[u].row = {c}
                            THEN {c} ELSE {}
  /\ UNCHANGED <<mqtt, bytes>>

(* Mutant: each counter is written with the bytes of all of them.          *)
WriteBytes_PerReceiver(t) ==
  /\ Api(t) = "txtMsg"
  /\ \E c \in job[t].row :
       bytes' = [bytes EXCEPT ![c] = job[t].total + job[t].length * Cardinality(job[t].to)]
  /\ Goon(t, [job[t] EXCEPT !.row = {}])
  /\ UNCHANGED <<mqtt, due, torn>>

(* ... and writes it back.                                                 *)
WriteBytes(t) ==
  /\ Api(t) = "txtMsg"
  /\ \E c \in job[t].row :
       bytes' = [bytes EXCEPT ![c] = job[t].total + job[t].length]
  /\ Goon(t, [job[t] EXCEPT !.row = {}])
  /\ UNCHANGED <<mqtt, due, torn>>

EndText(t) ==
  /\ Api(t) = "txtMsg"
  /\ job[t].unsent = {} /\ job[t].uncounted = {} /\ job[t].row = {}
  /\ Answer(t)
  /\ UNCHANGED <<mqtt, texts>>

TextStep(t) == PublishText(t) \/ ReadBytes(t) \/ WriteBytes(t) \/ EndText(t)

-----------------------------------------------------------------------------
(* Bytes can be lost, never made: whatever the threads do to each other, a *)
(* counter stays within what they have been adding to it, and what is      *)
(* missing is missing from a counter that two threads were updating at     *)
(* once or is about to be written.                                         *)
BytesCounted ==
  \A c \in Counter :
    /\ bytes[c] <= due[c]
    /\ \/ bytes[c] = due[c]
       \/ c \in torn
       \/ \E t \in Thread : Api(t) = "txtMsg" /\ job[t].row = {c}

=============================================================================
