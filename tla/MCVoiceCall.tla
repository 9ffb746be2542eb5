---------------------------- MODULE MCVoiceCall ----------------------------
(***************************************************************************)
(* Two or three phones and one or two server threads.                      *)
(***************************************************************************)
EXTENDS VoiceCall, TLC

CONSTANTS p1, p2, p3, t1, t2

MCTwoPhones == {p1, p2}
MCThreePhones == {p1, p2, p3}
MCOneThread == {t1}
MCTwoThreads == {t1, t2}

(* p1 dials p2 once.                                                       *)
MCOneDial == [p \in Phone |-> IF p = p1 THEN 1 ELSE 0]
(* p1 and p3 dial once each, p2 is dialled.                                *)
MCIntruder == [p \in Phone |-> IF p = p2 THEN 0 ELSE 1]

ThreadSymmetry == Permutations(Thread)

(* The state after p1 has dialled, p2 has answered and everything sent has *)
(* arrived: the call is up. Starting here, the runs spend their states on  *)
(* its end.                                                                *)
CallUp ==
  /\ callState = [p \in Phone |-> "IN_CALL"]
  /\ queue = [p \in Phone |-> <<>>]
  /\ recipientId = [p \in Phone |-> NoConf]
  /\ alert = [p \in Phone |-> {}]
  /\ tone = [p \in Phone |-> "none"]
  /\ ringerMode = [p \in Phone |-> "vibrate"]
  /\ callJob = [p \in Phone |-> [live |-> TRUE, peers |-> Phone \ {p}]]
  /\ peerJobs = [p \in Phone |-> [join |-> {}, leave |-> {}]]
  /\ screen = [p \in Phone |->
       [Session!NoScreen EXCEPT !.kind = IF p = p1 THEN "OUTGOING" ELSE "ANSWERED",
                                !.peers = IF p = p1 THEN {} ELSE {p1},
                                !.shown = TRUE]]
  /\ rest = [p \in Phone |-> [r \in Session!Request |-> 0]]
  /\ glitch = [p \in Phone |-> {}]
  /\ partner = [p \in Phone |-> IF p = p1 THEN p2 ELSE p1]
  /\ callType = [p \in Phone |-> IF p = p1 THEN "SENDER" ELSE "RECEIVER"]
  /\ callStart = [p \in Phone |-> 0]
  /\ history = [p \in Phone |-> [k \in {"in", "out"} |-> 0]]
  /\ thread = [t \in Thread |-> Server!IdleTask]
  /\ mqtt = [p \in Phone |-> [m \in Server!Message |-> 0]]
  /\ now = 0
  /\ charged = history
  /\ accepted = {<<p2, p1>>}
  /\ raced = {}
  /\ request = [t \in Thread |-> NoRequest]
  /\ dials = MCOneDial
  /\ answered = {<<p2, p1>>}

(* What is not a user. *)
Machinery ==
  \/ \E p \in Phone : Handle(p)
  \/ \E t \in Thread : Serve(t) \/ Respond(t)
  \/ Network
  \/ Tick

(* p1 dials, p2 answers, and both stay in the call.                        *)
PatientSpec == Init /\ [][Dial(p1, p2) \/ Answer(p2) \/ Machinery]_vars

(* Of the two in the call only p1 hangs up.                                *)
OneHangsUpSpec == CallUp /\ [][Hangup(p1) \/ Machinery]_vars

CallUpSpec == CallUp /\ [][Next]_vars /\ Fairness

=============================================================================
