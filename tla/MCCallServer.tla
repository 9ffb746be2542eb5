---------------------------- MODULE MCCallServer ----------------------------
(* The exchange against a few requests of three phones. *)
EXTENDS CallServer, TLC

CONSTANTS p1, p2, p3, t1, t2

MCPhone == {p1, p2, p3}
MCTwoPhones == {p1, p2}
MCOneThread == {t1}
MCTwoThreads == {t1, t2}

(* Two phones in a call, after two requests and the messages they made:    *)
(* each of the phones can have the drop of its own that bills both.        *)
CallUp ==
  \E p, q \in Phone :
    /\ p # q
    /\ partner = [r \in Phone |-> IF r = p THEN q ELSE IF r = q THEN p ELSE NoPhone]
    /\ callType = [r \in Phone |-> IF r = p THEN "SENDER" ELSE IF r = q THEN "RECEIVER" ELSE ""]
    /\ callStart = [r \in Phone |-> IF r \in {p, q} THEN 0 ELSE NoTime]
    /\ history = [r \in Phone |-> [k \in Kind |-> 0]]
    /\ thread = [t \in Thread |-> IdleTask]
    /\ mqtt = [r \in Phone |-> [m \in Message |-> 0]]
    /\ now = 0
    /\ charged = history
    /\ accepted = {<<q, p>>}
    /\ raced = {}
    /\ requests = MaxRequests - 2

(* The same two phones when they have talked for a second and hung up,     *)
(* after a third request that has billed both of them.                     *)
CallEnded ==
  \E p, q \in Phone :
    /\ p # q
    /\ partner = [r \in Phone |-> IF r = p THEN q ELSE IF r = q THEN p ELSE NoPhone]
    /\ callType = [r \in Phone |-> IF r = p THEN "SENDER" ELSE IF r = q THEN "RECEIVER" ELSE ""]
    /\ callStart = [r \in Phone |-> IF r \in {p, q} THEN 0 ELSE NoTime]
    /\ history = [r \in Phone |-> [k \in Kind |->
                    IF <<r, k>> \in {<<p, "out">>, <<q, "in">>} THEN 1 ELSE 0]]
    /\ thread = [t \in Thread |-> IdleTask]
    /\ mqtt = [r \in Phone |-> [m \in Message |-> 0]]
    /\ now = 1
    /\ charged = history
    /\ accepted = {<<q, p>>}
    /\ raced = {}
    /\ requests = 3

NextCallSpec == CallEnded /\ [][Next]_vars

RowsSpec == (Init \/ CallUp) /\ [][Next]_vars

ServerSymmetry == Permutations(Phone) \cup Permutations(Thread)

=============================================================================
