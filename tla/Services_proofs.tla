-------------------------- MODULE Services_proofs --------------------------
(***************************************************************************)
(* The text messages' byte counters, the accounts, and the conversations   *)
(* in the databases of the phones, for any phones, threads, lengths,       *)
(* numbers, people, texts and requests, and beside all the other services  *)
(* that the threads work for: BytesCounted, AccountsWhole,                 *)
(* FiledAmongItsPeople, OneConversation.                                   *)
(*                                                                         *)
(* BytesCounted says nothing of the total that a thread has read and not   *)
(* yet written back. BytesInv does: it is what the counter would be due,   *)
(* and all of it unless the counter is torn, and then no other thread has  *)
(* the counter.                                                            *)
(*                                                                         *)
(* AccountsWhole speaks of an account that nobody is working on: AccountInv*)
(* says what its workers know: an unspoilt number is free, or one thread   *)
(* is registering it, or it is one person's, and all its workers are that  *)
(* person's: they have read a field that the person wrote.               *)
(*                                                                         *)
(* A conversation gets its hash and its members in different steps of two  *)
(* threads. PhoneInv says what each of them still has to do, as what one   *)
(* phone's tables, inbox and screen have to do with each other.            *)
(***************************************************************************)
EXTENDS Services, TLAPS

NotText(r) == "api" \in DOMAIN r /\ r.api # "txtMsg"

TextFields == {"api", "id", "from", "to", "unsent", "uncounted", "row", "total", "length"}

TextJob(r) ==
  /\ DOMAIN r = TextFields
  /\ r.api = "txtMsg"
  /\ r.row \subseteq Counter
  /\ \A c, d \in r.row : c = d
  /\ r.uncounted \subseteq Counter
  /\ r.total \in Int
  /\ r.length \in Nat

Has(t, c) == Api(t) = "txtMsg" /\ job[t].row = {c}

JobsOK ==
  /\ DOMAIN job = Thread
  /\ \A t \in Thread : NotText(job[t]) \/ TextJob(job[t])

CountersOK ==
  /\ bytes \in [Counter -> Int]
  /\ due \in [Counter -> Int]

NeverMore ==
  \A c \in Counter :
    /\ bytes[c] <= due[c]
    /\ \A t \in Thread : Has(t, c) => job[t].total + job[t].length <= due[c]

NeverLess ==
  \A c \in Counter \ torn :
    /\ \A t \in Thread : Has(t, c) => job[t].total + job[t].length = due[c]
    /\ \A t, u \in Thread : Has(t, c) /\ Has(u, c) => t = u
    /\ (\A t \in Thread : ~Has(t, c)) => bytes[c] = due[c]

BytesInv == JobsOK /\ CountersOK /\ NeverMore /\ NeverLess

-----------------------------------------------------------------------------
(* A step that has nothing to do with texts: at most one thread changes    *)
(* its job, and neither its old nor its new one is a text.                 *)
Elsewhere ==
  /\ UNCHANGED texts
  /\ \/ job' = job
     \/ \E t \in Thread : \E r : /\ NotText(job[t])
                                 /\ NotText(r)
                                 /\ job' = [job EXCEPT ![t] = r]

(* The other services leave the counters and the texts in progress alone.  *)
LEMMA ElsewhereKeeps == BytesInv /\ Elsewhere => BytesInv'
<1> SUFFICES ASSUME BytesInv, Elsewhere PROVE BytesInv'
  OBVIOUS
<1> USE DEF BytesInv
<1>1. UNCHANGED <<bytes, due, torn>>
  BY DEF Elsewhere, texts
<1>2. /\ DOMAIN job' = Thread
      /\ \A t \in Thread : job'[t] = job[t] \/ (NotText(job[t]) /\ NotText(job'[t]))
  <2>1. CASE job' = job
    BY <2>1 DEF JobsOK
  <2>2. ASSUME NEW t \in Thread, NEW r, NotText(job[t]), NotText(r),
               job' = [job EXCEPT ![t] = r]
        PROVE  <1>2!1 /\ <1>2!2
    BY <2>2 DEF JobsOK
  <2> QED BY <2>1, <2>2 DEF Elsewhere
<1>3. \A t \in Thread, c \in Counter : Has(t, c)' <=> Has(t, c)
  BY <1>2 DEF Has, Api, NotText
<1>4. \A t \in Thread, c \in Counter : Has(t, c) => job'[t] = job[t]
  BY <1>2 DEF Has, Api, NotText
<1>5. JobsOK'
  BY <1>2 DEF JobsOK, TextJob, NotText, Counter
<1>6. CountersOK'
  BY <1>1 DEF CountersOK, Counter
<1>7. NeverMore'
  BY <1>1, <1>3, <1>4 DEF NeverMore, Counter
<1>8. NeverLess'
  BY <1>1, <1>3, <1>4 DEF NeverLess, Counter
<1> QED BY <1>5, <1>6, <1>7, <1>8

(* A change of one thread's job that keeps its row, or empties it without  *)
(* touching the counters, is seen by the counters of no other thread.      *)
LEMMA BeginTextKeeps ==
  ASSUME BytesInv, NEW t \in Thread, NEW from \in Phone, NEW to \in SUBSET Phone,
         NEW length \in Nat, BeginText(t, from, to, length)
  PROVE  BytesInv'
<1> DEFINE r == [api |-> "txtMsg", id |-> requests, from |-> from, to |-> to,
                 unsent |-> to,
                 uncounted |-> {<<from, "SEND">>} \cup (to \X {"RECEIVE"}),
                 row |-> {}, total |-> 0, length |-> length]
<1>1. /\ job[t] = Idle
      /\ job' = [job EXCEPT ![t] = r]
      /\ UNCHANGED <<bytes, due, torn>>
  BY DEF BeginText, Begin, texts
<1>2. TextJob(r)
  BY DEF TextJob, TextFields, Counter
<1>3. \A u \in Thread, c \in Counter :
        /\ Has(u, c)' <=> Has(u, c)
        /\ Has(u, c) => job'[u] = job[u]
  BY <1>1 DEF Has, Api, Idle, BytesInv, JobsOK
<1>4. JobsOK'
  BY <1>1, <1>2 DEF JobsOK, TextJob, NotText, BytesInv, Counter
<1>5. CountersOK'
  BY <1>1 DEF CountersOK, BytesInv, Counter
<1>6. NeverMore'
  BY <1>1, <1>3 DEF NeverMore, BytesInv, Counter
<1>7. NeverLess'
  BY <1>1, <1>3 DEF NeverLess, BytesInv, Counter
<1> QED BY <1>4, <1>5, <1>6, <1>7 DEF BytesInv

(* A message that is published (sendMsg) changes no counter and no total.  *)
LEMMA PublishTextKeeps ==
  ASSUME BytesInv, NEW t \in Thread, PublishText(t)
  PROVE  BytesInv'
<1>1. PICK to : job' = [job EXCEPT ![t] = [job[t] EXCEPT !.unsent = @ \ {to}]]
  BY DEF PublishText, Goon
<1>2. UNCHANGED <<bytes, due, torn>> /\ Api(t) = "txtMsg"
  BY DEF PublishText, texts
<1>3. TextJob(job[t])
  BY <1>2 DEF BytesInv, JobsOK, NotText, Api
<1>4. TextJob(job'[t]) /\ \A f \in TextFields \ {"unsent"} : job'[t][f] = job[t][f]
  BY <1>1, <1>3 DEF TextJob, BytesInv, JobsOK, TextFields
<1>5. \A u \in Thread \ {t} : job'[u] = job[u]
  BY <1>1 DEF BytesInv, JobsOK
<1>6. job'[t].row = job[t].row /\ job'[t].total = job[t].total /\ job'[t].length = job[t].length
      /\ job'[t].api = job[t].api
  BY <1>4 DEF TextFields
<1>7. \A u \in Thread, c \in Counter : Has(u, c)' <=> Has(u, c)
  BY <1>5, <1>6 DEF Has, Api
<1>8. \A u \in Thread, c \in Counter :
        Has(u, c) => job'[u].total = job[u].total /\ job'[u].length = job[u].length
  BY <1>5, <1>6
<1>9. JobsOK'
  BY <1>1, <1>4, <1>5 DEF BytesInv, JobsOK, TextJob, NotText, Counter
<1>10. CountersOK'
  BY <1>2 DEF CountersOK, BytesInv, Counter
<1>11. NeverMore'
  BY <1>2, <1>7, <1>8 DEF NeverMore, BytesInv, Counter
<1>12. NeverLess'
  BY <1>2, <1>7, <1>8 DEF NeverLess, BytesInv, Counter
<1> QED BY <1>9, <1>10, <1>11, <1>12 DEF BytesInv

(* The read of UsageManager.txtMsg: the total that the thread now has is   *)
(* what the counter is due, unless another thread has the counter, and     *)
(* then it is torn.                                                        *)
LEMMA ReadBytesKeeps ==
  ASSUME BytesInv, NEW t \in Thread, ReadBytes(t)
  PROVE  BytesInv'
<1>1. PICK c \in job[t].uncounted :
        /\ job' = [job EXCEPT ![t] = [job[t] EXCEPT !.row = {c}, !.total = bytes[c],
                                                     !.uncounted = @ \ {c}]]
        /\ due' = [due EXCEPT ![c] = @ + job[t].length]
        /\ torn' = torn \cup IF \E u \in Thread \ {t} : Has(u, c) THEN {c} ELSE {}
  BY DEF ReadBytes, Goon, Has
<1>2. bytes' = bytes /\ Api(t) = "txtMsg" /\ job[t].row = {}
  BY DEF ReadBytes
<1>3. TextJob(job[t]) /\ c \in Counter
  BY <1>2 DEF BytesInv, JobsOK, NotText, Api, TextJob
<1>4. bytes[c] \in Int /\ due[c] \in Int /\ job[t].length \in Nat /\ bytes[c] <= due[c]
  BY <1>3 DEF BytesInv, CountersOK, NeverMore, TextJob
<1>5. /\ job'[t] = [job[t] EXCEPT !.row = {c}, !.total = bytes[c], !.uncounted = @ \ {c}]
      /\ DOMAIN job' = Thread
      /\ \A u \in Thread \ {t} : job'[u] = job[u]
  BY <1>1 DEF BytesInv, JobsOK
<1>6. /\ TextJob(job'[t])
      /\ job'[t].api = "txtMsg"
      /\ job'[t].row = {c}
      /\ job'[t].total = bytes[c]
      /\ job'[t].length = job[t].length
  BY <1>3, <1>4, <1>5 DEF TextJob, TextFields
<1>7. /\ Has(t, c)'
      /\ \A d \in Counter : Has(t, d)' => d = c
      /\ \A d \in Counter : ~Has(t, d)
      /\ \A u \in Thread \ {t}, d \in Counter : Has(u, d)' <=> Has(u, d)
  BY <1>2, <1>5, <1>6 DEF Has, Api
<1>8. JobsOK'
  BY <1>5, <1>6 DEF BytesInv, JobsOK
<1>9. CountersOK' /\ due'[c] = due[c] + job[t].length /\ \A d \in Counter \ {c} : due'[d] = due[d]
  BY <1>1, <1>2, <1>3, <1>4 DEF BytesInv, CountersOK, Counter
<1>10. NeverMore'
  <2> SUFFICES ASSUME NEW d \in Counter
               PROVE  /\ bytes'[d] <= due'[d]
                      /\ \A u \in Thread : Has(u, d)' => job'[u].total + job'[u].length <= due'[d]
    BY DEF NeverMore, Counter
  <2>1. bytes[d] \in Int /\ due[d] \in Int /\ bytes[d] <= due[d] /\ due'[d] >= due[d]
    BY <1>4, <1>9 DEF BytesInv, CountersOK, NeverMore
  <2>2. ASSUME NEW u \in Thread \ {t}, Has(u, d)'
        PROVE  job'[u].total + job'[u].length <= due'[d]
    <3>1. job[u].total + job[u].length <= due[d] /\ job'[u] = job[u]
      BY <1>5, <1>7, <2>2 DEF BytesInv, NeverMore
    <3>2. job[u].total \in Int /\ job[u].length \in Nat
      BY <1>7, <2>2 DEF BytesInv, JobsOK, NotText, TextJob, Has, Api
    <3> QED BY <3>1, <3>2, <2>1, <1>9, <1>4
  <2>3. Has(t, d)' => job'[t].total + job'[t].length <= due'[d]
    BY <1>4, <1>6, <1>7, <1>9
  <2> QED BY <1>2, <1>4, <1>9, <2>1, <2>2, <2>3
<1>11. NeverLess'
  <2> SUFFICES ASSUME NEW d \in Counter, d \notin torn'
               PROVE  /\ \A u \in Thread : Has(u, d)' => job'[u].total + job'[u].length = due'[d]
                      /\ \A u, v \in Thread : Has(u, d)' /\ Has(v, d)' => u = v
                      /\ (\A u \in Thread : ~Has(u, d)') => bytes'[d] = due'[d]
    BY DEF NeverLess, Counter
  <2>1. d \in Counter \ torn
    BY <1>1
  <2>2. CASE d = c
    <3>1. \A u \in Thread : ~Has(u, c)
      BY <1>1, <1>7, <2>2
    <3>2. bytes[c] = due[c]
      BY <2>1, <2>2, <3>1 DEF BytesInv, NeverLess
    <3> QED BY <1>4, <1>6, <1>7, <1>9, <2>2, <3>1, <3>2
  <2>3. CASE d # c
    BY <1>2, <1>5, <1>7, <1>9, <2>1, <2>3 DEF BytesInv, NeverLess
  <2> QED BY <2>2, <2>3
<1> QED BY <1>8, <1>9, <1>10, <1>11 DEF BytesInv

(* The write of UsageManager.txtMsg: the thread gives its counter up with  *)
(* everything it was due, or with less where it is torn.                   *)
LEMMA WriteBytesKeeps ==
  ASSUME BytesInv, NEW t \in Thread, WriteBytes(t)
  PROVE  BytesInv'
<1>1. PICK c \in job[t].row :
        /\ bytes' = [bytes EXCEPT ![c] = job[t].total + job[t].length]
        /\ job' = [job EXCEPT ![t] = [job[t] EXCEPT !.row = {}]]
  BY DEF WriteBytes, Goon
<1>2. UNCHANGED <<due, torn>> /\ Api(t) = "txtMsg"
  BY DEF WriteBytes
<1>3. TextJob(job[t]) /\ c \in Counter
  BY <1>2 DEF BytesInv, JobsOK, NotText, Api, TextJob
<1>4. /\ job[t].total \in Int
      /\ job[t].length \in Nat
      /\ due[c] \in Int
  BY <1>3 DEF BytesInv, CountersOK, TextJob
<1>5. /\ job'[t] = [job[t] EXCEPT !.row = {}]
      /\ DOMAIN job' = Thread
      /\ \A u \in Thread \ {t} : job'[u] = job[u]
  BY <1>1 DEF BytesInv, JobsOK
<1>6. TextJob(job'[t]) /\ job'[t].row = {}
  BY <1>3, <1>5 DEF TextJob, TextFields
<1>7. /\ \A d \in Counter : ~Has(t, d)'
      /\ \A u \in Thread \ {t}, d \in Counter : Has(u, d)' <=> Has(u, d)
  BY <1>5, <1>6 DEF Has, Api
<1>8. JobsOK'
  BY <1>5, <1>6 DEF BytesInv, JobsOK
<1>9. /\ CountersOK'
      /\ bytes'[c] = job[t].total + job[t].length
      /\ \A d \in Counter \ {c} : bytes'[d] = bytes[d]
  BY <1>1, <1>2, <1>3, <1>4 DEF BytesInv, CountersOK, Counter
<1>10. Has(t, c) /\ \A d \in Counter : Has(t, d) => d = c
  BY <1>1, <1>2, <1>3 DEF Has, TextJob
<1>11. NeverMore'
  <2> SUFFICES ASSUME NEW d \in Counter
               PROVE  /\ bytes'[d] <= due'[d]
                      /\ \A u \in Thread : Has(u, d)' => job'[u].total + job'[u].length <= due'[d]
    BY DEF NeverMore, Counter
  <2>1. bytes'[d] <= due'[d]
    BY <1>2, <1>9, <1>10 DEF BytesInv, NeverMore
  <2>2. ASSUME NEW u \in Thread, Has(u, d)'
        PROVE  job'[u].total + job'[u].length <= due'[d]
    BY <1>2, <1>5, <1>7, <2>2 DEF BytesInv, NeverMore
  <2> QED BY <2>1, <2>2
<1>12. NeverLess'
  <2> SUFFICES ASSUME NEW d \in Counter \ torn
               PROVE  /\ \A u \in Thread : Has(u, d)' => job'[u].total + job'[u].length = due'[d]
                      /\ \A u, v \in Thread : Has(u, d)' /\ Has(v, d)' => u = v
                      /\ (\A u \in Thread : ~Has(u, d)') => bytes'[d] = due'[d]
    BY <1>2 DEF NeverLess, Counter
  <2>1. CASE d = c
    BY <1>2, <1>7, <1>9, <1>10, <2>1 DEF BytesInv, NeverLess
  <2>2. CASE d # c
    <3>1. \A u \in Thread : Has(u, d)' <=> Has(u, d)
      BY <1>7, <1>10, <2>2
    <3>2. \A u \in Thread : Has(u, d)' => job'[u] = job[u]
      BY <1>5, <1>7
    <3> QED BY <1>2, <1>9, <2>2, <3>1, <3>2 DEF BytesInv, NeverLess
  <2> QED BY <2>1, <2>2
<1> QED BY <1>8, <1>9, <1>11, <1>12 DEF BytesInv

(* A thread whose text is done has no counter.                             *)
LEMMA EndTextKeeps ==
  ASSUME BytesInv, NEW t \in Thread, EndText(t)
  PROVE  BytesInv'
<1>1. /\ job' = [job EXCEPT ![t] = Idle]
      /\ UNCHANGED <<bytes, due, torn>>
      /\ job[t].row = {}
  BY DEF EndText, Answer, Goon, texts
<1>2. \A u \in Thread : job'[u] = IF u = t THEN Idle ELSE job[u]
  BY <1>1 DEF BytesInv, JobsOK
<1>3. \A u \in Thread, c \in Counter : Has(u, c)' <=> Has(u, c)
  BY <1>1, <1>2 DEF Has, Api, Idle
<1>4. \A u \in Thread, c \in Counter : Has(u, c) => job'[u] = job[u]
  BY <1>1, <1>2 DEF Has
<1>5. JobsOK'
  BY <1>1, <1>2 DEF BytesInv, JobsOK, TextJob, NotText, Idle, Counter
<1>6. CountersOK'
  BY <1>1 DEF CountersOK, BytesInv, Counter
<1>7. NeverMore'
  BY <1>1, <1>3, <1>4 DEF NeverMore, BytesInv, Counter
<1>8. NeverLess'
  BY <1>1, <1>3, <1>4 DEF NeverLess, BytesInv, Counter
<1> QED BY <1>5, <1>6, <1>7, <1>8 DEF BytesInv

-----------------------------------------------------------------------------
(* A thread that works for another service does not get a text from it.    *)
LEMMA GoonElsewhere ==
  ASSUME NEW t \in Thread, NEW r, NotText(job[t]), NotText(r), Goon(t, r), UNCHANGED texts
  PROVE  Elsewhere
BY DEF Goon, Elsewhere

(* A thread without a request has no text.                                 *)
LEMMA IdleIsNotText == NotText(Idle)
BY DEF NotText, Idle

(* Registrations, updates and removals are elsewhere.                      *)
LEMMA AccountElsewhere == BytesInv /\ Account => Elsewhere
<1> SUFFICES ASSUME BytesInv, Account PROVE Elsewhere
  OBVIOUS
<1>1. UNCHANGED texts
  BY DEF Account
<1>2. \A t \in Thread : Api(t) \in AccountApi => NotText(job[t])
  BY DEF BytesInv, JobsOK, AccountApi, Api, TextJob
<1>3. ASSUME NEW t \in Thread, NEW r, NotText(r), Begin(t, r) PROVE Elsewhere
  BY <1>1, <1>3, IdleIsNotText DEF Begin, Elsewhere
<1>4. \A api \in AccountApi : \A n, who, checks, writes, whole :
        NotText(Request(api, n, who, checks, writes, whole))
  BY DEF Request, NotText, AccountApi
<1>5. ASSUME NEW t \in Thread, NEW who \in Person, NEW k, BeginRegister(t, who, k)
      PROVE  Elsewhere
  BY <1>3, <1>4, <1>5 DEF BeginRegister, AccountApi
<1>6. ASSUME NEW t \in Thread, NEW n, NEW who, NEW given, BeginUpdate(t, n, who, given)
      PROVE  Elsewhere
  BY <1>3, <1>4, <1>6 DEF BeginUpdate, AccountApi
<1>7. ASSUME NEW t \in Thread, NEW api, NEW n, NEW who, BeginOther(t, api, n, who)
      PROVE  Elsewhere
  BY <1>3, <1>4, <1>7 DEF BeginOther, AccountApi
<1>8. ASSUME NEW t \in Thread, AccountStep(t)
      PROVE  Elsewhere
  <2>1. NotText(job[t])
    BY <1>2, <1>8 DEF AccountStep, FindNumber, CheckExist, ReadField, CompareField, WriteField,
                      Throw, EndWrites, Delete, Ready, AccountApi
  <2>2. ASSUME Answer(t) PROVE Elsewhere
    BY <1>1, <2>1, <2>2, GoonElsewhere, IdleIsNotText DEF Answer
  <2>3. CASE FindNumber(t)
    BY <1>1, <2>1, <2>3, GoonElsewhere DEF FindNumber, NotText
  <2>4. CASE CheckExist(t)
    BY <1>1, <2>1, <2>2, <2>4, GoonElsewhere DEF CheckExist, NotText
  <2>5. CASE ReadField(t)
    BY <1>1, <2>1, <2>5, GoonElsewhere DEF ReadField, NotText
  <2>6. CASE CompareField(t)
    BY <1>1, <2>1, <2>2, <2>6, GoonElsewhere DEF CompareField, NotText
  <2>7. CASE WriteField(t)
    BY <1>1, <2>1, <2>7, GoonElsewhere DEF WriteField, NotText
  <2>8. CASE Throw(t) \/ EndWrites(t) \/ Delete(t)
    BY <2>2, <2>8 DEF Throw, EndWrites, Delete
  <2> QED BY <1>8, <2>3, <2>4, <2>5, <2>6, <2>7, <2>8 DEF AccountStep
<1> QED BY <1>5, <1>6, <1>7, <1>8 DEF Account

(* What a phone does with its conversations is elsewhere.                  *)
LEMMA OnPhoneElsewhere == OnPhone => Elsewhere
<1> SUFFICES ASSUME OnPhone PROVE Elsewhere
  OBVIOUS
<1>1. job' = job
  BY DEF OnPhone, TextArrives, PhoneStep, FileMessage, OpenConversation, FindOpened, CreateOpened,
         AddOpenedMember, Invite, AddInvited, Rename, servlets
<1> QED BY <1>1 DEF OnPhone, Elsewhere

(* Conference calls are elsewhere.                                         *)
LEMMA ConferringElsewhere == BytesInv /\ Conferring => Elsewhere
<1> SUFFICES ASSUME BytesInv, Conferring PROVE Elsewhere
  OBVIOUS
<1>1. UNCHANGED texts
  BY DEF Conferring
<1>2. \A t \in Thread : Api(t) \in CcApi => NotText(job[t])
  BY DEF BytesInv, JobsOK, CcApi, Api, TextJob
<1>3. ASSUME NEW p \in Phone, Start(p) \/ HangUp(p) \/ Engage(p) \/ Disengage(p) PROVE Elsewhere
  BY <1>1, <1>3 DEF Start, HangUp, Engage, Disengage, servlets, Elsewhere
<1>4. ASSUME NEW t \in Thread, NEW m \in http, TakeRequest(t, m) PROVE Elsewhere
  <2> DEFINE r == [api |-> m.api, phone |-> m.phone, id |-> m.id, unread |-> TRUE,
                   own |-> TRUE, untold |-> {}, ips |-> {}]
  <2>1. NotText(r) /\ Goon(t, r) /\ NotText(job[t])
    BY <1>4, IdleIsNotText DEF TakeRequest, NotText, CcApi
  <2> QED BY <1>1, <2>1, GoonElsewhere
<1>5. ASSUME NEW t \in Thread, ConferenceStep(t) PROVE Elsewhere
  <2>1. NotText(job[t])
    BY <1>2, <1>5 DEF ConferenceStep, ReadMembers, TellMember, AddMember, RemoveMember,
                      AnswerPhone, CcApi
  <2>2. CASE ReadMembers(t)
    BY <1>1, <2>1, <2>2, GoonElsewhere DEF ReadMembers, NotText
  <2>3. CASE TellMember(t)
    BY <1>1, <2>1, <2>3, GoonElsewhere DEF TellMember, NotText
  <2>4. CASE AddMember(t)
    BY <1>1, <2>1, <2>4, GoonElsewhere DEF AddMember, NotText
  <2>5. CASE RemoveMember(t)
    BY <1>1, <2>1, <2>5, GoonElsewhere DEF RemoveMember, NotText
  <2>6. CASE AnswerPhone(t)
    BY <1>1, <2>1, <2>6, GoonElsewhere, IdleIsNotText DEF AnswerPhone, Answer
  <2> QED BY <1>5, <2>2, <2>3, <2>4, <2>5, <2>6 DEF ConferenceStep
<1>6. ASSUME NEW m, JoinedArrives(m) \/ StopArrives(m) \/ LosePacket(m) \/ NewsArrives(m)
      PROVE  Elsewhere
  BY <1>1, <1>6 DEF JoinedArrives, StopArrives, LosePacket, NewsArrives, servlets, Elsewhere
<1> QED BY <1>3, <1>4, <1>5, <1>6 DEF Conferring

(* A message that is lost is elsewhere: its bytes stay counted.            *)
LEMMA LostElsewhere == Lost => Elsewhere
BY DEF Lost, Lose, Elsewhere

-----------------------------------------------------------------------------
(* Over all the services.                                                  *)
LEMMA BytesStep == BytesInv /\ [Next]_vars => BytesInv'
<1> SUFFICES ASSUME BytesInv, [Next]_vars PROVE BytesInv'
  OBVIOUS
<1>1. CASE Account
  BY <1>1, AccountElsewhere, ElsewhereKeeps
<1>2. CASE Text
  <2>1. \A to \in Groups : to \in SUBSET Phone
    BY ServicesAssumption
  <2>2. \A length \in MessageBytes : length \in Nat
    BY TextAssumption
  <2> QED BY <1>2, <2>1, <2>2, BeginTextKeeps, PublishTextKeeps, ReadBytesKeeps, WriteBytesKeeps,
             EndTextKeeps DEF Text, TextStep
<1>3. CASE OnPhone
  BY <1>3, OnPhoneElsewhere, ElsewhereKeeps
<1>4. CASE Conferring
  BY <1>4, ConferringElsewhere, ElsewhereKeeps
<1>5. CASE Lost
  BY <1>5, LostElsewhere, ElsewhereKeeps
<1>6. CASE UNCHANGED vars
  BY <1>6, ElsewhereKeeps DEF vars, servlets, Elsewhere
<1> QED BY <1>1, <1>2, <1>3, <1>4, <1>5, <1>6 DEF Next

(* Before the first text nothing is due.                                   *)
LEMMA BytesStart == Init => BytesInv
BY DEF Init, ServletsInit, TextsInit, BytesInv, JobsOK, CountersOK, NeverMore, NeverLess,
       Has, Api, Idle, NotText, Counter

(* The counters of a text message: a counter never has more than was added *)
(* to it, and it has all of it unless two threads were at it at once or    *)
(* one still has it in hand.                                               *)
THEOREM BytesAreCounted == Spec => []BytesCounted
<1>1. BytesInv => BytesCounted
  BY DEF BytesInv, NeverMore, NeverLess, BytesCounted, Has
<1> QED BY <1>1, BytesStart, BytesStep, PTL DEF Spec

-----------------------------------------------------------------------------
(* Accounts: their requests. *)

Field == ToSet(Fields)

AccountFields == {"api", "number", "who", "checks", "seen", "writes", "whole"}

(* A list of checks ends with the existence of the account, after a field  *)
(* of it has been compared.                                                *)
CheckList(checks) ==
  /\ checks \in Seq(Field \cup {"exist"})
  /\ Len(checks) >= 1 => checks[Len(checks)] = "exist"
  /\ Len(checks) >= 2 => checks[Len(checks) - 1] \in Field

AccountJob(r) ==
  /\ DOMAIN r = AccountFields
  /\ r.number \in SUBSET Number
  /\ \A a, b \in r.number : a = b
  /\ r.who \in Person
  /\ CheckList(r.checks)
  /\ r.api # "register" => r.number # {}
  /\ r.api = "register" => /\ r.checks = <<>> /\ r.seen = "nothing"
                           /\ r.writes \in Seq(Field)
                           /\ r.number = {} /\ r.whole => \A f \in Field : f \in ToSet(r.writes)

(* The fields of an account.                                               *)
LEMMA FieldFacts ==
  /\ Fields \in Seq(Field) /\ "exist" \notin Field
  /\ \A i \in 1 .. Len(OwnFields) : OwnFields[i] \in Field
  /\ \A i \in 1 .. Len(CardFields) : CardFields[i] \in Field
  /\ "password" \in Field
<1>. DEFINE own == Len(OwnFields)
            card == Len(CardFields)
            Name == STRING \cup {"status"}
<1>1. /\ OwnFields \in Seq(Name) /\ CardFields \in Seq(Name)
      /\ own \in Nat /\ card \in Nat
  BY AccountAssumption
<1>2. /\ Fields \in Seq(Name) /\ Len(Fields) = own + card + 1
      /\ \A i \in 1 .. own : Fields[i] = OwnFields[i]
      /\ \A i \in 1 .. card : Fields[own + i] = CardFields[i]
  <2>. DEFINE both == OwnFields \o CardFields
  <2>1. /\ both \in Seq(Name) /\ Len(both) = own + card
        /\ \A i \in 1 .. own : both[i] = OwnFields[i]
    BY <1>1
  <2>2. \A i \in 1 .. card : both[own + i] = CardFields[i]
    BY <1>1
  <2>. HIDE DEF both, own, card
  <2>3. /\ both \o <<"status">> \in Seq(Name) /\ Len(both \o <<"status">>) = own + card + 1
        /\ \A i \in 1 .. own + card : (both \o <<"status">>)[i] = both[i]
    <3>1. <<"status">> \in Seq(Name) /\ Len(<<"status">>) = 1
      OBVIOUS
    <3>2. both \o <<"status">> \in Seq(Name)
      BY <2>1, <3>1
    <3>3. /\ Len(both \o <<"status">>) = own + card + 1
          /\ \A i \in 1 .. own + card : (both \o <<"status">>)[i] = both[i]
      BY <1>1, <2>1, <3>1
    <3>. QED  BY <3>2, <3>3
  <2>4. \A i \in 1 .. own : i \in 1 .. own + card
    BY <1>1
  <2>5. \A i \in 1 .. card : own + i \in 1 .. own + card
    BY <1>1
  <2>6. Fields = both \o <<"status">>
    BY DEF Fields, both
  <2>. QED  BY <2>1, <2>2, <2>3, <2>4, <2>5, <2>6
<1>. HIDE DEF own, card
<1>3. \A i \in 1 .. Len(Fields) : Fields[i] \in Field
  BY <1>2 DEF Field, ToSet
<1>4. Fields \in Seq(Field)
  BY <1>2, <1>3
<1>5. \A i \in 1 .. card : CardFields[i] \in Field
  <2>. SUFFICES ASSUME NEW i \in 1 .. card PROVE CardFields[i] \in Field
    OBVIOUS
  <2>1. own + i \in 1 .. Len(Fields)
    BY <1>1, <1>2 DEF own, card
  <2>. QED  BY <1>2, <1>3, <2>1
<1>6. \A i \in 1 .. own : OwnFields[i] \in Field
  <2>. SUFFICES ASSUME NEW i \in 1 .. own PROVE OwnFields[i] \in Field
    OBVIOUS
  <2>1. i \in 1 .. Len(Fields)
    BY <1>1, <1>2 DEF own, card
  <2>. QED  BY <1>2, <1>3, <2>1
<1>7. "password" \in Field
  <2>1. PICK i \in 1 .. own : OwnFields[i] = "password"
    BY <1>1, AccountAssumption DEF ToSet, own
  <2>2. i \in 1 .. Len(Fields)
    BY <1>1, <1>2, <2>1 DEF own, card
  <2>. QED  BY <1>2, <1>3, <2>1, <2>2
<1>. QED  BY <1>4, <1>5, <1>6, <1>7, AccountAssumption DEF own, card, Field

(* The checks of the requests.                                             *)
LEMMA CheckFacts ==
  /\ CheckList(<<>>)
  /\ CheckList(Login \o <<"exist">>) /\ Len(Login \o <<"exist">>) >= 2
  /\ CheckList(<<"exist">> \o CardFields \o <<"exist">>)
  /\ Len(<<"exist">> \o CardFields \o <<"exist">>) >= 2
<1>. DEFINE login == Login \o <<"exist">>
            cards == <<"exist">> \o CardFields \o <<"exist">>
            card == Len(CardFields)
<1>1. login \in Seq(Field \cup {"exist"}) /\ Len(login) = 4 /\ login[3] = "password"
      /\ login[4] = "exist"
  BY FieldFacts DEF Login
<1>2. card \in Nat /\ card >= 1 /\ CardFields \in Seq(STRING)
  BY AccountAssumption
<1>3. CardFields \in Seq(Field \cup {"exist"})
  BY <1>2, FieldFacts
<1>4. /\ cards \in Seq(Field \cup {"exist"}) /\ Len(cards) = card + 2
      /\ cards[card + 2] = "exist" /\ cards[card + 1] = CardFields[card]
  BY <1>2, <1>3
<1>5. CardFields[card] \in Field
  BY <1>2, FieldFacts
<1>. HIDE DEF login, cards, card
<1>6. CheckList(login)
  BY <1>1, FieldFacts DEF CheckList
<1>7. CheckList(cards)
  BY <1>2, <1>4, <1>5 DEF CheckList
<1>8. CheckList(<<>>)
  BY DEF CheckList
<1>9. Len(login) >= 2 /\ Len(cards) >= 2
  BY <1>1, <1>2, <1>4
<1>. QED  BY <1>6, <1>7, <1>8, <1>9 DEF login, cards

(* A check that is passed: what is left is shorter, and the last check     *)
(* before the existence of the account is a field's.                       *)
LEMMA PassedFacts ==
  ASSUME NEW checks, CheckList(checks), checks # <<>>
  PROVE  /\ CheckList(Tail(checks))
         /\ Head(checks) \in Field \cup {"exist"}
         /\ checks # <<"exist">> /\ Tail(checks) \in {<<>>, <<"exist">>} => Head(checks) \in Field
         /\ checks = <<"exist">> => Head(checks) = "exist" /\ Tail(checks) = <<>>
<1>1. checks \in Seq(Field \cup {"exist"}) /\ Len(checks) \in Nat /\ Len(checks) >= 1
  BY DEF CheckList
<1>2. /\ Tail(checks) \in Seq(Field \cup {"exist"}) /\ Len(Tail(checks)) = Len(checks) - 1
      /\ \A i \in 1 .. Len(checks) - 1 : Tail(checks)[i] = checks[i + 1]
      /\ Head(checks) = checks[1] /\ checks[1] \in Field \cup {"exist"}
  BY <1>1
<1>3. CheckList(Tail(checks))
  BY <1>1, <1>2 DEF CheckList
<1>4. ASSUME Len(checks) = 1 PROVE checks = <<"exist">>
  BY <1>1, <1>4 DEF CheckList
<1>5. ASSUME Tail(checks) \in {<<>>, <<"exist">>}, Len(checks) # 1 PROVE Head(checks) \in Field
  <2>1. Len(Tail(checks)) \in {0, 1}
    BY <1>2, <1>5, SMTT(20)
  <2>2. Len(checks) = 2
    BY <1>1, <1>2, <1>5, <2>1
  <2>. QED  BY <1>2, <2>2 DEF CheckList
<1>6. checks = <<"exist">> => Head(checks) = "exist" /\ Tail(checks) = <<>>
  OBVIOUS
<1>. QED  BY <1>2, <1>3, <1>4, <1>5, <1>6

-----------------------------------------------------------------------------
(* A number. *)

(* Nobody has it, and nobody is at it.                                     *)
Unclaimed(n) ==
  /\ WorkersOn(n) = {}
  /\ told[n] = {}
  /\ \A f \in Field : user[n][f] = Nobody

(* A thread is registering it, with the fields that it has to write yet.   *)
(* All who are at it are the same person: an older request of that person, *)
(* who had the number before, can have passed its checks again, once there *)
(* is a field to compare.                                                  *)
ClaimedBy(n, t, who) ==
  /\ t \in WorkersOn(n) /\ Api(t) = "register"
  /\ \A u \in WorkersOn(n) : job[u].who = who /\ (Api(u) = "register" => u = t)
  /\ WorkersOn(n) # {t} => Exists(n)
  /\ told[n] = {}
  /\ \A f \in Field : /\ user[n][f] \in {who, Nobody}
                      /\ job[t].whole => f \in ToSet(job[t].writes) \/ user[n][f] = who

(* It is one person's.                                                     *)
OwnedBy(n, who) ==
  /\ \A u \in WorkersOn(n) : job[u].who = who /\ Api(u) # "register"
  /\ told[n] = {who}
  /\ \A f \in Field : user[n][f] = who

NumberInv(n) ==
  spoilt[n] = {} =>
    /\ \A f \in Field : <<n, f>> \notin garbled
    /\ \/ Unclaimed(n)
       \/ \E t \in Thread, who \in Person : ClaimedBy(n, t, who)
       \/ \E who \in Person : OwnedBy(n, who)

AccountsOK ==
  /\ user \in [Number -> [Field -> Person \cup {Nobody}]]
  /\ told \in [Number -> SUBSET Person]
  /\ DOMAIN spoilt = Number
  /\ \A t \in Thread : Api(t) \in AccountApi => AccountJob(job[t])

AccountInv == AccountsOK /\ \A n \in Number : NumberInv(n)

(* Nothing of a number is written.                                         *)
Unwritten(n) ==
  /\ user'[n] = user[n] /\ told'[n] = told[n] /\ spoilt'[n] = spoilt[n]
  /\ \A f \in Field : <<n, f>> \in garbled' => <<n, f>> \in garbled

(* Where nothing is written and nobody comes or goes.                      *)
LEMMA NumberStays ==
  ASSUME NEW n \in Number, NumberInv(n), Unwritten(n),
         WorkersOn(n)' = WorkersOn(n),
         \A u \in WorkersOn(n) :
           /\ Api(u)' = Api(u) /\ job'[u].who = job[u].who
           /\ job'[u].writes = job[u].writes /\ job'[u].whole = job[u].whole
  PROVE  NumberInv(n)'
<1>1. Exists(n)' <=> Exists(n)
  BY DEF Exists, Unwritten
<1>2. Unclaimed(n) => Unclaimed(n)'
  BY DEF Unclaimed, Unwritten
<1>3. ASSUME NEW t \in Thread, NEW who \in Person, ClaimedBy(n, t, who) PROVE ClaimedBy(n, t, who)'
  BY <1>1, <1>3 DEF ClaimedBy, Unwritten
<1>4. ASSUME NEW who \in Person, OwnedBy(n, who) PROVE OwnedBy(n, who)'
  BY <1>4 DEF OwnedBy, Unwritten
<1>. QED  BY <1>2, <1>3, <1>4 DEF NumberInv, Unwritten

(* A step of one thread.                                                   *)
LEMMA OneThread ==
  ASSUME BytesInv, NEW t \in Thread, NEW r, job' = [job EXCEPT ![t] = r]
  PROVE  /\ job'[t] = r /\ Api(t)' = r.api
         /\ \A u \in Thread \ {t} : job'[u] = job[u] /\ Api(u)' = Api(u)
         /\ \A n : \A u \in Thread \ {t} : u \in WorkersOn(n)' <=> u \in WorkersOn(n)
         /\ \A n : t \in WorkersOn(n)' <=> /\ r.api \in AccountApi /\ r.number = {n}
                                           /\ r.checks \in {<<>>, <<"exist">>}
                                           /\ r.seen # "another's"
<1>1. job'[t] = r /\ \A u \in Thread \ {t} : job'[u] = job[u]
  BY DEF BytesInv, JobsOK
<1>2. Api(t)' = r.api /\ \A u \in Thread \ {t} : Api(u)' = Api(u)
  BY <1>1 DEF Api
<1>. QED  BY <1>1, <1>2 DEF WorkersOn

(* What is not an account's, and becomes none, is nothing to a number.     *)
LEMMA NotAtAccounts ==
  AccountInv /\ UNCHANGED accounts
    /\ (\A t \in Thread : \/ job'[t] = job[t]
                          \/ job[t].api \notin AccountApi /\ job'[t].api \notin AccountApi)
  => AccountInv'
<1>. SUFFICES ASSUME AccountInv, UNCHANGED accounts,
                     \A t \in Thread :
                       \/ job'[t] = job[t]
                       \/ job[t].api \notin AccountApi /\ job'[t].api \notin AccountApi
              PROVE  AccountInv'
  OBVIOUS
<1>1. \A t \in Thread : Api(t)' \in AccountApi => job'[t] = job[t] /\ Api(t) \in AccountApi
  BY DEF Api
<1>2. ASSUME NEW n \in Number PROVE NumberInv(n)'
  <2>1. WorkersOn(n)' = WorkersOn(n) /\ \A u \in WorkersOn(n) : job'[u] = job[u]
    BY <1>1 DEF WorkersOn, Api
  <2>2. Unwritten(n)
    BY DEF Unwritten, accounts
  <2>. QED  BY <1>2, <2>1, <2>2, NumberStays DEF AccountInv, Api
<1>3. AccountsOK'
  BY <1>1 DEF AccountInv, AccountsOK, accounts
<1>. QED  BY <1>2, <1>3 DEF AccountInv

-----------------------------------------------------------------------------
(* Steps of the account services. *)

(* A thread that is not at a number, or leaves it without having registered*)
(* it, changes nothing of it.                                              *)
LEMMA ThreadLeaves ==
  ASSUME NEW n \in Number, NumberInv(n), NEW t \in Thread, Unwritten(n),
         \A u \in Thread \ {t} : /\ job'[u] = job[u]
                                 /\ u \in WorkersOn(n)' <=> u \in WorkersOn(n),
         t \notin WorkersOn(n)', t \in WorkersOn(n) => Api(t) # "register"
  PROVE  NumberInv(n)'
<1>1. /\ \A u \in WorkersOn(n)' : /\ u \in WorkersOn(n) /\ u # t
                                 /\ job'[u] = job[u] /\ Api(u)' = Api(u)
      /\ \A u \in WorkersOn(n) \ {t} : u \in WorkersOn(n)' /\ Api(u)' = Api(u) /\ job'[u] = job[u]
  <2>1. WorkersOn(n) \subseteq Thread /\ WorkersOn(n)' \subseteq Thread
    BY DEF WorkersOn
  <2>. QED  BY <2>1 DEF Api
<1>2. Exists(n)' <=> Exists(n)
  BY DEF Exists, Unwritten
<1>3. Unclaimed(n) => Unclaimed(n)'
  BY <1>1 DEF Unclaimed, Unwritten
<1>4. ASSUME NEW c \in Thread, NEW who \in Person, ClaimedBy(n, c, who) PROVE ClaimedBy(n, c, who)'
  <2>1. c # t /\ c \in WorkersOn(n)'
    BY <1>1, <1>4 DEF ClaimedBy
  <2>2. job'[c] = job[c] /\ Api(c)' = Api(c)
    BY <1>1, <2>1
  <2>3. WorkersOn(n)' # {c} => WorkersOn(n) # {c}
    BY <1>1, <2>1
  <2>. QED  BY <1>1, <1>2, <1>4, <2>1, <2>2, <2>3 DEF ClaimedBy, Unwritten
<1>5. ASSUME NEW who \in Person, OwnedBy(n, who) PROVE OwnedBy(n, who)'
  BY <1>1, <1>5 DEF OwnedBy, Unwritten
<1>. QED  BY <1>3, <1>4, <1>5 DEF NumberInv, Unwritten

(* A thread comes to a number that was its person's when it read a field   *)
(* of it.                                                                  *)
LEMMA ThreadComes ==
  ASSUME NEW n \in Number, NumberInv(n), NEW t \in Thread, Unwritten(n),
         \A u \in Thread \ {t} : /\ job'[u] = job[u]
                                 /\ u \in WorkersOn(n)' <=> u \in WorkersOn(n),
         t \notin WorkersOn(n), t \in WorkersOn(n)', Api(t)' # "register",
         job'[t].who \in Person, NEW f \in Field, user[n][f] = job'[t].who
  PROVE  NumberInv(n)'
<1>1. WorkersOn(n) \subseteq Thread \ {t} /\ WorkersOn(n)' = WorkersOn(n) \cup {t}
  BY DEF WorkersOn
<1>2. \A u \in WorkersOn(n) : job'[u] = job[u] /\ Api(u)' = Api(u)
  BY <1>1 DEF Api
<1>3. job'[t].who # Nobody /\ Exists(n)'
  BY AccountAssumption DEF Exists, Unwritten, Field
<1>4. ~Unclaimed(n)
  BY <1>3 DEF Unclaimed
<1>5. ASSUME NEW c \in Thread, NEW who \in Person, ClaimedBy(n, c, who)
      PROVE  ClaimedBy(n, c, who)'
  <2>1. job'[t].who = who
    BY <1>3, <1>5 DEF ClaimedBy
  <2>2. c \in WorkersOn(n)
    BY <1>5 DEF ClaimedBy
  <2>3. \A u \in WorkersOn(n)' : job'[u].who = who /\ (Api(u)' = "register" => u = c)
    BY <1>1, <1>2, <1>5, <2>1 DEF ClaimedBy
  <2>. QED  BY <1>1, <1>2, <1>3, <1>5, <2>2, <2>3 DEF ClaimedBy, Unwritten
<1>6. ASSUME NEW who \in Person, OwnedBy(n, who) PROVE OwnedBy(n, who)'
  <2>1. job'[t].who = who
    BY <1>6 DEF OwnedBy
  <2>. QED  BY <1>1, <1>2, <1>6, <2>1 DEF OwnedBy, Unwritten
<1>. QED  BY <1>4, <1>5, <1>6 DEF NumberInv, Unwritten

(* A thread is at no number that is not its own.                           *)
LEMMA AtOwnNumber ==
  ASSUME NEW t \in Thread, NEW n, n \notin job[t].number
  PROVE  t \notin WorkersOn(n)
BY DEF WorkersOn

(* A thread whose request is answered is at no number.                     *)
LEMMA Answered ==
  ASSUME BytesInv, NEW t \in Thread, Answer(t)
  PROVE  /\ \A u \in Thread \ {t} : job'[u] = job[u] /\ Api(u)' = Api(u)
         /\ \A m : \A u \in Thread \ {t} : u \in WorkersOn(m)' <=> u \in WorkersOn(m)
         /\ Api(t)' \notin AccountApi
         /\ \A m : t \notin WorkersOn(m)'
<1>1. Idle.api \notin AccountApi
  BY DEF Idle, AccountApi
<1>2. job' = [job EXCEPT ![t] = Idle]
  BY DEF Answer, Goon
<1>. QED  BY <1>1, <1>2, OneThread

(* A refused request that has not registered anything.                     *)
LEMMA RefusedKeeps ==
  ASSUME BytesInv, AccountInv, NEW t \in Thread, Answer(t), Api(t) # "register",
         UNCHANGED <<user, told, spoilt, garbled>>
  PROVE  AccountInv'
<1>1. ASSUME NEW m \in Number PROVE NumberInv(m)'
  <2>1. Unwritten(m)
    BY DEF Unwritten
  <2>. QED  BY <1>1, <2>1, Answered, ThreadLeaves DEF AccountInv
<1>2. AccountsOK'
  BY Answered DEF AccountInv, AccountsOK
<1>. QED  BY <1>1, <1>2 DEF AccountInv

(* A request that stays where it is: nobody comes or goes.                 *)
LEMMA GoesOnKeeps ==
  ASSUME BytesInv, AccountInv, NEW t \in Thread, NEW r, job' = [job EXCEPT ![t] = r],
         AccountJob(r), Api(t) \in AccountApi, r.api = job[t].api, r.number = job[t].number,
         r.who = job[t].who, r.writes = job[t].writes, r.whole = job[t].whole,
         r.checks \in {<<>>, <<"exist">>} <=> job[t].checks \in {<<>>, <<"exist">>},
         r.seen = "another's" <=> job[t].seen = "another's",
         UNCHANGED <<user, told, spoilt, garbled>>
  PROVE  AccountInv'
<1>1. /\ job'[t] = r /\ Api(t)' = Api(t)
      /\ \A u \in Thread \ {t} : job'[u] = job[u] /\ Api(u)' = Api(u)
      /\ \A n : \A u \in Thread \ {t} : u \in WorkersOn(n)' <=> u \in WorkersOn(n)
      /\ \A n : t \in WorkersOn(n)' <=> /\ r.api \in AccountApi /\ r.number = {n}
                                        /\ r.checks \in {<<>>, <<"exist">>}
                                        /\ r.seen # "another's"
  BY OneThread DEF Api
<1>2. ASSUME NEW n \in Number PROVE NumberInv(n)'
  <2>1. t \in WorkersOn(n)' <=> t \in WorkersOn(n)
    BY <1>1 DEF WorkersOn, Api
  <2>2. WorkersOn(n)' \subseteq Thread /\ WorkersOn(n) \subseteq Thread
    BY DEF WorkersOn
  <2>3. WorkersOn(n)' = WorkersOn(n)
    <3>1. \A u \in Thread : u \in WorkersOn(n)' <=> u \in WorkersOn(n)
      BY <1>1, <2>1
    <3>. QED  BY <2>2, <3>1
  <2>4. \A u \in Thread : /\ Api(u)' = Api(u) /\ job'[u].who = job[u].who
                          /\ job'[u].writes = job[u].writes /\ job'[u].whole = job[u].whole
    BY <1>1
  <2>5. Unwritten(n)
    BY DEF Unwritten
  <2>. QED  BY <1>2, <2>2, <2>3, <2>4, <2>5, NumberStays DEF AccountInv
<1>3. AccountsOK'
  BY <1>1 DEF AccountInv, AccountsOK
<1>. QED  BY <1>2, <1>3 DEF AccountInv

(* The requests as they begin are accounts' jobs, and at no number.        *)
LEMMA BeginKeeps ==
  ASSUME BytesInv, AccountInv, NEW t \in Thread, NEW r, AccountJob(r),
         r.number = {} \/ r.checks \notin {<<>>, <<"exist">>},
         Begin(t, r), UNCHANGED accounts
  PROVE  AccountInv'
<1>1. job' = [job EXCEPT ![t] = r] /\ job[t] = Idle
  BY DEF Begin
<1>2. /\ job'[t] = r
      /\ \A u \in Thread \ {t} : job'[u] = job[u] /\ Api(u)' = Api(u)
      /\ \A n : \A u \in Thread \ {t} : u \in WorkersOn(n)' <=> u \in WorkersOn(n)
      /\ \A n : t \notin WorkersOn(n)'
  <2>1. \A n : {n} # {}
    OBVIOUS
  <2>2. \A n : t \in WorkersOn(n)' => r.number = {n} /\ r.checks \in {<<>>, <<"exist">>}
    <3>1. \A n : t \in WorkersOn(n)' <=> /\ r.api \in AccountApi /\ r.number = {n}
                                         /\ r.checks \in {<<>>, <<"exist">>}
                                         /\ r.seen # "another's"
      BY <1>1, OneThread
    <3>. QED  BY <3>1
  <2>. QED  BY <1>1, <2>1, <2>2, OneThread
<1>3. \A n : t \notin WorkersOn(n)
  BY <1>1 DEF WorkersOn, Api, Idle, AccountApi
<1>4. ASSUME NEW n \in Number PROVE NumberInv(n)'
  <2>1. Unwritten(n)
    BY DEF Unwritten, accounts
  <2>. QED  BY <1>2, <1>3, <2>1, ThreadLeaves DEF AccountInv
<1>5. AccountsOK'
  BY <1>2 DEF AccountInv, AccountsOK, accounts
<1>. QED  BY <1>4, <1>5 DEF AccountInv

(* register, begun: with as many fields as come before one that is null.   *)
LEMMA BeginRegisterKeeps ==
  ASSUME BytesInv, AccountInv, NEW t \in Thread, NEW who \in Person, NEW k \in 0 .. Len(Fields),
         BeginRegister(t, who, k)
  PROVE  AccountInv'
<1>. DEFINE writes == SubSeq(Fields, 1, k)
            r == Request("register", {}, who, <<>>, writes, k = Len(Fields))
<1>1. writes \in Seq(Field) /\ (k = Len(Fields) => \A f \in Field : f \in ToSet(writes))
  <2>1. Fields \in Seq(Field) /\ Len(Fields) \in Nat
    BY FieldFacts
  <2>2. writes \in Seq(Field) /\ Len(writes) = k /\ \A i \in 1 .. k : writes[i] = Fields[i]
    BY <2>1
  <2>3. ASSUME k = Len(Fields), NEW f \in Field PROVE f \in ToSet(writes)
    <3>1. PICK i \in 1 .. Len(Fields) : f = Fields[i]
      BY <2>1 DEF Field, ToSet
    <3>. QED  BY <2>2, <2>3, <3>1 DEF ToSet
  <2>. QED  BY <2>2, <2>3
<1>. HIDE DEF writes
<1>2. AccountJob(r) /\ r.number = {}
  BY <1>1, CheckFacts DEF Request, AccountJob, AccountFields
<1>3. Begin(t, r) /\ UNCHANGED accounts
  BY DEF BeginRegister, writes
<1>. QED  BY <1>2, <1>3, BeginKeeps

(* The other requests, begun: of a person who was told the number.         *)
LEMMA BeginCheckedKeeps ==
  ASSUME BytesInv, AccountInv, NEW t \in Thread, NEW n \in Number, NEW who \in told[n],
         NEW api \in AccountApi \ {"register"}, NEW checks, CheckList(checks),
         Len(checks) >= 2, NEW writes, NEW whole,
         Begin(t, Request(api, {n}, who, checks, writes, whole)),
         UNCHANGED accounts
  PROVE  AccountInv'
<1>. DEFINE r == Request(api, {n}, who, checks, writes, whole)
<1>1. who \in Person
  BY DEF AccountInv, AccountsOK
<1>2. AccountJob(r)
  BY <1>1 DEF Request, AccountJob, AccountFields
<1>3. r.checks \notin {<<>>, <<"exist">>}
  <2>1. ASSUME checks = <<>> PROVE FALSE
    BY <2>1
  <2>2. ASSUME checks = <<"exist">> PROVE FALSE
    BY <2>2
  <2>3. r.checks = checks
    BY DEF Request
  <2>. QED  BY <2>1, <2>2, <2>3
<1>. QED  BY <1>2, <1>3, BeginKeeps

(* updateUser, changePassword, resetPassword and deleteUser, begun.        *)
LEMMA BeginOthersKeep ==
  ASSUME BytesInv, AccountInv, NEW t \in Thread, NEW n \in Number, NEW who \in Person,
         NEW given, NEW api \in AccountApi,
         BeginUpdate(t, n, who, given) \/ BeginOther(t, api, n, who)
  PROVE  AccountInv'
<1>1. who \in told[n] /\ UNCHANGED accounts
  BY DEF BeginUpdate, BeginOther
<1>. DEFINE login == Login \o <<"exist">>
            cards == <<"exist">> \o CardFields \o <<"exist">>
<1>2. /\ CheckList(login) /\ Len(login) >= 2
      /\ CheckList(cards) /\ Len(cards) >= 2
  BY CheckFacts
<1>3. \E a \in AccountApi \ {"register"}, checks \in {login, cards},
        writes \in {given, <<"password">>, <<>>} :
        Begin(t, Request(a, {n}, who, checks, writes, TRUE))
  BY DEF BeginUpdate, BeginOther, AccountApi
<1>. HIDE DEF login, cards
<1>. QED  BY <1>1, <1>2, <1>3, BeginCheckedKeeps

(* register finds a number: one without account, so that unless another    *)
(* thread has found it as well nobody has it.                              *)
LEMMA FindNumberKeeps ==
  ASSUME BytesInv, AccountInv, NEW t \in Thread, FindNumber(t)
  PROVE  AccountInv'
<1>1. PICK n \in Number : /\ ~Exists(n)
                          /\ job' = [job EXCEPT ![t] = [job[t] EXCEPT !.number = {n}]]
                          /\ Spoil(n, "taken twice", WorkersOn(n) # {})
  BY DEF FindNumber, Goon
<1>2. /\ AccountJob(job[t]) /\ Api(t) = "register" /\ job[t].number = {}
      /\ UNCHANGED <<user, told, garbled>>
  BY DEF FindNumber, AccountInv, AccountsOK, AccountApi
<1>. DEFINE r == [job[t] EXCEPT !.number = {n}]
<1>3. /\ r.number = {n} /\ r.api = "register" /\ r.checks = <<>> /\ r.who = job[t].who
      /\ r.writes = job[t].writes /\ r.whole = job[t].whole /\ r.seen = "nothing"
      /\ DOMAIN r = AccountFields
  BY <1>2 DEF AccountJob, AccountFields, Api
<1>4. AccountJob(r)
  <2>. HIDE DEF r
  <2>. QED  BY <1>2, <1>3 DEF AccountJob, Api
<1>5. job' = [job EXCEPT ![t] = r]
  BY <1>1
<1>. HIDE DEF r
<1>6. /\ job'[t] = r /\ Api(t)' = "register"
      /\ \A u \in Thread \ {t} : job'[u] = job[u] /\ Api(u)' = Api(u)
      /\ \A m : \A u \in Thread \ {t} : u \in WorkersOn(m)' <=> u \in WorkersOn(m)
      /\ \A m \in Number : t \in WorkersOn(m)' <=> m = n
  <2>1. "register" \in AccountApi /\ <<>> \in {<<>>, <<"exist">>}
    BY DEF AccountApi
  <2>2. \A m : t \in WorkersOn(m)' <=> r.number = {m}
    <3>1. \A m : t \in WorkersOn(m)' <=> /\ r.api \in AccountApi /\ r.number = {m}
                                         /\ r.checks \in {<<>>, <<"exist">>}
                                         /\ r.seen # "another's"
      BY <1>5, OneThread
    <3>. QED  BY <1>3, <2>1, <3>1
  <2>3. /\ job'[t] = r /\ Api(t)' = r.api
        /\ \A u \in Thread \ {t} : job'[u] = job[u] /\ Api(u)' = Api(u)
    BY <1>5, OneThread
  <2>4. \A m : \A u \in Thread \ {t} : u \in WorkersOn(m)' <=> u \in WorkersOn(m)
    BY <1>5, OneThread
  <2>5. \A m \in Number : t \in WorkersOn(m)' <=> m = n
    BY <1>3, <2>2
  <2>. QED  BY <1>3, <2>3, <2>4, <2>5
<1>7. \A m \in Number : t \notin WorkersOn(m)
  BY <1>2 DEF WorkersOn
<1>8. DOMAIN spoilt = Number
  BY DEF AccountInv, AccountsOK
<1>9. ASSUME NEW m \in Number, m # n PROVE NumberInv(m)'
  <2>1. Unwritten(m) /\ NumberInv(m)
    BY <1>1, <1>2, <1>8, <1>9 DEF AccountInv, Unwritten, Spoil
  <2>. QED  BY <1>6, <1>7, <1>9, <2>1, ThreadLeaves
<1>10. NumberInv(n)'
  <2>. PICK who \in Person : who = r.who
    BY <1>2, <1>3 DEF AccountJob
  <2>. SUFFICES ASSUME spoilt'[n] = {}
                PROVE  ClaimedBy(n, t, who)' /\ \A f \in Field : <<n, f>> \notin garbled'
    BY DEF NumberInv
  <2>1. WorkersOn(n) = {} /\ spoilt[n] = {}
    BY <1>1, <1>8 DEF Spoil
  <2>2. \A f \in Field : user[n][f] = Nobody
    BY <1>1 DEF Exists, Field
  <2>3. Unclaimed(n) /\ \A f \in Field : <<n, f>> \notin garbled
    <3>1. \A c \in Thread, w \in Person : ~ClaimedBy(n, c, w)
      BY <2>1 DEF ClaimedBy
    <3>2. \A w \in Person : ~OwnedBy(n, w)
      BY <2>2, FieldFacts, AccountAssumption DEF OwnedBy
    <3>. QED  BY <2>1, <3>1, <3>2 DEF AccountInv, NumberInv
  <2>4. WorkersOn(n)' = {t}
    <3>1. WorkersOn(n)' \subseteq Thread
      BY DEF WorkersOn
    <3>. QED  BY <1>6, <2>1, <3>1
  <2>5. \A u \in WorkersOn(n)' : job'[u].who = who /\ (Api(u)' = "register" => u = t)
    BY <1>6, <2>4
  <2>6. \A f \in Field : user'[n][f] = Nobody /\ (job'[t].whole => f \in ToSet(job'[t].writes))
    BY <1>2, <1>3, <1>6, <2>2 DEF AccountJob, Api
  <2>7. told'[n] = {}
    BY <1>2, <2>3 DEF Unclaimed
  <2>8. ClaimedBy(n, t, who)'
    BY <1>6, <2>4, <2>5, <2>6, <2>7 DEF ClaimedBy
  <2>. QED  BY <1>2, <2>3, <2>8
<1>11. AccountsOK'
  <2>1. DOMAIN spoilt' = Number
    BY <1>1, <1>8 DEF Spoil
  <2>. QED  BY <1>2, <1>4, <1>6, <2>1 DEF AccountInv, AccountsOK
<1>. QED  BY <1>9, <1>10, <1>11 DEF AccountInv

(* The existence of the account is no reason to be at its number.          *)
LEMMA CheckExistKeeps ==
  ASSUME BytesInv, AccountInv, NEW t \in Thread, CheckExist(t)
  PROVE  AccountInv'
<1>1. /\ AccountJob(job[t]) /\ Api(t) \in AccountApi /\ job[t].checks # <<>>
      /\ Head(job[t].checks) = "exist" /\ UNCHANGED <<user, told, spoilt, garbled>>
  BY DEF CheckExist, AccountInv, AccountsOK, accounts
<1>2. Api(t) # "register" /\ CheckList(job[t].checks)
  BY <1>1 DEF AccountJob, Api
<1>3. CASE Answer(t)
  BY <1>1, <1>2, <1>3, RefusedKeeps
<1>4. CASE Goon(t, [job[t] EXCEPT !.checks = Tail(@)])
  <2>. DEFINE r == [job[t] EXCEPT !.checks = Tail(@)]
  <2>1. /\ r.checks = Tail(job[t].checks) /\ r.api = job[t].api /\ r.number = job[t].number
        /\ r.who = job[t].who /\ r.seen = job[t].seen /\ r.writes = job[t].writes
        /\ r.whole = job[t].whole /\ DOMAIN r = AccountFields
    BY <1>1 DEF AccountJob, AccountFields
  <2>2. job' = [job EXCEPT ![t] = r]
    BY <1>4 DEF Goon
  <2>. HIDE DEF r
  <2>3. /\ CheckList(r.checks)
        /\ r.checks \in {<<>>, <<"exist">>} <=> job[t].checks \in {<<>>, <<"exist">>}
    BY <1>1, <1>2, <2>1, PassedFacts, FieldFacts
  <2>4. AccountJob(r)
    BY <1>1, <1>2, <2>1, <2>3 DEF AccountJob, Api
  <2>. QED  BY <1>1, <2>1, <2>2, <2>3, <2>4, GoesOnKeeps
<1>. QED  BY <1>3, <1>4 DEF CheckExist

(* A field that is read: who comes to a number by it is the person who     *)
(* wrote the field.                                                        *)
LEMMA ReadFieldKeeps ==
  ASSUME BytesInv, AccountInv, NEW t \in Thread, ReadField(t)
  PROVE  AccountInv'
<1>1. /\ AccountJob(job[t]) /\ Api(t) \in AccountApi /\ job[t].checks # <<>>
      /\ Head(job[t].checks) # "exist" /\ UNCHANGED <<user, told, spoilt, garbled>>
  BY DEF ReadField, AccountInv, AccountsOK, accounts
<1>2. Api(t) # "register" /\ CheckList(job[t].checks)
  BY <1>1 DEF AccountJob, Api
<1>3. PICK n \in job[t].number, seen \in {"own", "garbled", "another's"} :
        /\ seen # "another's" => user[n][Head(job[t].checks)] = job[t].who
        /\ job' = [job EXCEPT ![t] = [job[t] EXCEPT !.checks = Tail(@), !.seen = seen]]
  <2>1. PICK n \in job[t].number :
          LET f == Head(job[t].checks)
          IN  Goon(t, [job[t] EXCEPT !.checks = Tail(@),
                   !.seen = IF user[n][f] # job[t].who THEN "another's"
                            ELSE IF <<n, f>> \in garbled THEN "garbled" ELSE "own"])
    BY DEF ReadField
  <2>. DEFINE f == Head(job[t].checks)
              seen == IF user[n][f] # job[t].who THEN "another's"
                      ELSE IF <<n, f>> \in garbled THEN "garbled" ELSE "own"
  <2>2. /\ seen \in {"own", "garbled", "another's"}
        /\ seen # "another's" => user[n][f] = job[t].who
    OBVIOUS
  <2>3. job' = [job EXCEPT ![t] = [job[t] EXCEPT !.checks = Tail(@), !.seen = seen]]
    BY <2>1 DEF Goon
  <2>. HIDE DEF seen
  <2>. QED  BY <2>2, <2>3
<1>4. n \in Number /\ job[t].number = {n}
  BY <1>1, <1>3 DEF AccountJob
<1>. DEFINE r == [job[t] EXCEPT !.checks = Tail(@), !.seen = seen]
            f == Head(job[t].checks)
<1>5. /\ r.checks = Tail(job[t].checks) /\ r.api = job[t].api /\ r.number = job[t].number
      /\ r.who = job[t].who /\ r.seen = seen /\ DOMAIN r = AccountFields
  BY <1>1 DEF AccountJob, AccountFields
<1>6. job' = [job EXCEPT ![t] = r]
  BY <1>3
<1>. HIDE DEF r
<1>7. CheckList(r.checks) /\ f \in Field /\ job[t].checks \notin {<<>>, <<"exist">>}
  BY <1>1, <1>2, <1>5, PassedFacts
<1>8. AccountJob(r)
  BY <1>1, <1>2, <1>5, <1>7 DEF AccountJob, Api
<1>9. /\ job'[t] = r /\ Api(t)' = Api(t)
      /\ \A u \in Thread \ {t} : job'[u] = job[u] /\ Api(u)' = Api(u)
      /\ \A m : \A u \in Thread \ {t} : u \in WorkersOn(m)' <=> u \in WorkersOn(m)
      /\ \A m : t \in WorkersOn(m)' => r.number = {m} /\ seen # "another's"
  <2>1. /\ job'[t] = r /\ Api(t)' = r.api
        /\ \A u \in Thread \ {t} : job'[u] = job[u] /\ Api(u)' = Api(u)
    BY <1>6, OneThread
  <2>2. \A m : \A u \in Thread \ {t} : u \in WorkersOn(m)' <=> u \in WorkersOn(m)
    BY <1>6, OneThread
  <2>3. \A m : t \in WorkersOn(m)' <=> /\ r.api \in AccountApi /\ r.number = {m}
                                       /\ r.checks \in {<<>>, <<"exist">>}
                                       /\ r.seen # "another's"
    BY <1>6, OneThread
  <2>. QED  BY <1>5, <2>1, <2>2, <2>3 DEF Api
<1>10. \A m : t \notin WorkersOn(m)
  BY <1>7 DEF WorkersOn
<1>11. ASSUME NEW m \in Number PROVE NumberInv(m)'
  <2>1. NumberInv(m) /\ Unwritten(m)
    BY <1>1 DEF AccountInv, Unwritten
  <2>2. CASE t \notin WorkersOn(m)'
    BY <1>9, <1>10, <2>1, <2>2, ThreadLeaves
  <2>3. CASE t \in WorkersOn(m)'
    <3>1. m = n /\ user[m][f] = r.who /\ job'[t].who = r.who
      BY <1>3, <1>4, <1>5, <1>9, <2>3
    <3>2. r.who \in Person /\ Api(t)' # "register"
      BY <1>2, <1>8, <1>9 DEF AccountJob
    <3>. HIDE DEF f
    <3>. QED  BY <1>7, <1>9, <1>10, <2>1, <2>3, <3>1, <3>2, ThreadComes
  <2>. QED  BY <2>2, <2>3
<1>12. AccountsOK'
  BY <1>1, <1>8, <1>9 DEF AccountInv, AccountsOK
<1>. QED  BY <1>11, <1>12 DEF AccountInv

(* A field that is compared: who has read another's is refused.            *)
LEMMA CompareFieldKeeps ==
  ASSUME BytesInv, AccountInv, NEW t \in Thread, CompareField(t)
  PROVE  AccountInv'
<1>1. /\ AccountJob(job[t]) /\ Api(t) \in AccountApi /\ job[t].seen # "nothing"
      /\ UNCHANGED <<user, told, spoilt, garbled>>
  BY DEF CompareField, AccountInv, AccountsOK
<1>2. Api(t) # "register"
  BY <1>1 DEF AccountJob, Api
<1>3. CASE Answer(t)
  BY <1>1, <1>2, <1>3, RefusedKeeps
<1>4. ASSUME job[t].seen \in {"own", "garbled"}, Goon(t, [job[t] EXCEPT !.seen = "nothing"])
      PROVE  AccountInv'
  <2>. DEFINE r == [job[t] EXCEPT !.seen = "nothing"]
  <2>1. /\ r.checks = job[t].checks /\ r.api = job[t].api /\ r.number = job[t].number
        /\ r.who = job[t].who /\ r.seen = "nothing" /\ r.writes = job[t].writes
        /\ r.whole = job[t].whole /\ DOMAIN r = AccountFields
    BY <1>1 DEF AccountJob, AccountFields
  <2>2. job' = [job EXCEPT ![t] = r]
    BY <1>4 DEF Goon
  <2>. HIDE DEF r
  <2>3. AccountJob(r)
    BY <1>1, <1>2, <2>1 DEF AccountJob, Api
  <2>. QED  BY <1>1, <1>4, <2>1, <2>2, <2>3, GoesOnKeeps
<1>. QED  BY <1>3, <1>4 DEF CompareField

(* A field that is written: its writer is at the number, and is the one    *)
(* person that the account is for.                                         *)
LEMMA WriteFieldKeeps ==
  ASSUME BytesInv, AccountInv, NEW t \in Thread, WriteField(t)
  PROVE  AccountInv'
<1>1. /\ AccountJob(job[t]) /\ Api(t) \in AccountApi /\ job[t].seen = "nothing"
      /\ job[t].checks = <<>> /\ job[t].writes # <<>> /\ told' = told
  BY DEF WriteField, Ready, AccountInv, AccountsOK
<1>. PICK head : head = Head(job[t].writes)
  OBVIOUS
<1>2. PICK n \in job[t].number, wrong \in BOOLEAN :
        /\ user' = [user EXCEPT ![n][head] = job[t].who]
        /\ garbled' = IF wrong THEN garbled \cup {<<n, head>>} ELSE garbled \ {<<n, head>>}
        /\ Spoil(n, "key shared", wrong)
        /\ job' = [job EXCEPT ![t] = [job[t] EXCEPT !.writes = Tail(@)]]
  BY DEF WriteField, Goon, Shares
<1>3. n \in Number /\ job[t].number = {n}
  BY <1>1, <1>2 DEF AccountJob
<1>. PICK w \in Person : w = job[t].who
  BY <1>1 DEF AccountJob
<1>. DEFINE r == [job[t] EXCEPT !.writes = Tail(@)]
<1>4. /\ r.writes = Tail(job[t].writes) /\ r.api = job[t].api /\ r.number = job[t].number
      /\ r.who = job[t].who /\ r.checks = job[t].checks /\ r.seen = job[t].seen
      /\ r.whole = job[t].whole /\ DOMAIN r = AccountFields
  BY <1>1 DEF AccountJob, AccountFields
<1>5. job' = [job EXCEPT ![t] = r]
  BY <1>2
<1>. HIDE DEF r
<1>6. job[t].api = "register" =>
        /\ r.writes \in Seq(Field)
        /\ \A f \in ToSet(job[t].writes) : f = head \/ f \in ToSet(r.writes)
  <2>. SUFFICES ASSUME job[t].api = "register"
                PROVE  /\ r.writes \in Seq(Field)
                       /\ \A f \in ToSet(job[t].writes) : f = head \/ f \in ToSet(r.writes)
    OBVIOUS
  <2>1. job[t].writes \in Seq(Field) /\ job[t].writes # <<>>
    BY <1>1 DEF AccountJob
  <2>2. /\ r.writes \in Seq(Field) /\ Len(r.writes) = Len(job[t].writes) - 1
        /\ \A i \in 1 .. Len(job[t].writes) - 1 : r.writes[i] = job[t].writes[i + 1]
        /\ head = job[t].writes[1] /\ Len(job[t].writes) \in Nat
    BY <1>4, <2>1
  <2>3. ASSUME NEW f \in ToSet(job[t].writes) PROVE f = head \/ f \in ToSet(r.writes)
    <3>1. PICK i \in 1 .. Len(job[t].writes) : f = job[t].writes[i]
      BY <2>1 DEF ToSet
    <3>2. CASE i = 1
      BY <2>2, <3>1, <3>2
    <3>3. CASE i # 1
      <4>1. i - 1 \in 1 .. Len(r.writes) /\ r.writes[i - 1] = f
        BY <2>2, <3>1, <3>3
      <4>. QED  BY <2>2, <4>1 DEF ToSet
    <3>. QED  BY <3>2, <3>3
  <2>. QED  BY <2>1, <2>2, <2>3
<1>7. AccountJob(r)
  BY <1>1, <1>3, <1>4, <1>6 DEF AccountJob, Api
<1>8. /\ job'[t] = r /\ Api(t)' = Api(t)
      /\ \A u \in Thread \ {t} : job'[u] = job[u] /\ Api(u)' = Api(u)
      /\ \A m : \A u \in Thread \ {t} : u \in WorkersOn(m)' <=> u \in WorkersOn(m)
      /\ \A m : t \in WorkersOn(m)' <=> /\ r.api \in AccountApi /\ r.number = {m}
                                        /\ r.checks \in {<<>>, <<"exist">>}
                                        /\ r.seen # "another's"
  BY <1>4, <1>5, OneThread DEF Api
<1>9. /\ \A m \in Number \ {n} : user'[m] = user[m]
      /\ user' \in [Number -> [Field -> Person \cup {Nobody}]]
      /\ \A f \in Field : user'[n][f] = IF f = head THEN w ELSE user[n][f]
  BY <1>2, <1>3 DEF AccountInv, AccountsOK
<1>10. /\ DOMAIN spoilt = Number /\ DOMAIN spoilt' = Number
       /\ spoilt'[n] = {} => spoilt[n] = {} /\ ~wrong
       /\ \A m \in Number \ {n} : spoilt'[m] = spoilt[m]
  BY <1>2, <1>3 DEF AccountInv, AccountsOK, Spoil
<1>11. ASSUME NEW m \in Number, m # n PROVE NumberInv(m)'
  <2>1. t \notin WorkersOn(m) /\ t \notin WorkersOn(m)'
    BY <1>3, <1>4, <1>8, <1>11 DEF WorkersOn
  <2>2. \A f \in Field : <<m, f>> \in garbled' => <<m, f>> \in garbled
    BY <1>2, <1>11
  <2>3. NumberInv(m) /\ Unwritten(m)
    BY <1>1, <1>9, <1>10, <1>11, <2>2 DEF AccountInv, Unwritten
  <2>. QED  BY <1>8, <2>1, <2>3, ThreadLeaves
<1>12. NumberInv(n)'
  <2>. SUFFICES ASSUME spoilt'[n] = {}, spoilt[n] = {}, ~wrong PROVE NumberInv(n)'
    BY <1>10 DEF NumberInv
  <2>1. t \in WorkersOn(n)
    BY <1>1, <1>3 DEF WorkersOn
  <2>2. WorkersOn(n)' = WorkersOn(n)
    <3>1. t \in WorkersOn(n)'
      BY <1>1, <1>3, <1>4, <1>8 DEF Api
    <3>2. WorkersOn(n)' \subseteq Thread /\ WorkersOn(n) \subseteq Thread
      BY DEF WorkersOn
    <3>3. \A u \in Thread \ {t} : u \in WorkersOn(n)' <=> u \in WorkersOn(n)
      BY <1>8
    <3>. QED  BY <2>1, <3>1, <3>2, <3>3
  <2>3. \A u \in WorkersOn(n) : /\ job'[u].who = job[u].who /\ job'[u].whole = job[u].whole
                                /\ Api(u)' = Api(u)
    BY <1>4, <1>8 DEF WorkersOn
  <2>4. ~Unclaimed(n)
    BY <2>1 DEF Unclaimed
  <2>5. Exists(n) => Exists(n)'
    <3>1. \A f \in Field : user[n][f] # Nobody => user'[n][f] # Nobody
      BY <1>9, AccountAssumption
    <3>. QED  BY <3>1 DEF Exists, Field
  <2>6. ASSUME NEW c \in Thread, NEW who \in Person, ClaimedBy(n, c, who)
        PROVE  ClaimedBy(n, c, who)'
    <3>1. w = who
      BY <2>1, <2>6 DEF ClaimedBy
    <3>2. \A f \in Field : user'[n][f] \in {who, Nobody}
      BY <1>9, <2>6, <3>1 DEF ClaimedBy
    <3>3. ASSUME NEW f \in Field, job[c].whole
          PROVE  f \in ToSet(job'[c].writes) \/ user'[n][f] = who
      <4>1. f \in ToSet(job[c].writes) \/ user[n][f] = who
        BY <2>6, <3>3 DEF ClaimedBy
      <4>2. CASE f = head
        BY <1>9, <3>1, <4>2
      <4>3. CASE f # head
        <5>1. f \in ToSet(job[c].writes) => f \in ToSet(job'[c].writes)
          BY <1>6, <1>8, <2>6, <4>3 DEF ClaimedBy, Api
        <5>. QED  BY <1>9, <4>1, <4>3, <5>1
      <4>. QED  BY <4>2, <4>3
    <3>4. told'[n] = {}
      BY <1>1, <2>6 DEF ClaimedBy
    <3>. QED  BY <2>2, <2>3, <2>5, <2>6, <3>2, <3>3, <3>4 DEF ClaimedBy
  <2>7. ASSUME NEW who \in Person, OwnedBy(n, who) PROVE OwnedBy(n, who)'
    <3>1. w = who
      BY <2>1, <2>7 DEF OwnedBy
    <3>. QED  BY <1>1, <1>9, <2>2, <2>3, <2>7, <3>1 DEF OwnedBy
  <2>8. NumberInv(n) /\ \A f \in Field : <<n, f>> \in garbled' => <<n, f>> \in garbled
    BY <1>2, <1>3 DEF AccountInv
  <2>. QED  BY <2>4, <2>6, <2>7, <2>8 DEF NumberInv
<1>13. AccountsOK'
  BY <1>1, <1>7, <1>8, <1>9, <1>10 DEF AccountInv, AccountsOK
<1>. QED  BY <1>11, <1>12, <1>13 DEF AccountInv

(* A request that throws: a registration that has written nothing leaves   *)
(* the number free, and to itself.                                         *)
LEMMA ThrowKeeps ==
  ASSUME BytesInv, AccountInv, NEW t \in Thread, Throw(t)
  PROVE  AccountInv'
<1>1. /\ AccountJob(job[t]) /\ Api(t) \in AccountApi /\ job[t].seen = "nothing"
      /\ job[t].checks = <<>> /\ Answer(t) /\ UNCHANGED <<user, told, garbled>>
  BY DEF Throw, Ready, AccountInv, AccountsOK
<1>2. PICK n \in job[t].number : Spoil(n, "cut short", Api(t) = "register" /\ Exists(n))
  BY DEF Throw
<1>3. n \in Number /\ job[t].number = {n}
  BY <1>1, <1>2 DEF AccountJob
<1>4. /\ DOMAIN spoilt = Number /\ DOMAIN spoilt' = Number
      /\ spoilt'[n] = {} => spoilt[n] = {}
      /\ Api(t) = "register" /\ spoilt'[n] = {} => ~Exists(n)
      /\ Api(t) # "register" => spoilt'[n] = spoilt[n]
      /\ \A m \in Number \ {n} : spoilt'[m] = spoilt[m]
  BY <1>2, <1>3 DEF AccountInv, AccountsOK, Spoil
<1>5. ASSUME NEW m \in Number, m # n \/ Api(t) # "register" PROVE NumberInv(m)'
  <2>1. t \in WorkersOn(m) => Api(t) # "register"
    BY <1>3, <1>5 DEF WorkersOn
  <2>2. NumberInv(m) /\ Unwritten(m)
    BY <1>1, <1>4, <1>5 DEF AccountInv, Unwritten
  <2>. QED  BY <1>1, <2>1, <2>2, Answered, ThreadLeaves
<1>6. ASSUME Api(t) = "register" PROVE NumberInv(n)'
  <2>. SUFFICES ASSUME spoilt'[n] = {}
                PROVE  Unclaimed(n)' /\ \A f \in Field : <<n, f>> \notin garbled'
    BY DEF NumberInv
  <2>1. t \in WorkersOn(n) /\ ~Exists(n)
    BY <1>1, <1>3, <1>4, <1>6 DEF WorkersOn
  <2>2. /\ \A f \in Field : <<n, f>> \notin garbled
        /\ \E c \in Thread, who \in Person : ClaimedBy(n, c, who)
    BY <1>3, <1>4, <1>6, <2>1 DEF AccountInv, NumberInv, Unclaimed, OwnedBy
  <2>3. PICK c \in Thread, who \in Person : ClaimedBy(n, c, who)
    BY <2>2
  <2>4. WorkersOn(n) = {t} /\ told[n] = {}
    BY <1>6, <2>1, <2>3 DEF ClaimedBy
  <2>5. WorkersOn(n)' = {}
    <3>1. WorkersOn(n)' \subseteq Thread
      BY DEF WorkersOn
    <3>. QED  BY <1>1, <2>4, <3>1, Answered
  <2>6. \A f \in Field : user[n][f] = Nobody
    BY <2>1 DEF Exists, Field
  <2>. QED  BY <1>1, <2>2, <2>4, <2>5, <2>6 DEF Unclaimed
<1>7. AccountsOK'
  BY <1>1, <1>4, Answered DEF AccountInv, AccountsOK
<1>. QED  BY <1>3, <1>5, <1>6, <1>7 DEF AccountInv

(* A request that ends: a registration with all fields written has made    *)
(* the account its person's.                                               *)
LEMMA EndWritesKeeps ==
  ASSUME BytesInv, AccountInv, NEW t \in Thread, EndWrites(t)
  PROVE  AccountInv'
<1>1. /\ AccountJob(job[t]) /\ Api(t) \in AccountApi /\ job[t].seen = "nothing"
      /\ job[t].checks = <<>> /\ job[t].writes = <<>> /\ job[t].whole
      /\ Answer(t) /\ UNCHANGED <<user, spoilt, garbled>>
  BY DEF EndWrites, Ready, AccountInv, AccountsOK
<1>2. PICK n \in job[t].number :
        told' = IF Api(t) = "register" THEN [told EXCEPT ![n] = @ \cup {job[t].who}] ELSE told
  BY DEF EndWrites
<1>3. n \in Number /\ job[t].number = {n}
  BY <1>1, <1>2 DEF AccountJob
<1>. PICK w \in Person : w = job[t].who
  BY <1>1 DEF AccountJob
<1>4. told' \in [Number -> SUBSET Person]
  BY <1>2, <1>3 DEF AccountInv, AccountsOK
<1>5. ASSUME NEW m \in Number, m # n \/ Api(t) # "register" PROVE NumberInv(m)'
  <2>1. t \in WorkersOn(m) => Api(t) # "register"
    BY <1>3, <1>5 DEF WorkersOn
  <2>2. NumberInv(m) /\ Unwritten(m)
    BY <1>1, <1>2, <1>5 DEF AccountInv, AccountsOK, Unwritten
  <2>. QED  BY <1>1, <2>1, <2>2, Answered, ThreadLeaves
<1>6. ASSUME Api(t) = "register" PROVE NumberInv(n)'
  <2>. SUFFICES ASSUME spoilt[n] = {}
                PROVE  OwnedBy(n, w)' /\ \A f \in Field : <<n, f>> \notin garbled'
    BY <1>1 DEF NumberInv
  <2>1. t \in WorkersOn(n)
    BY <1>1, <1>3 DEF WorkersOn
  <2>2. /\ \A f \in Field : <<n, f>> \notin garbled
        /\ \E c \in Thread, who \in Person : ClaimedBy(n, c, who)
    BY <1>3, <1>6, <2>1 DEF AccountInv, NumberInv, Unclaimed, OwnedBy
  <2>3. PICK c \in Thread, who \in Person : ClaimedBy(n, c, who)
    BY <2>2
  <2>4. c = t /\ who = w
    BY <1>6, <2>1, <2>3 DEF ClaimedBy
  <2>5. ToSet(job[t].writes) = {}
    BY <1>1 DEF ToSet
  <2>6. \A f \in Field : user'[n][f] = w
    BY <1>1, <2>3, <2>4, <2>5 DEF ClaimedBy
  <2>7. told'[n] = {w}
    <3>1. told[n] = {} /\ DOMAIN told = Number
      BY <2>3 DEF ClaimedBy, AccountInv, AccountsOK
    <3>. QED  BY <1>2, <1>3, <1>6, <3>1
  <2>8. \A u \in WorkersOn(n)' : job'[u].who = w /\ Api(u)' # "register"
    <3>1. WorkersOn(n)' \subseteq Thread \ {t}
      BY <1>1, Answered DEF WorkersOn
    <3>. QED  BY <1>1, <2>3, <2>4, <3>1, Answered DEF ClaimedBy
  <2>. QED  BY <1>1, <2>2, <2>6, <2>7, <2>8 DEF OwnedBy
<1>7. AccountsOK'
  BY <1>1, <1>4, Answered DEF AccountInv, AccountsOK
<1>. QED  BY <1>3, <1>5, <1>6, <1>7 DEF AccountInv

(* A deletion: with nobody else at the number it is free again.            *)
LEMMA DeleteKeeps ==
  ASSUME BytesInv, AccountInv, NEW t \in Thread, Delete(t)
  PROVE  AccountInv'
<1>1. /\ AccountJob(job[t]) /\ Api(t) = "deleteUser" /\ job[t].checks = <<>> /\ Answer(t)
  BY DEF Delete, Ready, AccountInv, AccountsOK
<1>2. PICK n \in job[t].number :
        /\ user' = [user EXCEPT ![n] = [f \in Field |-> Nobody]]
        /\ garbled' = garbled \ ({n} \X Field)
        /\ told' = [told EXCEPT ![n] = {}]
        /\ Spoil(n, "written after", WorkersOn(n) # {t})
  BY DEF Delete, Field
<1>3. n \in Number /\ job[t].number = {n}
  BY <1>1, <1>2 DEF AccountJob
<1>4. /\ DOMAIN spoilt = Number /\ DOMAIN spoilt' = Number
      /\ spoilt'[n] = {} => spoilt[n] = {} /\ WorkersOn(n) = {t}
      /\ \A m \in Number \ {n} : spoilt'[m] = spoilt[m]
  BY <1>2, <1>3 DEF AccountInv, AccountsOK, Spoil
<1>5. ASSUME NEW m \in Number, m # n PROVE NumberInv(m)'
  <2>1. t \notin WorkersOn(m)
    BY <1>3, <1>5 DEF WorkersOn
  <2>2. NumberInv(m) /\ Unwritten(m)
    BY <1>2, <1>4, <1>5 DEF AccountInv, AccountsOK, Unwritten
  <2>. QED  BY <1>1, <2>1, <2>2, Answered, ThreadLeaves
<1>6. NumberInv(n)'
  <2>. SUFFICES ASSUME spoilt'[n] = {}
                PROVE  Unclaimed(n)' /\ \A f \in Field : <<n, f>> \notin garbled'
    BY DEF NumberInv
  <2>1. WorkersOn(n) = {t}
    BY <1>4
  <2>2. WorkersOn(n)' = {}
    <3>1. WorkersOn(n)' \subseteq Thread
      BY DEF WorkersOn
    <3>. QED  BY <1>1, <2>1, <3>1, Answered
  <2>3. told'[n] = {} /\ \A f \in Field : user'[n][f] = Nobody
    BY <1>2, <1>3 DEF AccountInv, AccountsOK
  <2>4. \A f \in Field : <<n, f>> \notin garbled'
    BY <1>2
  <2>. QED  BY <2>2, <2>3, <2>4 DEF Unclaimed
<1>7. AccountsOK'
  <2>1. user' \in [Number -> [Field -> Person \cup {Nobody}]] /\ told' \in [Number -> SUBSET Person]
    BY <1>2, <1>3 DEF AccountInv, AccountsOK
  <2>. QED  BY <1>1, <1>4, <2>1, Answered DEF AccountInv, AccountsOK
<1>. QED  BY <1>5, <1>6, <1>7 DEF AccountInv

-----------------------------------------------------------------------------
(* Over all the services. *)

(* The thread of a text is at no account.                                  *)
LEMMA TextNotAtAccounts ==
  ASSUME BytesInv, AccountInv, Text
  PROVE  AccountInv'
<1>1. UNCHANGED accounts
  BY DEF Text
<1>2. Idle.api \notin AccountApi /\ "txtMsg" \notin AccountApi
  BY DEF Idle, AccountApi
<1>3. ASSUME NEW t \in Thread, NEW r, job' = [job EXCEPT ![t] = r], r.api \notin AccountApi,
             Api(t) \notin AccountApi
      PROVE  AccountInv'
  BY <1>1, <1>3, OneThread, NotAtAccounts DEF Api
<1>4. ASSUME NEW t \in Thread, NEW from, NEW to, NEW length, BeginText(t, from, to, length)
      PROVE  AccountInv'
  <2>1. PICK r : job' = [job EXCEPT ![t] = r] /\ r.api = "txtMsg" /\ job[t] = Idle
    BY <1>4 DEF BeginText, Begin
  <2>. QED  BY <1>2, <1>3, <2>1 DEF Api
<1>5. ASSUME NEW t \in Thread, TextStep(t) PROVE AccountInv'
  <2>1. Api(t) = "txtMsg"
    BY <1>5 DEF TextStep, PublishText, ReadBytes, WriteBytes, EndText
  <2>2. TextJob(job[t])
    BY <2>1 DEF BytesInv, JobsOK, NotText, Api
  <2>3. ASSUME NEW r, job' = [job EXCEPT ![t] = r], r.api = "txtMsg" PROVE AccountInv'
    BY <1>2, <1>3, <2>1, <2>3
  <2>4. CASE PublishText(t)
    <3>1. PICK to : job' = [job EXCEPT ![t] = [job[t] EXCEPT !.unsent = @ \ {to}]]
      BY <2>4 DEF PublishText, Goon
    <3>2. [job[t] EXCEPT !.unsent = @ \ {to}].api = "txtMsg"
      BY <2>2 DEF TextJob, TextFields
    <3>. QED  BY <2>3, <3>1, <3>2
  <2>5. CASE ReadBytes(t)
    <3>1. PICK c : job' = [job EXCEPT ![t] = [job[t] EXCEPT !.row = {c}, !.total = bytes[c],
                                                             !.uncounted = @ \ {c}]]
      BY <2>5 DEF ReadBytes, Goon
    <3>2. [job[t] EXCEPT !.row = {c}, !.total = bytes[c], !.uncounted = @ \ {c}].api = "txtMsg"
      BY <2>2 DEF TextJob, TextFields
    <3>. QED  BY <2>3, <3>1, <3>2
  <2>6. CASE WriteBytes(t)
    <3>1. job' = [job EXCEPT ![t] = [job[t] EXCEPT !.row = {}]]
      BY <2>6 DEF WriteBytes, Goon
    <3>2. [job[t] EXCEPT !.row = {}].api = "txtMsg"
      BY <2>2 DEF TextJob, TextFields
    <3>. QED  BY <2>3, <3>1, <3>2
  <2>7. CASE EndText(t)
    <3>1. job' = [job EXCEPT ![t] = Idle]
      BY <2>7 DEF EndText, Answer, Goon
    <3>. QED  BY <1>2, <1>3, <2>1, <3>1
  <2>. QED  BY <1>5, <2>4, <2>5, <2>6, <2>7 DEF TextStep
<1>. QED  BY <1>4, <1>5 DEF Text

(* The thread of a conference call is at no account.                       *)
LEMMA ConferringNotAtAccounts ==
  ASSUME BytesInv, AccountInv, Conferring
  PROVE  AccountInv'
<1>1. UNCHANGED accounts
  BY DEF Conferring
<1>2. Idle.api \notin AccountApi /\ \A api \in CcApi : api \notin AccountApi
  BY DEF Idle, AccountApi, CcApi
<1>3. ASSUME job' = job PROVE AccountInv'
  BY <1>1, <1>3, NotAtAccounts
<1>4. ASSUME NEW t \in Thread, NEW r, job' = [job EXCEPT ![t] = r], r.api \notin AccountApi,
             Api(t) \notin AccountApi
      PROVE  AccountInv'
  BY <1>1, <1>4, OneThread, NotAtAccounts DEF Api
<1>5. ASSUME NEW p \in Phone, Start(p) \/ HangUp(p) \/ Engage(p) \/ Disengage(p) PROVE AccountInv'
  BY <1>3, <1>5 DEF Start, HangUp, Engage, Disengage, servlets
<1>6. ASSUME NEW t \in Thread, NEW m \in http, TakeRequest(t, m) PROVE AccountInv'
  <2>1. PICK r : job' = [job EXCEPT ![t] = r] /\ r.api = m.api /\ job[t] = Idle
    BY <1>6 DEF TakeRequest, Goon
  <2>2. m.api \in CcApi
    BY <1>6 DEF TakeRequest
  <2>. QED  BY <1>2, <1>4, <2>1, <2>2 DEF Api
<1>7. ASSUME NEW t \in Thread, ConferenceStep(t) PROVE AccountInv'
  <2>1. Api(t) \in CcApi
    BY <1>7 DEF ConferenceStep, ReadMembers, TellMember, AddMember, RemoveMember, AnswerPhone, CcApi
  <2>2. "api" \in DOMAIN job[t]
    BY <2>1 DEF BytesInv, JobsOK, NotText, TextJob, CcApi, Api
  <2>3. ASSUME NEW r, job' = [job EXCEPT ![t] = r], r.api = job[t].api PROVE AccountInv'
    BY <1>2, <1>4, <2>1, <2>3 DEF Api
  <2>4. CASE ReadMembers(t)
    BY <2>2, <2>3, <2>4 DEF ReadMembers, Goon
  <2>5. CASE TellMember(t)
    BY <2>2, <2>3, <2>5 DEF TellMember, Goon
  <2>6. CASE AddMember(t)
    BY <2>2, <2>3, <2>6 DEF AddMember, Goon
  <2>7. CASE RemoveMember(t)
    BY <2>2, <2>3, <2>7 DEF RemoveMember, Goon
  <2>8. CASE AnswerPhone(t)
    <3>1. job' = [job EXCEPT ![t] = Idle]
      BY <2>8 DEF AnswerPhone, Answer, Goon
    <3>. QED  BY <1>2, <1>4, <2>1, <3>1
  <2>. QED  BY <1>7, <2>4, <2>5, <2>6, <2>7, <2>8 DEF ConferenceStep
<1>8. ASSUME NEW m, JoinedArrives(m) \/ StopArrives(m) \/ LosePacket(m) \/ NewsArrives(m)
      PROVE  AccountInv'
  BY <1>3, <1>8 DEF JoinedArrives, StopArrives, LosePacket, NewsArrives, servlets
<1>. QED  BY <1>5, <1>6, <1>7, <1>8 DEF Conferring

(* Every step of every service.                                            *)
LEMMA AccountStepKeeps == BytesInv /\ AccountInv /\ [Next]_vars => AccountInv'
<1>. SUFFICES ASSUME BytesInv, AccountInv, [Next]_vars PROVE AccountInv'
  OBVIOUS
<1>1. ASSUME job' = job, UNCHANGED accounts PROVE AccountInv'
  BY <1>1, NotAtAccounts
<1>2. CASE Account
  <2>1. ASSUME NEW t \in Thread, NEW who \in Person, NEW k \in Cuts \cup {Len(Fields)},
               BeginRegister(t, who, k)
        PROVE  AccountInv'
    <3>1. Len(Fields) \in Nat
      BY FieldFacts
    <3>2. k \in 0 .. Len(Fields)
      BY <3>1, ServicesAssumption
    <3>. QED  BY <2>1, <3>2, BeginRegisterKeeps
  <2>2. ASSUME NEW t \in Thread, NEW who \in Person, NEW n \in Number, NEW given,
               BeginUpdate(t, n, who, given)
        PROVE  AccountInv'
    BY <2>2, BeginOthersKeep DEF AccountApi
  <2>3. ASSUME NEW t \in Thread, NEW who \in Person, NEW n \in Number, NEW api \in AccountApi,
               BeginOther(t, api, n, who)
        PROVE  AccountInv'
    BY <2>3, BeginOthersKeep
  <2>4. ASSUME NEW t \in Thread, AccountStep(t) PROVE AccountInv'
    BY <2>4, FindNumberKeeps, CheckExistKeeps, ReadFieldKeeps, CompareFieldKeeps, WriteFieldKeeps,
       ThrowKeeps, EndWritesKeeps, DeleteKeeps DEF AccountStep
  <2>. QED  BY <1>2, <2>1, <2>2, <2>3, <2>4 DEF Account
<1>3. CASE Text
  BY <1>3, TextNotAtAccounts
<1>4. CASE OnPhone
  BY <1>1, <1>4 DEF OnPhone, TextArrives, PhoneStep, FileMessage, OpenConversation, FindOpened, CreateOpened,
                    AddOpenedMember, Invite, AddInvited, Rename, servlets
<1>5. CASE Conferring
  BY <1>5, ConferringNotAtAccounts
<1>6. CASE Lost
  BY <1>1, <1>6 DEF Lost, Lose
<1>7. CASE UNCHANGED vars
  BY <1>1, <1>7 DEF vars, servlets
<1>. QED  BY <1>2, <1>3, <1>4, <1>5, <1>6, <1>7 DEF Next

(* Before the first registration every number is free.                     *)
LEMMA AccountStart == Init => AccountInv
<1>. SUFFICES ASSUME Init PROVE AccountInv
  OBVIOUS
<1>1. /\ \A t \in Thread : Api(t) \notin AccountApi
      /\ user = [n \in Number |-> [f \in Field |-> Nobody]]
      /\ told = [n \in Number |-> {}] /\ spoilt = [n \in Number |-> {}]
      /\ garbled = {}
  BY DEF Init, ServletsInit, AccountsInit, Api, Idle, AccountApi, Field
<1>2. AccountsOK
  BY <1>1 DEF AccountsOK
<1>3. \A n \in Number : Unclaimed(n)
  BY <1>1 DEF Unclaimed, WorkersOn
<1>. QED  BY <1>1, <1>2, <1>3 DEF AccountInv, NumberInv

(* An account that nobody is working on is whole and to be read, and       *)
(* belongs to the one person that was told its number, unless its number   *)
(* was found by two registrations at once, a registration was refused with *)
(* fields of it written, a field of it was encrypted under the key of two  *)
(* threads, or it was deleted while another request was past its checks.   *)
THEOREM AccountsAreWhole == Spec => []AccountsWhole
<1>1. AccountInv => AccountsWhole
  <2>. SUFFICES ASSUME AccountInv, NEW n \in Number, Exists(n), WorkersOn(n) = {}, spoilt[n] = {}
                PROVE  \E who \in Person :
                         told[n] = {who} /\ \A f \in Field : user[n][f] = who /\ <<n, f>> \notin garbled
    BY DEF AccountsWhole, Field
  <2>1. ~Unclaimed(n)
    BY DEF Unclaimed, Exists, Field
  <2>2. \A t \in Thread, who \in Person : ~ClaimedBy(n, t, who)
    BY DEF ClaimedBy
  <2>. QED  BY <2>1, <2>2 DEF AccountInv, NumberInv, OwnedBy
<1>. QED  BY <1>1, BytesStart, BytesStep, AccountStart, AccountStepKeeps, PTL DEF Spec

-----------------------------------------------------------------------------
(* Sequences. *)

(* What is appended is at the end, and nothing else moves.                 *)
LEMMA AppendFacts ==
  ASSUME NEW S, NEW s \in Seq(S), NEW e \in S
  PROVE  /\ Append(s, e) \in Seq(S)
         /\ DOMAIN s \subseteq Nat
         /\ Len(s) + 1 \in Nat \ DOMAIN s
         /\ DOMAIN Append(s, e) = DOMAIN s \cup {Len(s) + 1}
         /\ \A i \in DOMAIN s : Append(s, e)[i] = s[i]
         /\ Append(s, e)[Len(s) + 1] = e
OBVIOUS

(* The rest of a sequence is what was behind its head.                     *)
LEMMA TailFacts ==
  ASSUME NEW S, NEW s \in Seq(S), s # <<>>
  PROVE  /\ 1 \in DOMAIN s
         /\ s[1] \in S
         /\ Head(s) = s[1]
         /\ Tail(s) \in Seq(S)
         /\ \A i \in DOMAIN Tail(s) : Tail(s)[i] = s[i + 1] /\ i + 1 \in DOMAIN s /\ i + 1 # 1
OBVIOUS

(* An element that is replaced.                                            *)
LEMMA ReplaceFacts ==
  ASSUME NEW S, NEW s \in Seq(S), NEW c \in DOMAIN s, NEW e \in S
  PROVE  /\ [s EXCEPT ![c] = e] \in Seq(S)
         /\ DOMAIN [s EXCEPT ![c] = e] = DOMAIN s
         /\ [s EXCEPT ![c] = e][c] = e
         /\ \A i \in DOMAIN s \ {c} : [s EXCEPT ![c] = e][i] = s[i]
OBVIOUS

-----------------------------------------------------------------------------
(* One phone. *)

Conversation == [hash : SUBSET Phone, members : SUBSET Phone]
Work == [others : SUBSET Phone, at : {"lookup", "first", "create", "members", "store"}, in : SUBSET Nat]
Screen == {AtHome}
  \cup [at : {"first", "create"}, others : SUBSET Phone]
  \cup [at : {"members"}, others : SUBSET Phone, in : Nat]
  \cup [at : {"invite", "rename"}, others : SUBSET Phone, in : Nat, hash : SUBSET Phone]

PhoneOK(p) ==
  /\ conversation[p] \in Seq(Conversation)
  /\ inbox[p] \in Seq(Work)
  /\ screen[p] \in Screen

(* The service, or the screen, is about to add the members of c; the       *)
(* screen is about to give it its hash.                                    *)
Filing(p, c) ==
  1 \in DOMAIN inbox[p] /\ inbox[p][1].at = "members" /\ c \in inbox[p][1].in
Opening(p, c) == screen[p].at = "members" /\ screen[p].in = c
Renaming(p, c) == screen[p].at = "rename" /\ screen[p].in = c

(* Who is in a conversation, or about to be added to it.                   *)
People(p, c) ==
  conversation[p][c].members
    \cup (IF Filing(p, c) THEN inbox[p][1].others ELSE {})
    \cup (IF Opening(p, c) THEN screen[p].others ELSE {})

(* The service is at the first message of its inbox, and knows the         *)
(* conversation from the moment that there is one.                         *)
InboxInv(p) ==
  /\ \A i \in DOMAIN inbox[p] : i # 1 => inbox[p][i].at = "lookup"
  /\ 1 \in DOMAIN inbox[p] =>
       /\ inbox[p][1].at \in {"members", "store"} => inbox[p][1].in \subseteq DOMAIN conversation[p]
       /\ inbox[p][1].at = "members" => \A c, d \in inbox[p][1].in : c = d
       /\ inbox[p][1].at = "store" =>
            \A c \in inbox[p][1].in : inbox[p][1].others \subseteq People(p, c)

ScreenInv(p) ==
  /\ screen[p].at \in {"members", "invite", "rename"} => screen[p].in \in DOMAIN conversation[p]
  /\ screen[p].at = "invite" =>
       screen[p].hash \subseteq People(p, screen[p].in) \cup screen[p].others
  /\ screen[p].at = "rename" => screen[p].hash \subseteq People(p, screen[p].in)

(* What is in a conversation, and what will be found as one, is among its  *)
(* people.                                                                 *)
FiledInv(p) ==
  /\ \A c \in DOMAIN conversation[p] : conversation[p][c].hash \subseteq People(p, c)
  /\ \A f \in filed[p] : f[2] \in DOMAIN conversation[p] /\ f[1] \subseteq People(p, f[2])

(* No two conversations are found by the same hash, and a hash is what the *)
(* members are or are about to be.                                         *)
OneInv(p) ==
  muddled[p] = {} =>
    /\ \A c, d \in DOMAIN conversation[p] :
         conversation[p][c].hash = conversation[p][d].hash => c = d
    /\ \A c \in DOMAIN conversation[p] :
         /\ ~(Filing(p, c) /\ Opening(p, c))
         /\ Filing(p, c) /\ ~Renaming(p, c) =>
              /\ conversation[p][c].members = {}
              /\ conversation[p][c].hash = inbox[p][1].others
         /\ Opening(p, c) =>
              /\ conversation[p][c].members = {}
              /\ conversation[p][c].hash = screen[p].others
         /\ ~Filing(p, c) /\ ~Opening(p, c) /\ ~Renaming(p, c) =>
              conversation[p][c].hash = conversation[p][c].members

PhoneInv(p) == PhoneOK(p) /\ InboxInv(p) /\ ScreenInv(p) /\ FiledInv(p) /\ OneInv(p)

Slices ==
  /\ DOMAIN conversation = Owner
  /\ DOMAIN inbox = Owner
  /\ DOMAIN screen = Owner
  /\ DOMAIN filed = Owner
  /\ DOMAIN muddled = Owner

Same(p) ==
  /\ conversation'[p] = conversation[p]
  /\ inbox'[p] = inbox[p]
  /\ screen'[p] = screen[p]
  /\ filed'[p] = filed[p]
  /\ muddled'[p] = muddled[p]

PhonesInv == Slices /\ \A p \in Owner : PhoneInv(p)

(* What a phone does is its own.                                           *)
LEMMA SameKeeps ==
  ASSUME NEW p, PhoneInv(p), Same(p)
  PROVE  PhoneInv(p)'
<1>1. /\ \A c : Filing(p, c)' <=> Filing(p, c)
      /\ \A c : Opening(p, c)' <=> Opening(p, c)
      /\ \A c : Renaming(p, c)' <=> Renaming(p, c)
      /\ \A c : People(p, c)' = People(p, c)
  BY DEF Same, Filing, Opening, Renaming, People
<1>2. PhoneOK(p)'
  BY DEF PhoneInv, PhoneOK, Same, Conversation, Work, Screen, AtHome
<1>3. InboxInv(p)'
  BY <1>1 DEF PhoneInv, InboxInv, Same
<1>4. ScreenInv(p)'
  BY <1>1 DEF PhoneInv, ScreenInv, Same
<1>5. FiledInv(p)'
  BY <1>1 DEF PhoneInv, FiledInv, Same
<1>6. OneInv(p)'
  BY <1>1 DEF PhoneInv, OneInv, Same
<1>. QED  BY <1>2, <1>3, <1>4, <1>5, <1>6 DEF PhoneInv

(* What has been filed stays among its people while conversations only     *)
(* gain people.                                                            *)
LEMMA FiledStays ==
  ASSUME NEW p, FiledInv(p), filed'[p] = filed[p],
         DOMAIN conversation[p] \subseteq DOMAIN conversation'[p],
         \A c \in DOMAIN conversation[p] : People(p, c) \subseteq People(p, c)',
         \A c \in DOMAIN conversation'[p] : conversation'[p][c].hash \subseteq People(p, c)'
  PROVE  FiledInv(p)'
BY DEF FiledInv

(* A step of one phone.                                                    *)
LEMMA OnePhone ==
  ASSUME PhonesInv, NEW p \in Owner, Slices', PhoneInv(p)', \A q \in Owner \ {p} : Same(q)
  PROVE  PhonesInv'
BY SameKeeps DEF PhonesInv

(* A message that arrives waits behind the others.                         *)
LEMMA TextArrivesKeeps ==
  ASSUME PhonesInv, NEW m, TextArrives(m), m.peers \subseteq Phone
  PROVE  PhonesInv'
<1>. DEFINE p == m.to
            w == [others |-> m.peers \ {p}, at |-> "lookup", in |-> {}]
<1>1. p \in Owner /\ inbox' = [inbox EXCEPT ![p] = Append(inbox[p], w)]
      /\ UNCHANGED <<conversation, screen, filed, muddled>>
  BY DEF TextArrives
<1>. HIDE DEF p
<1>2. PhoneInv(p) /\ Slices /\ w \in Work
  BY <1>1 DEF PhonesInv, Work
<1>3. inbox'[p] = Append(inbox[p], w) /\ Slices' /\ \A q \in Owner \ {p} : Same(q)
  BY <1>1, <1>2 DEF Slices, Same
<1>. HIDE DEF w
<1>4. inbox[p] \in Seq(Work)
  BY <1>2 DEF PhoneInv, PhoneOK
<1>5. /\ inbox'[p] \in Seq(Work)
      /\ DOMAIN inbox'[p] = DOMAIN inbox[p] \cup {Len(inbox[p]) + 1}
      /\ \A i \in DOMAIN inbox[p] : inbox'[p][i] = inbox[p][i]
      /\ inbox'[p][Len(inbox[p]) + 1] = w
  BY <1>2, <1>3, <1>4, AppendFacts
<1>6. w.at = "lookup"
  BY DEF w
<1>7. 1 \notin DOMAIN inbox[p] /\ 1 \in DOMAIN inbox'[p] => inbox'[p][1].at = "lookup"
  BY <1>5, <1>6
<1>8. \A c : (Filing(p, c)' <=> Filing(p, c)) /\ (Opening(p, c)' <=> Opening(p, c))
              /\ (Renaming(p, c)' <=> Renaming(p, c)) /\ People(p, c)' = People(p, c)
  BY <1>1, <1>5, <1>7 DEF Filing, Opening, Renaming, People
<1>9. PhoneOK(p)'
  BY <1>1, <1>2, <1>5 DEF PhoneInv, PhoneOK, Conversation, Screen, AtHome, Work
<1>10. InboxInv(p)'
  BY <1>1, <1>2, <1>5, <1>6, <1>7, <1>8 DEF PhoneInv, InboxInv
<1>11. ScreenInv(p)' /\ FiledInv(p)'
  BY <1>1, <1>2, <1>8 DEF PhoneInv, ScreenInv, FiledInv
<1>12. OneInv(p)'
  BY <1>1, <1>2, <1>5, <1>8 DEF PhoneInv, OneInv, Filing
<1>. QED  BY <1>1, <1>3, <1>9, <1>10, <1>11, <1>12, OnePhone DEF PhoneInv

-----------------------------------------------------------------------------
(* The service files the first message of its inbox. *)

FileAt(p, at) == FileMessage(p) /\ inbox[p][1].at = at

(* A phone takes its first text one step further.                          *)
Moves(p, at, in) == inbox' = [inbox EXCEPT ![p][1].at = at, ![p][1].in = in]

(* The inbox while its first message goes on.                              *)
LEMMA NextFacts ==
  ASSUME PhonesInv, NEW p \in Owner, inbox[p] # <<>>,
         NEW at \in {"lookup", "first", "create", "members", "store"}, NEW in \in SUBSET Nat,
         Moves(p, at, in)
  PROVE  /\ inbox'[p] \in Seq(Work)
         /\ DOMAIN inbox'[p] = DOMAIN inbox[p] /\ 1 \in DOMAIN inbox[p]
         /\ inbox'[p][1].others = inbox[p][1].others
         /\ inbox'[p][1].at = at /\ inbox'[p][1].in = in
         /\ \A i \in DOMAIN inbox[p] \ {1} : inbox'[p][i] = inbox[p][i]
         /\ \A q \in Owner \ {p} : inbox'[q] = inbox[q]
         /\ DOMAIN inbox' = Owner
<1>1. inbox[p] \in Seq(Work) /\ DOMAIN inbox = Owner
  BY DEF PhonesInv, Slices, PhoneInv, PhoneOK
<1>2. 1 \in DOMAIN inbox[p] /\ inbox[p][1] \in Work
  BY <1>1, TailFacts
<1>. DEFINE w == [[inbox[p][1] EXCEPT !.at = at] EXCEPT !.in = in]
<1>3. w \in Work /\ w.others = inbox[p][1].others /\ w.at = at /\ w.in = in
  BY <1>2 DEF Work
<1>4. inbox'[p] = [inbox[p] EXCEPT ![1] = w]
  BY <1>1, <1>2 DEF Moves
<1>. HIDE DEF w
<1>5. /\ inbox'[p] \in Seq(Work)
      /\ DOMAIN inbox'[p] = DOMAIN inbox[p]
      /\ inbox'[p][1] = w
      /\ \A i \in DOMAIN inbox[p] \ {1} : inbox'[p][i] = inbox[p][i]
  BY <1>1, <1>2, <1>3, <1>4, ReplaceFacts
<1>6. (\A q \in Owner \ {p} : inbox'[q] = inbox[q]) /\ DOMAIN inbox' = Owner
  BY <1>1 DEF Moves
<1>. QED  BY <1>2, <1>3, <1>5, <1>6

(* A conversation that is created has no members yet.                      *)
LEMMA CreateFacts ==
  ASSUME PhonesInv, NEW p \in Owner, NEW numbers \in SUBSET Phone, Create(p, numbers)
  PROVE  LET new == Len(conversation[p]) + 1
         IN  /\ conversation'[p] \in Seq(Conversation)
             /\ new \in Nat \ DOMAIN conversation[p]
             /\ DOMAIN conversation'[p] = DOMAIN conversation[p] \cup {new}
             /\ \A c \in DOMAIN conversation[p] : conversation'[p][c] = conversation[p][c]
             /\ conversation'[p][new].hash = numbers /\ conversation'[p][new].members = {}
             /\ \A q \in Owner \ {p} : conversation'[q] = conversation[q]
             /\ DOMAIN conversation' = Owner
<1>. DEFINE e == [hash |-> numbers, members |-> {}]
<1>1. conversation[p] \in Seq(Conversation) /\ DOMAIN conversation = Owner
  BY DEF PhonesInv, Slices, PhoneInv, PhoneOK
<1>2. conversation' = [conversation EXCEPT ![p] = Append(conversation[p], e)]
  BY DEF Create
<1>3. e \in Conversation /\ e.hash = numbers /\ e.members = {}
  BY DEF Conversation
<1>. HIDE DEF e
<1>. QED  BY <1>1, <1>2, <1>3, AppendFacts

(* A conversation gets members.                                            *)
LEMMA AddFacts ==
  ASSUME PhonesInv, NEW p \in Owner, NEW c \in DOMAIN conversation[p],
         NEW numbers \in SUBSET Phone, AddMembers(p, c, numbers)
  PROVE  /\ conversation'[p] \in Seq(Conversation)
         /\ DOMAIN conversation'[p] = DOMAIN conversation[p]
         /\ conversation'[p][c].hash = conversation[p][c].hash
         /\ conversation'[p][c].members = conversation[p][c].members \cup numbers
         /\ \A d \in DOMAIN conversation[p] \ {c} : conversation'[p][d] = conversation[p][d]
         /\ \A q \in Owner \ {p} : conversation'[q] = conversation[q]
         /\ DOMAIN conversation' = Owner
<1>. DEFINE e == [conversation[p][c] EXCEPT !.members = @ \cup numbers]
<1>1. conversation[p] \in Seq(Conversation) /\ DOMAIN conversation = Owner
  BY DEF PhonesInv, Slices, PhoneInv, PhoneOK
<1>2. conversation[p][c] \in Conversation
  BY <1>1
<1>3. /\ e \in Conversation /\ e.hash = conversation[p][c].hash
      /\ e.members = conversation[p][c].members \cup numbers
  BY <1>2 DEF Conversation
<1>4. conversation' = [conversation EXCEPT ![p] = [conversation[p] EXCEPT ![c] = e]]
  BY DEF AddMembers
<1>. HIDE DEF e
<1>. QED  BY <1>1, <1>3, <1>4, ReplaceFacts

(* What the service does before there is a conversation for its message:   *)
(* it looks for one, and finds only such as have the participants' hash.   *)
LEMMA LooksKeeps ==
  ASSUME PhonesInv, NEW p \in Owner, inbox[p] # <<>>, inbox[p][1].at \in {"lookup", "first"},
         NEW at \in {"first", "create", "store"}, NEW found \in SUBSET DOMAIN conversation[p],
         \A c \in found : conversation[p][c].hash = inbox[p][1].others,
         Moves(p, at, found), UNCHANGED <<conversation, screen, filed, muddled>>
  PROVE  PhonesInv'
<1>. DEFINE m == inbox[p][1]
<1>1. PhoneInv(p) /\ Slices /\ inbox[p] \in Seq(Work) /\ conversation[p] \in Seq(Conversation)
  BY DEF PhonesInv, PhoneInv, PhoneOK
<1>2. found \in SUBSET Nat
  BY <1>1
<1>3. /\ inbox'[p] \in Seq(Work)
      /\ DOMAIN inbox'[p] = DOMAIN inbox[p] /\ 1 \in DOMAIN inbox[p]
      /\ inbox'[p][1].others = m.others
      /\ inbox'[p][1].at = at /\ inbox'[p][1].in = found
      /\ \A i \in DOMAIN inbox[p] \ {1} : inbox'[p][i] = inbox[p][i]
      /\ \A q \in Owner \ {p} : inbox'[q] = inbox[q]
      /\ DOMAIN inbox' = Owner
  BY <1>2, NextFacts
<1>4. Slices' /\ \A q \in Owner \ {p} : Same(q)
  BY <1>1, <1>3 DEF Slices, Same
<1>5. \A c : ~Filing(p, c) /\ ~Filing(p, c)' /\ (Opening(p, c)' <=> Opening(p, c))
              /\ (Renaming(p, c)' <=> Renaming(p, c)) /\ People(p, c)' = People(p, c)
  BY <1>1, <1>3 DEF Filing, Opening, Renaming, People
<1>6. PhoneOK(p)'
  BY <1>1, <1>3 DEF PhoneInv, PhoneOK, Conversation, Screen, AtHome, Work
<1>7. \A c \in found : m.others \subseteq People(p, c)
  BY <1>1 DEF PhoneInv, FiledInv
<1>8. InboxInv(p)'
  BY <1>1, <1>3, <1>5, <1>7 DEF PhoneInv, InboxInv
<1>9. ScreenInv(p)' /\ FiledInv(p)'
  BY <1>1, <1>5 DEF PhoneInv, ScreenInv, FiledInv
<1>10. OneInv(p)'
  BY <1>1, <1>5 DEF PhoneInv, OneInv
<1>. QED  BY <1>4, <1>6, <1>8, <1>9, <1>10, OnePhone DEF PhoneInv

(* Whether there is one conversation of the participants.                  *)
LEMMA FileLookupKeeps ==
  ASSUME PhonesInv, NEW p \in Owner, FileAt(p, "lookup")
  PROVE  PhonesInv'
<1>1. inbox[p] \in Seq(Work) /\ inbox[p] # <<>> /\ inbox[p][1].at = "lookup"
  BY DEF PhonesInv, PhoneInv, PhoneOK, FileAt, FileMessage
<1>2. Head(inbox[p]) = inbox[p][1]
  BY <1>1, TailFacts
<1>3. PICK at \in {"first", "create"} : Moves(p, at, {})
  BY <1>1, <1>2 DEF FileAt, FileMessage, Counted, Moves
<1>4. UNCHANGED <<conversation, screen, filed, muddled>>
  BY <1>1, <1>2 DEF FileAt, FileMessage
<1>. QED  BY <1>1, <1>3, <1>4, LooksKeeps

(* Which is the first of them, if there still is one.                      *)
LEMMA FileFirstKeeps ==
  ASSUME PhonesInv, NEW p \in Owner, FileAt(p, "first")
  PROVE  PhonesInv'
<1>1. inbox[p] \in Seq(Work) /\ inbox[p] # <<>> /\ inbox[p][1].at = "first"
  BY DEF PhonesInv, PhoneInv, PhoneOK, FileAt, FileMessage
<1>2. Head(inbox[p]) = inbox[p][1]
  BY <1>1, TailFacts
<1>3. \/ Moves(p, "create", {})
      \/ \E c \in WithHash(p, inbox[p][1].others) : Moves(p, "store", {c})
  BY <1>1, <1>2 DEF FileAt, FileMessage, Moves
<1>4. UNCHANGED <<conversation, screen, filed, muddled>>
  BY <1>1, <1>2 DEF FileAt, FileMessage
<1>5. CASE Moves(p, "create", {})
  BY <1>1, <1>4, <1>5, LooksKeeps
<1>6. ASSUME NEW c \in WithHash(p, inbox[p][1].others), Moves(p, "store", {c}) PROVE PhonesInv'
  <2>1. /\ {c} \in SUBSET DOMAIN conversation[p]
        /\ \A d \in {c} : conversation[p][d].hash = inbox[p][1].others
    BY <1>6 DEF WithHash
  <2>. QED  BY <1>1, <1>4, <1>6, <2>1, LooksKeeps
<1>. QED  BY <1>3, <1>5, <1>6

(* There was none, and one is made: twice, when the screen was faster.     *)
LEMMA FileCreateKeeps ==
  ASSUME PhonesInv, NEW p \in Owner, FileAt(p, "create")
  PROVE  PhonesInv'
<1>. DEFINE m == inbox[p][1]
<1>0. PICK new : new = Len(conversation[p]) + 1
  OBVIOUS
<1>1. PhoneInv(p) /\ Slices /\ inbox[p] # <<>> /\ inbox[p] \in Seq(Work) /\ m.at = "create"
      /\ conversation[p] \in Seq(Conversation)
  BY DEF PhonesInv, FileAt, FileMessage, PhoneInv, PhoneOK
<1>2. Head(inbox[p]) = m /\ m \in Work
  BY <1>1, TailFacts
<1>3. /\ Create(p, m.others)
      /\ inbox' = [inbox EXCEPT ![p][1].at = "members", ![p][1].in = {new}]
      /\ Muddle(p, "made twice", WithHash(p, m.others) # {})
      /\ UNCHANGED <<screen, filed>>
  BY <1>0, <1>1, <1>2 DEF FileAt, FileMessage
<1>4. m.others \in SUBSET Phone
  BY <1>2 DEF Work
<1>5. /\ conversation'[p] \in Seq(Conversation)
      /\ new \in Nat \ DOMAIN conversation[p]
      /\ DOMAIN conversation'[p] = DOMAIN conversation[p] \cup {new}
      /\ \A c \in DOMAIN conversation[p] : conversation'[p][c] = conversation[p][c]
      /\ conversation'[p][new].hash = m.others /\ conversation'[p][new].members = {}
      /\ \A q \in Owner \ {p} : conversation'[q] = conversation[q]
      /\ DOMAIN conversation' = Owner
  BY <1>0, <1>3, <1>4, CreateFacts
<1>6.  /\ inbox'[p] \in Seq(Work)
      /\ DOMAIN inbox'[p] = DOMAIN inbox[p] /\ 1 \in DOMAIN inbox[p]
      /\ inbox'[p][1].others = m.others
      /\ inbox'[p][1].at = "members" /\ inbox'[p][1].in = {new}
      /\ \A i \in DOMAIN inbox[p] \ {1} : inbox'[p][i] = inbox[p][i]
      /\ \A q \in Owner \ {p} : inbox'[q] = inbox[q]
      /\ DOMAIN inbox' = Owner
  <2>. DEFINE at == "members"
              in == {new}
  <2>1. at \in {"lookup", "first", "create", "members", "store"} /\ in \in SUBSET Nat
        /\ Moves(p, at, in)
    BY <1>3, <1>5 DEF Moves
  <2>2. at = "members" /\ in = {new}
    OBVIOUS
  <2>. HIDE DEF at, in
  <2>3. /\ inbox'[p] \in Seq(Work)
        /\ DOMAIN inbox'[p] = DOMAIN inbox[p] /\ 1 \in DOMAIN inbox[p]
        /\ inbox'[p][1].others = m.others
        /\ inbox'[p][1].at = at /\ inbox'[p][1].in = in
        /\ \A i \in DOMAIN inbox[p] \ {1} : inbox'[p][i] = inbox[p][i]
        /\ \A q \in Owner \ {p} : inbox'[q] = inbox[q]
        /\ DOMAIN inbox' = Owner
    <3>1. inbox[p] # <<>>
      BY <1>1 DEF FileAt
    <3>2. /\ inbox'[p] \in Seq(Work)
          /\ DOMAIN inbox'[p] = DOMAIN inbox[p] /\ 1 \in DOMAIN inbox[p]
          /\ inbox'[p][1].others = inbox[p][1].others
          /\ inbox'[p][1].at = at /\ inbox'[p][1].in = in
          /\ \A i \in DOMAIN inbox[p] \ {1} : inbox'[p][i] = inbox[p][i]
          /\ \A q \in Owner \ {p} : inbox'[q] = inbox[q]
          /\ DOMAIN inbox' = Owner
      BY <2>1, <3>1, NextFacts
    <3>. QED  BY <3>2
  <2>. QED  BY <2>2, <2>3, Zenon
<1>7. /\ DOMAIN muddled' = Owner /\ \A q \in Owner \ {p} : muddled'[q] = muddled[q]
      /\ muddled'[p] = {} => muddled[p] = {} /\ WithHash(p, m.others) = {}
  BY <1>1, <1>3 DEF Muddle, Slices
<1>8. Slices' /\ \A q \in Owner \ {p} : Same(q)
  BY <1>1, <1>3, <1>5, <1>6, <1>7 DEF Slices, Same
<1>9. /\ \A c : ~Filing(p, c) /\ (Filing(p, c)' <=> c = new)
               /\ (Opening(p, c)' <=> Opening(p, c)) /\ (Renaming(p, c)' <=> Renaming(p, c))
      /\ ~Opening(p, new) /\ ~Renaming(p, new)
  BY <1>1, <1>3, <1>5, <1>6 DEF Filing, Opening, Renaming, PhoneInv, ScreenInv
<1>10. /\ \A c \in DOMAIN conversation[p] : People(p, c)' = People(p, c)
       /\ m.others \subseteq People(p, new)'
  <2>1. ASSUME NEW c \in DOMAIN conversation[p] PROVE People(p, c)' = People(p, c)
    BY <1>3, <1>5, <1>9 DEF People
  <2>2. Filing(p, new)'
    BY <1>9
  <2>3. m.others \subseteq People(p, new)'
    BY <1>6, <2>2 DEF People
  <2>. QED  BY <2>1, <2>3
<1>11. PhoneOK(p)'
  BY <1>1, <1>3, <1>5, <1>6 DEF PhoneInv, PhoneOK, Conversation, Screen, AtHome, Work
<1>12. InboxInv(p)'
  BY <1>1, <1>5, <1>6 DEF PhoneInv, InboxInv
<1>13. ScreenInv(p)'
  BY <1>1, <1>3, <1>5, <1>10 DEF PhoneInv, ScreenInv
<1>14. FiledInv(p)'
  <2>1. FiledInv(p) /\ filed'[p] = filed[p]
    BY <1>1, <1>3 DEF PhoneInv
  <2>2. \A c \in DOMAIN conversation'[p] : conversation'[p][c].hash \subseteq People(p, c)'
    BY <1>5, <1>10, <2>1 DEF FiledInv
  <2>. QED  BY <1>5, <1>10, <2>1, <2>2, FiledStays
<1>15. OneInv(p)'
  <2>. SUFFICES ASSUME muddled'[p] = {} PROVE OneInv(p)'
    BY DEF OneInv
  <2>1. \A c \in DOMAIN conversation[p] : conversation[p][c].hash # m.others
    BY <1>7 DEF WithHash
  <2>2. OneInv(p) /\ muddled[p] = {} /\ screen'[p] = screen[p] /\ inbox'[p][1].others = m.others
    BY <1>1, <1>3, <1>6, <1>7 DEF PhoneInv
  <2>3. \A c, d \in DOMAIN conversation'[p] :
          conversation'[p][c].hash = conversation'[p][d].hash => c = d
    BY <1>5, <2>1, <2>2 DEF OneInv
  <2>. QED  BY <1>5, <1>9, <2>2, <2>3 DEF OneInv
<1>. QED  BY <1>8, <1>11, <1>12, <1>13, <1>14, <1>15, OnePhone DEF PhoneInv

(* It gets the participants for its members.                               *)
LEMMA FileMembersKeeps ==
  ASSUME PhonesInv, NEW p \in Owner, FileAt(p, "members")
  PROVE  PhonesInv'
<1>. DEFINE m == inbox[p][1]
<1>1. PhoneInv(p) /\ Slices /\ inbox[p] # <<>> /\ inbox[p] \in Seq(Work) /\ m.at = "members"
      /\ conversation[p] \in Seq(Conversation)
  BY DEF PhonesInv, FileAt, FileMessage, PhoneInv, PhoneOK
<1>2. Head(inbox[p]) = m /\ m \in Work
  BY <1>1, TailFacts
<1>3. PICK c \in m.in :
        /\ AddMembers(p, c, m.others)
        /\ inbox' = [inbox EXCEPT ![p][1].at = "store", ![p][1].in = m.in]
        /\ UNCHANGED <<screen, filed, muddled>>
  BY <1>1, <1>2 DEF FileAt, FileMessage
<1>4. /\ m.others \in SUBSET Phone /\ m.in \in SUBSET Nat
      /\ 1 \in DOMAIN inbox[p]
      /\ m.in \subseteq DOMAIN conversation[p] /\ \A d \in m.in : d = c
  BY <1>1, <1>2, TailFacts DEF Work, PhoneInv, InboxInv
<1>5. /\ conversation'[p] \in Seq(Conversation)
      /\ DOMAIN conversation'[p] = DOMAIN conversation[p]
      /\ conversation'[p][c].hash = conversation[p][c].hash
      /\ conversation'[p][c].members = conversation[p][c].members \cup m.others
      /\ \A d \in DOMAIN conversation[p] \ {c} : conversation'[p][d] = conversation[p][d]
      /\ \A q \in Owner \ {p} : conversation'[q] = conversation[q]
      /\ DOMAIN conversation' = Owner
  BY <1>3, <1>4, AddFacts
<1>6.  /\ inbox'[p] \in Seq(Work)
      /\ DOMAIN inbox'[p] = DOMAIN inbox[p] /\ 1 \in DOMAIN inbox[p]
      /\ inbox'[p][1].others = m.others
      /\ inbox'[p][1].at = "store" /\ inbox'[p][1].in = m.in
      /\ \A i \in DOMAIN inbox[p] \ {1} : inbox'[p][i] = inbox[p][i]
      /\ \A q \in Owner \ {p} : inbox'[q] = inbox[q]
      /\ DOMAIN inbox' = Owner
  <2>. DEFINE at == "store"
              in == m.in
  <2>1. at \in {"lookup", "first", "create", "members", "store"} /\ in \in SUBSET Nat
        /\ Moves(p, at, in)
    BY <1>3, <1>4 DEF Moves
  <2>2. at = "store" /\ in = m.in
    OBVIOUS
  <2>. HIDE DEF at, in
  <2>3. /\ inbox'[p] \in Seq(Work)
        /\ DOMAIN inbox'[p] = DOMAIN inbox[p] /\ 1 \in DOMAIN inbox[p]
        /\ inbox'[p][1].others = m.others
        /\ inbox'[p][1].at = at /\ inbox'[p][1].in = in
        /\ \A i \in DOMAIN inbox[p] \ {1} : inbox'[p][i] = inbox[p][i]
        /\ \A q \in Owner \ {p} : inbox'[q] = inbox[q]
        /\ DOMAIN inbox' = Owner
    <3>1. inbox[p] # <<>>
      BY <1>1 DEF FileAt
    <3>2. /\ inbox'[p] \in Seq(Work)
          /\ DOMAIN inbox'[p] = DOMAIN inbox[p] /\ 1 \in DOMAIN inbox[p]
          /\ inbox'[p][1].others = inbox[p][1].others
          /\ inbox'[p][1].at = at /\ inbox'[p][1].in = in
          /\ \A i \in DOMAIN inbox[p] \ {1} : inbox'[p][i] = inbox[p][i]
          /\ \A q \in Owner \ {p} : inbox'[q] = inbox[q]
          /\ DOMAIN inbox' = Owner
      BY <2>1, <3>1, NextFacts
    <3>. QED  BY <3>2
  <2>. QED  BY <2>2, <2>3, Zenon
<1>7. Slices' /\ \A q \in Owner \ {p} : Same(q)
  BY <1>1, <1>3, <1>5, <1>6 DEF Slices, Same
<1>8. \A d : (Filing(p, d) <=> d = c) /\ ~Filing(p, d)'
              /\ (Opening(p, d)' <=> Opening(p, d)) /\ (Renaming(p, d)' <=> Renaming(p, d))
  BY <1>1, <1>3, <1>4, <1>6 DEF Filing, Opening, Renaming
<1>9. /\ \A d \in DOMAIN conversation[p] : People(p, d)' = People(p, d)
      /\ m.others \subseteq People(p, c)'
  BY <1>3, <1>4, <1>5, <1>6, <1>8 DEF People
<1>10. PhoneOK(p)'
  BY <1>1, <1>3, <1>5, <1>6 DEF PhoneInv, PhoneOK, Conversation, Screen, AtHome, Work
<1>11. InboxInv(p)'
  BY <1>1, <1>4, <1>5, <1>6, <1>9 DEF PhoneInv, InboxInv
<1>12. ScreenInv(p)'
  BY <1>1, <1>3, <1>5, <1>9 DEF PhoneInv, ScreenInv
<1>13. FiledInv(p)'
  <2>1. FiledInv(p) /\ filed'[p] = filed[p]
    BY <1>1, <1>3 DEF PhoneInv
  <2>2. \A d \in DOMAIN conversation[p] : conversation'[p][d].hash = conversation[p][d].hash
    BY <1>4, <1>5
  <2>. QED  BY <1>5, <1>9, <2>1, <2>2, FiledStays DEF FiledInv
<1>14. OneInv(p)'
  <2>. SUFFICES ASSUME muddled'[p] = {} PROVE OneInv(p)'
    BY DEF OneInv
  <2>1. OneInv(p) /\ muddled[p] = {} /\ screen'[p] = screen[p] /\ c \in DOMAIN conversation[p]
    BY <1>1, <1>3, <1>4 DEF PhoneInv
  <2>2. \A d \in DOMAIN conversation[p] : conversation'[p][d].hash = conversation[p][d].hash
    BY <1>5
  <2>3. \A d, e \in DOMAIN conversation'[p] :
          conversation'[p][d].hash = conversation'[p][e].hash => d = e
    BY <1>5, <2>1, <2>2 DEF OneInv
  <2>4. ~Renaming(p, c) => conversation'[p][c].hash = conversation'[p][c].members
    BY <1>5, <1>8, <2>1 DEF OneInv
  <2>. QED  BY <1>5, <1>8, <2>1, <2>3, <2>4, ZenonT(30) DEF OneInv
<1>. QED  BY <1>7, <1>10, <1>11, <1>12, <1>13, <1>14, OnePhone DEF PhoneInv

(* The message is stored, and the service turns to the next.               *)
LEMMA FileStoreKeeps ==
  ASSUME PhonesInv, NEW p \in Owner, FileAt(p, "store")
  PROVE  PhonesInv'
<1>. DEFINE m == inbox[p][1]
<1>1. PhoneInv(p) /\ Slices /\ inbox[p] # <<>> /\ inbox[p] \in Seq(Work) /\ m.at = "store"
  BY DEF PhonesInv, FileAt, FileMessage, PhoneInv, PhoneOK
<1>2. Head(inbox[p]) = m /\ 1 \in DOMAIN inbox[p]
  BY <1>1, TailFacts
<1>3. /\ filed' = [filed EXCEPT ![p] = @ \cup ({m.others} \X m.in)]
      /\ inbox' = [inbox EXCEPT ![p] = Tail(@)]
      /\ UNCHANGED <<conversation, screen, muddled>>
  BY <1>1, <1>2 DEF FileAt, FileMessage
<1>4. /\ inbox'[p] = Tail(inbox[p])
      /\ filed'[p] = filed[p] \cup ({m.others} \X m.in)
      /\ Slices' /\ \A q \in Owner \ {p} : Same(q)
  BY <1>1, <1>3 DEF Slices, Same
<1>5. /\ inbox'[p] \in Seq(Work)
      /\ \A i \in DOMAIN inbox'[p] : inbox'[p][i] = inbox[p][i + 1] /\ i + 1 \in DOMAIN inbox[p]
                                     /\ i + 1 # 1
  BY <1>1, <1>4, TailFacts
<1>6. \A i \in DOMAIN inbox'[p] : inbox'[p][i].at = "lookup"
  BY <1>1, <1>5 DEF PhoneInv, InboxInv
<1>7. \A d : ~Filing(p, d) /\ ~Filing(p, d)'
              /\ (Opening(p, d)' <=> Opening(p, d)) /\ (Renaming(p, d)' <=> Renaming(p, d))
              /\ People(p, d)' = People(p, d)
  BY <1>1, <1>3, <1>6 DEF Filing, Opening, Renaming, People
<1>8. PhoneOK(p)'
  BY <1>1, <1>3, <1>5 DEF PhoneInv, PhoneOK, Conversation, Screen, AtHome, Work
<1>9. InboxInv(p)'
  BY <1>6 DEF InboxInv
<1>10. ScreenInv(p)'
  BY <1>1, <1>3, <1>7 DEF PhoneInv, ScreenInv
<1>11. FiledInv(p)'
  <2>1. \A c \in m.in : c \in DOMAIN conversation[p] /\ m.others \subseteq People(p, c)
    BY <1>1, <1>2 DEF PhoneInv, InboxInv
  <2>2. \A f \in filed'[p] : f \in filed[p] \/ (f[1] = m.others /\ f[2] \in m.in)
    BY <1>4
  <2>. QED  BY <1>1, <1>3, <1>7, <2>1, <2>2 DEF PhoneInv, FiledInv
<1>12. OneInv(p)'
  BY <1>1, <1>3, <1>7 DEF PhoneInv, OneInv
<1>. QED  BY <1>4, <1>8, <1>9, <1>10, <1>11, <1>12, OnePhone DEF PhoneInv

(* Each of the five steps.                                                 *)
LEMMA FileMessageKeeps ==
  ASSUME PhonesInv, NEW p \in Owner, FileMessage(p)
  PROVE  PhonesInv'
<1>1. inbox[p] \in Seq(Work) /\ inbox[p] # <<>>
  BY DEF PhonesInv, PhoneInv, PhoneOK, FileMessage
<1>2. inbox[p][1] \in Work
  BY <1>1, TailFacts
<1>. QED  BY <1>2, FileLookupKeeps, FileFirstKeeps, FileCreateKeeps, FileMembersKeeps, FileStoreKeeps DEF FileAt, Work

-----------------------------------------------------------------------------
(* The screens. *)

(* What a screen is at, when it is at something.                           *)
LEMMA ScreenFacts ==
  ASSUME PhonesInv, NEW p \in Owner
  PROVE  /\ screen[p].at \in {"first", "create", "members", "invite", "rename"} => screen[p].others \in SUBSET Phone
         /\ screen[p].at \in {"members", "invite", "rename"} => screen[p].in \in DOMAIN conversation[p]
         /\ screen[p].at \in {"invite", "rename"} => screen[p].hash \in SUBSET Phone
BY DEF PhonesInv, PhoneInv, PhoneOK, ScreenInv, Screen, AtHome

(* A screen that changes nothing but itself, and neither begins nor ends   *)
(* to add members or to rename.                                            *)
LEMMA ScreenOnly ==
  ASSUME PhonesInv, NEW p \in Owner, NEW to \in Screen,
         screen' = [screen EXCEPT ![p] = to],
         UNCHANGED <<conversation, inbox, filed, muddled>>,
         screen[p].at \notin {"members", "rename"}, to.at \notin {"members", "rename"},
         to.at = "invite" => /\ to.in \in DOMAIN conversation[p]
                             /\ to.hash \subseteq conversation[p][to.in].members \cup to.others
  PROVE  PhonesInv'
<1>1. PhoneInv(p) /\ Slices
  BY DEF PhonesInv
<1>2. screen'[p] = to /\ Slices' /\ \A q \in Owner \ {p} : Same(q)
  BY <1>1 DEF Slices, Same
<1>3. \A c : /\ Filing(p, c)' <=> Filing(p, c)
             /\ ~Opening(p, c) /\ ~Opening(p, c)' /\ ~Renaming(p, c) /\ ~Renaming(p, c)'
             /\ People(p, c)' = People(p, c)
  BY <1>2 DEF Filing, Opening, Renaming, People
<1>4. PhoneOK(p)'
  BY <1>1, <1>2 DEF PhoneInv, PhoneOK, Conversation, Screen, AtHome, Work
<1>5. InboxInv(p)'
  BY <1>1, <1>3 DEF PhoneInv, InboxInv
<1>6. FiledInv(p)'
  BY <1>1, <1>3 DEF PhoneInv, FiledInv
<1>7. OneInv(p)'
  BY <1>1, <1>3 DEF PhoneInv, OneInv
<1>8. \A c : conversation[p][c].members \subseteq People(p, c)
  BY DEF People
<1>9. ScreenInv(p)'
  BY <1>2, <1>3, <1>8 DEF ScreenInv
<1>. QED  BY <1>2, <1>4, <1>5, <1>6, <1>7, <1>9, OnePhone DEF PhoneInv

(* A contact is chosen.                                                    *)
LEMMA OpenKeeps ==
  ASSUME PhonesInv, NEW p \in Owner, NEW contact \in Phone, OpenConversation(p, contact)
  PROVE  PhonesInv'
<1>. DEFINE to == [at |-> Counted(p, {contact}), others |-> {contact}]
<1>1. to \in Screen /\ to.at \in {"first", "create"}
  BY DEF Screen, Counted
<1>2. /\ screen' = [screen EXCEPT ![p] = to] /\ screen[p].at = "home"
      /\ UNCHANGED <<conversation, inbox, filed, muddled>>
  BY DEF OpenConversation, AtHome
<1>. HIDE DEF to
<1>. QED  BY <1>1, <1>2, ScreenOnly

(* The conversation with the contact is opened, or there is none.          *)
LEMMA FindOpenedKeeps ==
  ASSUME PhonesInv, NEW p \in Owner, FindOpened(p)
  PROVE  PhonesInv'
<1>. DEFINE to == IF WithHash(p, screen[p].others) = {}
                  THEN [at |-> "create", others |-> screen[p].others] ELSE AtHome
<1>1. screen[p].at = "first" /\ DOMAIN screen = Owner
  BY DEF FindOpened, PhonesInv, Slices
<1>2. screen[p].others \in SUBSET Phone
  BY <1>1, ScreenFacts
<1>3. to \in Screen /\ to.at \in {"home", "create"}
  BY <1>2 DEF Screen, AtHome
<1>4. screen' = [screen EXCEPT ![p] = to] /\ UNCHANGED <<conversation, inbox, filed, muddled>>
  BY <1>1 DEF FindOpened
<1>. HIDE DEF to
<1>. QED  BY <1>1, <1>3, <1>4, ScreenOnly

(* The conversation with a contact is made, twice when the service was     *)
(* faster.                                                                 *)
LEMMA CreateOpenedKeeps ==
  ASSUME PhonesInv, NEW p \in Owner, CreateOpened(p)
  PROVE  PhonesInv'
<1>0. PICK new, others : new = Len(conversation[p]) + 1 /\ others = screen[p].others
  OBVIOUS
<1>1. PhoneInv(p) /\ Slices /\ screen[p].at = "create" /\ others \in SUBSET Phone
  BY <1>0, ScreenFacts DEF PhonesInv, CreateOpened
<1>2. /\ Create(p, others)
      /\ screen' = [screen EXCEPT ![p] = [at |-> "members", others |-> others, in |-> new]]
      /\ Muddle(p, "made twice", WithHash(p, others) # {})
      /\ UNCHANGED <<inbox, filed>>
  BY <1>0, <1>1 DEF CreateOpened, Slices
<1>3. /\ conversation'[p] \in Seq(Conversation)
      /\ new \in Nat \ DOMAIN conversation[p]
      /\ DOMAIN conversation'[p] = DOMAIN conversation[p] \cup {new}
      /\ \A c \in DOMAIN conversation[p] : conversation'[p][c] = conversation[p][c]
      /\ conversation'[p][new].hash = others /\ conversation'[p][new].members = {}
      /\ \A q \in Owner \ {p} : conversation'[q] = conversation[q]
      /\ DOMAIN conversation' = Owner
  BY <1>0, <1>1, <1>2, CreateFacts
<1>4. /\ screen'[p] = [at |-> "members", others |-> others, in |-> new]
      /\ screen'[p].at = "members" /\ screen'[p].others = others /\ screen'[p].in = new
      /\ inbox'[p] = inbox[p] /\ filed'[p] = filed[p]
  BY <1>1, <1>2 DEF Slices
<1>5. /\ DOMAIN muddled' = Owner /\ \A q \in Owner \ {p} : muddled'[q] = muddled[q]
      /\ muddled'[p] = {} => muddled[p] = {} /\ WithHash(p, others) = {}
  BY <1>1, <1>2 DEF Muddle, Slices
<1>6. Slices' /\ \A q \in Owner \ {p} : Same(q)
  BY <1>1, <1>2, <1>3, <1>5 DEF Slices, Same
<1>7. /\ \A c : (Filing(p, c)' <=> Filing(p, c)) /\ ~Opening(p, c) /\ (Opening(p, c)' <=> c = new)
               /\ ~Renaming(p, c) /\ ~Renaming(p, c)'
      /\ ~Filing(p, new)
  <2>1. ~Filing(p, new)
    BY <1>1, <1>3 DEF Filing, PhoneInv, InboxInv
  <2>2. \A c : Filing(p, c)' <=> Filing(p, c)
    BY <1>4 DEF Filing
  <2>. QED  BY <1>1, <1>4, <2>1, <2>2 DEF Opening, Renaming
<1>8. /\ \A c \in DOMAIN conversation[p] : People(p, c)' = People(p, c)
      /\ others \subseteq People(p, new)'
  <2>1. ASSUME NEW c \in DOMAIN conversation[p] PROVE People(p, c)' = People(p, c)
    BY <1>3, <1>4, <1>7 DEF People
  <2>2. Opening(p, new)'
    BY <1>7
  <2>3. others \subseteq People(p, new)'
    BY <1>4, <2>2 DEF People
  <2>. QED  BY <2>1, <2>3
<1>9. PhoneOK(p)'
  <2>1. screen'[p] \in Screen
    BY <1>1, <1>3, <1>4 DEF Screen
  <2>. QED  BY <1>1, <1>2, <1>3, <2>1 DEF PhoneInv, PhoneOK, Conversation, Screen, AtHome, Work
<1>10. InboxInv(p)'
  <2>1. InboxInv(p)
    BY <1>1 DEF PhoneInv
  <2>. QED  BY <1>3, <1>4, <1>8, <2>1 DEF InboxInv
<1>11. ScreenInv(p)'
  BY <1>3, <1>4 DEF ScreenInv
<1>12. FiledInv(p)'
  <2>1. FiledInv(p) /\ filed'[p] = filed[p]
    BY <1>1, <1>2 DEF PhoneInv
  <2>2. \A c \in DOMAIN conversation'[p] : conversation'[p][c].hash \subseteq People(p, c)'
    BY <1>3, <1>8, <2>1 DEF FiledInv
  <2>. QED  BY <1>3, <1>8, <2>1, <2>2, FiledStays
<1>13. OneInv(p)'
  <2>. SUFFICES ASSUME muddled'[p] = {} PROVE OneInv(p)'
    BY DEF OneInv
  <2>1. \A c \in DOMAIN conversation[p] : conversation[p][c].hash # others
    BY <1>5 DEF WithHash
  <2>2. OneInv(p) /\ muddled[p] = {} /\ inbox'[p] = inbox[p] /\ screen'[p].others = others
    BY <1>1, <1>4, <1>5 DEF PhoneInv
  <2>3. \A c, d \in DOMAIN conversation'[p] :
          conversation'[p][c].hash = conversation'[p][d].hash => c = d
    BY <1>3, <2>1, <2>2 DEF OneInv
  <2>. QED  BY <1>3, <1>7, <2>2, <2>3 DEF OneInv
<1>. QED  BY <1>6, <1>9, <1>10, <1>11, <1>12, <1>13, OnePhone DEF PhoneInv

(* The contact becomes the member of the new conversation.                 *)
LEMMA AddOpenedKeeps ==
  ASSUME PhonesInv, NEW p \in Owner, AddOpenedMember(p)
  PROVE  PhonesInv'
<1>0. PICK c, others : c = screen[p].in /\ others = screen[p].others
  OBVIOUS
<1>1. /\ PhoneInv(p) /\ Slices /\ screen[p].at = "members"
      /\ c \in DOMAIN conversation[p] /\ others \in SUBSET Phone
  BY <1>0, ScreenFacts DEF PhonesInv, AddOpenedMember
<1>2. /\ AddMembers(p, c, others)
      /\ screen'[p] = AtHome /\ screen'[p].at = "home"
      /\ inbox'[p] = inbox[p] /\ filed'[p] = filed[p] /\ muddled'[p] = muddled[p]
      /\ UNCHANGED <<inbox, filed, muddled>>
  BY <1>0, <1>1 DEF AddOpenedMember, Slices, AtHome
<1>3. /\ conversation'[p] \in Seq(Conversation)
      /\ DOMAIN conversation'[p] = DOMAIN conversation[p]
      /\ conversation'[p][c].hash = conversation[p][c].hash
      /\ conversation'[p][c].members = conversation[p][c].members \cup others
      /\ \A d \in DOMAIN conversation[p] \ {c} : conversation'[p][d] = conversation[p][d]
      /\ \A q \in Owner \ {p} : conversation'[q] = conversation[q]
      /\ DOMAIN conversation' = Owner
  BY <1>1, <1>2, AddFacts
<1>4. Slices' /\ \A q \in Owner \ {p} : Same(q)
  BY <1>1, <1>2, <1>3 DEF Slices, Same, AddOpenedMember
<1>5. \A d : /\ Filing(p, d)' <=> Filing(p, d)
             /\ Opening(p, d) <=> d = c
             /\ ~Opening(p, d)' /\ ~Renaming(p, d) /\ ~Renaming(p, d)'
  BY <1>0, <1>1, <1>2 DEF Filing, Opening, Renaming
<1>6. \A d \in DOMAIN conversation[p] : People(p, d)' = People(p, d)
  BY <1>0, <1>2, <1>3, <1>5 DEF People
<1>7. PhoneOK(p)'
  BY <1>1, <1>2, <1>3 DEF PhoneInv, PhoneOK, Conversation, Screen, AtHome, Work
<1>8. InboxInv(p)'
  <2>1. InboxInv(p)
    BY <1>1 DEF PhoneInv
  <2>. QED  BY <1>2, <1>3, <1>6, <2>1 DEF InboxInv
<1>9. ScreenInv(p)'
  BY <1>2 DEF ScreenInv
<1>10. FiledInv(p)'
  <2>1. FiledInv(p)
    BY <1>1 DEF PhoneInv
  <2>2. \A d \in DOMAIN conversation[p] : conversation'[p][d].hash = conversation[p][d].hash
    BY <1>3
  <2>. QED  BY <1>2, <1>3, <1>6, <2>1, <2>2, FiledStays DEF FiledInv
<1>11. OneInv(p)'
  <2>. SUFFICES ASSUME muddled'[p] = {} PROVE OneInv(p)'
    BY DEF OneInv
  <2>1. OneInv(p) /\ muddled[p] = {}
    BY <1>1, <1>2 DEF PhoneInv
  <2>2. \A d, e \in DOMAIN conversation'[p] :
          conversation'[p][d].hash = conversation'[p][e].hash => d = e
    <3>1. \A d \in DOMAIN conversation[p] : conversation'[p][d].hash = conversation[p][d].hash
      BY <1>3
    <3>. QED  BY <1>3, <2>1, <3>1 DEF OneInv
  <2>3. ~Filing(p, c) /\ conversation'[p][c].hash = conversation'[p][c].members
    BY <1>0, <1>1, <1>3, <1>5, <2>1 DEF OneInv
  <2>. QED  BY <1>2, <1>3, <1>5, <2>1, <2>2, <2>3, ZenonT(30) DEF OneInv
<1>. QED  BY <1>4, <1>7, <1>8, <1>9, <1>10, <1>11, OnePhone DEF PhoneInv

(* Contacts are chosen to be invited.                                      *)
LEMMA InviteKeeps ==
  ASSUME PhonesInv, NEW p \in Owner, NEW c \in DOMAIN conversation[p],
         NEW invited \in SUBSET Phone, Invite(p, c, invited)
  PROVE  PhonesInv'
<1>. DEFINE to == [at |-> "invite", others |-> invited, in |-> c,
                   hash |-> conversation[p][c].members \cup invited]
<1>1. conversation[p] \in Seq(Conversation)
  BY DEF PhonesInv, PhoneInv, PhoneOK
<1>2. c \in Nat /\ conversation[p][c].members \in SUBSET Phone
  <2>1. conversation[p][c] \in Conversation /\ c \in Nat
    BY <1>1
  <2>. QED  BY <2>1 DEF Conversation
<1>3. to \in Screen
  BY <1>2 DEF Screen
<1>4. /\ screen' = [screen EXCEPT ![p] = to] /\ screen[p].at = "home"
      /\ UNCHANGED <<conversation, inbox, filed, muddled>>
  BY DEF Invite, AtHome
<1>5. to.at = "invite" /\ to.in = c /\ to.others = invited
      /\ to.hash = conversation[p][c].members \cup invited
  OBVIOUS
<1>. HIDE DEF to
<1>. QED  BY <1>3, <1>4, <1>5, ScreenOnly

(* They become members: until it is renamed, the conversation is not what  *)
(* its hash says.                                                          *)
LEMMA AddInvitedKeeps ==
  ASSUME PhonesInv, NEW p \in Owner, AddInvited(p)
  PROVE  PhonesInv'
<1>0. PICK c, others : c = screen[p].in /\ others = screen[p].others
  OBVIOUS
<1>1. /\ PhoneInv(p) /\ Slices /\ screen[p].at = "invite" /\ screen[p] \in Screen
      /\ c \in DOMAIN conversation[p] /\ others \in SUBSET Phone
  BY <1>0, ScreenFacts DEF PhonesInv, AddInvited, PhoneInv, PhoneOK
<1>2. /\ AddMembers(p, c, others)
      /\ screen' = [screen EXCEPT ![p] = [screen[p] EXCEPT !.at = "rename"]]
      /\ inbox'[p] = inbox[p] /\ filed'[p] = filed[p] /\ muddled'[p] = muddled[p]
      /\ UNCHANGED <<inbox, filed, muddled>>
  BY <1>0, <1>1 DEF AddInvited
<1>3. /\ screen'[p] \in Screen
      /\ screen'[p].at = "rename" /\ screen'[p].in = c /\ screen'[p].hash = screen[p].hash
  <2>1. screen'[p] = [screen[p] EXCEPT !.at = "rename"]
    BY <1>1, <1>2 DEF Slices
  <2>2. screen[p] \in [at : {"invite", "rename"}, others : SUBSET Phone, in : Nat, hash : SUBSET Phone]
    BY <1>1 DEF Screen, AtHome
  <2>3. /\ screen'[p] \in [at : {"invite", "rename"}, others : SUBSET Phone, in : Nat, hash : SUBSET Phone]
        /\ screen'[p].at = "rename" /\ screen'[p].in = screen[p].in /\ screen'[p].hash = screen[p].hash
    BY <2>1, <2>2
  <2>. QED  BY <1>0, <2>3 DEF Screen
<1>4. /\ conversation'[p] \in Seq(Conversation)
      /\ DOMAIN conversation'[p] = DOMAIN conversation[p]
      /\ conversation'[p][c].hash = conversation[p][c].hash
      /\ conversation'[p][c].members = conversation[p][c].members \cup others
      /\ \A d \in DOMAIN conversation[p] \ {c} : conversation'[p][d] = conversation[p][d]
      /\ \A q \in Owner \ {p} : conversation'[q] = conversation[q]
      /\ DOMAIN conversation' = Owner
  BY <1>1, <1>2, AddFacts
<1>5. Slices' /\ \A q \in Owner \ {p} : Same(q)
  BY <1>1, <1>2, <1>4 DEF Slices, Same
<1>6. \A d : /\ Filing(p, d)' <=> Filing(p, d)
             /\ ~Opening(p, d) /\ ~Opening(p, d)' /\ ~Renaming(p, d)
             /\ Renaming(p, d)' <=> d = c
  BY <1>1, <1>2, <1>3 DEF Filing, Opening, Renaming
<1>7. /\ \A d \in DOMAIN conversation[p] : People(p, d) \subseteq People(p, d)'
      /\ screen[p].hash \subseteq People(p, c)'
  <2>1. \A d \in DOMAIN conversation[p] : People(p, d) \subseteq People(p, d)'
    BY <1>2, <1>4, <1>6 DEF People
  <2>2. others \subseteq People(p, c)'
    BY <1>4 DEF People
  <2>3. screen[p].hash \subseteq People(p, c) \cup others
    BY <1>0, <1>1 DEF PhoneInv, ScreenInv
  <2>. QED  BY <1>1, <2>1, <2>2, <2>3
<1>8. PhoneOK(p)'
  BY <1>1, <1>2, <1>3, <1>4 DEF PhoneInv, PhoneOK, Conversation, Screen, AtHome, Work
<1>9. InboxInv(p)'
  <2>1. InboxInv(p)
    BY <1>1 DEF PhoneInv
  <2>. QED  BY <1>2, <1>4, <1>7, <2>1 DEF InboxInv
<1>10. ScreenInv(p)'
  BY <1>1, <1>3, <1>4, <1>7 DEF ScreenInv
<1>11. FiledInv(p)'
  <2>1. FiledInv(p)
    BY <1>1 DEF PhoneInv
  <2>2. \A d \in DOMAIN conversation[p] : conversation'[p][d].hash = conversation[p][d].hash
    BY <1>4
  <2>. QED  BY <1>2, <1>4, <1>7, <2>1, <2>2, FiledStays DEF FiledInv
<1>12. OneInv(p)'
  <2>. SUFFICES ASSUME muddled'[p] = {} PROVE OneInv(p)'
    BY DEF OneInv
  <2>1. OneInv(p) /\ muddled[p] = {}
    BY <1>1, <1>2 DEF PhoneInv
  <2>2. \A d, e \in DOMAIN conversation'[p] :
          conversation'[p][d].hash = conversation'[p][e].hash => d = e
    <3>1. \A d \in DOMAIN conversation[p] : conversation'[p][d].hash = conversation[p][d].hash
      BY <1>4
    <3>. QED  BY <1>4, <2>1, <3>1 DEF OneInv
  <2>. QED  BY <1>2, <1>4, <1>6, <2>1, <2>2 DEF OneInv
<1>. QED  BY <1>5, <1>8, <1>9, <1>10, <1>11, <1>12, OnePhone DEF PhoneInv

(* The conversation gets the hash of its members, as they were when the    *)
(* screen read them.                                                       *)
LEMMA RenameKeeps ==
  ASSUME PhonesInv, NEW p \in Owner, Rename(p)
  PROVE  PhonesInv'
<1>0. PICK c, hash : c = screen[p].in /\ hash = screen[p].hash
  OBVIOUS
<1>1. /\ PhoneInv(p) /\ Slices /\ screen[p].at = "rename"
      /\ c \in DOMAIN conversation[p] /\ hash \in SUBSET Phone
      /\ inbox[p] \in Seq(Work) /\ conversation[p] \in Seq(Conversation)
  BY <1>0, ScreenFacts DEF PhonesInv, Rename, PhoneInv, PhoneOK
<1>2. /\ conversation' = [conversation EXCEPT ![p] = [conversation[p] EXCEPT
                             ![c] = [conversation[p][c] EXCEPT !.hash = hash]]]
      /\ screen'[p] = AtHome /\ screen'[p].at = "home"
      /\ inbox'[p] = inbox[p] /\ filed'[p] = filed[p]
      /\ UNCHANGED <<inbox, filed>>
  BY <1>0, <1>1 DEF Rename, Slices, AtHome
<1>3. /\ conversation'[p] \in Seq(Conversation)
      /\ DOMAIN conversation'[p] = DOMAIN conversation[p]
      /\ conversation'[p][c].hash = hash
      /\ conversation'[p][c].members = conversation[p][c].members
      /\ \A d \in DOMAIN conversation[p] \ {c} : conversation'[p][d] = conversation[p][d]
      /\ \A q \in Owner \ {p} : conversation'[q] = conversation[q]
      /\ DOMAIN conversation' = Owner
  <2>. DEFINE e == [conversation[p][c] EXCEPT !.hash = hash]
  <2>1. conversation[p][c] \in Conversation
    BY <1>1
  <2>2. e \in Conversation /\ e.hash = hash /\ e.members = conversation[p][c].members
    BY <1>1, <2>1 DEF Conversation
  <2>3. conversation' = [conversation EXCEPT ![p] = [conversation[p] EXCEPT ![c] = e]]
    BY <1>2
  <2>. HIDE DEF e
  <2>. QED  BY <1>1, <2>2, <2>3, ReplaceFacts DEF Slices
<1>4. /\ DOMAIN muddled' = Owner /\ \A q \in Owner \ {p} : muddled'[q] = muddled[q]
      /\ muddled'[p] = {} => /\ muddled[p] = {} /\ WithHash(p, hash) \ {c} = {}
                              /\ hash = conversation[p][c].members
                              /\ ~(inbox[p] # <<>> /\ Head(inbox[p]).at = "members")
  BY <1>0, <1>1 DEF Rename, Slices
<1>5. Slices' /\ \A q \in Owner \ {p} : Same(q)
  BY <1>1, <1>2, <1>3, <1>4 DEF Slices, Same, Rename
<1>6. \A d : /\ Filing(p, d)' <=> Filing(p, d)
             /\ ~Opening(p, d) /\ ~Opening(p, d)' /\ ~Renaming(p, d)'
             /\ Renaming(p, d) <=> d = c
  BY <1>0, <1>1, <1>2 DEF Filing, Opening, Renaming
<1>7. \A d \in DOMAIN conversation[p] : People(p, d)' = People(p, d)
  BY <1>2, <1>3, <1>6 DEF People
<1>8. PhoneOK(p)'
  BY <1>1, <1>2, <1>3 DEF PhoneInv, PhoneOK, Conversation, Screen, AtHome, Work
<1>9. InboxInv(p)'
  <2>1. InboxInv(p)
    BY <1>1 DEF PhoneInv
  <2>. QED  BY <1>2, <1>3, <1>7, <2>1 DEF InboxInv
<1>10. ScreenInv(p)'
  BY <1>2 DEF ScreenInv
<1>11. FiledInv(p)'
  <2>1. FiledInv(p) /\ hash \subseteq People(p, c)
    BY <1>0, <1>1 DEF PhoneInv, ScreenInv
  <2>2. \A d \in DOMAIN conversation'[p] : conversation'[p][d].hash \subseteq People(p, d)'
    BY <1>1, <1>3, <1>7, <2>1 DEF FiledInv
  <2>. QED  BY <1>2, <1>3, <1>7, <2>1, <2>2, FiledStays
<1>12. OneInv(p)'
  <2>. SUFFICES ASSUME muddled'[p] = {} PROVE OneInv(p)'
    BY DEF OneInv
  <2>1. OneInv(p) /\ muddled[p] = {} /\ hash = conversation[p][c].members
    BY <1>1, <1>4 DEF PhoneInv
  <2>2. \A d : ~Filing(p, d)
    <3>1. 1 \in DOMAIN inbox[p] => inbox[p] # <<>>
      OBVIOUS
    <3>. QED  BY <1>1, <1>4, <3>1, TailFacts DEF Filing
  <2>3. \A d \in DOMAIN conversation[p] \ {c} : conversation[p][d].hash # hash
    BY <1>4 DEF WithHash
  <2>4. \A d, e \in DOMAIN conversation'[p] :
          conversation'[p][d].hash = conversation'[p][e].hash => d = e
    BY <1>3, <2>1, <2>3 DEF OneInv
  <2>. QED  BY <1>2, <1>3, <1>6, <2>1, <2>2, <2>4 DEF OneInv
<1>. QED  BY <1>5, <1>8, <1>9, <1>10, <1>11, <1>12, OnePhone DEF PhoneInv

-----------------------------------------------------------------------------
(* What a phone does.                                                      *)
LEMMA PhoneStepKeeps ==
  ASSUME PhonesInv, NEW p \in Owner, PhoneStep(p)
  PROVE  PhonesInv'
BY FileMessageKeeps, OpenKeeps, FindOpenedKeeps, CreateOpenedKeeps, AddOpenedKeeps, InviteKeeps,
   AddInvitedKeeps, RenameKeeps DEF PhoneStep

(* What the others do.                                                     *)
LEMMA PhonesElsewhere ==
  ASSUME PhonesInv, UNCHANGED phones
  PROVE  PhonesInv'
<1>1. Slices' /\ \A p \in Owner : Same(p)
  BY DEF phones, PhonesInv, Slices, Same
<1>. QED  BY <1>1, SameKeeps DEF PhonesInv

(* Texts are between phones, on the server and on their way.               *)
Addressed ==
  /\ \A t \in Thread : Api(t) = "txtMsg" => job[t].from \in Phone /\ job[t].to \subseteq Phone
  /\ \A m \in mqtt : m.topic = "txtMsg" => m.peers \subseteq Phone

(* The other services send no texts.                                       *)
LEMMA AddressedElsewhere ==
  ASSUME BytesInv, Addressed, Elsewhere, \A m \in mqtt' : m \in mqtt \/ m.topic # "txtMsg"
  PROVE  Addressed'
<1>1. \A t \in Thread : job'[t] = job[t] \/ (NotText(job[t]) /\ NotText(job'[t]))
  BY DEF Elsewhere, BytesInv, JobsOK
<1>. QED  BY <1>1 DEF Addressed, Api, NotText

(* Accounts have no messages at all.                                       *)
LEMMA AccountSilent == Account => mqtt' = mqtt
BY DEF Account, BeginRegister, BeginUpdate, BeginOther, AccountStep, FindNumber, CheckExist,
       ReadField, CompareField, WriteField, Throw, EndWrites, Delete

(* Conferences have their own.                                             *)
LEMMA ConferringSilent ==
  ASSUME Conferring, NEW m \in mqtt'
  PROVE  m \in mqtt \/ m.topic # "txtMsg"
<1>1. ASSUME NEW t \in Thread, TellMember(t)
      PROVE  m \in mqtt \/ m.topic # "txtMsg"
  <2>1. PICK to, topic, people, id : topic # "txtMsg" /\ Publish(to, topic, people, id)
    <3>1. (IF Api(t) = "ccDial" THEN "ccNewJoin" ELSE "ccCallDrop") # "txtMsg"
      OBVIOUS
    <3>. QED  BY <1>1, <3>1 DEF TellMember
  <2>. QED  BY <2>1 DEF Publish
<1>2. \/ \E t \in Thread : TellMember(t)
      \/ mqtt' \subseteq mqtt
  BY DEF Conferring, Start, HangUp, Engage, Disengage, TakeRequest, ConferenceStep, ReadMembers, AddMember,
         RemoveMember, AnswerPhone, JoinedArrives, StopArrives, LosePacket, NewsArrives, servlets
<1>. QED  BY <1>1, <1>2

(* A text is sent to phones.                                               *)
LEMMA AddressedText ==
  ASSUME BytesInv, Addressed, Text
  PROVE  Addressed'
<1>1. ASSUME NEW t \in Thread, NEW r, job' = [job EXCEPT ![t] = r],
             r.api = "txtMsg" => r.from \in Phone /\ r.to \subseteq Phone,
             \A m \in mqtt' : m \in mqtt \/ m.peers \subseteq Phone
      PROVE  Addressed'
  <2>1. \A u \in Thread : job'[u] = IF u = t THEN r ELSE job[u]
    BY <1>1 DEF BytesInv, JobsOK
  <2>. QED  BY <1>1, <2>1 DEF Addressed, Api
<1>2. ASSUME NEW t \in Thread, NEW from \in Phone, NEW to \in Groups, NEW length \in MessageBytes,
             BeginText(t, from, to, length)
      PROVE  Addressed'
  <2>. DEFINE r == [api |-> "txtMsg", id |-> requests, from |-> from, to |-> to,
                    unsent |-> to, uncounted |-> {<<from, "SEND">>} \cup (to \X {"RECEIVE"}),
                    row |-> {}, total |-> 0, length |-> length]
  <2>1. job' = [job EXCEPT ![t] = r] /\ mqtt' = mqtt
    BY <1>2 DEF BeginText, Begin
  <2>2. r.from \in Phone /\ r.to \subseteq Phone
    BY ServicesAssumption
  <2>. HIDE DEF r
  <2>. QED  BY <1>1, <2>1, <2>2
<1>3. ASSUME NEW t \in Thread, TextStep(t)
      PROVE  Addressed'
  <2>1. /\ Api(t) = "txtMsg" /\ TextJob(job[t])
        /\ job[t].from \in Phone /\ job[t].to \subseteq Phone
    BY <1>3 DEF TextStep, PublishText, ReadBytes, WriteBytes, EndText, BytesInv, JobsOK, NotText,
                Api, Addressed
  <2>2. CASE PublishText(t)
    <3>. DEFINE r(to) == [job[t] EXCEPT !.unsent = @ \ {to}]
    <3>1. PICK to : /\ job' = [job EXCEPT ![t] = r(to)]
                    /\ Publish(to, "txtMsg", job[t].to \cup {job[t].from}, job[t].id)
      BY <2>2 DEF PublishText, Goon
    <3>2. r(to).from = job[t].from /\ r(to).to = job[t].to
      BY <2>1 DEF TextJob, TextFields
    <3>3. \A m \in mqtt' : m \in mqtt \/ m.peers \subseteq Phone
      BY <2>1, <3>1 DEF Publish
    <3>. HIDE DEF r
    <3>. QED  BY <1>1, <2>1, <3>1, <3>2, <3>3
  <2>3. CASE ReadBytes(t)
    <3>. DEFINE r(c) == [job[t] EXCEPT !.row = {c}, !.total = bytes[c], !.uncounted = @ \ {c}]
    <3>1. PICK c : job' = [job EXCEPT ![t] = r(c)] /\ mqtt' = mqtt
      BY <2>3 DEF ReadBytes, Goon
    <3>2. r(c).from = job[t].from /\ r(c).to = job[t].to
      BY <2>1 DEF TextJob, TextFields
    <3>. HIDE DEF r
    <3>. QED  BY <1>1, <2>1, <3>1, <3>2
  <2>4. CASE WriteBytes(t)
    <3>. DEFINE r == [job[t] EXCEPT !.row = {}]
    <3>1. job' = [job EXCEPT ![t] = r] /\ mqtt' = mqtt
      BY <2>4 DEF WriteBytes, Goon
    <3>2. r.from = job[t].from /\ r.to = job[t].to
      BY <2>1 DEF TextJob, TextFields
    <3>. HIDE DEF r
    <3>. QED  BY <1>1, <2>1, <3>1, <3>2
  <2>5. CASE EndText(t)
    <3>1. job' = [job EXCEPT ![t] = Idle] /\ mqtt' = mqtt /\ Idle.api # "txtMsg"
      BY <2>5 DEF EndText, Answer, Goon, Idle
    <3>. QED  BY <1>1, <3>1
  <2>. QED  BY <1>3, <2>2, <2>3, <2>4, <2>5 DEF TextStep
<1>. QED  BY <1>2, <1>3 DEF Text

-----------------------------------------------------------------------------
(* The texts, the threads at them and the phones they arrive at.           *)
MailInv == BytesInv /\ Addressed /\ PhonesInv

(* Before the first text there is no conversation.                         *)
LEMMA MailStart == Init => MailInv
<1>. SUFFICES ASSUME Init PROVE MailInv
  OBVIOUS
<1>1. Addressed
  BY DEF Init, ServletsInit, Addressed, Api, Idle
<1>2. Slices
  BY DEF Init, ConversationsInit, Slices
<1>3. ASSUME NEW p \in Owner PROVE PhoneInv(p)
  <2>1. conversation[p] = <<>> /\ inbox[p] = <<>> /\ screen[p] = AtHome /\ filed[p] = {}
    BY <1>3 DEF Init, ConversationsInit
  <2>2. screen[p].at = "home" /\ DOMAIN conversation[p] = {} /\ DOMAIN inbox[p] = {}
    BY <2>1 DEF AtHome
  <2>3. PhoneOK(p)
    BY <2>1 DEF PhoneOK, Screen
  <2>. QED  BY <2>1, <2>2, <2>3 DEF PhoneInv, InboxInv, ScreenInv, FiledInv, OneInv
<1>. QED  BY <1>1, <1>2, <1>3, BytesStart DEF MailInv, PhonesInv

(* Over all the services.                                                  *)
LEMMA MailStep == MailInv /\ [Next]_vars => MailInv'
<1>. SUFFICES ASSUME BytesInv, Addressed, PhonesInv, [Next]_vars PROVE MailInv'
  BY DEF MailInv
<1>1. BytesInv'
  BY BytesStep
<1>2. CASE Account
  <2>1. UNCHANGED phones
    BY <1>2 DEF Account
  <2>. QED  BY <1>1, <1>2, <2>1, AccountElsewhere, AccountSilent, AddressedElsewhere, PhonesElsewhere
            DEF MailInv
<1>3. CASE Text
  <2>1. UNCHANGED phones
    BY <1>3 DEF Text
  <2>. QED  BY <1>1, <1>3, <2>1, AddressedText, PhonesElsewhere DEF MailInv
<1>4. CASE OnPhone
  <2>1. \A m \in mqtt' : m \in mqtt
    BY <1>4 DEF OnPhone, TextArrives, PhoneStep, FileMessage, OpenConversation, FindOpened, CreateOpened,
                AddOpenedMember, Invite, AddInvited, Rename, servlets
  <2>2. Addressed'
    BY <1>4, <2>1, OnPhoneElsewhere, AddressedElsewhere
  <2>3. ASSUME NEW m \in mqtt, TextArrives(m) PROVE PhonesInv'
    BY <2>3, TextArrivesKeeps DEF Addressed, TextArrives
  <2>. QED  BY <1>1, <1>4, <2>2, <2>3, PhoneStepKeeps DEF OnPhone, MailInv
<1>5. CASE Conferring
  <2>1. UNCHANGED phones
    BY <1>5 DEF Conferring
  <2>. QED  BY <1>1, <1>5, <2>1, ConferringElsewhere, ConferringSilent, AddressedElsewhere,
               PhonesElsewhere DEF MailInv
<1>6. CASE Lost
  <2>1. UNCHANGED phones /\ \A m \in mqtt' : m \in mqtt
    BY <1>6 DEF Lost, Lose
  <2>. QED  BY <1>1, <1>6, <2>1, LostElsewhere, AddressedElsewhere, PhonesElsewhere DEF MailInv
<1>7. CASE UNCHANGED vars
  <2>1. UNCHANGED phones /\ Elsewhere /\ mqtt' = mqtt
    BY <1>7 DEF vars, servlets, Elsewhere
  <2>. QED  BY <1>1, <2>1, AddressedElsewhere, PhonesElsewhere DEF MailInv
<1>. QED  BY <1>2, <1>3, <1>4, <1>5, <1>6, <1>7 DEF Next

(* Nothing more is coming to a conversation when the phone is done.        *)
LEMMA DoneFacts ==
  ASSUME NEW p, screen[p] = AtHome, inbox[p] = <<>>
  PROVE  \A c : ~Filing(p, c) /\ ~Opening(p, c) /\ ~Renaming(p, c)
                /\ People(p, c) = conversation[p][c].members
BY DEF AtHome, Filing, Opening, Renaming, People

(* When a phone is done, every message is in a conversation that has       *)
(* everybody it was from and to, whatever the service and the screens did  *)
(* to the conversations meanwhile.                                         *)
THEOREM FiledAmongPeople == Spec => []FiledAmongItsPeople
<1>1. MailInv => FiledAmongItsPeople
  BY DoneFacts DEF MailInv, PhonesInv, PhoneInv, FiledInv, FiledAmongItsPeople
<1>. QED  BY <1>1, MailStart, MailStep, PTL DEF Spec

(* When a phone is done, and neither made a conversation twice nor made    *)
(* one the same as another or while its members were being added, the      *)
(* messages of the same people are in one conversation, which has them for *)
(* its members.                                                            *)
THEOREM ConversationsAreOne == Spec => []OneConversation
<1>1. MailInv => OneConversation
  BY DoneFacts DEF MailInv, PhonesInv, PhoneInv, OneInv, OneConversation
<1>. QED  BY <1>1, MailStart, MailStep, PTL DEF Spec

=============================================================================
