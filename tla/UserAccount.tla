---------------------------- MODULE UserAccount ----------------------------
(***************************************************************************)
(* The accounts of the server (UserController, UserApiServiceImpl):        *)
(* registration writes the fields of an account one by one, and every      *)
(* other request checks the account, field by field, before it changes it. *)
(*                                                                         *)
(* A field's value is the person who wrote it. All but the status are      *)
(* stored encrypted, under a key that the threads set for themselves in    *)
(* one static place (AES): where two of them are at it at once, the key    *)
(* of either may be the right one, another or none. The requests of the    *)
(* other services check accounts too, and stand beside these as one that   *)
(* is refused does. Nobody writes a status but "enable", so that its check *)
(* never fails and is left out; the app sends no empty password, which a   *)
(* missing one would match.                                                *)
(***************************************************************************)
EXTENDS Servlets, SequencesExt

CONSTANTS
  Person, Number, Nobody,
  OwnFields,     \* name, email, address, password: in the order of register
  CardFields     \* creditcard.number, .expiredate, .validationcode: likewise

Fields == OwnFields \o CardFields \o <<"status">>

ASSUME AccountAssumption ==
  /\ Nobody \notin Person
  /\ OwnFields \in Seq(STRING) /\ "password" \in ToSet(OwnFields)
  /\ CardFields \in Seq(STRING) /\ CardFields # <<>>
  /\ "exist" \notin ToSet(Fields)

VARIABLES
  user,      \* user:<number>.<field>, or Nobody
  told,      \* history: the number was the answer to these people
  spoilt,    \* history: what happened to the number, see AccountsWhole
  garbled,   \* the fields that are encrypted under another key
  clashed    \* threads that share the key with one that was at it meanwhile

accounts == <<user, told, spoilt, garbled, clashed>>

Exists(n) == \E f \in ToSet(Fields) : user[n][f] # Nobody

AccountApi == {"register", "updateUser", "changePassword", "resetPassword", "deleteUser"}

AccountsInit ==
  /\ user = [n \in Number |-> [f \in ToSet(Fields) |-> Nobody]]
  /\ told = [n \in Number |-> {}]
  /\ spoilt = [n \in Number |-> {}]
  /\ garbled = {}
  /\ clashed = {}

-----------------------------------------------------------------------------
(* number: none before a free one has been found. seen: what the check     *)
(* under way has read, to be decrypted and compared. whole: no field of    *)
(* the request is null.                                                    *)
Request(api, n, who, checks, writes, whole) ==
  [api |-> api, number |-> n, who |-> who, checks |-> checks, seen |-> "nothing",
   writes |-> writes, whole |-> whole]

Login == <<"exist", "exist", "password">>

(* The request has k fields before the first that is null.                 *)
BeginRegister(t, who, k) ==
  /\ Begin(t, Request("register", {}, who, <<>>, SubSeq(Fields, 1, k), k = Len(Fields)))
  /\ UNCHANGED <<mqtt, accounts>>

(* given: the fields that are neither null nor empty, in the order of the  *)
(* code; the others are left as they are. A request without a card throws  *)
(* after the own fields, which comes to the same.                          *)
BeginUpdate(t, n, who, given) ==
  /\ who \in told[n]
  /\ Begin(t, Request("updateUser", {n}, who, Login \o <<"exist">>, given, TRUE))
  /\ UNCHANGED <<mqtt, accounts>>

BeginOther(t, api, n, who) ==
  /\ who \in told[n]
  /\ \/ /\ api = "changePassword"
        /\ Begin(t, Request(api, {n}, who, Login \o <<"exist">>, <<"password">>, TRUE))
     \/ /\ api = "resetPassword"
        /\ Begin(t, Request(api, {n}, who, <<"exist">> \o CardFields \o <<"exist">>,
                            <<"password">>, TRUE))
     \/ /\ api = "deleteUser"
        /\ Begin(t, Request(api, {n}, who, Login \o <<"exist">>, <<>>, TRUE))
  /\ UNCHANGED <<mqtt, accounts>>

-----------------------------------------------------------------------------
(* Threads that know n, and have read in it what anybody's account would  *)
(* not have.                                                               *)
WorkersOn(n) == {t \in Thread : /\ Api(t) \in AccountApi
                                /\ job[t].number = {n}
                                /\ job[t].checks \in {<<>>, <<"exist">>}
                                /\ job[t].seen # "another's"}

Spoil(n, what, happened) ==
  spoilt' = [spoilt EXCEPT ![n] = @ \cup IF happened THEN {what} ELSE {}]

(* Past its checks, at a number.                                           *)
Ready(t) ==
  /\ Api(t) \in AccountApi
  /\ job[t].number # {}
  /\ job[t].checks = <<>>
  /\ job[t].seen = "nothing"

(* Threads whose next step has them set the key and use it. What follows   *)
(* the fields of a registration that is not whole is null, and the key is  *)
(* set before that is found.                                               *)
AtKey == {t \in Thread :
            /\ Api(t) \in AccountApi
            /\ \/ job[t].seen # "nothing"
               \/ Ready(t) /\ IF job[t].writes = <<>> THEN ~job[t].whole
                              ELSE Head(job[t].writes) # "status"}

(* t uses the key: those that are at it too may find it changed.           *)
Shares(t) == t \in AtKey /\ (t \in clashed \/ AtKey # {t})
UseKey(t) == clashed' = (IF t \in AtKey THEN clashed \cup AtKey ELSE clashed) \ {t}

-----------------------------------------------------------------------------
(* Mutant: the number is taken as it comes.                                *)
FindNumber_Any(t) ==
  /\ Api(t) = "register"
  /\ job[t].number = {}
  /\ \E n \in Number :
       /\ Goon(t, [job[t] EXCEPT !.number = {n}])
       /\ Spoil(n, "taken twice", WorkersOn(n) # {})
  /\ UNCHANGED <<mqtt, user, told, garbled, clashed>>

(* register: random numbers until one is not there. Another registration   *)
(* may have found it as well and not have written yet.                     *)
FindNumber(t) ==
  /\ Api(t) = "register"
  /\ job[t].number = {}
  /\ \E n \in Number :
       /\ ~Exists(n)
       /\ Goon(t, [job[t] EXCEPT !.number = {n}])
       /\ Spoil(n, "taken twice", WorkersOn(n) # {})
  /\ UNCHANGED <<mqtt, user, told, garbled, clashed>>

(* A check that fails answers the request.                                 *)
CheckExist(t) ==
  /\ Api(t) \in AccountApi
  /\ job[t].seen = "nothing"
  /\ job[t].checks # <<>>
  /\ Head(job[t].checks) = "exist"
  /\ \E n \in job[t].number :
       IF Exists(n) THEN Goon(t, [job[t] EXCEPT !.checks = Tail(@)]) ELSE Answer(t)
  /\ UNCHANGED <<mqtt, accounts>>

(* A field is read ...                                                     *)
ReadField(t) ==
  /\ Api(t) \in AccountApi
  /\ job[t].seen = "nothing"
  /\ job[t].checks # <<>>
  /\ Head(job[t].checks) # "exist"
  /\ \E n \in job[t].number :
       LET f == Head(job[t].checks)
       IN  Goon(t, [job[t] EXCEPT !.checks = Tail(@),
                !.seen = IF user[n][f] # job[t].who THEN "another's"
                         ELSE IF <<n, f>> \in garbled THEN "garbled" ELSE "own"])
  /\ UNCHANGED <<mqtt, accounts>>

(* ... decrypted, and compared: with the same wrong key it may be right.   *)
CompareField(t) ==
  /\ Api(t) \in AccountApi
  /\ job[t].seen # "nothing"
  /\ \/ /\ job[t].seen = "own" \/ (job[t].seen = "garbled" /\ Shares(t))
        /\ Goon(t, [job[t] EXCEPT !.seen = "nothing"])
     \/ /\ job[t].seen # "own" \/ Shares(t)
        /\ Answer(t)
  /\ UseKey(t)
  /\ UNCHANGED <<mqtt, user, told, spoilt, garbled>>

(* The field is encrypted under the right key, or under another.           *)
WriteField(t) ==
  /\ Ready(t)
  /\ job[t].writes # <<>>
  /\ \E n \in job[t].number, wrong \in {FALSE, Shares(t)} :
       LET f == Head(job[t].writes)
       IN  /\ user' = [user EXCEPT ![n][f] = job[t].who]
           /\ garbled' = IF wrong THEN garbled \cup {<<n, f>>} ELSE garbled \ {<<n, f>>}
           /\ Spoil(n, "key shared", wrong)
  /\ Goon(t, [job[t] EXCEPT !.writes = Tail(@)])
  /\ UseKey(t)
  /\ UNCHANGED <<mqtt, told>>

(* A null field, or a key that is none, throws, and the request is         *)
(* refused; of a registration's account nobody learns.                     *)
Throw(t) ==
  /\ Ready(t)
  /\ Shares(t) \/ (job[t].writes = <<>> /\ ~job[t].whole)
  /\ \E n \in job[t].number : Spoil(n, "cut short", Api(t) = "register" /\ Exists(n))
  /\ Answer(t)
  /\ UseKey(t)
  /\ UNCHANGED <<mqtt, user, told, garbled>>

(* The number is the answer to a registration.                             *)
EndWrites(t) ==
  /\ Ready(t)
  /\ Api(t) # "deleteUser"
  /\ job[t].writes = <<>>
  /\ job[t].whole
  /\ \E n \in job[t].number :
       told' = IF Api(t) = "register" THEN [told EXCEPT ![n] = @ \cup {job[t].who}] ELSE told
  /\ Answer(t)
  /\ UNCHANGED <<mqtt, user, spoilt, garbled, clashed>>

(* Another thread may be past its checks, and write what it has after      *)
(* this, if only to the account of the next owner of the number.           *)
Delete(t) ==
  /\ Ready(t)
  /\ Api(t) = "deleteUser"
  /\ \E n \in job[t].number :
       /\ user' = [user EXCEPT ![n] = [f \in ToSet(Fields) |-> Nobody]]
       /\ garbled' = garbled \ ({n} \X ToSet(Fields))
       /\ told' = [told EXCEPT ![n] = {}]
       /\ Spoil(n, "written after", WorkersOn(n) # {t})
  /\ Answer(t)
  /\ UNCHANGED <<mqtt, clashed>>

AccountStep(t) ==
  \/ FindNumber(t) \/ CheckExist(t) \/ ReadField(t) \/ CompareField(t)
  \/ WriteField(t) \/ Throw(t) \/ EndWrites(t) \/ Delete(t)

-----------------------------------------------------------------------------
(* An account that nobody is working on is whole and to be read, and       *)
(* belongs to the one person that was told its number, while the server    *)
(* and Redis run, but for four ways to spoil it: two registrations that    *)
(* found the number free at once (taken twice), one that was refused with  *)
(* fields written (cut short), a field encrypted under the key of two      *)
(* threads (key shared), and a deletion while another request was past     *)
(* what its checks read (written after).                                   *)
AccountsWhole ==
  \A n \in Number :
    Exists(n) /\ WorkersOn(n) = {} /\ spoilt[n] = {} =>
      \E who \in Person : /\ told[n] = {who}
                          /\ \A f \in ToSet(Fields) :
                               user[n][f] = who /\ <<n, f>> \notin garbled

=============================================================================
