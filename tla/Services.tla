------------------------------ MODULE Services ------------------------------
(***************************************************************************)
(* The services of TinyTalk beside the voice call, on the threads they     *)
(* share: accounts, text messages with the conversations of the phones     *)
(* they arrive at, and conference calls.                                   *)
(***************************************************************************)
EXTENDS UserAccount, TextMessaging, Conversations, Conference

CONSTANTS
  Menu,   \* bound: a behaviour has requests of one service, and so many
  Cuts,   \* bound: how many fields of a registration come before one that is null
  Groups  \* bound: the sets of receivers of a text

ASSUME ServicesAssumption ==
  /\ \A service \in DOMAIN Menu : Menu[service] \in Nat
  /\ Cuts \subseteq 0 .. Len(Fields) - 2
  /\ Groups \subseteq SUBSET Phone

VARIABLE asked  \* bound: the service of Menu that this behaviour has

vars == <<servlets, accounts, texts, phones, meeting, asked>>

TypeOK ==
  /\ \A t \in Thread : \/ job[t] = Idle
                       \/ Api(t) \in AccountApi /\ ToSet(job[t].writes) \subseteq ToSet(Fields)
                       \/ Api(t) = "txtMsg" /\ job[t].uncounted \cup job[t].row \subseteq Counter
                       \/ Api(t) \in CcApi /\ job[t].untold \cup job[t].ips \subseteq Phone
  /\ requests \in 0 .. Menu[asked]
  /\ \A m \in mqtt : /\ m.to \in Phone
                     /\ m.topic \in {"txtMsg", "ccNewJoin", "ccCallDrop"}
                     /\ m.peers \subseteq Phone
                     /\ m.id \in 1 .. Menu[asked]
  /\ user \in [Number -> [ToSet(Fields) -> Person \cup {Nobody}]]
  /\ told \in [Number -> SUBSET Person]
  /\ garbled \subseteq Number \X ToSet(Fields)
  /\ clashed \subseteq Thread
  /\ bytes \in [Counter -> Nat]
  /\ \A p \in Owner : \A c \in DOMAIN conversation[p] :
       conversation[p][c].hash \cup conversation[p][c].members \subseteq Phone
  /\ \A p \in Owner : \A f \in filed[p] :
       f[1] \subseteq Phone \ {p} /\ f[2] \in DOMAIN conversation[p]
  /\ joined \cup conference \cup engaged \subseteq Phone
  /\ peers \in [Phone -> SUBSET Phone]

Init ==
  /\ ServletsInit
  /\ AccountsInit
  /\ TextsInit
  /\ ConversationsInit
  /\ ConferenceInit
  /\ asked \in DOMAIN Menu
  /\ requests = Menu[asked]

-----------------------------------------------------------------------------
(* The updates are of one field, of those without a card, or of all.       *)
Account ==
  /\ \/ asked = "accounts" /\ \E t \in Thread, who \in Person :
          \/ \E k \in Cuts \cup {Len(Fields)} : BeginRegister(t, who, k)
          \/ \E n \in Number :
               \/ \E given \in {<<Head(OwnFields)>>, OwnFields, OwnFields \o CardFields} :
                    BeginUpdate(t, n, who, given)
               \/ \E api \in AccountApi : BeginOther(t, api, n, who)
     \/ \E t \in Thread : AccountStep(t)
  /\ UNCHANGED <<texts, phones, meeting, asked>>

(* The phones are followed for texts that come one after the other.        *)
Text ==
  /\ \/ /\ asked \in {"texts", "mail"}
        /\ asked = "mail" => \A t \in Thread : job[t] = Idle
        /\ \E t \in Thread, from \in Phone, to \in Groups, length \in MessageBytes :
             BeginText(t, from, to, length)
     \/ \E t \in Thread : TextStep(t)
  /\ UNCHANGED <<accounts, phones, meeting, asked>>

OnPhone ==
  /\ asked = "mail"
  /\ (\E m \in mqtt : TextArrives(m)) \/ (\E p \in Owner : PhoneStep(p))
  /\ UNCHANGED <<accounts, texts, meeting, asked>>

Conferring ==
  /\ \/ asked = "conference" /\ \E p \in Phone : Start(p) \/ HangUp(p) \/ Engage(p)
     \/ \E p \in Phone : Disengage(p)
     \/ \E t \in Thread : ConferenceStep(t) \/ \E m \in http : TakeRequest(t, m)
     \/ \E m \in http : JoinedArrives(m) \/ StopArrives(m) \/ LosePacket(m)
     \/ \E m \in mqtt : NewsArrives(m)
  /\ UNCHANGED <<accounts, texts, phones, asked>>

Lost ==
  /\ asked # "texts"
  /\ \E m \in mqtt : Lose(m) /\ Upset("lost", m.topic # "txtMsg")
  /\ UNCHANGED <<accounts, texts, phones, joined, conference, engaged, peers, http, asked>>

Next == Account \/ Text \/ OnPhone \/ Conferring \/ Lost

Spec == Init /\ [][Next]_vars

=============================================================================
