--------------------------- MODULE Conversations ---------------------------
(***************************************************************************)
(* The conversations in a phone's database: TextMessagingService files an  *)
(* incoming message under the conversation of its participants, and the    *)
(* screens open a conversation or invite contacts to it, on another        *)
(* thread. A conversation is found by the hash of its numbers (hashCode),  *)
(* beside the members that it has in a table of their own. The operations  *)
(* of the database are the steps.                                          *)
(***************************************************************************)
EXTENDS Servlets

CONSTANTS
  Owner,         \* the phones whose databases are followed
  MaxClicks      \* bound: what their users do

VARIABLES
  conversation,  \* the tables Conversation and ConversationMember, by id
  inbox,         \* work of the service, with the message it is on
  screen,        \* what the main thread is at
  filed,         \* ConversationMessage: whose messages are in which conversation
  clicks,        \* bound
  muddled        \* history: what happened to a phone, see OneConversation

phones == <<conversation, inbox, screen, filed, clicks, muddled>>

AtHome == [at |-> "home"]

ConversationsInit ==
  /\ conversation = [p \in Owner |-> <<>>]
  /\ inbox = [p \in Owner |-> <<>>]
  /\ screen = [p \in Owner |-> AtHome]
  /\ filed = [p \in Owner |-> {}]
  /\ clicks = 0
  /\ muddled = [p \in Owner |-> {}]

(* getConversation counts the conversations with a hash, and reads the     *)
(* first of them if there is exactly one: two queries.                     *)
WithHash(p, numbers) == {c \in DOMAIN conversation[p] : conversation[p][c].hash = numbers}
Counted(p, numbers) == IF Cardinality(WithHash(p, numbers)) = 1 THEN "first" ELSE "create"

Create(p, numbers) ==
  conversation' = [conversation EXCEPT ![p] = Append(@, [hash |-> numbers, members |-> {}])]

(* Mutant: who was there before is no longer a member.                     *)
AddMembers_Anew(p, c, numbers) ==
  conversation' = [conversation EXCEPT ![p][c].members = numbers]

AddMembers(p, c, numbers) ==
  conversation' = [conversation EXCEPT ![p][c].members = @ \cup numbers]

Muddle(p, what, happened) ==
  muddled' = IF happened THEN [muddled EXCEPT ![p] = @ \cup {what}] ELSE muddled

-----------------------------------------------------------------------------
(* Mutant: the phone's own number is not taken out.                        *)
TextArrives_Own(m) ==
  /\ m \in mqtt
  /\ m.topic = "txtMsg"
  /\ m.to \in Owner
  /\ mqtt' = mqtt \ {m}
  /\ inbox' = [inbox EXCEPT ![m.to] =
       Append(@, [others |-> m.peers, at |-> "lookup", in |-> {}])]
  /\ UNCHANGED <<job, requests, conversation, screen, filed, clicks, muddled>>

(* MqttClientService queues the message for the service.                   *)
TextArrives(m) ==
  /\ m \in mqtt
  /\ m.topic = "txtMsg"
  /\ m.to \in Owner
  /\ mqtt' = mqtt \ {m}
  /\ inbox' = [inbox EXCEPT ![m.to] =
       Append(@, [others |-> m.peers \ {m.to}, at |-> "lookup", in |-> {}])]
  /\ UNCHANGED <<job, requests, conversation, screen, filed, clicks, muddled>>

(* handleIncomingMessage: the conversation is looked up, created with its  *)
(* members where it is missing, and gets the message. The members are      *)
(* added in one step: only an invitation reads them in between, and then   *)
(* the conversation is half made whichever of them it saw.                 *)
FileMessage(p) ==
  /\ inbox[p] # <<>>
  /\ LET m == Head(inbox[p])
         next(at, in) == inbox' = [inbox EXCEPT ![p][1].at = at, ![p][1].in = in]
     IN  \/ /\ m.at = "lookup"
            /\ next(Counted(p, m.others), {})
            /\ UNCHANGED <<conversation, filed, muddled>>
         \/ /\ m.at = "first"
            /\ \/ WithHash(p, m.others) = {} /\ next("create", {})
               \/ \E c \in WithHash(p, m.others) : next("store", {c})
            /\ UNCHANGED <<conversation, filed, muddled>>
         \/ /\ m.at = "create"
            /\ Create(p, m.others)
            /\ next("members", {Len(conversation[p]) + 1})
            /\ Muddle(p, "made twice", WithHash(p, m.others) # {})
            /\ UNCHANGED filed
         \/ /\ m.at = "members"
            /\ \E c \in m.in : AddMembers(p, c, m.others)
            /\ next("store", m.in)
            /\ UNCHANGED <<filed, muddled>>
         \/ /\ m.at = "store"
            /\ filed' = [filed EXCEPT ![p] = @ \cup ({m.others} \X m.in)]
            /\ inbox' = [inbox EXCEPT ![p] = Tail(@)]
            /\ UNCHANGED <<conversation, muddled>>
  /\ UNCHANGED <<servlets, screen, clicks>>

-----------------------------------------------------------------------------
Click(p) == clicks < MaxClicks /\ clicks' = clicks + 1

(* onContactMessage, onItemClick: the conversation with one contact, who   *)
(* may be the phone's own.                                                 *)
OpenConversation(p, contact) ==
  /\ screen[p] = AtHome
  /\ Click(p)
  /\ screen' = [screen EXCEPT ![p] = [at |-> Counted(p, {contact}), others |-> {contact}]]
  /\ UNCHANGED <<servlets, conversation, inbox, filed, muddled>>

FindOpened(p) ==
  /\ screen[p].at = "first"
  /\ screen' = [screen EXCEPT ![p] =
       IF WithHash(p, @.others) = {} THEN [at |-> "create", others |-> @.others] ELSE AtHome]
  /\ UNCHANGED <<servlets, conversation, inbox, filed, clicks, muddled>>

CreateOpened(p) ==
  /\ screen[p].at = "create"
  /\ Create(p, screen[p].others)
  /\ screen' = [screen EXCEPT ![p] =
       [at |-> "members", others |-> @.others, in |-> Len(conversation[p]) + 1]]
  /\ Muddle(p, "made twice", WithHash(p, screen[p].others) # {})
  /\ UNCHANGED <<servlets, inbox, filed, clicks>>

AddOpenedMember(p) ==
  /\ screen[p].at = "members"
  /\ AddMembers(p, screen[p].in, screen[p].others)
  /\ screen' = [screen EXCEPT ![p] = AtHome]
  /\ UNCHANGED <<servlets, inbox, filed, clicks, muddled>>

(* inviteContacts: the members are read, the invited are added to them,    *)
(* and the conversation gets the hash of both. Those to choose from are    *)
(* shown earlier, without the phone's own number; some may be members by   *)
(* now, and nobody may be chosen.                                          *)
Invite(p, c, invited) ==
  /\ screen[p] = AtHome
  /\ Click(p)
  /\ screen' = [screen EXCEPT ![p] =
       [at |-> "invite", others |-> invited, in |-> c,
        hash |-> conversation[p][c].members \cup invited]]
  /\ UNCHANGED <<servlets, conversation, inbox, filed, muddled>>

AddInvited(p) ==
  /\ screen[p].at = "invite"
  /\ AddMembers(p, screen[p].in, screen[p].others)
  /\ screen' = [screen EXCEPT ![p].at = "rename"]
  /\ UNCHANGED <<servlets, inbox, filed, clicks, muddled>>

(* Mutant: the conversation is named after the invited only.               *)
Rename_InvitedOnly(p) ==
  /\ screen[p].at = "rename"
  /\ conversation' = [conversation EXCEPT ![p][screen[p].in].hash = screen[p].others]
  /\ screen' = [screen EXCEPT ![p] = AtHome]
  /\ UNCHANGED <<servlets, inbox, filed, clicks, muddled>>

Rename(p) ==
  /\ screen[p].at = "rename"
  /\ conversation' = [conversation EXCEPT ![p][screen[p].in].hash = screen[p].hash]
  /\ screen' = [screen EXCEPT ![p] = AtHome]
  /\ muddled' = [muddled EXCEPT ![p] = @
       \cup (IF WithHash(p, screen[p].hash) \ {screen[p].in} # {} THEN {"made the same"} ELSE {})
       \cup (IF screen[p].hash # conversation[p][screen[p].in].members
                \/ (inbox[p] # <<>> /\ Head(inbox[p]).at = "members")
             THEN {"half made"} ELSE {})]
  /\ UNCHANGED <<servlets, inbox, filed, clicks>>

PhoneStep(p) ==
  \/ FileMessage(p)
  \/ \E contact \in Phone : OpenConversation(p, contact)
  \/ FindOpened(p) \/ CreateOpened(p) \/ AddOpenedMember(p)
  \/ \E c \in DOMAIN conversation[p], invited \in SUBSET (Phone \ {p}) : Invite(p, c, invited)
  \/ AddInvited(p) \/ Rename(p)

-----------------------------------------------------------------------------
(* The messages of the same people are in one conversation, which has them *)
(* for its members, but for three ways to muddle a phone's conversations:  *)
(* the service and a screen both missed one and made it twice, an          *)
(* invitation made a conversation the same as another, or it named one     *)
(* whose members were being added. (Afterwards the conversation is never   *)
(* found again, and every message makes a new one.)                        *)
OneConversation ==
  \A p \in Owner : screen[p] = AtHome /\ inbox[p] = <<>> /\ muddled[p] = {} =>
    \A c, d \in DOMAIN conversation[p] :
      /\ conversation[p][c].hash = conversation[p][d].hash => c = d
      /\ conversation[p][c].hash = conversation[p][c].members

(* When the phone is done, a message is in a conversation that has         *)
(* everybody it was from and to, however invitations rename conversations  *)
(* while messages are filed.                                               *)
FiledAmongItsPeople ==
  \A p \in Owner : screen[p] = AtHome /\ inbox[p] = <<>> =>
    \A f \in filed[p] : f[1] \subseteq conversation[p][f[2]].members

=============================================================================
