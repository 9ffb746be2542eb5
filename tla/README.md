# TinyTalk in TLA+

TinyTalk is a telephone and text messaging service: an Android client
(`client/`) and a Java server (`server/`) with Redis behind it and an MQTT
broker beside it. These modules describe how calls are set up, run, ended and
billed, how a voice gets from one phone to the other, and the server's accounts,
text messages and conferences, and say what can and what cannot go wrong when the phones, the server's
threads and the network take their steps in any order.

## 1. The system

| part | state | operations | talks to |
|---|---|---|---|
| Call session (`voicecall/CallSessionService`) | `callState`, `recipientId`, tone, ringer, vibrator; one queue of intents, one worker | `handleIncomingCall` ... `handleLeavePeer...`, `endCall` | screen (activity, local broadcasts), `RestApi`, `InCallService` |
| Call screen (`VoiceCallScreenActivity`) | which buttons are visible, pending `finish`, permission dialog | answer, decline, hang up, permission result, broadcast receiver | session (intents), `RestApi` |
| REST client (`command/RestApi`) | requests in flight | one request per method; some call-backs queue session work | server |
| MQTT client (`command/MqttClientService`) | subscription to the own number | `onMessageArrived` turns a message into session work | broker |
| Audio (`InCallService`, `VoIPAudio`, `rtp/JitterBuffer`, `gov.nist.jrtp`) | one job for the call, one for joining and one for leaving peers; recorder and player threads; jitter buffers; sockets | start, stop, add and remove a peer | other phones, directly by RTP |
| Call exchange (`business/call/CallController`) | `CALL:<phone>` rows: partner and type | dial, dialResponse, drop | usage records, broker |
| Usage and bill (`business/usage`, `business/bill`) | `CALL_START:<phone>`, `CALL_HISTORY:<phone>:<period>`, `TXTMSG_HISTORY`, `PRICE` | callStart, dropCall, txtMsg, the bill | Redis |
| Conference calls (`business/cc/CcController`) | set `cccall:<number>` of number and address | request, join, leave | usage records, broker |
| Text messages (`business/txtmsg`, client `TextMessagingService`) | conversations, members, messages | send, receive, look a conversation up | broker, usage records, local database |
| Accounts (`business/user`) | `user:<phone>` rows | register, update, change password, remove | Redis |
| Phone directory, call configuration | one field each | read, write | Redis |
| Contacts, identity, settings, billing screens | local tables and preferences | forms | local database |
| Native library (`cpp/native-lib.cpp`, `gsm0610_*.c`) | an encoder and a decoder context, a counter of openings | open, encode, decode, close; pack and unpack | audio threads |

How they interact: a phone sends REST requests, each on its own; a thread of the
servlet container serves each request with a handful of single Redis and MQTT
operations; MQTT messages reach the phone named by their topic; on the phone,
HTTP call-backs, MQTT messages and buttons append intents to the session's
queue, and one worker handles them in order. Audio flows between phones and
never through the server.

What is hard: nothing on the server is locked or transactional; QoS 0 messages
on a connection each are lost and overtake one another and the HTTP responses;
there is no timeout anywhere in a call; the phone's session changes state on
*responses* and messages rather than on what its user did; every background
activity (screens, permission results, jobs, audio threads) has its own idea of
whether the call still exists. `PROJECT.json` lists these hazards line by line.

What makes each part correct:

* session: what a call switches on (ringtone, vibrator, tone, audio job,
  conference id, screen) is switched off with it, on every path; work ends.
* exchange: the rows of a call name its two phones and one payer; messages go to
  the phone they are about; an accepted call has a start time.
* usage: every second computed is stored; only accepted calls are billed, once.
* end to end: nobody talks or pays without an answer; both phones agree on the
  call; both are free after a hangup.
* audio: the microphone is open only in a call; both ends use the same port.
* conference: members that are in it know each other.
* voice: what is heard is what was said, in order; the decoder keeps the encoder's
  past; packing loses nothing.
* messages: one conversation per set of participants; every byte counted.
* accounts: a number belongs to one user.

## 2. What is modelled

### CallSession

One phone, or a set of independent ones (every variable is a function on
`Phone`). `queue` is the JobIntentService queue; `Handle(p)` is `onHandleWork`,
one action per handler, each with the whole handler: guards, REST request,
tone, ringer, screen, `endCall`. `rest` counts requests in flight;
`Taken`/`OnResponse`/`OnFailure` are the call-backs. `OnMessage` is
`MqttClientService.onMessageArrived`. `User` holds the dial button and the
buttons of the call screen with their visibility as guards. `Android` holds the
permission result, the delayed `finish` and peer jobs that run. `screen` keeps
the intent of the activity (singleTop: a screen that is there keeps its own),
whether the permission has come, and whether it is about to finish; a local
broadcast can miss it (`TellScreen`), because the activity unregisters in
`onStop`.

`ScreenLag = FALSE` makes the screen appear and disappear at once, which the
composition uses to save states; `call_session` runs with `TRUE`.

Data is abstracted to what handlers compare: an address is a set with at most one
member (`{}` is the empty string), a conference is a model value, names, codec and
transport are gone. `callJob` is the scheduled CALL_JOB_ID with its peers.

`glitch` is a history variable. It records the races the handlers let through,
by name: `overtaken` (a dial response outside LISTENING), `silenced` (an alert
ended in silent mode), `latePermission`, `reusedScreen`, `leftScreen`. The
invariants say what holds without a given race, so that each names exactly the
races that break it; everything else is covered in full.

### CallServer

`CALL`, `CALL_START` and `CALL_HISTORY` rows as functions on `Phone`, `thread` with
the request each thread is in and its locals, `mqtt` the published messages as
counters. One action per Redis or MQTT operation: `PublishDial`,
`WriteCallInfo` (four writes), `Lookup`, `PublishResponse`, `CallStart` (two),
`PublishDrop`, and `ReadStart`, `ReadType`, `ReadHistory`, `WriteHistory` for each of the
two `dropCall`s of a drop. `Seconds` wraps like the `(int)` cast, which binds
before the division; `IntSpan` stands for 2^31. One unit of time is one second.
Messages are a bag per phone: any of them can be next, or never come.
`charged` and `accepted` are history variables (what was computed; which
acceptances were forwarded), `raced` records rows two threads were updating at
once: the source has nothing against that, and `UsageStored` and `OnePayer` say
what holds otherwise.

### VoiceCall

`Session == INSTANCE CallSession` and `Server == INSTANCE CallServer` over the same
phones, joined by `Arrive` (a thread takes a request), `Respond` (the response runs the
phone's call-back, whatever its status), `Deliver`, and, when `Lossy`,
`LoseMessage` and `LoseRequest`. `answered` is a history variable.

### InCallAudio

One phone, below its session. `jobs` is Android's job scheduler with the three ids of
`InCallService`: a job that is scheduled again, cancelled or short of network is
stopped (`OnStopJob`), and starts (`OnStartJob`) when the scheduler likes, in an
executor thread of its own (`task`, with a step for each point where another
thread can come between). The service is destroyed with its last job, so its
field `audio` is forgotten while its threads go on (`current`). `monitor` is the
lock of `VoIPAudio` as far as a holder waits inside it: `EndNext`, `PlayerJoined`,
`CloseRecorder` and `RecorderJoined` are the parts of `endAudio` between its joins,
during which recorder, players and receivers take their own steps without the
lock. `peer` holds the RemotePeer objects, apart from `remotePeers`: a replaced or
removed one lives on as long as a thread refers to it.

Packets and codecs are reduced to what they do to threads (what they carry is in
`VoicePath`): a send to a closed
session is lost or ends the recorder or the process, a player that finds no
codec ends, a receiver whose list of listeners changes under it ends the
process. `glitch` names the races again (`late`, `unseen`, `overlapped`, `twice`,
`left`, `unreachable`, `torn`), and each invariant says which of them it does not
survive.

### RtpStream, NativeCodec and VoicePath

What the audio threads carry. `RtpStream` is one direction of one pair of phones:
the counter and the time stamps of `RtpSession`, `net` with every datagram ever
sent (so any of them can arrive late, twice or never), the filter of
`RtpPacketReceiver`, and `JitterBuffer` with `ready`, `timestamp`, `delta` and
its queue. `read` polls and then looks at the clock outside any lock, while
`write` has one: the steps in between touch different fields or only postpone
the other's step, so each of them is one step here. `NativeCodec` is
`native-lib.cpp`: an encoder and a decoder context per process and the counter
`codec_open`. The codec itself is a parameter, `gsm_encode` and `gsm_decode`, so
that the stream can be checked with any codec and proved for all of them.
`VoicePath` joins them in `Record`, `Arrive` and `Play`, one turn of each thread.

`k`, `spoken`, `heard`, `lastArrived` and `base` are history variables.

### GsmArithmetic, GsmCodec, GsmFrame, Gsm0610 and GsmVoice

The native library, function by function: `GsmArithmetic` has the saturated
16 and 32 bit operations, `GsmCodec` the encoder (preprocessing, LPC analysis,
short and long term prediction, grid selection, quantization) and the decoder,
`GsmFrame` the parameters of a frame and the packings of 33 bytes (with its masks,
`Masked`) and of none,
`Gsm0610` the packing of two frames in 65 bytes, `gsm0610_init`, `gsm0610_encode`
and `gsm0610_decode`. A loop is a function over a sequence or a filter with its
state; a function that changes the context returns the fields it changes.
`GsmVoice` is `VoicePath` with this codec and the properties that need it.

The application's call takes Opus unless it is started with `CODEC_GSM`
(`VoIPAudio.startAudio`); the stream around the codec is the same for both.

### Servlets, UserAccount, TextMessaging, Conversations, Conference and Services

`Servlets` has what the services share: the threads with the request they are
in, published messages, which may overtake each other or be lost. As in
`CallServer` a step is one Redis or MQTT operation.

* `UserAccount`: `user` holds who wrote each field, `garbled` which fields are stored
  under a wrong key. A request is a list of checks and a list of writes, which
  it takes one by one. A registration with a field missing has the writes before it,
  and then throws. `AES` keeps its key in static fields that every call writes
  again: threads that are about to use the key at the same time (`AtKey`,
  `clashed`) may use the right one, a wrong one or none (`Shares`), so that a field
  is garbled, a comparison goes either way, or the request fails.
* `TextMessaging`: a message is published to each receiver, then `ReadBytes` and
  `WriteBytes` for the counter of the sender and of each receiver.
* `Conversations`: the local database of a phone, with the two threads that
  write it. A conversation has a `hash` (the participants it is found by)
  and `members` (a table of its own); both change in different steps. It is
  found by two queries, the second of which may find nothing any more. Any
  contact can be opened, the phone's own number too.
* `Conference`: the set `cccall:<number>` on the server, and what every phone
  believes: whether it is in the conference, and with which peers. Of voice
  calls it has that a phone is in one (`engaged`): it then ignores the answer to
  its start, and who dials from the conference has left it without telling
  anybody (`Engage`, `Disengage`).

`Services` composes them over the same threads. Each of its properties names the
races that break it (`spoilt`, `torn`, `muddled` and `upset` are history variables
that record them), and holds for everything else:

* `AccountsWhole`: two registrations found the number free at once (*taken
  twice*), a registration was refused with fields written, because one was
  missing or the key was none (*cut short*), a field was written while another
  thread was at the key (*key shared*), an account was deleted while another
  request was past its checks (*written after*).
* `BytesCounted`: two threads had the counter at once.
* `OneConversation`: service and screen both missed a conversation and made it
  (*made twice*), an invitation made it the same as another (*made the same*), or
  named it while its members were being added (*half made*).
* `ConferenceAgrees`: *at once*, *again*, *early*, *late news*, *late answer*, *engaged*,
  *called away*, *lost*, described above its definition. In particular, of what is
  modelled nothing but these eight can leave a phone talking to somebody the
  server believes gone, or the reverse.

## 3. What the runs check

| run | checks | bounds |
|---|---|---|
| `call_session` | `TypeOK`, `AlertOnlyWhileRinging`, `AudioExactlyInCall`, `ConferenceKnown`, `RingbackExactlyWhileCalling`, `RingingHasScreen`, `SessionSettles` | one phone, one address, one conference, four inputs (user actions and messages), normal and silent mode: enough for a call, its end, and one race with the next |
| `server_rows` | `TypeOK`, `OnePayer`, `AcceptedCallHasStart`, `UsageStored` | three phones, two threads, three requests (two dials that overlap in one phone and a response or drop), or two requests from an established call (`CallUp`: both parties drop it, or a third phone dials); the clock ticks once |
| `one_dial` | `TypeOK`, `NobodyTalksUnanswered`, `CallerPays`, `BilledOnlyAfterAnswer` | two phones, one dial, every button, two threads, loss and reordering |
| `hangup` | `HangupFreesBoth` | two phones in a call (`CallUp`), nothing lost, two threads |
| `in_call_audio` | `TypeOK`, `MicrophoneOnlyInCall`, `NothingOutlivesCall`, `RecorderGoesOn`, `OwnSocket`, `HangupEndsAudio` | three addresses with this phone in the middle, two executors, three RemotePeers, three decisions of session, scheduler and network: a call or conference, a member that joins or leaves, and its end, or any other three. The invariants also hold with `MCAddr == 1 .. 4` (two million states under symmetry of executors and peers, without `PROPERTY`, in a minute), which `HangupEndsAudio` is too slow for |
| `gsm_voice` | `TypeOK`, `PlayedInOrder`, `HeardAtFirst`, `DecoderFollowsEncoder`, `PackingLossless` | five blocks of 160 samples (a tone, clipping or pulses, a whistle, silence, noise), numbers from 1 or 3 modulo 6, a listener that starts up to twice, three looks at a clock that moves 90 seconds |
| `services` | `TypeOK`, `AccountsWhole`, `BytesCounted`, `OneConversation`, `FiledAmongItsPeople`, `ConferenceAgrees` | two threads and, in each behaviour, one of: four account requests of two persons for one number, with an account of name, password, one field of a card and status, and registrations that are whole or lack any of the first three; two texts at once; two texts one after the other with the phone they arrive at and one action of its user; three requests or voice calls of three phones with a conference |
| `stale_start` | `OnlyAcceptedBilled` is violated | three phones, one thread, a call of two of them that is over and billed (`CallEnded`), three more requests, a clock that goes on by one second |
| `unshared` | `CallIsShared` is violated | two phones of which one dials, the other may accept and nobody hangs up (`PatientSpec`), nothing lost |
| `double_drop` | `BilledAtMostElapsed` is violated | two phones in a call, of which only one has a user that hangs up (`OneHangsUpSpec`), nothing lost, one second |
| `intruder` | `DropReachesPartner` is violated | three phones, two of them dial once |
| `early_discard` | `OnlyLateDiscarded` is violated | six packets, the constants of the code, a clock that is looked at every 105 seconds |

The first four violations are disagreements between the code and the description
of a call in `rest_api_examples.txt:338-344`, the fifth between `JitterBuffer.write`
and the comment on its class; `PROJECT.json` quotes the lines and tells what
TLC's trace does. They are short: each needs no failure, only an order of steps
(or a time) that the code does not exclude.
`CallUp` and `CallEnded` are states that `Init` leads to, with all messages delivered;
`PatientSpec` and `OneHangsUpSpec` leave out what some users could do and nothing
else, so that the traces are of the scenario that is described.

Bounds and why they are enough: the session's handlers look at the state, one
intent and the ringer mode, so what four inputs and their responses can do to
one phone covers every pair (state, intent) with one more call behind it; on the
server every conflict is between two threads on the rows of one phone, so two
threads and three phones meet each conflict; clocks of 0 or 1 keep amounts
small, and `server_rows` takes `IntSpan = 1`, so that its one second already
wraps to a negative amount. Threads are interchangeable and so are phones on the server: those runs
use symmetry. The services share no state but the threads, which a request holds
alone but for the key of the accounts, so one service per behaviour meets every
conflict there is (a request of another service is to the key what a refused
request for an account is); four account
requests are a registration, what its owner asks, and two that race with it;
three conference requests are two that race and one before or after them; texts
at once are checked without phones because a phone never sees the counters. In
`gsm_voice` numbers are compared only with each other. From 3 modulo 6 they are
fresh, repeated, overtaken and wrapped; from 1 they do not wrap, so that two packets can be
written behind the first read, which takes three. The looks at the clock are at
1000, 1090, 1180 and 1270: the packet that sets `delta` can be followed by one that is 180
seconds behind it, the very limit of the jitter. The five
signals drive every branch of the codec except its divisions by an overflowed
energy, and the codec's results are computed once per block and history and
looked up (`MCGsmVoice`). Deadlock is not checked: the budgets (`MaxInputs`, `MaxRequests`,
`MaxDials`, `MaxTime`, `Menu`, `MaxClicks`, `MaxFrames`, `MaxStarts`) end every behaviour.

Fairness: `CallSession!Fairness` is weak fairness of `Handle`: Android keeps the
process of a JobIntentService alive until its queue is empty. Users, messages and
responses owe nothing. `VoiceCall!Fairness` is weak fairness of `System`, the
workers, the servlet threads and a network that loses nothing taken together:
some one of them goes on while any of them can. Each work item, request and message is
consumed once, so this is enough, and less than each of them being fair.
`InCallAudio!Fairness` is weak fairness of `onStopJob` of the call job, of who is in
`endAudio`, of the recorder and of each player: threads that are runnable run, and
the recorder blocks only for the next sound. Executors, the scheduler and the
receivers owe nothing, so `HangupEndsAudio` does not rest on them.
`HangupFreesBoth` uses `VoiceCall!Fairness`, and is checked without loss because a lost `callDrop`
leaves the partner in the call for good: there is no timeout.

## 4. What is proved

`CallSession_proofs` proves, with `SessionAssumption` as its only assumption and for
every set of phones, addresses and conferences and every number of inputs:

* `TypeCorrect`: `Spec => []TypeOK`. One lemma per group of actions; lemmas on
  `EndCall`, `StartScreen`, `Closed`, `Remember` and on queues (`Tail`, `Append`
  and concatenation keep a sequence of intents) carry the types of what the
  handlers share.
* `RingbackMatchesState`, `AlertEnds`, `AudioMatchesState`: inductive together
  with `TypeOK`, by cases on the handlers.
* `ConferenceAlwaysKnown`: `ConferenceKnown` is not inductive, since the id comes
  from queued work. `ConferenceInv` adds that every queued START_CONFERENCE and
  every ccDial in flight names a conference.
* `RingingAlwaysHasScreen`: `RingingHasScreen` is not inductive either, since a
  screen about to close still counts. `RingingInv` adds that the screen of a
  ringing phone is not closing unless work that ends the call is queued; its
  proof rests on lemmas about where such work sits in a queue after `Tail` and
  `Append` (`FinishKeepsEnds`, `AppendEnds`).

`CallServer_proofs` assumes `ServerAssumption` and is about any phones, any number of
threads and of requests:

* `TypeCorrect`: `TypeOK` needs `TypeInv`, which adds what a thread knows at each
  of its steps (`TaskKnown`): the phone that sent the request always, a partner
  from the moment one is needed, and none in a drop that found no row. With it
  no step reads or writes the row of a phone that is not one.
* `AcceptedCallStarts`: `AcceptedCallHasStart` is not inductive, because a thread
  between its two writes has written one start time; `StartInv` says it was the
  caller's. Start times are never cleared, so no other request can undo it.
* `ComputedUsageStored`: `UsageStored` says nothing while a row is being updated.
  `UsageInv` does: a row no two threads had at once has at most one writer, that
  thread still holds the current total, and what the drops computed is that
  total and its amount. Its proof has one lemma for a row that a step leaves
  alone, and one each for the read and the write of `updateCallSecond`.

* `ExactlyOnePays`: `OnePayer` looks at two finished rows, but a row is written field
  by field. `PayerInv` adds what a dial between two of its four writes knows:
  unless another dial was writing the row of its phone, it finds what it wrote
  (`DialKept`). A pair can then only come about by the last writes of one dial,
  which make one sender and one receiver.

`InCallAudio_proofs` assumes `AudioAssumption` and is about any addresses, executor
threads and peers, and any decisions of session, scheduler and network:

* `TypeCorrect`: with `OffIsSilent`, since a recorder that is off must have nobody to send to.
  The ports are natural numbers because a peer that has one is among the peers counted.
* `MicrophoneEnds`: `MicrophoneOnlyInCall` holds because whatever `startAudio` has begun (the
  recorder, the flag, a known peer) the service knows of, and the job of the
  call is active. `HeldInv` says so, and that an executor at work
  which has not outlived its call belongs to an active one.
* `NothingOutlives`: `PeersInv` adds that a peer with a socket or a player is in
  `remotePeers` or in the hands of `endAudio` (`Owned`), and that no RemotePeer is in
  two places (`Unshared`): so to have no peers is to have closed them all.
* `RecorderSurvives`: `GoesOnInv` adds that while no peer has left only the main thread
  shuts peers down, that none the recorder is about to send to is closed, and
  that an open socket has a codec behind it.
* `EveryoneHasASocket`: `OwnSocket` speaks of sockets, and a socket is there when its port was
  free, so `PortsInv` is about ports. Between two jobs everyone has a socket and a peer that joins
  now would not get the port of the only peer (`Settled`, `Apart`). The thread of a call has
  started the members that are no longer in its list, each at the port of its place in
  it (`CallPorts`), and what the thread of a joining peer has counted is still so
  (`JoinPort`), because it is the only one at work (`Alone`) and one peer joins at
  a time (`OneJoins`). TLC found `PortsInv` to hold of the run's instance before it was proved.

`Services_proofs` assumes the assumptions on the constants of `Services` (lengths are
natural numbers, groups are of phones, no person is the mark of an empty field):

* `BytesAreCounted`: `BytesCounted` says nothing of the total that a thread has read and not yet
  written back. `BytesInv` does: read total and length make what the counter is
  due, at most, and exactly unless the counter is torn, and an untorn counter
  has one thread at most. The other services change none of it, which is one
  lemma for each (`AccountElsewhere`, `OnPhoneElsewhere`, `ConferringElsewhere`,
  `LostElsewhere`) about a step that leaves the texts and the threads at texts
  alone.

* `AccountsAreWhole`: `AccountsWhole` speaks of an account that nobody is working on.
  `AccountInv` says what its workers know. A number that was not spoilt is free
  (`Unclaimed`), or one thread is registering it and has the fields still to write
  (`ClaimedBy`), or one person's (`OwnedBy`); whoever is at it is that person,
  because the last check before the account's existence reads a field that
  the person wrote (`CheckList`, `PassedFacts`): who has read what is another's does
  not pass with the right key, and with a wrong one only what was garbled. No field of an
  unspoilt number is, which the proof shows together with the rest. Requests that began before a deletion
  are in it: they get at the number again only if the next owner is the
  same person.

For the conversations it goes on from there (a text comes from a phone and goes to
phones, `Addressed`), for any phones, users and texts:

* `FiledAmongPeople` and `ConversationsAreOne`: `FiledAmongItsPeople` and `OneConversation` speak of a
  phone that is done. In between, a conversation gets its hash and its members
  in different steps of two threads. `People` is who is in a conversation or is
  about to be added to it by the service or the screen; `PhoneInv` says that
  a hash, a filed message and a new name are among the people, which never get
  fewer (`FiledInv`, `InboxInv`, `ScreenInv`), and of a phone that is not muddled
  that hashes differ and are what the members are or will be (`OneInv`).

`Conference_proofs` goes on from `Services_proofs`, for any phones, threads and requests:

* `ConferencesAgree`: `ConferenceAgrees` speaks of a conference at rest. `ConferenceInv` says, while
  `upset` is empty, what is true on the way there (`Calm`). `Tokens`: a member that is not in the
  conference has exactly one reason for it, an answer to its start, a request for its
  end, or the thread of one of them. `MembersKnown`: a phone that stays has each
  member for a peer, or will have by the answer or the news that is under way. `GoneKnown`: what
  it has beside the members, it is about to be told has left, or that one is joining again.
  `NotItself`: nobody is told of itself. `Sections`: a start between its reading
  and its writing of the set is alone there, what it read is still so, and who
  stays is aware of its phone or among those it has yet to tell; an end there has
  read all the members. There is one lemma for each step of a phone (`StartKeeps` ...
  `NewsKeeps`, and those of voice calls) and of a thread (`TakeKeeps` ... `AnswerKeeps`), and one for the steps of
  the other services (`BesideKeeps`). Each of the eight ways to part phones and server
  is needed by one of these lemmas, and no other is. TLC found `ConferenceInv` to
  hold of three phones and two threads with four requests before it was proved.
* `ServicesTypeCorrect`: `TypeOK` of all services, now that there is an invariant for each of them.
  `ServerTypes` adds what a thread has in hand (`ServiceJob`) and that messages are for
  phones; `SelfOut`, that a phone is not among the others of what it files, because it
  is not in the inbox this comes from (its conversations may well have it: a
  user can open the own contact). `KeyTypes` has the fields and threads at the key. `user` and `told` are of
  their types by `AccountInv`, `peers` by `ConferenceTypes`.

`VoiceCall_proofs` assumes `CallAssumption`, for any phones, server threads and dials, and a
network that reorders and, if `Lossy`, loses:

* `TypeCorrect`: the sessions' and the exchange's own lemmas are instantiated from
  `CallSession_proofs` and `CallServer_proofs`, where they are stated for any environment that
  hands them data of the right types; what is proved here is that each of the
  two does so for the other.
* `CallInvariant`: `CallInv` says of everything under way which acts of users it comes from. A
  message `dial` or an INCOMING_CALL names somebody who has dialled (`MessageKnown`,
  `WorkKnown`), so does a screen; an accept on its way was pressed; audio runs to a
  phone that was answered or has answered (`SessionKnown`). On the server a partner
  is written after a type (`PartnerKnown`, `TaskBacked`), a type is that of a dialled call,
  a start time comes from an answer (`RowsKnown`), and a thread that bills knows
  what it found (`BillBacked`).
* `NobodyIsHeardUnanswered`, `CallerAlwaysPays`, `NothingBilledUnanswered` follow from it. The
  first says with more than two phones what the code allows, not what one would
  like: who hears q answer may be another caller than the one q answered,
  because a dial rewrites `partner` (the run `intruder` has the same cause). TLC shows
  this with three phones when `\E r \in Phone \ {q} : <<q, r>> \in answered` is replaced by
  `<<q, p>> \in answered`; with two phones the two say the same.

`VoicePath_proofs` is about any codec, speech, modulus, jitter and clock, and a
network that does what it likes:

* `PlayedAsSaid`: `PlayedInOrder` speaks of what was played; `OrderInv` adds that everything
  queued is behind it, that nothing queued or played is ahead of the last
  number the receiver let through, and that numbers order packets as their
  places do until they wrap (`NumbersOrder`).
* `EveryoneIsHeardAtFirst`: `HeardAtFirst` asks whether a packet would be filtered or discarded. The
  filter compares it with the number of the last arrival (`LastNumber`). The buffer
  compares its time with `timestamp`, which `ClockOK` places: until `delta` is set it is at most the
  reader's clock, and from then on neither it nor any later look at that clock
  is before the packet from which `delta` was computed.
* `TypeCorrect`: `TypeOK` for any set of contexts with `CodecWorks`: a new context is one of them, null
  is not, encoding and decoding lead from one to another, and codes are payloads.
  The proof showed that `delta` is an integer and can be negative (a packet that
  comes when the reader's clock is past `SampleRate` times its time stamp), where
  TLC's bounds had kept it a natural number; `StreamTypeOK` now says so.
* `VoipPackingIsLossless`: for every frame with parameters in their fields, the packing
  of `gsm0610_pack_voip` (no state is in this) is 33 bytes and `gsm0610_unpack_voip` gives the frame back.
  Lemmas for the head and for a subframe, each by the arithmetic of shifts and
  masks as quotients and remainders, and one that the masks leave such a frame
  as it is (`MasksKeepFrames`). `EncodedIs` proves its premise of what the
  encoder makes.
* `DecoderKeepsUp`: `DecoderFollowsEncoder`, for any
  speech of 16-bit samples and any number of packets, from a talker that starts its audio
  once. Here the codec is not any codec but GSM 06.10: the hypothesis `GsmIsUsed` says
  that `gsm_encode` and `gsm_decode` are those of `Gsm0610`
  on the contexts, blocks and frames there are, as they are in `MCGsmVoice`. `GsmInv` says in
  which context each packet was encoded (`NetOfFrames`, `Before`), that the talker's
  encoder has the context after the last packet (`TalkerOK`), and that a listener that has heard the
  first n packets in turn is in sync with the context after the n-th (`ListenerOK`).

`GsmCodec_proofs` is about what the codec computes, with no assumption:

* `FrameFollows`: a decoder that has the encoder's residual history and ratios
  before a frame has them after it. The encoder makes the history in one array of
  280 samples, subframe by subframe, and the decoder in a window of 120 that it
  moves along; both compute the same samples from the same lag, gain and pulses.
* `EncodedIs`: whatever 160 samples are recorded and whatever came before, every
  parameter of the frame fits its field, the lags are 40 to 120, and the state is one for the next
  frame. It goes through all the loops of the encoder. A recursive function of
  TLA+ is a `CHOOSE`, so of each loop it has to be proved that it has a value at all, and then of what kind; the
  loops are instances of two, by halves of a range (`HalvesExist`, `HalvesHold`)
  and along a loop (`CountedExist`, `CountedHold`), of which this is proved once.
  Most fields fit because the code limits them. The pulses do not: `CodeCovers` says that
  the code of the largest pulse of a grid is never the code of a smaller number, so that
  the normalized pulses stay within 3 bits.

The induction in these proofs is over numbers with a set for the property (`Induct`,
from the well-foundedness of <), since a theorem with an operator for it cannot be used here.

`GsmCodec` computes sums, maxima and the best lag by halves of the range of indices, where
the code runs from one end to the other; it returns the same, and TLC's recursion stays flat.

Only model-checked: `SessionSettles`, `HangupFreesBoth` and `HangupEndsAudio`
(liveness, out of the prover's reach), and `PackingLossless`, which has the
packings of WAV files besides the one that is proved.

## 5. Not modelled, and why

* Most of `cpp/spandsp`: `CMakeLists.txt` compiles `native-lib.cpp` and the seven
  `gsm0610_*.c` files, and with the parts of headers that they use
  (`saturated.h`, `bit_operations.h`, `gsm0610_local.h`) all of that is modelled. The
  rest of the directory, five sixths of its lines, is vendored and dead in this
  program: `g722.c` and `vector_int.c` are in no target, and the headers declare
  fax, modem, tone and echo functions that are not even there. A model of it
  would say nothing about TinyTalk.
* In the codec: branches for other processors (MMX, assembler), and a failed
  `malloc`, after which the process dies.
* Opus: a prebuilt library of which only the wrapper is there. For the stream it
  is one more `gsm_encode` and `gsm_decode`, and `PlayedAsSaid` is proved for all.
* Generated swagger code, RTCP and RTP header fields that TinyTalk does not set,
  layouts and forms: no state of their own that a property could be about.
* Authentication of calls, texts and conferences: a request is taken as
  authenticated. The checks of account requests are modelled.
* Prices, billing periods and the bill: the bill is a product of counters that
  other modules write, read once, and one behaviour lies in one period. Nor
  that the counters of bytes could overflow an `int`.
* The seconds of a conference (`dropReferenceCall`).
* Redis connections, which are opened and never closed: see the hazard.
* Crashes of the client process and reconnection of the broker: the static
  fields of the session are lost together with the process and the queue, which
  is `Init` again; messages missed meanwhile are the lost messages.
* The ringer's MediaPlayer, AudioManager modes, wake lock and headset.
* In `InCallAudio`: an initialization failure of the codec, and the network between
  phones. With two others the ports of a phone are distinct while jobs run one after another;
  with a third they are not, and `OwnSocket` does not claim it (the phone with the
  lowest address that joins two members has the ports 5001 and 5002, and computes
  5002 again for the next one to join; drop the conjunct `Cardinality(Known) <= 2`
  and take `MCAddr == 1 .. 4` to see it). That the two ends of a pair compute the same port needs the
  job schedulers and conference views of three phones at once, more than TLC
  can hold.

## 6. What could come next

1. `CallSession` composed with `InCallAudio`, whose environment it is, and both
   shown to refine an abstract `Microphone` (open, closed).
2. An abstract `Call` (idle, ringing, talking, with who pays) that `VoiceCall`
   refines when messages keep their order, and an abstract ledger for the
   usage rows of `CallServer`.
3. Proofs: the invariants of sessions and exchange carried over to
   `VoiceCall` by instantiation, as its types are.
