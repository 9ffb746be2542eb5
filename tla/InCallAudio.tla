---------------------------- MODULE InCallAudio ----------------------------
(***************************************************************************)
(* The audio of a TinyTalk phone: the jobs that voicecall/InCallService    *)
(* runs for the call session, the executor threads behind them, and        *)
(* voicecall/VoIPAudio with its monitor, its recorder thread and a player  *)
(* thread and socket for every remote peer.                                *)
(*                                                                         *)
(* The session is reduced to what it asks for (startCall, stopCall, a peer *)
(* that joins or leaves a conference); Android's job scheduler starts a    *)
(* job when it likes and may stop it at any time.                          *)
(***************************************************************************)
EXTENDS Integers, FiniteSets

CONSTANTS
  Addr,       \* host addresses, as the numbers ADDRESS_COMPARATOR compares
  Local,      \* the address of this phone
  Worker,     \* bound: executor threads at work at the same time
  Peer,       \* bound: RemotePeer objects not yet collected
  NoPeer,     \* no RemotePeer
  MaxInputs   \* bound: what the session and the scheduler decide

ASSUME AudioAssumption ==
  /\ Addr \subseteq Nat
  /\ IsFiniteSet(Addr)
  /\ Local \in Addr
  /\ NoPeer \notin Peer
  /\ Worker \cap {"none", "main"} = {}
  /\ MaxInputs \in Nat

VARIABLES
  call,         \* what the session is in
  jobs,         \* the three jobs of the scheduler
  audio,        \* InCallService.audio is set, in the instance bound now
  task,         \* what each executor thread works on
  isRecording,  \* VoIPAudio.isRecording
  codec,        \* VoIPAudio.audioCodec is not null
  recorder,     \* the recorder thread, which has the microphone while it lives
  remotePeers,  \* VoIPAudio.remotePeers
  peer,         \* the RemotePeer objects: socket, flag and player thread
  monitor,      \* who is in endAudio, and the peer it is shutting down
  dead,         \* the process has died of an uncaught exception
  glitch,       \* history only: which races there have been
  inputs        \* bound only: decisions so far

service == <<call, jobs, audio>>
threads == <<isRecording, codec, recorder, remotePeers, peer, monitor>>
vars == <<service, task, threads, dead, glitch, inputs>>

-----------------------------------------------------------------------------
Job == {"call", "join", "leave"}

(* active: the job runs, or runs and waits for onStopJob. next: the peers  *)
(* of the job that is scheduled, if any.                                   *)
JobState == [active : {"none", "running", "stopping"},
             next : {{}} \cup {{peers} : peers \in SUBSET Addr}]

(* current: the thread belongs to the service instance that is bound now.  *)
(* todo: the peers still to be started or ended, each with its port.       *)
(* outlived, history only: the call it was started in is over.             *)
Target == [addr : Addr, port : Nat]
Task == [kind : Job, step : {"idle", "begin", "size", "start", "end"},
         todo : SUBSET Target, lower : Nat, current : BOOLEAN,
         outlived : BOOLEAN]
IdleTask == [kind |-> "call", step |-> "idle", todo |-> {}, lower |-> 0,
             current |-> FALSE, outlived |-> FALSE]

(* torn: closed, with the receiver thread in the middle of its listeners.  *)
Closed == {"closed", "torn"}
RemotePeer == [port : Nat, session : {"none", "open"} \cup Closed, isRunning : BOOLEAN,
               playing : BOOLEAN]
NewPeer == [port |-> 0, session |-> "none", isRunning |-> FALSE, playing |-> FALSE]

(* to: the peers that the packet just recorded still goes to.              *)
Recorder == [on : BOOLEAN, to : SUBSET Peer]
RecorderOff == [on |-> FALSE, to |-> {}]

(*   late         audio started for a call that is over                    *)
(*   unseen       the recorder started by a job whose service does not     *)
(*                know the audio                                           *)
(*   overlapped   a job started while the thread of another was at work    *)
(*   twice        a peer started that was there already                    *)
(*   left         a peer of a running conference ended                     *)
(*   unreachable  sending failed for reasons of the network                *)
(*   torn         the receiver of a peer died of the change of its list    *)
Glitch == {"late", "unseen", "overlapped", "twice", "left", "unreachable", "torn"}

TypeOK ==
  /\ call \in {"none", "call", "conference"}
  /\ jobs \in [Job -> JobState]
  /\ audio \in BOOLEAN
  /\ task \in [Worker -> Task]
  /\ isRecording \in BOOLEAN
  /\ codec \in BOOLEAN
  /\ recorder \in Recorder
  /\ remotePeers \in [Addr -> Peer \cup {NoPeer}]
  /\ peer \in [Peer -> RemotePeer]
  /\ monitor \in [who : {"none", "main"} \cup Worker, peer : Peer \cup {NoPeer}]
  /\ dead \in BOOLEAN
  /\ glitch \subseteq Glitch
  /\ inputs \in Nat

Free == [who |-> "none", peer |-> NoPeer]

Init ==
  /\ call = "none"
  /\ jobs = [id \in Job |-> [active |-> "none", next |-> {}]]
  /\ audio = FALSE
  /\ task = [w \in Worker |-> IdleTask]
  /\ isRecording = FALSE
  /\ codec = FALSE
  /\ recorder = RecorderOff
  /\ remotePeers = [a \in Addr |-> NoPeer]
  /\ peer = [i \in Peer |-> NewPeer]
  /\ monitor = Free
  /\ dead = FALSE
  /\ glitch = {}
  /\ inputs = 0

-----------------------------------------------------------------------------
(* The job scheduler, as InCallService uses it. A job that is scheduled    *)
(* again while it runs is stopped first.                                   *)

Scheduled(id, peers) ==
  [jobs EXCEPT ![id] = [active |-> IF @.active = "running" THEN "stopping" ELSE @.active,
                        next |-> {peers}]]
Cancelled(id) ==
  [jobs EXCEPT ![id] = [active |-> IF @.active = "running" THEN "stopping" ELSE @.active,
                        next |-> {}]]

StartCall(a) ==
  /\ call = "none"
  /\ call' = "call"
  /\ jobs' = Scheduled("call", {a})
  /\ UNCHANGED audio

StartConferenceCall(members) ==
  /\ call = "none"
  /\ call' = "conference"
  /\ jobs' = Scheduled("call", members)
  /\ UNCHANGED audio

(* A pending peer job is not cancelled. *)
StopCall ==
  /\ call # "none"
  /\ call' = "none"
  /\ jobs' = Cancelled("call")
  /\ UNCHANGED audio

ChangePeer(id, a) ==
  /\ call = "conference"
  /\ id \in {"join", "leave"}
  /\ jobs' = Scheduled(id, {a})
  /\ UNCHANGED <<call, audio>>

(* The network is gone or the time of the job is over: onStopJob is called *)
(* and returns false, so that the job does not come back.                  *)
SystemStop(id) ==
  /\ jobs[id].active = "running"
  /\ jobs' = [jobs EXCEPT ![id].active = "stopping"]
  /\ UNCHANGED <<call, audio>>

-----------------------------------------------------------------------------
(* Ports, above START_UDP_PORT. *)

Below(peers, a) == Cardinality({b \in peers : b < a})

(* Mutant of PortsOfCall: off by one.                                       *)
PortsOfCall_Below(peers) ==
  {[addr |-> a, port |-> Cardinality(peers) - 2 + Below(peers, a)] : a \in peers}

(* Mutant of PortsOfCall: the index is forgotten.                          *)
PortsOfCall_Same(peers) ==
  {[addr |-> a, port |-> Cardinality(peers) - 1] : a \in peers}

PortsOfCall(peers) ==
  {[addr |-> a, port |-> Cardinality(peers) - 1 + Below(peers, a)] : a \in peers}

-----------------------------------------------------------------------------
(* InCallService: the main thread takes onStartJob and onStopJob, unless   *)
(* it is in endAudio.                                                      *)

MainFree == monitor.who # "main"

OnStartJob(id, w) ==
  /\ MainFree
  /\ jobs[id].active = "none"
  /\ task[w].step = "idle"
  /\ \E peers \in jobs[id].next :
       task' = [task EXCEPT ![w] =
         [kind |-> id, step |-> "begin", lower |-> 0, current |-> TRUE,
          outlived |-> id # "call" /\ jobs["call"].active = "none",
          todo |-> IF id = "call" THEN PortsOfCall(peers)
                   ELSE {[addr |-> a, port |-> 0] : a \in peers}]]
  /\ jobs' = [jobs EXCEPT ![id] = [active |-> "running", next |-> {}]]
  /\ glitch' = IF \E u \in Worker : task[u].step # "idle"
               THEN glitch \cup {"overlapped"} ELSE glitch
  /\ UNCHANGED <<call, audio, threads, dead>>

(* The service is destroyed with its last job: the next job is bound to a  *)
(* new instance, and threads of the old one go on.                         *)
JobStopped(id) ==
  LET last == \A other \in Job \ {id} : jobs[other].active = "none" IN
  /\ jobs' = [jobs EXCEPT ![id].active = "none"]
  /\ audio' = (audio /\ ~last)
  /\ task' = [w \in Worker |->
       IF task[w].step = "idle" THEN IdleTask
       ELSE [task[w] EXCEPT !.current = @ /\ ~last, !.outlived = @ \/ id = "call"]]

OnStopJob(id) ==
  /\ MainFree
  /\ jobs[id].active = "stopping"
  /\ \/ /\ id = "call" /\ audio
        /\ monitor.who = "none"
        /\ monitor' = [who |-> "main", peer |-> NoPeer]
        /\ UNCHANGED <<jobs, audio, task>>
     \/ /\ ~(id = "call" /\ audio)
        /\ JobStopped(id)
        /\ UNCHANGED monitor
  /\ UNCHANGED <<call, isRecording, codec, recorder, remotePeers, peer, dead, glitch>>

-----------------------------------------------------------------------------
(* The executor threads. *)

At(w, kind, step) == task[w].kind = kind /\ task[w].step = step
Known == {a \in Addr : remotePeers[a] # NoPeer}

(* A call without peers (who opens a conference is alone in it) touches    *)
(* nothing: the service does not even ask for the audio.                   *)
BeginCall(w) ==
  /\ At(w, "call", "begin")
  /\ IF task[w].todo = {}
     THEN /\ task' = [task EXCEPT ![w] = IdleTask]
          /\ UNCHANGED audio
     ELSE /\ task' = [task EXCEPT ![w].step = "start"]
          /\ audio' = (audio \/ task[w].current)
  /\ UNCHANGED <<call, jobs, threads, dead, glitch>>

(* The variable that a joining peer's job keeps the audio in is local.     *)
ReadPeers(w) ==
  /\ At(w, "join", "begin")
  /\ task' = [task EXCEPT ![w].lower = Below(Known, Local), ![w].step = "size"]
  /\ UNCHANGED <<service, threads, dead, glitch>>

ReadSize(w) ==
  /\ At(w, "join", "size")
  /\ task' = [task EXCEPT ![w].step = "start",
                ![w].todo = {[t EXCEPT !.port = Cardinality(Known) + task[w].lower] : t \in @}]
  /\ UNCHANGED <<service, threads, dead, glitch>>

BeginLeave(w) ==
  /\ At(w, "leave", "begin")
  /\ task' = [task EXCEPT ![w].step = "end"]
  /\ audio' = (audio \/ task[w].current)
  /\ UNCHANGED <<call, jobs, threads, dead, glitch>>

-----------------------------------------------------------------------------
(* VoIPAudio: startAudio and both endAudio are synchronized. *)

(* No reference is left to it, its player has ended and its socket is free.*)
Collected(i) ==
  /\ i \notin {remotePeers[a] : a \in Addr}
  /\ i \notin recorder.to \cup {monitor.peer}
  /\ peer[i].session \notin {"open", "torn"}
  /\ ~peer[i].playing

PortTaken(port) == \E i \in Peer : peer[i].session = "open" /\ peer[i].port = port

StartAudio(w) ==
  /\ task[w].step = "start"
  /\ monitor.who = "none"
  /\ \E i \in Peer : Collected(i)
  /\ \E t \in task[w].todo :
       LET i == CHOOSE i \in Peer : Collected(i) IN
       /\ \A u \in task[w].todo : t.port <= u.port
       /\ isRecording' = TRUE
       /\ codec' = TRUE
       /\ recorder' = IF isRecording THEN recorder
                      ELSE [on |-> TRUE, to |-> {}]
       /\ IF t.addr = Local THEN UNCHANGED <<remotePeers, peer>>
          ELSE /\ remotePeers' = [remotePeers EXCEPT ![t.addr] = i]
               /\ peer' = [peer EXCEPT ![i] =
                    [port |-> t.port, isRunning |-> TRUE, playing |-> TRUE,
                     session |-> IF PortTaken(t.port) THEN "none" ELSE "open"]]
       /\ task' = [task EXCEPT ![w] =
                     IF @.todo = {t} THEN IdleTask ELSE [task[w] EXCEPT !.todo = @ \ {t}]]
       /\ glitch' = glitch
            \cup (IF task[w].outlived THEN {"late"} ELSE {})
            \cup (IF ~isRecording /\ ~audio THEN {"unseen"} ELSE {})
            \cup (IF t.addr \in Known THEN {"twice"} ELSE {})
  /\ UNCHANGED <<service, monitor, dead>>

(* RemotePeer.shutdown clears the flag, waits for the player and closes    *)
(* the socket. Mutant of ShutDown: the flag stays.                         *)
ShutDown_KeepsRunning(a, who) ==
  /\ remotePeers' = [remotePeers EXCEPT ![a] = NoPeer]
  /\ monitor' = [who |-> who, peer |-> remotePeers[a]]
  /\ UNCHANGED peer

ShutDown(a, who) ==
  /\ remotePeers' = [remotePeers EXCEPT ![a] = NoPeer]
  /\ peer' = [peer EXCEPT ![remotePeers[a]].isRunning = FALSE]
  /\ monitor' = [who |-> who, peer |-> remotePeers[a]]

(* endAudio of one address, in the thread of a leaving peer's job. *)
EndAudioOf(w) ==
  /\ At(w, "leave", "end")
  /\ monitor.who = "none"
  /\ \E t \in task[w].todo :
       \/ /\ t.addr \in Known
          /\ ShutDown(t.addr, w)
          /\ glitch' = glitch \cup {"left"}
          /\ UNCHANGED task
       \/ /\ t.addr \notin Known
          /\ task' = [task EXCEPT ![w] = IdleTask]
          /\ UNCHANGED <<remotePeers, peer, monitor, glitch>>
  /\ UNCHANGED <<service, isRecording, codec, recorder, dead>>

(* endAudio of all addresses, in the main thread. *)
EndNext ==
  /\ monitor = [who |-> "main", peer |-> NoPeer]
  /\ \E a \in Known : ShutDown(a, "main")
  /\ UNCHANGED <<service, task, isRecording, codec, recorder, dead, glitch>>

(* Mutant of PlayerJoined: the socket is not closed.                       *)
PlayerJoined_KeepsSocket ==
  /\ monitor.peer # NoPeer
  /\ ~peer[monitor.peer].playing
  /\ monitor' = IF monitor.who = "main" THEN [monitor EXCEPT !.peer = NoPeer] ELSE Free
  /\ task' = [w \in Worker |-> IF w = monitor.who THEN IdleTask ELSE task[w]]
  /\ UNCHANGED <<service, isRecording, codec, recorder, remotePeers, peer, dead, glitch>>

PlayerJoined ==
  /\ monitor.peer # NoPeer
  /\ ~peer[monitor.peer].playing
  /\ \E closed \in Closed :
       peer' = [peer EXCEPT ![monitor.peer].session = IF @ = "open" THEN closed ELSE @]
  /\ monitor' = IF monitor.who = "main" THEN [monitor EXCEPT !.peer = NoPeer] ELSE Free
  /\ task' = [w \in Worker |-> IF w = monitor.who THEN IdleTask ELSE task[w]]
  /\ UNCHANGED <<service, isRecording, codec, recorder, remotePeers, dead, glitch>>

CloseRecorder ==
  /\ monitor = [who |-> "main", peer |-> NoPeer]
  /\ Known = {}
  /\ isRecording
  /\ isRecording' = FALSE
  /\ UNCHANGED <<service, task, codec, recorder, remotePeers, peer, monitor, dead, glitch>>

(* Mutant of RecorderJoined: nobody waits for the thread.                  *)
RecorderJoined_NoJoin ==
  /\ monitor = [who |-> "main", peer |-> NoPeer]
  /\ Known = {}
  /\ ~isRecording
  /\ codec' = FALSE
  /\ monitor' = Free
  /\ JobStopped("call")
  /\ UNCHANGED <<call, isRecording, recorder, remotePeers, peer, dead, glitch>>

RecorderJoined ==
  /\ monitor = [who |-> "main", peer |-> NoPeer]
  /\ Known = {}
  /\ ~isRecording
  /\ ~recorder.on
  /\ codec' = FALSE
  /\ monitor' = Free
  /\ JobStopped("call")
  /\ UNCHANGED <<call, isRecording, recorder, remotePeers, peer, dead, glitch>>

-----------------------------------------------------------------------------
(* The recorder thread: it takes no lock.                                  *)

Idle == recorder.on /\ recorder.to = {}

RecorderRead ==
  /\ Idle
  /\ isRecording
  /\ recorder' = [recorder EXCEPT !.to = {remotePeers[a] : a \in Known}]
  /\ UNCHANGED dead

(* Mutant of RecorderStop: it ends when it has nobody to send to.          *)
RecorderStop_WhenAlone ==
  /\ Idle
  /\ ~isRecording \/ Known = {}
  /\ recorder' = RecorderOff
  /\ UNCHANGED dead

RecorderStop ==
  /\ Idle
  /\ ~isRecording
  /\ recorder' = RecorderOff
  /\ UNCHANGED dead

(* sendPacket skips a peer without a session. If the session was shut down *)
(* after that test, the send finds no socket and does nothing, or a closed *)
(* one, which ends the thread, or no session, which ends the process.      *)
RecorderSend ==
  \E i \in recorder.to :
    \/ /\ recorder' = [recorder EXCEPT !.to = @ \ {i}]
       /\ UNCHANGED dead
    \/ /\ peer[i].session \in Closed
       /\ recorder' = RecorderOff
       /\ dead' \in BOOLEAN

(* The network fails and the thread ends. *)
RecorderFails ==
  /\ \E i \in recorder.to : peer[i].session = "open"
  /\ recorder' = RecorderOff
  /\ glitch' = glitch \cup {"unreachable"}
  /\ UNCHANGED <<service, task, isRecording, codec, remotePeers, peer, monitor, dead>>

RecorderStep ==
  /\ RecorderRead \/ RecorderStop \/ RecorderSend
  /\ UNCHANGED <<service, task, isRecording, codec, remotePeers, peer, monitor, glitch>>

-----------------------------------------------------------------------------
(* The player thread of a peer. *)

PlayerEnds(i) ==
  /\ peer[i].playing /\ ~peer[i].isRunning
  /\ peer' = [peer EXCEPT ![i].playing = FALSE]
  /\ UNCHANGED dead

(* A packet has come and there is no codec: the player gives up, unless it *)
(* had looked at the codec before that was taken away, which ends the      *)
(* process.                                                                *)
PlayerWithoutCodec(i) ==
  /\ peer[i].playing /\ peer[i].isRunning
  /\ peer[i].session = "open"
  /\ ~codec
  /\ peer' = [peer EXCEPT ![i].playing = FALSE]
  /\ dead' \in BOOLEAN

PlayerStep(i) ==
  /\ PlayerEnds(i) \/ PlayerWithoutCodec(i)
  /\ UNCHANGED <<service, task, isRecording, codec, recorder, remotePeers, monitor, glitch>>

(* The receiver thread of a peer goes through the listeners of its session *)
(* without a lock; the exception of a changed list is caught by nobody.    *)
ReceiverDies(i) ==
  /\ peer[i].session = "torn"
  /\ dead' = TRUE
  /\ glitch' = glitch \cup {"torn"}
  /\ UNCHANGED <<service, task, threads>>

-----------------------------------------------------------------------------
(* What the session, the scheduler and the network decide. *)
Input ==
  /\ inputs < MaxInputs
  /\ inputs' = inputs + 1
  /\ \/ /\ \/ \E a \in Addr \ {Local} : StartCall(a)
           \/ \E members \in SUBSET Addr : StartConferenceCall(members)
           \/ StopCall
           \/ \E id \in Job, a \in Addr \ {Local} : ChangePeer(id, a)
           \/ \E id \in Job : SystemStop(id)
        /\ UNCHANGED <<task, threads, dead, glitch>>
     \/ RecorderFails

OnJob == \E id \in Job : OnStopJob(id) \/ \E w \in Worker : OnStartJob(id, w)

Executor(w) ==
  \/ BeginCall(w) \/ ReadPeers(w) \/ ReadSize(w) \/ BeginLeave(w)
  \/ StartAudio(w) \/ EndAudioOf(w)

EndAudio == EndNext \/ PlayerJoined \/ CloseRecorder \/ RecorderJoined

Running ==
  \/ OnJob
  \/ \E w \in Worker : Executor(w)
  \/ EndAudio
  \/ RecorderStep
  \/ \E i \in Peer : PlayerStep(i) \/ ReceiverDies(i)

Next == ~dead /\ (Input \/ (Running /\ UNCHANGED inputs))

(* Threads run: the main thread once onStopJob is called, who is in        *)
(* endAudio, the recorder and the players. The scheduler, the session and  *)
(* the executors owe nothing.                                              *)
Fairness ==
  /\ WF_vars(~dead /\ OnStopJob("call") /\ UNCHANGED inputs)
  /\ WF_vars(~dead /\ EndAudio /\ UNCHANGED inputs)
  /\ WF_vars(~dead /\ RecorderStep /\ UNCHANGED inputs)
  /\ \A i \in Peer : WF_vars(~dead /\ PlayerStep(i) /\ UNCHANGED inputs)

Spec == Init /\ [][Next]_vars
FairSpec == Spec /\ Fairness

-----------------------------------------------------------------------------
(* Properties. *)

Untouched(races) == glitch \cap races = {}

(* The microphone is on only while the call's job is active: endAudio has  *)
(* joined the recorder before onStopJob returns, and nothing turns it on   *)
(* again, unless audio was started behind the back of the call's job.      *)
MicrophoneOnlyInCall ==
  recorder.on /\ Untouched({"late", "unseen"}) => jobs["call"].active # "none"

(* Nothing of a call outlives it: when its job is gone every socket is     *)
(* closed and every player has ended, in whatever order peers came and     *)
(* went, unless one replaced another or came late.                         *)
NothingOutlivesCall ==
  jobs["call"].active = "none" /\ Untouched({"late", "unseen", "twice"}) =>
    \A i \in Peer :
      i = monitor.peer \/ (peer[i].session # "open" /\ ~peer[i].playing)

(* As long as no peer has left and the call is not being ended, nobody is  *)
(* cut off: the recorder goes on while isRecording is set, so that a later *)
(* startAudio need not start it, and no thread dies of a session or codec  *)
(* that is taken from it.                                                  *)
RecorderGoesOn ==
  monitor.who # "main" /\ Untouched({"left", "unreachable", "twice", "torn"}) =>
    /\ ~dead
    /\ isRecording => recorder.on

(* Every peer has a socket of its own when there are at most two, although *)
(* the ports of a call and of the peers that join it are computed in       *)
(* different ways. With a third, the port of a peer that joins (its rank,  *)
(* InCallService.java:153) can be that of a peer of the call (one less     *)
(* than the peers, plus its index, InCallService.java:129).                *)
OwnSocket ==
  /\ MainFree /\ Cardinality(Known) <= 2
  /\ Untouched({"late", "unseen", "overlapped", "left", "twice"})
  => \A a \in Known : peer[remotePeers[a]].session = "open"

(* A call that is stopped releases its audio and onStopJob returns: the    *)
(* main thread, which waits for threads inside the monitor, is never kept  *)
(* waiting by them or by a peer that leaves at the same time.              *)
HangupEndsAudio ==
  jobs["call"].active = "stopping" ~> jobs["call"].active # "stopping" \/ dead

=============================================================================
