------------------------- MODULE InCallAudio_proofs -------------------------
(***************************************************************************)
(* The audio of a phone, for any addresses, executor threads, peers and    *)
(* decisions of the session and the scheduler: its types, that the         *)
(* microphone and the peers' sockets do not outlive a call, that the       *)
(* recorder goes on while nobody leaves, and that everyone has a socket.   *)
(***************************************************************************)
EXTENDS InCallAudio, FiniteSetTheorems, TLAPS

-----------------------------------------------------------------------------
(* Types. *)

(* Ports are counted from START_UDP_PORT upwards.                          *)
LEMMA BelowType ==
  ASSUME AudioAssumption, NEW peers \in SUBSET Addr, NEW a \in Addr
  PROVE  Below(peers, a) \in Nat /\ Cardinality(peers) \in Nat
<1>1. IsFiniteSet(peers)
  BY FS_Subset DEF AudioAssumption
<1>2. IsFiniteSet({b \in peers : b < a})
  BY <1>1, FS_Subset
<1>. QED  BY <1>1, <1>2, FS_CardinalityType DEF Below

(* The targets of a call's job.                                            *)
LEMMA PortsOfCallType ==
  ASSUME AudioAssumption, NEW peers \in SUBSET Addr
  PROVE  PortsOfCall(peers) \subseteq Target
<1>1. ASSUME NEW a \in peers
      PROVE  [addr |-> a, port |-> Cardinality(peers) - 1 + Below(peers, a)] \in Target
  <2>1. Below(peers, a) \in Nat /\ Cardinality(peers) \in Nat
    BY <1>1, BelowType
  <2>2. Cardinality(peers) # 0
    BY <1>1, FS_Subset, FS_EmptySet DEF AudioAssumption
  <2>3. Cardinality(peers) - 1 + Below(peers, a) \in Nat
    BY <2>1, <2>2
  <2>. QED  BY <2>3 DEF Target
<1>. QED  BY <1>1 DEF PortsOfCall

(* An executor thread that has nothing to do.                              *)
LEMMA IdleTaskType == IdleTask \in Task
BY DEF IdleTask, Task, Job

(* A job that is scheduled or cancelled stays a job, and stays active.     *)
LEMMA JobsType ==
  ASSUME TypeOK, NEW id \in Job, NEW peers \in SUBSET Addr
  PROVE  /\ Scheduled(id, peers) \in [Job -> JobState]
         /\ Cancelled(id) \in [Job -> JobState]
         /\ \A other \in Job : /\ Scheduled(id, peers)[other].active = "none" <=> jobs[other].active = "none"
                               /\ Cancelled(id)[other].active = "none" <=> jobs[other].active = "none"
<1>. DEFINE active == IF jobs[id].active = "running" THEN "stopping" ELSE jobs[id].active
<1>1. jobs \in [Job -> JobState] /\ jobs[id] \in JobState
  BY DEF TypeOK
<1>2. /\ [active |-> active, next |-> {peers}] \in JobState
      /\ [active |-> active, next |-> {}] \in JobState
  BY <1>1 DEF JobState
<1>3. /\ Scheduled(id, peers) = [jobs EXCEPT ![id] = [active |-> active, next |-> {peers}]]
      /\ Cancelled(id) = [jobs EXCEPT ![id] = [active |-> active, next |-> {}]]
  BY <1>1 DEF Scheduled, Cancelled
<1>. QED  BY <1>1, <1>2, <1>3

(* The end of a job: the tasks of the threads that go on keep their type.  *)
LEMMA JobStoppedType ==
  ASSUME TypeOK, NEW id \in Job, JobStopped(id)
  PROVE  /\ jobs' \in [Job -> JobState]
         /\ jobs'[id].active = "none"
         /\ \A other \in Job \ {id} : jobs'[other] = jobs[other]
         /\ audio' \in BOOLEAN
         /\ audio' => audio
         /\ audio /\ ~audio' => \A other \in Job \ {id} : jobs[other].active = "none"
         /\ task' \in [Worker -> Task]
         /\ \A w \in Worker : /\ task'[w].step = task[w].step
                              /\ task[w].step # "idle" /\ ~task'[w].outlived =>
                                   ~task[w].outlived /\ id # "call"
<1>. DEFINE last == \A other \in Job \ {id} : jobs[other].active = "none"
<1>1. /\ jobs \in [Job -> JobState] /\ jobs[id] \in JobState
      /\ audio \in BOOLEAN /\ task \in [Worker -> Task]
  BY DEF TypeOK
<1>2. [jobs[id] EXCEPT !.active = "none"] \in JobState
  BY <1>1 DEF JobState
<1>3. jobs' = [jobs EXCEPT ![id] = [jobs[id] EXCEPT !.active = "none"]]
  BY <1>1 DEF JobStopped
<1>4. /\ jobs' \in [Job -> JobState]
      /\ jobs'[id].active = "none"
      /\ \A other \in Job \ {id} : jobs'[other] = jobs[other]
  <2>1. [jobs[id] EXCEPT !.active = "none"].active = "none"
    BY <1>1 DEF JobState
  <2>. QED  BY <1>1, <1>2, <1>3, <2>1
<1>5. audio' = (audio /\ ~last)
  BY DEF JobStopped
<1>6. ASSUME NEW w \in Worker
      PROVE  /\ task'[w] \in Task
             /\ task'[w].step = task[w].step
             /\ task[w].step # "idle" /\ ~task'[w].outlived => ~task[w].outlived /\ id # "call"
  <2>1. task[w] \in Task
    BY <1>1
  <2>2. CASE task[w].step = "idle"
    <3>1. task'[w] = IdleTask
      BY <2>2 DEF JobStopped
    <3>. QED  BY <2>2, <3>1, IdleTaskType DEF IdleTask
  <2>3. CASE task[w].step # "idle"
    <3>1. PICK current, outlived \in BOOLEAN :
            /\ task'[w] = [task[w] EXCEPT !.current = current, !.outlived = outlived]
            /\ outlived = (task[w].outlived \/ id = "call")
      <4>1. task[w].current \in BOOLEAN /\ task[w].outlived \in BOOLEAN
        BY <2>1 DEF Task
      <4>2. task'[w] = [task[w] EXCEPT !.current = @ /\ ~last, !.outlived = @ \/ id = "call"]
        BY <2>3 DEF JobStopped
      <4>. QED  BY <2>1, <4>1, <4>2 DEF Task
    <3>. QED  BY <2>1, <3>1 DEF Task
  <2>. QED  BY <2>2, <2>3
<1>7. task' \in [Worker -> Task]
  <2>1. task' = [w \in Worker |-> task'[w]]
    BY DEF JobStopped
  <2>. QED  BY <1>6, <2>1
<1>. QED  BY <1>4, <1>5, <1>6, <1>7

(* Shutting a peer down keeps the types.                                   *)
LEMMA ShutDownType ==
  ASSUME TypeOK, NEW a \in Known, NEW who \in {"main"} \cup Worker, ShutDown(a, who)
  PROVE  /\ remotePeers' \in [Addr -> Peer \cup {NoPeer}]
         /\ peer' \in [Peer -> RemotePeer]
         /\ monitor' \in [who : {"none", "main"} \cup Worker, peer : Peer \cup {NoPeer}]
         /\ monitor'.who = who /\ monitor'.peer = remotePeers[a] /\ remotePeers[a] \in Peer
         /\ \A i \in Peer : peer'[i].session = peer[i].session /\ peer'[i].playing = peer[i].playing
<1>1. /\ remotePeers \in [Addr -> Peer \cup {NoPeer}] /\ peer \in [Peer -> RemotePeer]
      /\ a \in Addr /\ remotePeers[a] \in Peer
  BY DEF TypeOK, Known
<1>. DEFINE i == remotePeers[a]
            r == [peer[i] EXCEPT !.isRunning = FALSE]
<1>2. peer[i] \in RemotePeer /\ r \in RemotePeer /\ r.session = peer[i].session /\ r.playing = peer[i].playing
  BY <1>1 DEF RemotePeer
<1>3. peer' = [peer EXCEPT ![i] = r]
  BY <1>1 DEF ShutDown
<1>. QED  BY <1>1, <1>2, <1>3 DEF ShutDown

(* Peers that startAudio adds: a new RemotePeer, whose socket is open or   *)
(* could not be opened, and the recorder, if it is off, starts anew.       *)
Starts(w, i, t) ==
  /\ monitor.who = "none" /\ task[w].step = "start"
  /\ Collected(i)
  /\ isRecording' = TRUE /\ codec' = TRUE
  /\ recorder' = IF isRecording THEN recorder ELSE [on |-> TRUE, to |-> {}]
  /\ \/ UNCHANGED <<remotePeers, peer>>
     \/ /\ remotePeers' = [remotePeers EXCEPT ![t.addr] = i]
        /\ \A j \in Peer \ {i} : peer'[j] = peer[j]
        /\ peer'[i].session \in {"none", "open"}
  /\ peer' \in [Peer -> RemotePeer]
  /\ t.addr \in Addr
  /\ task' \in [Worker -> Task]
  /\ \A u \in Worker : \/ task'[u].step = "idle"
                       \/ /\ task'[u].step = task[u].step
                          /\ task'[u].outlived = task[u].outlived
  /\ glitch' = glitch
       \cup (IF task[w].outlived THEN {"late"} ELSE {})
       \cup (IF ~isRecording /\ ~audio THEN {"unseen"} ELSE {})
       \cup (IF t.addr \in Known THEN {"twice"} ELSE {})
  /\ UNCHANGED <<service, monitor, dead>>

(* The peer that startAudio collects and the target it starts.             *)
LEMMA StartAudioFacts ==
  ASSUME TypeOK, NEW w \in Worker, StartAudio(w)
  PROVE  \E i \in Peer, t \in task[w].todo : Starts(w, i, t)
<1>. DEFINE i == CHOOSE j \in Peer : Collected(j)
<1>1. i \in Peer /\ Collected(i)
  BY DEF StartAudio
<1>. HIDE DEF i
<1>2. PICK t \in task[w].todo :
        /\ monitor.who = "none" /\ task[w].step = "start"
        /\ isRecording' = TRUE /\ codec' = TRUE
        /\ recorder' = IF isRecording THEN recorder ELSE [on |-> TRUE, to |-> {}]
        /\ IF t.addr = Local THEN UNCHANGED <<remotePeers, peer>>
           ELSE /\ remotePeers' = [remotePeers EXCEPT ![t.addr] = i]
                /\ peer' = [peer EXCEPT ![i] =
                     [port |-> t.port, isRunning |-> TRUE, playing |-> TRUE,
                      session |-> IF PortTaken(t.port) THEN "none" ELSE "open"]]
        /\ task' = [task EXCEPT ![w] =
                      IF @.todo = {t} THEN IdleTask ELSE [task[w] EXCEPT !.todo = @ \ {t}]]
        /\ glitch' = glitch
             \cup (IF task[w].outlived THEN {"late"} ELSE {})
             \cup (IF ~isRecording /\ ~audio THEN {"unseen"} ELSE {})
             \cup (IF t.addr \in Known THEN {"twice"} ELSE {})
        /\ UNCHANGED <<service, monitor, dead>>
  BY DEF StartAudio, i
<1>3. /\ task \in [Worker -> Task] /\ task[w] \in Task /\ t \in Target
      /\ peer \in [Peer -> RemotePeer]
  BY DEF TypeOK, Task
<1>4. t.addr \in Addr /\ t.port \in Nat
  BY <1>3 DEF Target
<1>5. /\ peer' \in [Peer -> RemotePeer]
      /\ \/ UNCHANGED <<remotePeers, peer>>
         \/ /\ remotePeers' = [remotePeers EXCEPT ![t.addr] = i]
            /\ \A j \in Peer \ {i} : peer'[j] = peer[j]
            /\ peer'[i].session \in {"none", "open"}
  <2>1. CASE t.addr = Local
    BY <1>2, <1>3, <2>1
  <2>2. CASE t.addr # Local
    <3>. DEFINE r == [port |-> t.port, isRunning |-> TRUE, playing |-> TRUE,
                      session |-> IF PortTaken(t.port) THEN "none" ELSE "open"]
    <3>1. r \in RemotePeer /\ r.session \in {"none", "open"}
      BY <1>4 DEF RemotePeer
    <3>2. remotePeers' = [remotePeers EXCEPT ![t.addr] = i] /\ peer' = [peer EXCEPT ![i] = r]
      BY <1>2, <2>2
    <3>. HIDE DEF r
    <3>. QED  BY <1>1, <1>3, <3>1, <3>2
  <2>. QED  BY <2>1, <2>2
<1>6. /\ task' \in [Worker -> Task]
      /\ \A u \in Worker : \/ task'[u].step = "idle"
                           \/ /\ task'[u].step = task[u].step
                              /\ task'[u].outlived = task[u].outlived
  <2>. DEFINE r == IF task[w].todo = {t} THEN IdleTask
                   ELSE [task[w] EXCEPT !.todo = task[w].todo \ {t}]
  <2>1. r \in Task /\ \/ r.step = "idle"
                      \/ r.step = task[w].step /\ r.outlived = task[w].outlived
    BY <1>3, IdleTaskType DEF Task, IdleTask
  <2>2. task' = [task EXCEPT ![w] = r]
    <3>1. task' = [task EXCEPT ![w] =
                     IF @.todo = {t} THEN IdleTask ELSE [task[w] EXCEPT !.todo = @ \ {t}]]
      BY <1>2
    <3>2. CASE task[w].todo = {t}
      <4>1. task' = [task EXCEPT ![w] = IdleTask]
        BY <1>3, <3>1, <3>2
      <4>. QED  BY <3>2, <4>1
    <3>3. CASE task[w].todo # {t}
      <4>1. task' = [task EXCEPT ![w] = [task[w] EXCEPT !.todo = task[w].todo \ {t}]]
        BY <1>3, <3>1, <3>3
      <4>. QED  BY <3>3, <4>1
    <3>. QED  BY <3>2, <3>3
  <2>. HIDE DEF r
  <2>. QED  BY <1>3, <2>1, <2>2
<1>. QED  BY <1>1, <1>2, <1>4, <1>5, <1>6 DEF Starts

(* A job's thread at work: what becomes of its task and of the audio.      *)
LEMMA ExecutorFacts ==
  ASSUME AudioAssumption, TypeOK, NEW w \in Worker,
         BeginCall(w) \/ ReadPeers(w) \/ ReadSize(w) \/ BeginLeave(w)
  PROVE  /\ task' \in [Worker -> Task] /\ audio' \in BOOLEAN /\ (audio => audio')
         /\ \A u \in Worker : \/ task'[u].step = "idle"
                              \/ task'[u] = task[u]
                              \/ /\ task[u].step # "idle"
                                 /\ task'[u].outlived = task[u].outlived
         /\ UNCHANGED <<call, jobs, threads, dead, glitch>>
<1>1. /\ task \in [Worker -> Task] /\ task[w] \in Task /\ audio \in BOOLEAN
      /\ task[w].current \in BOOLEAN
  BY DEF TypeOK, Task
<1>a. ASSUME NEW r \in Task, task' = [task EXCEPT ![w] = r],
             r.step = "idle" \/ (task[w].step # "idle" /\ r.outlived = task[w].outlived)
      PROVE  /\ task' \in [Worker -> Task]
             /\ \A u \in Worker : \/ task'[u].step = "idle"
                                  \/ task'[u] = task[u]
                                  \/ /\ task[u].step # "idle"
                                     /\ task'[u].outlived = task[u].outlived
  BY <1>1, <1>a
<1>2. CASE BeginCall(w)
  <2>1. /\ \E r \in {IdleTask, [task[w] EXCEPT !.step = "start"]} : task' = [task EXCEPT ![w] = r]
        /\ audio' = audio \/ audio' = (audio \/ task[w].current)
        /\ task[w].step # "idle"
        /\ UNCHANGED <<call, jobs, threads, dead, glitch>>
    BY <1>1, <1>2 DEF BeginCall, At
  <2>2. PICK r \in {IdleTask, [task[w] EXCEPT !.step = "start"]} : task' = [task EXCEPT ![w] = r]
    BY <2>1
  <2>3. r \in Task /\ (r.step = "idle" \/ r.outlived = task[w].outlived)
    BY <1>1, IdleTaskType DEF Task, IdleTask
  <2>4. audio' \in BOOLEAN /\ (audio => audio')
    BY <1>1, <2>1
  <2>. QED  BY <1>a, <2>1, <2>2, <2>3, <2>4
<1>3. CASE ReadPeers(w)
  <2>. DEFINE r == [task[w] EXCEPT !.lower = Below(Known, Local), !.step = "size"]
  <2>1. Below(Known, Local) \in Nat
    BY BelowType DEF Known, AudioAssumption
  <2>2. r \in Task /\ r.outlived = task[w].outlived
    BY <1>1, <2>1 DEF Task
  <2>3. task' = [task EXCEPT ![w] = r] /\ task[w].step # "idle"
    BY <1>1, <1>3 DEF ReadPeers, At
  <2>. HIDE DEF r
  <2>. QED  BY <1>1, <1>3, <1>a, <2>2, <2>3 DEF ReadPeers, service
<1>4. CASE ReadSize(w)
  <2>. DEFINE n == Cardinality(Known) + task[w].lower
              todo == {[t EXCEPT !.port = n] : t \in task[w].todo}
              r == [task[w] EXCEPT !.step = "start", !.todo = todo]
  <2>1. n \in Nat
    <3>1. Cardinality(Known) \in Nat
      BY BelowType DEF Known, AudioAssumption
    <3>. QED  BY <1>1, <3>1 DEF Task
  <2>2. todo \in SUBSET Target
    BY <1>1, <2>1 DEF Task, Target
  <2>3. r \in Task /\ r.outlived = task[w].outlived
    BY <1>1, <2>2 DEF Task
  <2>4. task' = [task EXCEPT ![w] = r] /\ task[w].step # "idle"
    BY <1>1, <1>4 DEF ReadSize, At, Task
  <2>. HIDE DEF r
  <2>. QED  BY <1>1, <1>4, <1>a, <2>3, <2>4 DEF ReadSize, service
<1>5. CASE BeginLeave(w)
  <2>1. /\ task' = [task EXCEPT ![w] = [task[w] EXCEPT !.step = "end"]]
        /\ audio' = (audio \/ task[w].current)
        /\ task[w].step # "idle"
        /\ UNCHANGED <<call, jobs, threads, dead, glitch>>
    BY <1>1, <1>5 DEF BeginLeave, At
  <2>2. /\ [task[w] EXCEPT !.step = "end"] \in Task
        /\ [task[w] EXCEPT !.step = "end"].outlived = task[w].outlived
    BY <1>1 DEF Task
  <2>. QED  BY <1>1, <1>a, <2>1, <2>2
<1>. QED  BY <1>2, <1>3, <1>4, <1>5

(* A job that starts: a thread that was idle has its task.                 *)
LEMMA OnStartJobFacts ==
  ASSUME AudioAssumption, TypeOK, NEW id \in Job, NEW w \in Worker, OnStartJob(id, w)
  PROVE  /\ task' \in [Worker -> Task] /\ jobs' \in [Job -> JobState]
         /\ glitch \subseteq glitch' /\ glitch' \subseteq glitch \cup {"overlapped"}
         /\ jobs'[id].active = "running"
         /\ \A other \in Job \ {id} : jobs'[other] = jobs[other]
         /\ \A u \in Worker \ {w} : task'[u] = task[u]
         /\ task'[w].outlived <=> (id # "call" /\ jobs["call"].active = "none")
         /\ UNCHANGED <<call, audio, threads, dead>>
<1>1. /\ task \in [Worker -> Task] /\ jobs \in [Job -> JobState] /\ jobs[id] \in JobState
  BY DEF TypeOK
<1>2. PICK peers \in jobs[id].next :
        task' = [task EXCEPT ![w] =
          [kind |-> id, step |-> "begin", lower |-> 0, current |-> TRUE,
           outlived |-> id # "call" /\ jobs["call"].active = "none",
           todo |-> IF id = "call" THEN PortsOfCall(peers)
                    ELSE {[addr |-> a, port |-> 0] : a \in peers}]]
  BY DEF OnStartJob
<1>. DEFINE todo == IF id = "call" THEN PortsOfCall(peers)
                    ELSE {[addr |-> a, port |-> 0] : a \in peers}
            r == [kind |-> id, step |-> "begin", lower |-> 0, current |-> TRUE,
                  outlived |-> id # "call" /\ jobs["call"].active = "none", todo |-> todo]
<1>3. peers \in SUBSET Addr
  BY <1>1 DEF JobState
<1>4. todo \in SUBSET Target
  <2>1. PortsOfCall(peers) \subseteq Target
    BY <1>3, PortsOfCallType
  <2>2. {[addr |-> a, port |-> 0] : a \in peers} \subseteq Target
    BY <1>3 DEF Target
  <2>. QED  BY <2>1, <2>2
<1>5. r \in Task /\ (r.outlived <=> (id # "call" /\ jobs["call"].active = "none"))
  BY <1>4 DEF Task
<1>6. task' = [task EXCEPT ![w] = r]
  BY <1>2
<1>7. [active |-> "running", next |-> {}] \in JobState
  BY DEF JobState
<1>. HIDE DEF r
<1>8. jobs' = [jobs EXCEPT ![id] = [active |-> "running", next |-> {}]]
  BY DEF OnStartJob
<1>9. /\ jobs' \in [Job -> JobState] /\ jobs'[id].active = "running"
      /\ \A other \in Job \ {id} : jobs'[other] = jobs[other]
  BY <1>1, <1>7, <1>8
<1>10. /\ task' \in [Worker -> Task] /\ task'[w] = r
       /\ \A u \in Worker \ {w} : task'[u] = task[u]
  BY <1>1, <1>5, <1>6
<1>11. /\ glitch \subseteq glitch' /\ glitch' \subseteq glitch \cup {"overlapped"}
       /\ UNCHANGED <<call, audio, threads, dead>>
  BY DEF OnStartJob
<1>. QED  BY <1>5, <1>9, <1>10, <1>11

(* What the session and the scheduler decide: no job becomes active or     *)
(* stops being so, and nothing but the jobs and the call changes.          *)
Decides ==
  \/ \E a \in Addr \ {Local} : StartCall(a)
  \/ \E members \in SUBSET Addr : StartConferenceCall(members)
  \/ StopCall
  \/ \E id \in Job, a \in Addr \ {Local} : ChangePeer(id, a)
  \/ \E id \in Job : SystemStop(id)

(* A decision of the session or the scheduler moves jobs between states:   *)
(* none starts or ends by it, and the audio is not touched.                *)
LEMMA DecidesFacts ==
  ASSUME TypeOK, Decides
  PROVE  /\ call' \in {"none", "call", "conference"} /\ jobs' \in [Job -> JobState]
         /\ \A id \in Job : jobs'[id].active = "none" <=> jobs[id].active = "none"
         /\ UNCHANGED audio
<1>1. "call" \in Job /\ \A a \in Addr : {a} \in SUBSET Addr
  BY DEF Job
<1>2. CASE \E a \in Addr \ {Local} : StartCall(a)
  BY <1>1, <1>2, JobsType DEF StartCall
<1>3. CASE \E members \in SUBSET Addr : StartConferenceCall(members)
  BY <1>1, <1>3, JobsType DEF StartConferenceCall
<1>4. CASE StopCall
  BY <1>1, <1>4, JobsType DEF StopCall
<1>5. CASE \E id \in Job, a \in Addr \ {Local} : ChangePeer(id, a)
  BY <1>1, <1>5, JobsType DEF ChangePeer, TypeOK
<1>6. ASSUME NEW id \in Job, SystemStop(id)
      PROVE  /\ jobs' \in [Job -> JobState] /\ UNCHANGED <<call, audio>>
             /\ \A other \in Job : jobs'[other].active = "none" <=> jobs[other].active = "none"
  <2>1. jobs \in [Job -> JobState] /\ jobs[id] \in JobState
    BY DEF TypeOK
  <2>2. /\ [jobs[id] EXCEPT !.active = "stopping"] \in JobState
        /\ [jobs[id] EXCEPT !.active = "stopping"].active = "stopping"
    BY <2>1 DEF JobState
  <2>3. jobs' = [jobs EXCEPT ![id] = [jobs[id] EXCEPT !.active = "stopping"]]
    BY <1>6, <2>1 DEF SystemStop
  <2>4. jobs[id].active = "running"
    BY <1>6 DEF SystemStop
  <2>. QED  BY <1>6, <2>1, <2>2, <2>3, <2>4 DEF SystemStop
<1>. QED  BY <1>2, <1>3, <1>4, <1>5, <1>6 DEF Decides, TypeOK

(* The player of the peer that is shut down has ended: its socket is       *)
(* closed, and the monitor goes on or is left.                             *)
LEMMA PlayerJoinedFacts ==
  ASSUME TypeOK, PlayerJoined
  PROVE  LET i == monitor.peer IN
         /\ i \in Peer /\ ~peer'[i].playing /\ peer'[i].session # "open"
         /\ peer' \in [Peer -> RemotePeer]
         /\ \A j \in Peer \ {i} : peer'[j] = peer[j]
         /\ monitor' = IF monitor.who = "main" THEN [who |-> "main", peer |-> NoPeer] ELSE Free
         /\ task' \in [Worker -> Task]
         /\ \A u \in Worker : task'[u].step = "idle" \/ task'[u] = task[u]
         /\ UNCHANGED <<service, isRecording, codec, recorder, remotePeers, dead, glitch>>
<1>. DEFINE i == monitor.peer
<1>1. /\ i \in Peer /\ peer \in [Peer -> RemotePeer] /\ peer[i] \in RemotePeer
      /\ task \in [Worker -> Task] /\ ~peer[i].playing
  BY DEF PlayerJoined, TypeOK
<1>2. PICK closed \in Closed :
        peer' = [peer EXCEPT ![i].session = IF @ = "open" THEN closed ELSE @]
  BY DEF PlayerJoined
<1>. DEFINE r == [peer[i] EXCEPT !.session = IF peer[i].session = "open" THEN closed ELSE peer[i].session]
<1>3. r \in RemotePeer /\ ~r.playing /\ r.session # "open"
  BY <1>1 DEF RemotePeer, Closed
<1>4. peer' = [peer EXCEPT ![i] = r]
  BY <1>1, <1>2
<1>5. monitor' = IF monitor.who = "main" THEN [who |-> "main", peer |-> NoPeer] ELSE Free
  BY DEF PlayerJoined, TypeOK
<1>6. task' \in [Worker -> Task] /\ \A u \in Worker : task'[u].step = "idle" \/ task'[u] = task[u]
  BY <1>1, IdleTaskType DEF PlayerJoined, IdleTask
<1>. HIDE DEF r
<1>7. peer' \in [Peer -> RemotePeer] /\ peer'[i] = r /\ \A j \in Peer \ {i} : peer'[j] = peer[j]
  BY <1>1, <1>3, <1>4
<1>. QED  BY <1>1, <1>3, <1>5, <1>6, <1>7 DEF PlayerJoined

(* A player ends; it does so unasked when it finds no codec.               *)
LEMMA PlayerStepFacts ==
  ASSUME TypeOK, NEW i \in Peer, PlayerStep(i)
  PROVE  /\ peer' \in [Peer -> RemotePeer] /\ dead' \in BOOLEAN
         /\ \A j \in Peer : /\ peer'[j].session = peer[j].session
                            /\ peer'[j].playing => peer[j].playing
         /\ dead' = dead \/ (peer[i].session = "open" /\ ~codec)
         /\ UNCHANGED <<service, task, isRecording, codec, recorder, remotePeers, monitor, glitch>>
<1>1. /\ peer \in [Peer -> RemotePeer] /\ peer[i] \in RemotePeer /\ dead \in BOOLEAN
  BY DEF TypeOK
<1>. DEFINE r == [peer[i] EXCEPT !.playing = FALSE]
<1>2. r \in RemotePeer /\ ~r.playing /\ r.session = peer[i].session
  BY <1>1 DEF RemotePeer
<1>3. peer' = [peer EXCEPT ![i] = r]
  BY <1>1 DEF PlayerStep, PlayerEnds, PlayerWithoutCodec
<1>. HIDE DEF r
<1>4. dead' \in BOOLEAN /\ (dead' = dead \/ (peer[i].session = "open" /\ ~codec))
  BY <1>1 DEF PlayerStep, PlayerEnds, PlayerWithoutCodec
<1>. QED  BY <1>1, <1>2, <1>3, <1>4 DEF PlayerStep

(* A recorder that is off sends to nobody.                                 *)
OffIsSilent == ~recorder.on => recorder.to = {}

(* The recorder: it ends or goes on with what it has to send, which are    *)
(* peers of the call when it has just recorded.                            *)
LEMMA RecorderStepFacts ==
  ASSUME TypeOK, OffIsSilent, RecorderStep
  PROVE  /\ recorder' \in Recorder /\ dead' \in BOOLEAN
         /\ recorder'.on => recorder.on
         /\ OffIsSilent'
         /\ \A i \in recorder'.to : i \in recorder.to \/ \E a \in Known : i = remotePeers[a]
         /\ (\A i \in recorder.to : peer[i].session \notin Closed) =>
              dead' = dead /\ (isRecording /\ recorder.on => recorder'.on)
         /\ UNCHANGED <<service, task, isRecording, codec, remotePeers, peer, monitor, glitch>>
<1>1. /\ recorder \in Recorder /\ recorder.on \in BOOLEAN /\ recorder.to \in SUBSET Peer
      /\ dead \in BOOLEAN /\ remotePeers \in [Addr -> Peer \cup {NoPeer}]
  BY DEF TypeOK, Recorder
<1>2. RecorderOff \in Recorder /\ ~RecorderOff.on /\ RecorderOff.to = {}
  BY DEF Recorder, RecorderOff
<1>3. CASE RecorderRead
  <2>1. {remotePeers[a] : a \in Known} \in SUBSET Peer
    BY <1>1 DEF Known
  <2>2. recorder' = [recorder EXCEPT !.to = {remotePeers[a] : a \in Known}] /\ recorder.on
    BY <1>3 DEF RecorderRead, Idle
  <2>3. /\ recorder' \in Recorder /\ recorder'.on = recorder.on
        /\ recorder'.to = {remotePeers[a] : a \in Known}
    BY <1>1, <2>1, <2>2 DEF Recorder
  <2>. QED  BY <1>1, <1>3, <2>2, <2>3 DEF RecorderRead, RecorderStep, OffIsSilent
<1>4. CASE RecorderStop
  BY <1>1, <1>2, <1>4 DEF RecorderStop, RecorderStep, OffIsSilent
<1>5. CASE RecorderSend
  <2>1. PICK i \in recorder.to :
          \/ recorder' = [recorder EXCEPT !.to = @ \ {i}] /\ UNCHANGED dead
          \/ peer[i].session \in Closed /\ recorder' = RecorderOff /\ dead' \in BOOLEAN
    BY <1>5 DEF RecorderSend
  <2>2. recorder.on
    BY <2>1 DEF OffIsSilent
  <2>3. CASE recorder' = [recorder EXCEPT !.to = @ \ {i}] /\ UNCHANGED dead
    <3>1. /\ recorder' \in Recorder /\ recorder'.on = recorder.on
          /\ recorder'.to = recorder.to \ {i}
      BY <1>1, <2>3 DEF Recorder
    <3>. QED  BY <1>1, <2>2, <2>3, <3>1 DEF RecorderStep, OffIsSilent
  <2>4. CASE peer[i].session \in Closed /\ recorder' = RecorderOff /\ dead' \in BOOLEAN
    BY <1>2, <2>1, <2>2, <2>4 DEF RecorderStep, OffIsSilent
  <2>. QED  BY <2>1, <2>3, <2>4
<1>. QED  BY <1>3, <1>4, <1>5 DEF RecorderStep

-----------------------------------------------------------------------------
(* Every step keeps the types. *)

(* Over the actions of the service, its threads and the peers.             *)
LEMMA TypeStep ==
  ASSUME AudioAssumption, TypeOK, OffIsSilent, [Next]_vars
  PROVE  TypeOK' /\ OffIsSilent'
<1>0. /\ glitch \subseteq Glitch /\ RecorderOff \in Recorder /\ ~RecorderOff.on /\ RecorderOff.to = {}
      /\ Free \in [who : {"none", "main"} \cup Worker, peer : Peer \cup {NoPeer}]
      /\ [who |-> "main", peer |-> NoPeer] \in [who : {"none", "main"} \cup Worker, peer : Peer \cup {NoPeer}]
      /\ recorder \in Recorder /\ recorder.on \in BOOLEAN /\ inputs \in Nat
  BY DEF TypeOK, Recorder, RecorderOff, Free
<1>1. CASE UNCHANGED vars
  BY <1>1 DEF vars, service, threads, TypeOK, OffIsSilent
<1>2. CASE Input
  <2>1. inputs' \in Nat
    BY <1>0, <1>2 DEF Input
  <2>2. CASE Decides /\ UNCHANGED <<task, threads, dead, glitch>>
    BY <2>1, <2>2, DecidesFacts DEF threads, TypeOK, OffIsSilent
  <2>3. CASE RecorderFails
    <3>1. glitch' \subseteq Glitch
      BY <1>0, <2>3 DEF RecorderFails, Glitch
    <3>. QED  BY <1>0, <2>1, <2>3, <3>1 DEF RecorderFails, service, TypeOK, OffIsSilent
  <2>. QED  BY <1>2, <2>2, <2>3 DEF Input, Decides
<1>3. CASE OnJob /\ UNCHANGED inputs
  <2>1. ASSUME NEW id \in Job, OnStopJob(id) PROVE TypeOK' /\ OffIsSilent'
    <3>1. CASE id = "call" /\ audio
      BY <1>0, <1>3, <2>1, <3>1 DEF OnStopJob, TypeOK, OffIsSilent
    <3>2. CASE ~(id = "call" /\ audio)
      <4>1. JobStopped(id) /\ UNCHANGED monitor
        BY <2>1, <3>2 DEF OnStopJob
      <4>2. jobs' \in [Job -> JobState] /\ audio' \in BOOLEAN /\ task' \in [Worker -> Task]
        BY <4>1, JobStoppedType
      <4>. QED  BY <1>3, <2>1, <4>1, <4>2 DEF OnStopJob, TypeOK, OffIsSilent
    <3>. QED  BY <3>1, <3>2
  <2>2. ASSUME NEW id \in Job, NEW w \in Worker, OnStartJob(id, w) PROVE TypeOK' /\ OffIsSilent'
    <3>1. glitch' \subseteq Glitch
      BY <1>0, <2>2, OnStartJobFacts DEF Glitch
    <3>. QED  BY <1>3, <2>2, <3>1, OnStartJobFacts DEF threads, TypeOK, OffIsSilent
  <2>. QED  BY <1>3, <2>1, <2>2 DEF OnJob
<1>4. ASSUME NEW w \in Worker, Executor(w), UNCHANGED inputs PROVE TypeOK' /\ OffIsSilent'
  <2>1. CASE BeginCall(w) \/ ReadPeers(w) \/ ReadSize(w) \/ BeginLeave(w)
    BY <1>4, <2>1, ExecutorFacts DEF threads, TypeOK, OffIsSilent
  <2>2. CASE StartAudio(w)
    <3>1. PICK i \in Peer, t \in task[w].todo : Starts(w, i, t)
      BY <2>2, StartAudioFacts
    <3>2. remotePeers' \in [Addr -> Peer \cup {NoPeer}]
      BY <3>1 DEF Starts, TypeOK
    <3>3. recorder' \in Recorder /\ OffIsSilent'
      BY <1>0, <3>1 DEF Starts, OffIsSilent, Recorder
    <3>4. glitch' \subseteq Glitch
      <4>1. glitch' \subseteq glitch \cup {"late", "unseen", "twice"}
        BY <3>1 DEF Starts
      <4>. QED  BY <1>0, <4>1 DEF Glitch
    <3>. QED  BY <1>4, <3>1, <3>2, <3>3, <3>4 DEF Starts, service, TypeOK
  <2>3. CASE EndAudioOf(w)
    <3>1. PICK t \in task[w].todo :
            \/ /\ t.addr \in Known /\ ShutDown(t.addr, w)
               /\ glitch' = glitch \cup {"left"} /\ UNCHANGED task
            \/ /\ task' = [task EXCEPT ![w] = IdleTask]
               /\ UNCHANGED <<remotePeers, peer, monitor, glitch>>
      BY <2>3 DEF EndAudioOf
    <3>2. task' \in [Worker -> Task] /\ glitch' \subseteq Glitch
      <4>1. task \in [Worker -> Task]
        BY DEF TypeOK
      <4>2. glitch' \subseteq glitch \cup {"left"} /\ "left" \in Glitch
        BY <3>1 DEF Glitch
      <4>. QED  BY <1>0, <3>1, <4>1, <4>2, IdleTaskType
    <3>3. /\ remotePeers' \in [Addr -> Peer \cup {NoPeer}] /\ peer' \in [Peer -> RemotePeer]
          /\ monitor' \in [who : {"none", "main"} \cup Worker, peer : Peer \cup {NoPeer}]
      BY <3>1, ShutDownType DEF TypeOK
    <3>. QED  BY <1>4, <2>3, <3>2, <3>3 DEF EndAudioOf, service, TypeOK, OffIsSilent
  <2>. QED  BY <1>4, <2>1, <2>2, <2>3 DEF Executor
<1>5. CASE EndAudio /\ UNCHANGED inputs
  <2>1. CASE EndNext
    <3>1. /\ remotePeers' \in [Addr -> Peer \cup {NoPeer}] /\ peer' \in [Peer -> RemotePeer]
          /\ monitor' \in [who : {"none", "main"} \cup Worker, peer : Peer \cup {NoPeer}]
      BY <2>1, ShutDownType DEF EndNext
    <3>. QED  BY <1>5, <2>1, <3>1 DEF EndNext, service, TypeOK, OffIsSilent
  <2>2. CASE PlayerJoined
    BY <1>0, <1>5, <2>2, PlayerJoinedFacts DEF service, TypeOK, OffIsSilent
  <2>3. CASE CloseRecorder
    BY <1>5, <2>3 DEF CloseRecorder, service, TypeOK, OffIsSilent
  <2>4. CASE RecorderJoined
    <3>1. jobs' \in [Job -> JobState] /\ audio' \in BOOLEAN /\ task' \in [Worker -> Task]
      BY <2>4, JobStoppedType DEF RecorderJoined, Job
    <3>. QED  BY <1>0, <1>5, <2>4, <3>1 DEF RecorderJoined, TypeOK, OffIsSilent
  <2>. QED  BY <1>5, <2>1, <2>2, <2>3, <2>4 DEF EndAudio
<1>6. CASE RecorderStep /\ UNCHANGED inputs
  BY <1>6, RecorderStepFacts DEF service, TypeOK
<1>7. ASSUME NEW i \in Peer, PlayerStep(i) \/ ReceiverDies(i), UNCHANGED inputs
      PROVE  TypeOK' /\ OffIsSilent'
  <2>1. CASE PlayerStep(i)
    BY <1>7, <2>1, PlayerStepFacts DEF service, TypeOK, OffIsSilent
  <2>2. CASE ReceiverDies(i)
    <3>1. glitch' \subseteq Glitch
      BY <1>0, <2>2 DEF ReceiverDies, Glitch
    <3>. QED  BY <1>7, <2>2, <3>1 DEF ReceiverDies, service, threads, TypeOK, OffIsSilent
  <2>. QED  BY <1>7, <2>1, <2>2
<1>. QED  BY <1>1, <1>2, <1>3, <1>4, <1>5, <1>6, <1>7 DEF Next, Running

(* Before the first call nothing is recording.                             *)
LEMMA TypeStart ==
  ASSUME AudioAssumption, Init
  PROVE  TypeOK /\ OffIsSilent
<1>1. /\ [id \in Job |-> [active |-> "none", next |-> {}]] \in [Job -> JobState]
      /\ NewPeer \in RemotePeer /\ RecorderOff \in Recorder /\ RecorderOff.to = {}
      /\ Free \in [who : {"none", "main"} \cup Worker, peer : Peer \cup {NoPeer}]
  BY DEF JobState, NewPeer, RemotePeer, Recorder, RecorderOff, Free
<1>. QED  BY <1>1, IdleTaskType DEF Init, TypeOK, OffIsSilent

(* The types, with the recorder that holds no peers while it is off: the   *)
(* recorder's actions need the second for the first.                       *)
THEOREM TypeInvariant == Spec => [](TypeOK /\ OffIsSilent)
BY TypeStart, TypeStep, AudioAssumption, PTL DEF Spec

(* The service, its threads, the peers and their sockets keep their types, *)
(* however jobs, threads, the network and the session interleave.          *)
THEOREM TypeCorrect == Spec => []TypeOK
BY TypeInvariant, PTL

-----------------------------------------------------------------------------
(* The audio and the call. *)

Active == jobs["call"].active # "none"

(* A thread at work that has not outlived the call was started in it.      *)
StartedInCall ==
  \A w \in Worker : task[w].step # "idle" /\ ~task[w].outlived => Active

(* Whatever startAudio has begun, the job of the call is active and the    *)
(* service knows that it has audio to end.                                 *)
HeldInCall ==
  Untouched({"late", "unseen"}) /\ (recorder.on \/ isRecording \/ Known # {}) =>
    audio /\ Active

HeldInv == StartedInCall /\ HeldInCall

(* A step that neither starts nor ends a job, and starts no audio.         *)
LEMMA HeldKept ==
  ASSUME HeldInv, glitch \subseteq glitch', Active => Active', audio => audio',
         \A w \in Worker : \/ task'[w].step = "idle"
                           \/ task[w].step # "idle" /\ task'[w].outlived = task[w].outlived,
         recorder'.on => recorder.on, isRecording' => isRecording,
         Known' # {} => Known # {}
  PROVE  HeldInv'
<1>1. StartedInCall'
  BY DEF HeldInv, StartedInCall
<1>2. Untouched({"late", "unseen"})' => Untouched({"late", "unseen"})
  BY DEF Untouched
<1>3. HeldInCall'
  BY <1>2 DEF HeldInv, HeldInCall
<1>. QED  BY <1>1, <1>3 DEF HeldInv

(* The end of a job: of the call's, when nothing of the audio is left, or  *)
(* of another, which takes the audio from the service only when the call's *)
(* has ended before it.                                                    *)
LEMMA HeldStopped ==
  ASSUME TypeOK, HeldInv, NEW id \in Job, JobStopped(id),
         UNCHANGED <<recorder, isRecording, remotePeers, glitch>>,
         id = "call" /\ Untouched({"late", "unseen"}) =>
           ~recorder.on /\ ~isRecording /\ Known = {}
  PROVE  HeldInv'
<1>1. StartedInCall'
  <2>1. ASSUME NEW w \in Worker, task'[w].step # "idle", ~task'[w].outlived PROVE Active'
    <3>1. task[w].step # "idle" /\ ~task[w].outlived /\ id # "call"
      BY <2>1, JobStoppedType
    <3>2. Active
      BY <3>1 DEF HeldInv, StartedInCall
    <3>. QED  BY <3>1, <3>2, JobStoppedType DEF Active, Job
  <2>. QED  BY <2>1 DEF StartedInCall
<1>2. HeldInCall'
  <2>. SUFFICES ASSUME Untouched({"late", "unseen"})',
                       (recorder.on \/ isRecording \/ Known # {})'
                PROVE  audio' /\ Active'
    BY DEF HeldInCall
  <2>1. Untouched({"late", "unseen"}) /\ (recorder.on \/ isRecording \/ Known # {})
    BY DEF Untouched, Known
  <2>2. audio /\ Active /\ id # "call"
    BY <2>1 DEF HeldInv, HeldInCall
  <2>3. Active'
    BY <2>2, JobStoppedType DEF Active, Job
  <2>4. audio'
    <3>1. audio /\ ~audio' => \A other \in Job \ {id} : jobs[other].active = "none"
      BY JobStoppedType
    <3>2. "call" \in Job \ {id} /\ jobs["call"].active # "none"
      BY <2>2 DEF Active, Job
    <3>. QED  BY <2>2, <3>1, <3>2
  <2>. QED  BY <2>3, <2>4
<1>. QED  BY <1>1, <1>2 DEF HeldInv

(* startAudio: behind the back of the call's job, or in the call.          *)
LEMMA HeldStarted ==
  ASSUME TypeOK, HeldInv, NEW w \in Worker, StartAudio(w)
  PROVE  HeldInv'
<1>1. PICK i \in Peer, t \in task[w].todo : Starts(w, i, t)
  BY StartAudioFacts
<1>2. audio' = audio /\ (Active' <=> Active)
  BY <1>1 DEF Starts, service, Active
<1>3. StartedInCall'
  BY <1>1, <1>2 DEF Starts, HeldInv, StartedInCall
<1>4. ASSUME Untouched({"late", "unseen"})' PROVE audio /\ Active
  <2>1. Untouched({"late", "unseen"}) /\ ~task[w].outlived /\ (isRecording \/ audio)
    BY <1>1, <1>4 DEF Starts, Untouched
  <2>2. Active
    BY <1>1, <2>1 DEF Starts, HeldInv, StartedInCall
  <2>3. isRecording => audio
    BY <2>1 DEF HeldInv, HeldInCall
  <2>. QED  BY <2>1, <2>2, <2>3
<1>. QED  BY <1>2, <1>3, <1>4 DEF HeldInv, HeldInCall

(* Every step keeps HeldInv.                                               *)
LEMMA HeldStep ==
  ASSUME AudioAssumption, TypeOK, OffIsSilent, HeldInv, [Next]_vars
  PROVE  HeldInv'
<1>1. CASE UNCHANGED vars
  BY <1>1, HeldKept DEF vars, service, threads, Active, Known, HeldInv, StartedInCall,
     HeldInCall, Untouched
<1>2. CASE Input
  <2>1. CASE Decides /\ UNCHANGED <<task, threads, dead, glitch>>
    <3>1. (Active' <=> Active) /\ audio' = audio
      BY <2>1, DecidesFacts DEF Active, Job
    <3>. QED  BY <2>1, <3>1 DEF threads, Known, HeldInv, StartedInCall, HeldInCall, Untouched
  <2>2. CASE RecorderFails
    <3>1. ~recorder'.on
      BY <2>2 DEF RecorderFails, RecorderOff
    <3>2. /\ glitch \subseteq glitch' /\ (Active' <=> Active) /\ audio' = audio
          /\ isRecording' = isRecording /\ Known' = Known /\ task' = task
      BY <2>2 DEF RecorderFails, service, Active, Known
    <3>. QED  BY <3>1, <3>2 DEF HeldInv, StartedInCall, HeldInCall, Untouched
  <2>. QED  BY <1>2, <2>1, <2>2 DEF Input, Decides
<1>3. CASE OnJob
  <2>1. ASSUME NEW id \in Job, OnStopJob(id) PROVE HeldInv'
    <3>1. CASE id = "call" /\ audio
      <4>1. UNCHANGED <<jobs, audio, task, recorder, isRecording, remotePeers, glitch>>
        BY <2>1, <3>1 DEF OnStopJob
      <4>. QED  BY <4>1 DEF Active, Known, HeldInv, StartedInCall, HeldInCall, Untouched
    <3>2. CASE ~(id = "call" /\ audio)
      <4>1. JobStopped(id) /\ UNCHANGED <<recorder, isRecording, remotePeers, glitch>>
        BY <2>1, <3>2 DEF OnStopJob
      <4>2. id = "call" /\ Untouched({"late", "unseen"}) =>
              ~recorder.on /\ ~isRecording /\ Known = {}
        BY <3>2 DEF HeldInv, HeldInCall
      <4>. QED  BY <4>1, <4>2, HeldStopped
    <3>. QED  BY <3>1, <3>2
  <2>2. ASSUME NEW id \in Job, NEW w \in Worker, OnStartJob(id, w) PROVE HeldInv'
    <3>1. /\ glitch \subseteq glitch' /\ audio' = audio /\ recorder' = recorder
          /\ isRecording' = isRecording /\ Known' = Known
          /\ \A u \in Worker \ {w} : task'[u] = task[u]
          /\ task'[w].outlived <=> (id # "call" /\ ~Active)
      BY <2>2, OnStartJobFacts DEF threads, Known, Active
    <3>2. (Active => Active') /\ (id = "call" => Active')
      BY <2>2, OnStartJobFacts DEF Active, Job
    <3>3. StartedInCall'
      BY <3>1, <3>2 DEF HeldInv, StartedInCall
    <3>4. HeldInCall'
      BY <3>1, <3>2 DEF HeldInv, HeldInCall, Untouched
    <3>. QED  BY <3>3, <3>4 DEF HeldInv
  <2>. QED  BY <1>3, <2>1, <2>2 DEF OnJob
<1>4. ASSUME NEW w \in Worker, Executor(w) PROVE HeldInv'
  <2>1. CASE BeginCall(w) \/ ReadPeers(w) \/ ReadSize(w) \/ BeginLeave(w)
    <3>1. /\ (audio => audio') /\ UNCHANGED <<jobs, threads, glitch>>
          /\ \A u \in Worker : \/ task'[u].step = "idle"
                               \/ task[u].step # "idle" /\ task'[u].outlived = task[u].outlived
      BY <2>1, ExecutorFacts
    <3>. QED  BY <3>1, HeldKept DEF threads, Active, Known
  <2>2. CASE StartAudio(w)
    BY <2>2, HeldStarted
  <2>3. CASE EndAudioOf(w)
    <3>1. PICK t \in task[w].todo :
            \/ /\ t.addr \in Known /\ ShutDown(t.addr, w)
               /\ glitch' = glitch \cup {"left"} /\ UNCHANGED task
            \/ /\ task' = [task EXCEPT ![w] = IdleTask]
               /\ UNCHANGED <<remotePeers, peer, monitor, glitch>>
      BY <2>3 DEF EndAudioOf
    <3>2. \A u \in Worker : \/ task'[u].step = "idle" \/ task'[u] = task[u]
      BY <3>1 DEF TypeOK, IdleTask
    <3>3. Known' # {} => Known # {}
      BY <3>1 DEF Known
    <3>4. glitch \subseteq glitch' /\ UNCHANGED <<jobs, audio, recorder, isRecording>>
      BY <2>3, <3>1 DEF EndAudioOf, service
    <3>. QED  BY <3>2, <3>3, <3>4, HeldKept DEF Active
  <2>. QED  BY <1>4, <2>1, <2>2, <2>3 DEF Executor
<1>5. CASE EndAudio
  <2>1. CASE EndNext \/ CloseRecorder
    <3>1. /\ Known' # {} => Known # {}
          /\ isRecording' => isRecording
          /\ UNCHANGED <<jobs, audio, task, recorder, glitch>>
      <4>1. CASE EndNext
        BY <4>1 DEF EndNext, service
      <4>2. CASE CloseRecorder
        BY <4>2 DEF CloseRecorder, Known, service
      <4>. QED  BY <2>1, <4>1, <4>2
    <3>. QED  BY <3>1 DEF Active, HeldInv, StartedInCall, HeldInCall, Untouched
  <2>2. CASE PlayerJoined
    <3>1. /\ \A u \in Worker : task'[u].step = "idle" \/ task'[u] = task[u]
          /\ UNCHANGED <<service, isRecording, recorder, remotePeers, glitch>>
      BY <2>2, PlayerJoinedFacts
    <3>. QED  BY <3>1, HeldKept DEF service, Active, Known
  <2>3. CASE RecorderJoined
    BY <2>3, HeldStopped DEF RecorderJoined, Job
  <2>. QED  BY <1>5, <2>1, <2>2, <2>3 DEF EndAudio
<1>6. CASE RecorderStep
  <2>1. recorder'.on => recorder.on
    BY <1>6, RecorderStepFacts
  <2>2. UNCHANGED <<service, task, isRecording, remotePeers, glitch>>
    BY <1>6 DEF RecorderStep
  <2>. QED  BY <2>1, <2>2 DEF service, Active, Known, HeldInv, StartedInCall, HeldInCall, Untouched
<1>7. ASSUME NEW i \in Peer, PlayerStep(i) \/ ReceiverDies(i) PROVE HeldInv'
  <2>1. UNCHANGED <<service, task, isRecording, recorder, remotePeers>> /\ glitch \subseteq glitch'
    BY <1>7 DEF PlayerStep, ReceiverDies, threads
  <2>. QED  BY <2>1 DEF service, Active, Known, HeldInv, StartedInCall, HeldInCall, Untouched
<1>. QED  BY <1>1, <1>2, <1>3, <1>4, <1>5, <1>6, <1>7 DEF Next, Running

(* The microphone is on only while the call's job is active, unless audio  *)
(* was started behind the back of that job: onStopJob returns only after   *)
(* the recorder has ended, and nothing later can turn it on.               *)
THEOREM MicrophoneEnds == Spec => []MicrophoneOnlyInCall
<1>1. Init => HeldInv
  <2>. SUFFICES ASSUME Init PROVE HeldInv
    OBVIOUS
  <2>1. /\ \A w \in Worker : task[w].step = "idle"
        /\ ~recorder.on /\ ~isRecording /\ Known = {}
    BY DEF Init, IdleTask, RecorderOff, Known
  <2>. QED  BY <2>1 DEF HeldInv, StartedInCall, HeldInCall
<1>2. TypeOK /\ OffIsSilent /\ HeldInv /\ [Next]_vars => HeldInv'
  BY HeldStep, AudioAssumption
<1>3. HeldInv => MicrophoneOnlyInCall
  BY DEF HeldInv, HeldInCall, Active, MicrophoneOnlyInCall
<1>. QED  BY <1>1, <1>2, <1>3, TypeInvariant, PTL DEF Spec

-----------------------------------------------------------------------------
(* The peers and their sockets. *)

(* A peer with a socket or a player is in remotePeers, or is being shut    *)
(* down: nobody loses sight of one, unless another takes its place.        *)
Owned ==
  Untouched({"twice"}) =>
    \A i \in Peer : peer[i].session = "open" \/ peer[i].playing =>
      i = monitor.peer \/ \E a \in Known : remotePeers[a] = i

(* An entry has its peer to itself, and the peer is not shut down yet.     *)
Unshared ==
  /\ \A a, b \in Known : remotePeers[a] = remotePeers[b] => a = b
  /\ \A a \in Known : /\ remotePeers[a] # monitor.peer
                      /\ peer[remotePeers[a]].session \notin Closed
  /\ monitor.who = "none" => monitor.peer = NoPeer

PeersInv == Owned /\ Unshared

(* A step that neither adds a peer nor shuts one down.                     *)
LEMMA PeersKept ==
  ASSUME TypeOK, PeersInv, glitch \subseteq glitch', remotePeers' = remotePeers,
         monitor'.peer = monitor.peer, monitor'.who = "none" => monitor'.peer = NoPeer,
         \A i \in Peer : /\ peer'[i].session = peer[i].session
                         /\ peer'[i].playing => peer[i].playing
  PROVE  PeersInv'
<1>1. Known' = Known /\ \A a \in Known : remotePeers[a] \in Peer
  BY DEF Known, TypeOK
<1>2. Owned'
  BY <1>1 DEF PeersInv, Owned, Untouched
<1>3. Unshared'
  BY <1>1 DEF PeersInv, Unshared
<1>. QED  BY <1>2, <1>3 DEF PeersInv

(* startAudio takes a peer that nobody has.                                *)
LEMMA PeersStarted ==
  ASSUME AudioAssumption, TypeOK, PeersInv, NEW w \in Worker, StartAudio(w)
  PROVE  PeersInv'
<1>1. PICK i \in Peer, t \in task[w].todo : Starts(w, i, t)
  BY StartAudioFacts
<1>2. glitch \subseteq glitch' /\ monitor' = monitor
  BY <1>1 DEF Starts
<1>3. CASE UNCHANGED <<remotePeers, peer>>
  BY <1>2, <1>3, PeersKept DEF PeersInv, Unshared
<1>4. CASE /\ remotePeers' = [remotePeers EXCEPT ![t.addr] = i]
           /\ \A j \in Peer \ {i} : peer'[j] = peer[j]
           /\ peer'[i].session \in {"none", "open"}
  <2>1. /\ remotePeers \in [Addr -> Peer \cup {NoPeer}] /\ t.addr \in Addr
        /\ i # NoPeer /\ i # monitor.peer
        /\ \A a \in Addr : remotePeers[a] # i
    BY <1>1 DEF Starts, Collected, TypeOK, AudioAssumption
  <2>2. /\ Known' = Known \cup {t.addr} /\ remotePeers'[t.addr] = i
        /\ \A a \in Known \ {t.addr} : remotePeers'[a] = remotePeers[a] /\ remotePeers[a] \in Peer \ {i}
    BY <1>4, <2>1 DEF Known
  <2>3. Owned'
    <3>. SUFFICES ASSUME Untouched({"twice"})', NEW j \in Peer,
                         peer'[j].session = "open" \/ peer'[j].playing
                  PROVE  j = monitor'.peer \/ \E a \in Known' : remotePeers'[a] = j
      BY DEF Owned
    <3>1. CASE j = i
      BY <2>2, <3>1
    <3>2. CASE j # i
      <4>1. Untouched({"twice"}) /\ t.addr \notin Known
        BY <1>1 DEF Starts, Untouched
      <4>2. j = monitor.peer \/ \E a \in Known : remotePeers[a] = j
        BY <1>4, <3>2, <4>1 DEF PeersInv, Owned
      <4>. QED  BY <1>2, <2>2, <4>1, <4>2
    <3>. QED  BY <3>1, <3>2
  <2>4. Unshared'
    <3>1. \A a, b \in Known' : remotePeers'[a] = remotePeers'[b] => a = b
      BY <2>2 DEF PeersInv, Unshared
    <3>2. ASSUME NEW a \in Known'
          PROVE  remotePeers'[a] # monitor'.peer /\ peer'[remotePeers'[a]].session \notin Closed
      <4>1. CASE a = t.addr
        BY <1>2, <1>4, <2>1, <2>2, <4>1 DEF Closed
      <4>2. CASE a # t.addr
        BY <1>2, <1>4, <2>2, <4>2 DEF PeersInv, Unshared
      <4>. QED  BY <4>1, <4>2
    <3>. QED  BY <1>2, <3>1, <3>2 DEF PeersInv, Unshared
  <2>. QED  BY <2>3, <2>4 DEF PeersInv
<1>. QED  BY <1>1, <1>3, <1>4 DEF Starts

(* endAudio hands a peer from the table to the monitor.                    *)
LEMMA PeersShutDown ==
  ASSUME AudioAssumption, TypeOK, PeersInv, NEW a \in Known, NEW who \in {"main"} \cup Worker,
         ShutDown(a, who), monitor.peer = NoPeer, glitch \subseteq glitch'
  PROVE  PeersInv'
<1>1. /\ remotePeers \in [Addr -> Peer \cup {NoPeer}] /\ a \in Addr /\ NoPeer \notin Peer
      /\ who # "none"
  BY DEF TypeOK, Known, AudioAssumption
<1>2. remotePeers' = [remotePeers EXCEPT ![a] = NoPeer]
  BY DEF ShutDown
<1>3. Known' = Known \ {a} /\ \A b \in Known \ {a} : remotePeers'[b] = remotePeers[b] /\ remotePeers[b] \in Peer
  BY <1>1, <1>2 DEF Known
<1>4. /\ monitor'.who = who /\ monitor'.peer = remotePeers[a]
      /\ \A i \in Peer : peer'[i].session = peer[i].session /\ peer'[i].playing = peer[i].playing
  BY ShutDownType
<1>5. Owned'
  <2>. SUFFICES ASSUME Untouched({"twice"})', NEW j \in Peer,
                       peer'[j].session = "open" \/ peer'[j].playing
                PROVE  j = monitor'.peer \/ \E b \in Known' : remotePeers'[b] = j
    BY DEF Owned
  <2>1. \E b \in Known : remotePeers[b] = j
    BY <1>1, <1>4 DEF PeersInv, Owned, Untouched
  <2>. QED  BY <1>3, <1>4, <2>1
<1>6. Unshared'
  <2>1. \A b, c \in Known' : remotePeers'[b] = remotePeers'[c] => b = c
    BY <1>3 DEF PeersInv, Unshared
  <2>2. \A b \in Known' : remotePeers'[b] # monitor'.peer /\ peer'[remotePeers'[b]].session \notin Closed
    BY <1>3, <1>4 DEF PeersInv, Unshared
  <2>. QED  BY <1>1, <1>4, <2>1, <2>2 DEF Unshared
<1>. QED  BY <1>5, <1>6 DEF PeersInv

(* The peer that was shut down has no socket and no player any more.       *)
LEMMA PeersJoined ==
  ASSUME TypeOK, PeersInv, PlayerJoined
  PROVE  PeersInv'
<1>. DEFINE i == monitor.peer
<1>1. /\ i \in Peer /\ ~peer'[i].playing /\ peer'[i].session # "open"
      /\ \A j \in Peer \ {i} : peer'[j] = peer[j]
      /\ monitor' = IF monitor.who = "main" THEN [who |-> "main", peer |-> NoPeer] ELSE Free
      /\ remotePeers' = remotePeers /\ glitch' = glitch
  BY PlayerJoinedFacts
<1>2. Known' = Known /\ \A a \in Known : remotePeers[a] \in Peer \ {i}
  BY <1>1 DEF Known, TypeOK, PeersInv, Unshared
<1>3. monitor'.peer = NoPeer
  BY <1>1 DEF Free
<1>4. Owned'
  BY <1>1, <1>2 DEF PeersInv, Owned, Untouched
<1>5. \A a \in Known : remotePeers[a] # NoPeer
  BY DEF Known
<1>6. Unshared'
  BY <1>1, <1>2, <1>3, <1>5 DEF PeersInv, Unshared
<1>. QED  BY <1>4, <1>6 DEF PeersInv

(* Every step keeps PeersInv.                                              *)
LEMMA PeersStep ==
  ASSUME AudioAssumption, TypeOK, OffIsSilent, PeersInv, [Next]_vars
  PROVE  PeersInv'
<1>0. monitor.who = "none" => monitor.peer = NoPeer
  BY DEF PeersInv, Unshared
<1>a. ASSUME UNCHANGED <<remotePeers, peer, monitor>>, glitch \subseteq glitch'
      PROVE  PeersInv'
  BY <1>0, <1>a, PeersKept
<1>1. CASE UNCHANGED vars
  BY <1>1, <1>a DEF vars, threads
<1>2. CASE Input
  BY <1>2, <1>a DEF Input, RecorderFails, threads
<1>3. CASE OnJob
  <2>1. ASSUME NEW id \in Job, OnStopJob(id) PROVE PeersInv'
    <3>1. CASE id = "call" /\ audio
      BY <1>0, <2>1, <3>1, PeersKept DEF OnStopJob
    <3>2. CASE ~(id = "call" /\ audio)
      BY <1>a, <2>1, <3>2 DEF OnStopJob
    <3>. QED  BY <3>1, <3>2
  <2>2. ASSUME NEW id \in Job, NEW w \in Worker, OnStartJob(id, w) PROVE PeersInv'
    BY <1>a, <2>2 DEF OnStartJob, threads
  <2>. QED  BY <1>3, <2>1, <2>2 DEF OnJob
<1>4. ASSUME NEW w \in Worker, Executor(w) PROVE PeersInv'
  <2>1. CASE BeginCall(w) \/ ReadPeers(w) \/ ReadSize(w) \/ BeginLeave(w)
    BY <1>a, <2>1 DEF BeginCall, ReadPeers, ReadSize, BeginLeave, threads
  <2>2. CASE StartAudio(w)
    BY <2>2, PeersStarted
  <2>3. CASE EndAudioOf(w)
    <3>1. PICK t \in task[w].todo :
            \/ t.addr \in Known /\ ShutDown(t.addr, w) /\ glitch' = glitch \cup {"left"}
            \/ UNCHANGED <<remotePeers, peer, monitor, glitch>>
      BY <2>3 DEF EndAudioOf
    <3>2. monitor.peer = NoPeer
      BY <1>0, <2>3 DEF EndAudioOf
    <3>. QED  BY <1>a, <3>1, <3>2, PeersShutDown
  <2>. QED  BY <1>4, <2>1, <2>2, <2>3 DEF Executor
<1>5. CASE EndAudio
  <2>1. CASE EndNext
    BY <2>1, PeersShutDown DEF EndNext
  <2>2. CASE PlayerJoined
    BY <2>2, PeersJoined
  <2>3. CASE CloseRecorder
    BY <1>a, <2>3 DEF CloseRecorder
  <2>4. CASE RecorderJoined
    BY <2>4, PeersKept DEF RecorderJoined, Free
  <2>. QED  BY <1>5, <2>1, <2>2, <2>3, <2>4 DEF EndAudio
<1>6. CASE RecorderStep
  BY <1>6, <1>a DEF RecorderStep
<1>7. ASSUME NEW i \in Peer, PlayerStep(i) \/ ReceiverDies(i) PROVE PeersInv'
  <2>1. CASE PlayerStep(i)
    BY <1>0, <2>1, PlayerStepFacts, PeersKept
  <2>2. CASE ReceiverDies(i)
    BY <1>a, <2>2 DEF ReceiverDies, threads
  <2>. QED  BY <1>7, <2>1, <2>2
<1>. QED  BY <1>1, <1>2, <1>3, <1>4, <1>5, <1>6, <1>7 DEF Next, Running

(* Before the first call no peer is known, and none plays.                 *)
LEMMA PeersStart ==
  ASSUME Init
  PROVE  HeldInv /\ PeersInv
<1>1. /\ \A w \in Worker : task[w].step = "idle"
      /\ ~recorder.on /\ ~isRecording /\ Known = {}
  BY DEF Init, IdleTask, RecorderOff, Known
<1>2. /\ \A i \in Peer : peer[i].session = "none" /\ ~peer[i].playing
      /\ monitor.peer = NoPeer
  BY DEF Init, NewPeer, Free
<1>. QED  BY <1>1, <1>2 DEF HeldInv, StartedInCall, HeldInCall, PeersInv, Owned, Unshared

(* When the job of a call is gone every socket is closed and every player  *)
(* has ended, but for a peer that is being shut down, in whatever order    *)
(* peers came and went: the entries of remotePeers are all that endAudio   *)
(* has to go by, and they are enough.                                      *)
THEOREM NothingOutlives == Spec => []NothingOutlivesCall
<1>1. Init => HeldInv /\ PeersInv
  BY PeersStart
<1>2. TypeOK /\ OffIsSilent /\ HeldInv /\ PeersInv /\ [Next]_vars => HeldInv' /\ PeersInv'
  BY HeldStep, PeersStep, AudioAssumption
<1>3. HeldInv /\ PeersInv => NothingOutlivesCall
  <2>. SUFFICES ASSUME HeldInv, PeersInv, jobs["call"].active = "none",
                       Untouched({"late", "unseen", "twice"})
                PROVE  \A i \in Peer : i = monitor.peer \/ (peer[i].session # "open" /\ ~peer[i].playing)
    BY DEF NothingOutlivesCall
  <2>1. Untouched({"late", "unseen"}) /\ Untouched({"twice"})
    BY DEF Untouched
  <2>2. Known = {}
    BY <2>1 DEF HeldInv, HeldInCall, Active
  <2>. QED  BY <2>1, <2>2 DEF PeersInv, Owned
<1>. QED  BY <1>1, <1>2, <1>3, TypeInvariant, PTL DEF Spec

-----------------------------------------------------------------------------
(* The recorder thread. *)

Quiet == Untouched({"left", "unreachable", "twice", "torn"})

(* While no peer has left, only the main thread shuts peers down.          *)
OnlyMainEnds == Untouched({"left"}) => monitor.who \in {"none", "main"}

(* While the call is not being ended no peer that the recorder sends to    *)
(* has been closed, and every open socket has a codec for its player.      *)
GoesOn ==
  Quiet /\ monitor.who # "main" =>
    /\ ~dead
    /\ isRecording => recorder.on
    /\ \A i \in recorder.to : peer[i].session \notin Closed
    /\ \A i \in Peer : peer[i].session = "open" => codec

GoesOnInv == OnlyMainEnds /\ GoesOn

(* A step that changes nothing the recorder depends on.                    *)
LEMMA GoesOnKept ==
  ASSUME GoesOnInv, glitch \subseteq glitch',
         UNCHANGED <<monitor, dead, isRecording, recorder, peer, codec>>
  PROVE  GoesOnInv'
<1>1. (Quiet' => Quiet) /\ (Untouched({"left"})' => Untouched({"left"}))
  BY DEF Quiet, Untouched
<1>. QED  BY <1>1 DEF GoesOnInv, OnlyMainEnds, GoesOn

(* startAudio gives the recorder and the player what they need.            *)
LEMMA GoesOnStarted ==
  ASSUME TypeOK, GoesOnInv, NEW w \in Worker, StartAudio(w)
  PROVE  GoesOnInv'
<1>1. PICK i \in Peer, t \in task[w].todo : Starts(w, i, t)
  BY StartAudioFacts
<1>2. /\ monitor' = monitor /\ dead' = dead /\ codec' = TRUE /\ isRecording' = TRUE
      /\ recorder' = IF isRecording THEN recorder ELSE [on |-> TRUE, to |-> {}]
      /\ glitch \subseteq glitch'
  BY <1>1 DEF Starts
<1>3. OnlyMainEnds'
  BY <1>2 DEF GoesOnInv, OnlyMainEnds, Untouched
<1>4. GoesOn'
  <2>. SUFFICES ASSUME Quiet', monitor'.who # "main"
                PROVE  /\ ~dead' /\ recorder'.on
                       /\ \A j \in recorder'.to : peer'[j].session \notin Closed
    BY <1>2 DEF GoesOn
  <2>1. Quiet /\ monitor.who # "main"
    BY <1>2 DEF Quiet, Untouched
  <2>2. /\ ~dead /\ (isRecording => recorder.on)
        /\ \A j \in recorder.to : peer[j].session \notin Closed
    BY <2>1 DEF GoesOnInv, GoesOn
  <2>3. \A j \in recorder'.to : j \in recorder.to /\ j \in Peer
    BY <1>2 DEF TypeOK, Recorder
  <2>4. \A j \in Peer : peer'[j] = peer[j] \/ peer'[j].session \notin Closed
    BY <1>1 DEF Starts, Closed
  <2>. QED  BY <1>2, <2>2, <2>3, <2>4
<1>. QED  BY <1>3, <1>4 DEF GoesOnInv

(* The call has been ended: the recorder and all sockets are gone before   *)
(* the codec is.                                                           *)
LEMMA GoesOnEnded ==
  ASSUME AudioAssumption, TypeOK, OffIsSilent, PeersInv, GoesOnInv, ~dead, RecorderJoined
  PROVE  GoesOnInv'
<1>1. /\ monitor' = Free /\ dead' = dead /\ isRecording' = FALSE /\ recorder' = recorder
      /\ peer' = peer /\ glitch' = glitch /\ ~recorder.on /\ Known = {}
      /\ monitor.peer = NoPeer
  BY DEF RecorderJoined
<1>2. recorder'.to = {}
  BY <1>1 DEF OffIsSilent
<1>3. Quiet => \A i \in Peer : peer[i].session # "open"
  BY <1>1 DEF PeersInv, Owned, Quiet, Untouched, AudioAssumption
<1>. QED  BY <1>1, <1>2, <1>3 DEF GoesOnInv, OnlyMainEnds, GoesOn, Free, Quiet, Untouched

(* Every step keeps GoesOnInv.                                             *)
LEMMA GoesOnStep ==
  ASSUME AudioAssumption, TypeOK, OffIsSilent, PeersInv, GoesOnInv, [Next]_vars
  PROVE  GoesOnInv'
<1>1. CASE UNCHANGED vars
  BY <1>1, GoesOnKept DEF vars, threads
<1>2. CASE Input
  <2>1. CASE Decides /\ UNCHANGED <<task, threads, dead, glitch>>
    BY <2>1, GoesOnKept DEF threads
  <2>2. CASE RecorderFails
    <3>1. "unreachable" \in glitch' /\ glitch \subseteq glitch' /\ monitor' = monitor
      BY <2>2 DEF RecorderFails
    <3>. QED  BY <3>1 DEF GoesOnInv, OnlyMainEnds, GoesOn, Quiet, Untouched
  <2>. QED  BY <1>2, <2>1, <2>2 DEF Input, Decides
<1>3. CASE OnJob
  <2>1. ASSUME NEW id \in Job, OnStopJob(id) PROVE GoesOnInv'
    <3>1. CASE id = "call" /\ audio
      <4>1. monitor'.who = "main"
        BY <2>1, <3>1 DEF OnStopJob
      <4>. QED  BY <4>1 DEF GoesOnInv, OnlyMainEnds, GoesOn
    <3>2. CASE ~(id = "call" /\ audio)
      BY <2>1, <3>2, GoesOnKept DEF OnStopJob
    <3>. QED  BY <3>1, <3>2
  <2>2. ASSUME NEW id \in Job, NEW w \in Worker, OnStartJob(id, w) PROVE GoesOnInv'
    BY <2>2, GoesOnKept DEF OnStartJob, threads
  <2>. QED  BY <1>3, <2>1, <2>2 DEF OnJob
<1>4. ASSUME NEW w \in Worker, Executor(w) PROVE GoesOnInv'
  <2>1. CASE BeginCall(w) \/ ReadPeers(w) \/ ReadSize(w) \/ BeginLeave(w)
    BY <2>1, GoesOnKept DEF BeginCall, ReadPeers, ReadSize, BeginLeave, threads
  <2>2. CASE StartAudio(w)
    BY <2>2, GoesOnStarted
  <2>3. CASE EndAudioOf(w)
    <3>1. \/ "left" \in glitch'
          \/ UNCHANGED <<monitor, dead, isRecording, recorder, peer, codec, glitch>>
      BY <2>3 DEF EndAudioOf
    <3>2. CASE "left" \in glitch'
      BY <3>2 DEF GoesOnInv, OnlyMainEnds, GoesOn, Quiet, Untouched
    <3>. QED  BY <3>1, <3>2, GoesOnKept
  <2>. QED  BY <1>4, <2>1, <2>2, <2>3 DEF Executor
<1>5. CASE EndAudio /\ ~dead
  <2>1. CASE EndNext \/ CloseRecorder
    <3>1. monitor'.who = "main"
      <4>1. CASE EndNext
        BY <4>1 DEF EndNext, ShutDown
      <4>2. CASE CloseRecorder
        BY <4>2 DEF CloseRecorder
      <4>. QED  BY <2>1, <4>1, <4>2
    <3>. QED  BY <3>1 DEF GoesOnInv, OnlyMainEnds, GoesOn
  <2>2. CASE PlayerJoined
    <3>1. /\ monitor' = IF monitor.who = "main" THEN [who |-> "main", peer |-> NoPeer] ELSE Free
          /\ glitch' = glitch /\ monitor.peer \in Peer
      BY <2>2, PlayerJoinedFacts
    <3>2. monitor.who # "none"
      BY <3>1 DEF PeersInv, Unshared, AudioAssumption
    <3>3. monitor'.who \in {"none", "main"}
      BY <3>1 DEF Free
    <3>4. Quiet' /\ monitor'.who # "main" => FALSE
      BY <3>1, <3>2 DEF GoesOnInv, OnlyMainEnds, Quiet, Untouched
    <3>. QED  BY <3>3, <3>4 DEF GoesOnInv, OnlyMainEnds, GoesOn
  <2>3. CASE RecorderJoined
    BY <1>5, <2>3, GoesOnEnded
  <2>. QED  BY <1>5, <2>1, <2>2, <2>3 DEF EndAudio
<1>6. CASE RecorderStep
  <2>1. /\ \A i \in recorder'.to : i \in recorder.to \/ \E a \in Known : i = remotePeers[a]
        /\ (\A i \in recorder.to : peer[i].session \notin Closed) =>
             dead' = dead /\ (isRecording /\ recorder.on => recorder'.on)
        /\ UNCHANGED <<isRecording, codec, peer, monitor, glitch>>
    BY <1>6, RecorderStepFacts
  <2>. QED  BY <2>1 DEF PeersInv, Unshared, GoesOnInv, OnlyMainEnds, GoesOn, Quiet, Untouched
<1>7. ASSUME NEW i \in Peer, PlayerStep(i) \/ ReceiverDies(i) PROVE GoesOnInv'
  <2>1. CASE PlayerStep(i)
    <3>1. /\ \A j \in Peer : peer'[j].session = peer[j].session
          /\ dead' = dead \/ (peer[i].session = "open" /\ ~codec)
          /\ UNCHANGED <<isRecording, codec, recorder, monitor, glitch>>
      BY <2>1, PlayerStepFacts
    <3>2. recorder.to \subseteq Peer
      BY DEF TypeOK, Recorder
    <3>. QED  BY <3>1, <3>2 DEF GoesOnInv, OnlyMainEnds, GoesOn, Quiet, Untouched
  <2>2. CASE ReceiverDies(i)
    <3>1. "torn" \in glitch' /\ glitch \subseteq glitch' /\ monitor' = monitor
      BY <2>2 DEF ReceiverDies, threads
    <3>. QED  BY <3>1 DEF GoesOnInv, OnlyMainEnds, GoesOn, Quiet, Untouched
  <2>. QED  BY <1>7, <2>1, <2>2
<1>. QED  BY <1>1, <1>2, <1>3, <1>4, <1>5, <1>6, <1>7 DEF Next, Running

(* Nobody is cut off in a call: as long as no peer has left and the call   *)
(* is not being ended, the recorder thread lives while isRecording is set, *)
(* and neither it nor a player dies of a session or codec that another     *)
(* thread takes away.                                                      *)
THEOREM RecorderSurvives == Spec => []RecorderGoesOn
<1>1. Init => PeersInv /\ GoesOnInv
  <2>. SUFFICES ASSUME Init PROVE PeersInv /\ GoesOnInv
    OBVIOUS
  <2>1. /\ ~dead /\ ~isRecording /\ recorder.to = {} /\ monitor.who = "none"
        /\ \A i \in Peer : peer[i].session = "none"
    BY DEF Init, NewPeer, RecorderOff, Free
  <2>. QED  BY <2>1, PeersStart DEF GoesOnInv, OnlyMainEnds, GoesOn
<1>2. TypeOK /\ OffIsSilent /\ PeersInv /\ GoesOnInv /\ [Next]_vars => PeersInv' /\ GoesOnInv'
  BY PeersStep, GoesOnStep, AudioAssumption
<1>3. GoesOnInv => RecorderGoesOn
  BY DEF GoesOnInv, GoesOn, Quiet, RecorderGoesOn
<1>. QED  BY <1>1, <1>2, <1>3, TypeInvariant, PTL DEF Spec

-----------------------------------------------------------------------------
(* The ports. *)

PortRaces == {"late", "unseen", "overlapped", "left", "twice"}

(* Only one job's thread is at work, and a job starts audio or ends it.    *)
Alone == \A u, w \in Worker : task[u].step # "idle" /\ task[w].step # "idle" => u = w
Kinds == \A w \in Worker : /\ task[w].step = "start" => task[w].kind \in {"call", "join"}
                           /\ task[w].step = "size" => task[w].kind = "join"

(* A peer joins alone: startPeer schedules a job for one address.          *)
OneJoins == \A peers \in jobs["join"].next : \E a \in Addr : peers = {a}

PortOf(a) == peer[remotePeers[a]].port
Busy(w, kind) == task[w].kind = kind /\ task[w].step # "idle" /\ ~task[w].outlived

(* The port of a peer that joins now is not that of the only peer.         *)
Apart == \A a \in Addr : Known = {a} => PortOf(a) # 1 + Below({a}, Local)

AllOpen == \A a \in Known : peer[remotePeers[a]].session = "open"

Settled == Apart /\ (Cardinality(Known) <= 2 => AllOpen)

(* While the job of a call is starting its peers, there are those that it  *)
(* has started, each at its port.                                          *)
CallPorts(w, members) ==
  LET started == PortsOfCall(members) \ task[w].todo
  IN  /\ task[w].todo \subseteq PortsOfCall(members)
      /\ Known = {t.addr : t \in started} \ {Local}
      /\ \A t \in started : t.addr # Local => PortOf(t.addr) = t.port
      /\ AllOpen

(* What the thread of a joining peer has read is still so.                 *)
JoinPort(w) ==
  /\ \E t \in Target : task[w].todo = {t}
  /\ task[w].step = "size" => task[w].lower = Below(Known, Local)
  /\ task[w].step = "start" =>
       \A t \in task[w].todo : t.port = Cardinality(Known) + Below(Known, Local)

PortsOK ==
  /\ (\A w \in Worker : ~Busy(w, "call")) => Settled
  /\ \A w \in Worker : /\ Busy(w, "call") => \E members \in SUBSET Addr : CallPorts(w, members)
                       /\ Busy(w, "join") => JoinPort(w)

PortsInv == Untouched(PortRaces) => Alone /\ Kinds /\ OneJoins /\ (MainFree => PortsOK)

(* The peers, their sessions and ports stay as they are.                   *)
SamePeers ==
  /\ remotePeers' = remotePeers
  /\ \A i \in Peer : peer'[i].port = peer[i].port /\ peer'[i].session = peer[i].session

(* The task of a thread, but for the instance it belongs to.               *)
SameTask(w) ==
  /\ task[w].step # "idle"
  /\ task'[w].kind = task[w].kind /\ task'[w].step = task[w].step
  /\ task'[w].todo = task[w].todo /\ task'[w].lower = task[w].lower
  /\ task[w].outlived => task'[w].outlived

(* With the peers, all that is said of them stays.                         *)
LEMMA PeersStay ==
  ASSUME TypeOK, SamePeers
  PROVE  /\ Known' = Known /\ (Settled' <=> Settled) /\ (AllOpen' <=> AllOpen)
         /\ \A a \in Known : PortOf(a)' = PortOf(a)
         /\ \A a \in Known : remotePeers[a] \in Peer
<1>1. Known' = Known /\ \A a \in Known : remotePeers[a] \in Peer
  BY DEF SamePeers, Known, TypeOK
<1>2. \A a \in Known : PortOf(a)' = PortOf(a)
  BY <1>1 DEF SamePeers, PortOf
<1>3. AllOpen' <=> AllOpen
  BY <1>1 DEF SamePeers, AllOpen
<1>4. Apart' <=> Apart
  BY <1>1, <1>2 DEF Apart
<1>. QED  BY <1>1, <1>2, <1>3, <1>4 DEF Settled

(* The thread of a job whose task stays has the same ports to give.        *)
LEMMA TaskStays ==
  ASSUME TypeOK, SamePeers, NEW w \in Worker, SameTask(w)
  PROVE  /\ \A members \in SUBSET Addr : CallPorts(w, members) => CallPorts(w, members)'
         /\ JoinPort(w) => JoinPort(w)'
<1>1. /\ Known' = Known /\ (AllOpen' <=> AllOpen) /\ \A a \in Known : PortOf(a)' = PortOf(a)
      /\ task'[w].todo = task[w].todo /\ task'[w].step = task[w].step
      /\ task'[w].lower = task[w].lower
  BY PeersStay DEF SameTask
<1>2. ASSUME NEW members \in SUBSET Addr, CallPorts(w, members) PROVE CallPorts(w, members)'
  <2>. DEFINE started == PortsOfCall(members) \ task[w].todo
  <2>1. \A t \in started : t.addr # Local => PortOf(t.addr)' = t.port
    <3>. SUFFICES ASSUME NEW t \in started, t.addr # Local PROVE PortOf(t.addr)' = t.port
      OBVIOUS
    <3>1. t.addr \in Known /\ PortOf(t.addr) = t.port
      BY <1>2 DEF CallPorts
    <3>. QED  BY <1>1, <3>1
  <2>. QED  BY <1>1, <1>2, <2>1 DEF CallPorts
<1>3. JoinPort(w) => JoinPort(w)'
  BY <1>1 DEF JoinPort
<1>. QED  BY <1>2, <1>3

(* A step that leaves the peers, and lets threads end at most.             *)
LEMMA PortsKept ==
  ASSUME TypeOK, PortsInv, glitch \subseteq glitch', SamePeers, MainFree' => MainFree,
         OneJoins => OneJoins',
         \A w \in Worker : task'[w].step # "idle" => SameTask(w),
         Untouched(PortRaces) /\ MainFree /\ (\A w \in Worker : ~Busy(w, "call")') => Settled
  PROVE  PortsInv'
<1>. SUFFICES ASSUME Untouched(PortRaces)'
              PROVE  Alone' /\ Kinds' /\ OneJoins' /\ (MainFree' => PortsOK')
  BY DEF PortsInv
<1>0. Untouched(PortRaces) /\ Alone /\ Kinds /\ OneJoins /\ (MainFree => PortsOK)
  BY DEF PortsInv, Untouched
<1>1. Alone' /\ Kinds'
  BY <1>0 DEF Alone, Kinds, SameTask
<1>2. ASSUME MainFree' PROVE PortsOK'
  <2>1. MainFree /\ PortsOK
    BY <1>0, <1>2
  <2>2. (\A w \in Worker : ~Busy(w, "call")') => Settled'
    BY <1>0, <2>1, PeersStay
  <2>3. ASSUME NEW w \in Worker, Busy(w, "call")'
        PROVE  \E members \in SUBSET Addr : CallPorts(w, members)'
    <3>1. SameTask(w) /\ Busy(w, "call")
      BY <2>3 DEF Busy, SameTask
    <3>. QED  BY <2>1, <3>1, TaskStays DEF PortsOK
  <2>4. ASSUME NEW w \in Worker, Busy(w, "join")'
        PROVE  JoinPort(w)'
    <3>1. SameTask(w) /\ Busy(w, "join")
      BY <2>4 DEF Busy, SameTask
    <3>. QED  BY <2>1, <3>1, TaskStays DEF PortsOK
  <2>. QED  BY <2>2, <2>3, <2>4 DEF PortsOK
<1>. QED  BY <1>0, <1>1, <1>2

(* A step in which the main thread is ending the call's audio.             *)
LEMMA PortsEnding ==
  ASSUME PortsInv, glitch \subseteq glitch', ~MainFree', OneJoins => OneJoins',
         \A w \in Worker : task'[w].step = "idle" \/ task'[w] = task[w]
  PROVE  PortsInv'
<1>1. Untouched(PortRaces)' => Untouched(PortRaces)
  BY DEF Untouched
<1>2. Alone => Alone'
  BY DEF Alone
<1>3. Kinds => Kinds'
  BY DEF Kinds
<1>. QED  BY <1>1, <1>2, <1>3 DEF PortsInv

(* The end of a job: what becomes of the threads that are at work.         *)
LEMMA TasksStopped ==
  ASSUME TypeOK, NEW id \in Job, JobStopped(id)
  PROVE  /\ \A w \in Worker : task'[w].step # "idle" => SameTask(w)
         /\ \A w \in Worker : id = "call" => ~Busy(w, "call")' /\ ~Busy(w, "join")'
         /\ \A w \in Worker : id # "call" /\ Busy(w, "call") => Busy(w, "call")'
         /\ OneJoins => OneJoins'
<1>1. ASSUME NEW w \in Worker
      PROVE  /\ task'[w].step # "idle" => SameTask(w)
             /\ id = "call" => ~Busy(w, "call")' /\ ~Busy(w, "join")'
             /\ id # "call" /\ Busy(w, "call") => Busy(w, "call")'
  <2>. DEFINE last == \A other \in Job \ {id} : jobs[other].active = "none"
  <2>1. task[w] \in Task
    BY DEF TypeOK
  <2>2. CASE task[w].step = "idle"
    <3>1. task'[w] = IdleTask
      BY <2>2 DEF JobStopped
    <3>. QED  BY <2>2, <3>1 DEF Busy, IdleTask
  <2>3. CASE task[w].step # "idle"
    <3>1. task'[w] = [task[w] EXCEPT !.current = @ /\ ~last, !.outlived = @ \/ id = "call"]
      BY <2>3 DEF JobStopped
    <3>. HIDE DEF last
    <3>2. /\ task'[w].kind = task[w].kind /\ task'[w].step = task[w].step
          /\ task'[w].todo = task[w].todo /\ task'[w].lower = task[w].lower
          /\ task'[w].outlived = (task[w].outlived \/ id = "call")
      BY <2>1, <3>1 DEF Task
    <3>. QED  BY <2>3, <3>2 DEF Busy, SameTask
  <2>. QED  BY <2>2, <2>3
<1>2. jobs'["join"].next = jobs["join"].next
  BY DEF JobStopped, TypeOK, Job, JobState
<1>. QED  BY <1>1, <1>2 DEF OneJoins

(* Addresses have different ranks.                                         *)
LEMMA RanksDiffer ==
  ASSUME AudioAssumption, NEW members \in SUBSET Addr, NEW a \in members, NEW b \in members, a < b
  PROVE  Below(members, a) < Below(members, b)
<1>. DEFINE A == {c \in members : c < a}
            B == {c \in members : c < b}
<1>1. \A c \in members : c \in Nat
  BY DEF AudioAssumption
<1>2. IsFiniteSet(B)
  BY FS_Subset DEF AudioAssumption
<1>3. A \subseteq B /\ a \in B /\ a \notin A
  <2>1. a \in Nat /\ b \in Nat
    BY <1>1
  <2>2. \A c \in members : c < a => c < b
    BY <1>1, <2>1
  <2>3. ~(a < a)
    BY <2>1
  <2>. QED  BY <2>2, <2>3
<1>. HIDE DEF A, B
<1>4. Cardinality(A) \in Nat /\ Cardinality(B) \in Nat
  BY <1>2, <1>3, FS_Subset, FS_CardinalityType
<1>5. Cardinality(A) <= Cardinality(B) /\ Cardinality(A) # Cardinality(B)
  BY <1>2, <1>3, FS_Subset
<1>. QED  BY <1>4, <1>5 DEF Below, A, B

(* So the ports of a call's peers are different.                           *)
LEMMA PortsDiffer ==
  ASSUME AudioAssumption, NEW members \in SUBSET Addr,
         NEW s \in PortsOfCall(members), NEW t \in PortsOfCall(members), s.port = t.port
  PROVE  s = t
<1>1. PICK a \in members : s = [addr |-> a, port |-> Cardinality(members) - 1 + Below(members, a)]
  BY DEF PortsOfCall
<1>2. PICK b \in members : t = [addr |-> b, port |-> Cardinality(members) - 1 + Below(members, b)]
  BY DEF PortsOfCall
<1>3. /\ Cardinality(members) \in Nat /\ a \in Nat /\ b \in Nat
      /\ Below(members, a) \in Nat /\ Below(members, b) \in Nat
  BY BelowType DEF AudioAssumption
<1>4. Below(members, a) = Below(members, b)
  BY <1>1, <1>2, <1>3
<1>5. a = b
  BY <1>3, <1>4, RanksDiffer
<1>. QED  BY <1>1, <1>2, <1>5

(* Of one address, at most itself is below another.                        *)
LEMMA OneBelow ==
  ASSUME AudioAssumption, NEW a \in Addr, NEW b \in Addr
  PROVE  Below({a}, b) = IF a < b THEN 1 ELSE 0
<1>1. CASE a < b
  <2>1. {c \in {a} : c < b} = {a}
    BY <1>1
  <2>. QED  BY <1>1, <2>1, FS_Singleton DEF Below
<1>2. CASE ~(a < b)
  <2>1. {c \in {a} : c < b} = {}
    BY <1>2
  <2>. QED  BY <1>2, <2>1, FS_EmptySet DEF Below
<1>. QED  BY <1>1, <1>2

(* Two members are two.                                                    *)
LEMMA TwoMembers ==
  ASSUME NEW a, NEW b, a # b
  PROVE  Cardinality({a, b}) = 2
<1>1. IsFiniteSet({b}) /\ Cardinality({b}) = 1
  BY FS_Singleton
<1>2. Cardinality({b} \cup {a}) = 1 + 1
  BY <1>1, FS_AddElement
<1>3. {a, b} = {b} \cup {a}
  OBVIOUS
<1>. QED  BY <1>2, <1>3

(* The only peer of a call has port 0, or, with this phone among the       *)
(* members, the other side of 1 than a peer that joins.                    *)
LEMMA OnlyPort ==
  ASSUME AudioAssumption, NEW members \in SUBSET Addr, NEW a \in Addr,
         {a} = {t.addr : t \in PortsOfCall(members)} \ {Local}, NEW port,
         \A t \in PortsOfCall(members) : t.addr = a => port = t.port
  PROVE  port # 1 + Below({a}, Local)
<1>1. {t.addr : t \in PortsOfCall(members)} = members
  <2>1. \A t \in PortsOfCall(members) : t.addr \in members
    BY DEF PortsOfCall
  <2>2. ASSUME NEW b \in members PROVE \E t \in PortsOfCall(members) : t.addr = b
    <3>1. [addr |-> b, port |-> Cardinality(members) - 1 + Below(members, b)] \in PortsOfCall(members)
      BY DEF PortsOfCall
    <3>. QED  BY <3>1
  <2>. QED  BY <2>1, <2>2
<1>2. a # Local /\ a \in members /\ (members = {a} \/ members = {a, Local})
  BY <1>1
<1>3. a \in Nat /\ Local \in Nat /\ Local \in Addr
  BY DEF AudioAssumption
<1>4. port = Cardinality(members) - 1 + Below(members, a)
  <2>. DEFINE t == [addr |-> a, port |-> Cardinality(members) - 1 + Below(members, a)]
  <2>1. t \in PortsOfCall(members) /\ t.addr = a
    BY <1>2 DEF PortsOfCall
  <2>2. port = t.port
    BY <2>1
  <2>. QED  BY <2>2
<1>5. Below({a}, Local) = IF a < Local THEN 1 ELSE 0
  BY <1>3, OneBelow
<1>6. CASE members = {a}
  <2>1. Cardinality(members) = 1 /\ Below(members, a) = 0
    <3>1. Cardinality(members) = 1
      BY <1>6, FS_Singleton
    <3>2. Below({a}, a) = 0
      BY <1>3, OneBelow
    <3>. QED  BY <1>6, <3>1, <3>2
  <2>. QED  BY <1>4, <1>5, <2>1
<1>7. CASE members = {a, Local}
  <2>1. Cardinality(members) = 2
    BY <1>2, <1>7, TwoMembers
  <2>2. Below(members, a) = IF Local < a THEN 1 ELSE 0
    <3>1. CASE Local < a
      <4>1. {c \in members : c < a} = {Local}
        BY <1>3, <1>7, <3>1
      <4>. QED  BY <3>1, <4>1, FS_Singleton DEF Below
    <3>2. CASE ~(Local < a)
      <4>1. {c \in members : c < a} = {}
        BY <1>3, <1>7, <3>2
      <4>. QED  BY <3>2, <4>1, FS_EmptySet DEF Below
    <3>. QED  BY <3>1, <3>2
  <2>. QED  BY <1>2, <1>3, <1>4, <1>5, <2>1, <2>2
<1>. QED  BY <1>2, <1>6, <1>7

(* A call's job with no peers left to start has started them all.          *)
LEMMA CallStarted ==
  ASSUME AudioAssumption, NEW w \in Worker, NEW members \in SUBSET Addr,
         CallPorts(w, members), task[w].todo = {}
  PROVE  Settled
<1>. SUFFICES ASSUME NEW a \in Addr, Known = {a}
              PROVE  PortOf(a) # 1 + Below({a}, Local)
  BY DEF Settled, Apart, CallPorts
<1>1. /\ {a} = {t.addr : t \in PortsOfCall(members)} \ {Local}
      /\ \A t \in PortsOfCall(members) : t.addr # Local => PortOf(t.addr) = t.port
  BY DEF CallPorts
<1>2. \A t \in PortsOfCall(members) : t.addr = a => PortOf(a) = t.port
  BY <1>1
<1>. QED  BY <1>1, <1>2, OnlyPort

(* A job that starts finds nobody else at work, and a call no peers.       *)
LEMMA PortsJobStarted ==
  ASSUME AudioAssumption, TypeOK, HeldInv, PortsInv,
         NEW id \in Job, NEW w \in Worker, OnStartJob(id, w)
  PROVE  PortsInv'
<1>. SUFFICES ASSUME Untouched(PortRaces)'
              PROVE  Alone' /\ Kinds' /\ OneJoins' /\ (MainFree' => PortsOK')
  BY DEF PortsInv
<1>1. /\ MainFree /\ jobs[id].active = "none"
      /\ UNCHANGED <<call, audio, threads, dead>>
      /\ glitch' = IF \E u \in Worker : task[u].step # "idle"
                   THEN glitch \cup {"overlapped"} ELSE glitch
  BY DEF OnStartJob
<1>2. Untouched(PortRaces) /\ \A u \in Worker : task[u].step = "idle"
  BY <1>1 DEF Untouched, PortRaces
<1>3. Alone /\ Kinds /\ OneJoins /\ PortsOK
  BY <1>1, <1>2 DEF PortsInv
<1>4. PICK peers \in jobs[id].next :
        task' = [task EXCEPT ![w] =
          [kind |-> id, step |-> "begin", lower |-> 0, current |-> TRUE,
           outlived |-> id # "call" /\ jobs["call"].active = "none",
           todo |-> IF id = "call" THEN PortsOfCall(peers)
                    ELSE {[addr |-> a, port |-> 0] : a \in peers}]]
  BY DEF OnStartJob
<1>5. /\ task \in [Worker -> Task] /\ jobs \in [Job -> JobState] /\ peers \in SUBSET Addr
  <2>1. task \in [Worker -> Task] /\ jobs \in [Job -> JobState]
    BY DEF TypeOK
  <2>2. jobs[id].next \in {{}} \cup {{members} : members \in SUBSET Addr}
    BY <2>1 DEF JobState
  <2>. QED  BY <2>1, <2>2
<1>6. /\ \A u \in Worker \ {w} : task'[u] = task[u]
      /\ task'[w].kind = id /\ task'[w].step = "begin"
      /\ task'[w].todo = IF id = "call" THEN PortsOfCall(peers)
                         ELSE {[addr |-> a, port |-> 0] : a \in peers}
  BY <1>4, <1>5
<1>7. Alone' /\ Kinds'
  BY <1>2, <1>6 DEF Alone, Kinds
<1>8. OneJoins'
  <2>1. jobs' = [jobs EXCEPT ![id] = [active |-> "running", next |-> {}]]
    BY DEF OnStartJob
  <2>2. jobs'["join"].next = jobs["join"].next \/ jobs'["join"].next = {}
    BY <1>5, <2>1 DEF Job
  <2>. QED  BY <1>3, <2>2 DEF OneJoins
<1>9. SamePeers
  BY <1>1 DEF SamePeers, threads
<1>10. PortsOK'
  <2>1. \A u \in Worker : ~Busy(u, "call") /\ ~Busy(u, "join")
    BY <1>2 DEF Busy
  <2>2. Settled'
    BY <1>3, <1>9, <2>1, PeersStay DEF PortsOK
  <2>3. \A u \in Worker : (Busy(u, "call")' => u = w /\ id = "call") /\ (Busy(u, "join")' => u = w /\ id = "join")
    BY <1>2, <1>6 DEF Busy
  <2>4. ASSUME id = "call" PROVE \E members \in SUBSET Addr : CallPorts(w, members)'
    <3>1. Untouched({"late", "unseen"})
      BY <1>2 DEF Untouched, PortRaces
    <3>2. Known' = {}
      BY <1>1, <1>9, <2>4, <3>1, PeersStay DEF HeldInv, HeldInCall, Active
    <3>3. task'[w].todo = PortsOfCall(peers)
      BY <1>6, <2>4
    <3>4. CallPorts(w, peers)'
      BY <3>2, <3>3 DEF CallPorts, AllOpen
    <3>. QED  BY <1>5, <3>4
  <2>5. ASSUME id = "join" PROVE JoinPort(w)'
    <3>1. PICK a \in Addr : peers = {a}
      BY <1>3, <2>5 DEF OneJoins
    <3>2. task'[w].todo = {[addr |-> a, port |-> 0]}
      BY <1>6, <2>5, <3>1
    <3>3. [addr |-> a, port |-> 0] \in Target
      BY DEF Target
    <3>. QED  BY <1>6, <3>2, <3>3 DEF JoinPort
  <2>. QED  BY <2>2, <2>3, <2>4, <2>5 DEF PortsOK
<1>. QED  BY <1>7, <1>8, <1>10

(* A thread that goes on with its task, while it is the only one.          *)
LEMMA PortsGoOn ==
  ASSUME TypeOK, PortsInv, NEW w \in Worker, NEW r \in Task, task[w].step # "idle",
         task' = [task EXCEPT ![w] = r], UNCHANGED <<jobs, threads, glitch>>,
         r.step # "idle", r.kind = task[w].kind, r.outlived = task[w].outlived,
         r.step = "start" => r.kind \in {"call", "join"},
         r.step = "size" => r.kind = "join",
         Busy(w, "call") => r.todo = task[w].todo,
         MainFree /\ Busy(w, "join") /\ JoinPort(w) => JoinPort(w)'
  PROVE  PortsInv'
<1>. SUFFICES ASSUME Untouched(PortRaces)
              PROVE  Alone' /\ Kinds' /\ OneJoins' /\ (MainFree' => PortsOK')
  BY DEF PortsInv, Untouched
<1>1. Alone /\ Kinds /\ OneJoins /\ (MainFree => PortsOK)
  BY DEF PortsInv
<1>2. task \in [Worker -> Task] /\ task'[w] = r /\ \A u \in Worker \ {w} : task'[u] = task[u]
  BY DEF TypeOK
<1>3. \A u \in Worker \ {w} : task[u].step = "idle"
  BY <1>1 DEF Alone
<1>4. Alone' /\ Kinds' /\ OneJoins'
  BY <1>1, <1>2, <1>3 DEF Alone, Kinds, OneJoins
<1>5. SamePeers /\ (MainFree' <=> MainFree)
  BY DEF SamePeers, threads, MainFree
<1>6. ASSUME MainFree' PROVE PortsOK'
  <2>1. PortsOK /\ MainFree
    BY <1>1, <1>5, <1>6
  <2>2. \A u \in Worker : (Busy(u, "call")' <=> Busy(u, "call")) /\ (Busy(u, "join")' <=> Busy(u, "join"))
    BY <1>2, <1>3 DEF Busy
  <2>3. \A u \in Worker \ {w} : ~Busy(u, "call") /\ ~Busy(u, "join")
    BY <1>3 DEF Busy
  <2>4. (\A u \in Worker : ~Busy(u, "call")') => Settled'
    BY <1>5, <2>1, <2>2, PeersStay DEF PortsOK
  <2>5. ASSUME Busy(w, "call") PROVE \E members \in SUBSET Addr : CallPorts(w, members)'
    <3>1. PICK members \in SUBSET Addr : CallPorts(w, members)
      BY <2>1, <2>5 DEF PortsOK
    <3>2. task'[w].todo = task[w].todo
      BY <1>2, <2>5
    <3>3. /\ Known' = Known /\ (AllOpen' <=> AllOpen)
          /\ \A a \in Known : PortOf(a)' = PortOf(a)
      BY <1>5, PeersStay
    <3>4. ASSUME NEW t \in PortsOfCall(members) \ task[w].todo, t.addr # Local
          PROVE  PortOf(t.addr)' = t.port
      <4>1. t.addr \in Known /\ PortOf(t.addr) = t.port
        BY <3>1, <3>4 DEF CallPorts
      <4>. QED  BY <3>3, <4>1
    <3>5. CallPorts(w, members)'
      BY <3>1, <3>2, <3>3, <3>4 DEF CallPorts
    <3>. QED  BY <3>5
  <2>6. ASSUME Busy(w, "join") PROVE JoinPort(w)'
    BY <2>1, <2>6 DEF PortsOK
  <2>. QED  BY <2>2, <2>3, <2>4, <2>5, <2>6 DEF PortsOK
<1>. QED  BY <1>4, <1>6

(* What the threads do before they start or end audio.                     *)
LEMMA PortsExecutor ==
  ASSUME AudioAssumption, TypeOK, PortsInv, NEW w \in Worker,
         BeginCall(w) \/ ReadPeers(w) \/ ReadSize(w) \/ BeginLeave(w)
  PROVE  PortsInv'
<1>1. /\ task \in [Worker -> Task] /\ task[w] \in Task
      /\ UNCHANGED <<jobs, threads, glitch>>
  BY ExecutorFacts DEF TypeOK
<1>2. ASSUME BeginCall(w), task[w].todo = {} PROVE PortsInv'
  <2>1. task' = [task EXCEPT ![w] = IdleTask]
    BY <1>2 DEF BeginCall
  <2>2. task[w].kind = "call" /\ task[w].step = "begin"
    BY <1>2 DEF BeginCall, At
  <2>3. \A u \in Worker : task'[u].step # "idle" => SameTask(u)
    BY <1>1, <2>1 DEF SameTask, IdleTask
  <2>4. SamePeers /\ (MainFree' => MainFree) /\ (OneJoins => OneJoins') /\ glitch \subseteq glitch'
    BY <1>1 DEF SamePeers, threads, MainFree, OneJoins
  <2>5. ASSUME Untouched(PortRaces), MainFree, \A u \in Worker : ~Busy(u, "call")'
        PROVE  Settled
    <3>1. Alone /\ PortsOK
      BY <2>5 DEF PortsInv
    <3>2. CASE ~Busy(w, "call")
      <4>1. \A u \in Worker : ~Busy(u, "call")
        BY <2>2, <3>1, <3>2 DEF Alone, Busy
      <4>. QED  BY <3>1, <4>1 DEF PortsOK
    <3>3. CASE Busy(w, "call")
      <4>1. PICK members \in SUBSET Addr : CallPorts(w, members)
        BY <3>1, <3>3 DEF PortsOK
      <4>. QED  BY <1>2, <4>1, CallStarted
    <3>. QED  BY <3>2, <3>3
  <2>. QED  BY <2>3, <2>4, <2>5, PortsKept
<1>3. ASSUME BeginCall(w), task[w].todo # {} PROVE PortsInv'
  <2>. DEFINE r == [task[w] EXCEPT !.step = "start"]
  <2>1. task' = [task EXCEPT ![w] = r] /\ task[w].kind = "call" /\ task[w].step # "idle"
    BY <1>1, <1>3 DEF BeginCall, At
  <2>2. /\ r \in Task /\ r.step = "start" /\ r.kind = task[w].kind /\ r.outlived = task[w].outlived
        /\ r.todo = task[w].todo
    BY <1>1 DEF Task
  <2>. HIDE DEF r
  <2>3. ~Busy(w, "join")
    BY <2>1 DEF Busy
  <2>. QED  BY <1>1, <2>1, <2>2, <2>3, PortsGoOn
<1>4. ASSUME ReadPeers(w) PROVE PortsInv'
  <2>. DEFINE r == [task[w] EXCEPT !.lower = Below(Known, Local), !.step = "size"]
  <2>1. task' = [task EXCEPT ![w] = r] /\ task[w].kind = "join" /\ task[w].step # "idle"
    BY <1>1, <1>4 DEF ReadPeers, At
  <2>2. /\ r \in Task /\ r.step = "size" /\ r.kind = task[w].kind /\ r.outlived = task[w].outlived
        /\ r.todo = task[w].todo /\ r.lower = Below(Known, Local)
    <3>1. Below(Known, Local) \in Nat
      BY BelowType DEF Known, AudioAssumption
    <3>. QED  BY <1>1, <3>1 DEF Task
  <2>. HIDE DEF r
  <2>3. task'[w] = r /\ Known' = Known
    BY <1>1, <2>1 DEF threads, Known
  <2>4. JoinPort(w) => JoinPort(w)'
    BY <2>2, <2>3 DEF JoinPort
  <2>5. ~Busy(w, "call")
    BY <2>1 DEF Busy
  <2>. QED  BY <1>1, <2>1, <2>2, <2>4, <2>5, PortsGoOn
<1>5. ASSUME ReadSize(w) PROVE PortsInv'
  <2>. DEFINE n == Cardinality(Known) + task[w].lower
              todo == {[t EXCEPT !.port = n] : t \in task[w].todo}
              r == [task[w] EXCEPT !.step = "start", !.todo = todo]
  <2>1. /\ task' = [task EXCEPT ![w] = r] /\ task[w].kind = "join" /\ task[w].step = "size"
    BY <1>1, <1>5 DEF ReadSize, At, Task
  <2>2. n \in Nat
    <3>1. Cardinality(Known) \in Nat
      BY BelowType DEF Known, AudioAssumption
    <3>. QED  BY <1>1, <3>1 DEF Task
  <2>3. todo \in SUBSET Target
    BY <1>1, <2>2 DEF Task, Target
  <2>4. /\ r \in Task /\ r.step = "start" /\ r.kind = task[w].kind /\ r.outlived = task[w].outlived
        /\ r.todo = todo
    BY <1>1, <2>3 DEF Task
  <2>. HIDE DEF r
  <2>5. task'[w] = r /\ Known' = Known
    BY <1>1, <2>1 DEF threads, Known
  <2>6. ASSUME JoinPort(w) PROVE JoinPort(w)'
    <3>1. PICK t \in Target : task[w].todo = {t}
      BY <2>6 DEF JoinPort
    <3>2. todo = {[t EXCEPT !.port = n]} /\ [t EXCEPT !.port = n] \in Target
      BY <2>2, <3>1 DEF Target
    <3>3. [t EXCEPT !.port = n].port = n
      BY <3>1 DEF Target
    <3>4. n = Cardinality(Known) + Below(Known, Local)
      BY <2>1, <2>6 DEF JoinPort
    <3>. HIDE DEF todo, n
    <3>. QED  BY <2>4, <2>5, <3>2, <3>3, <3>4 DEF JoinPort
  <2>7. ~Busy(w, "call")
    BY <2>1 DEF Busy
  <2>. QED  BY <1>1, <2>1, <2>4, <2>6, <2>7, PortsGoOn
<1>6. ASSUME BeginLeave(w) PROVE PortsInv'
  <2>. DEFINE r == [task[w] EXCEPT !.step = "end"]
  <2>1. task' = [task EXCEPT ![w] = r] /\ task[w].kind = "leave" /\ task[w].step # "idle"
    BY <1>1, <1>6 DEF BeginLeave, At
  <2>2. r \in Task /\ r.step = "end" /\ r.kind = task[w].kind /\ r.outlived = task[w].outlived
    BY <1>1 DEF Task
  <2>. HIDE DEF r
  <2>3. ~Busy(w, "join") /\ ~Busy(w, "call")
    BY <2>1 DEF Busy
  <2>. QED  BY <1>1, <2>1, <2>2, <2>3, PortsGoOn
<1>. QED  BY <1>2, <1>3, <1>4, <1>5, <1>6

(* What the session decides of a job for peers that join is one peer.      *)
LEMMA JoinsDecided ==
  ASSUME TypeOK, Decides, OneJoins
  PROVE  OneJoins'
<1>1. jobs \in [Job -> JobState] /\ "join" \in Job
  BY DEF TypeOK, Job
<1>2. CASE \E a \in Addr \ {Local} : StartCall(a)
  <2>1. jobs'["join"] = jobs["join"]
    BY <1>1, <1>2 DEF StartCall, Scheduled, Job
  <2>. QED  BY <2>1 DEF OneJoins
<1>3. CASE \E members \in SUBSET Addr : StartConferenceCall(members)
  <2>1. jobs'["join"] = jobs["join"]
    BY <1>1, <1>3 DEF StartConferenceCall, Scheduled, Job
  <2>. QED  BY <2>1 DEF OneJoins
<1>4. CASE StopCall
  <2>1. jobs'["join"] = jobs["join"]
    BY <1>1, <1>4 DEF StopCall, Cancelled, Job
  <2>. QED  BY <2>1 DEF OneJoins
<1>5. ASSUME NEW id \in Job, NEW a \in Addr \ {Local}, ChangePeer(id, a) PROVE OneJoins'
  <2>1. jobs'["join"].next = jobs["join"].next \/ jobs'["join"].next = {{a}}
    BY <1>1, <1>5 DEF ChangePeer, Scheduled, Job
  <2>. QED  BY <2>1 DEF OneJoins
<1>6. ASSUME NEW id \in Job, SystemStop(id) PROVE OneJoins'
  <2>1. jobs'["join"].next = jobs["join"].next
    BY <1>1, <1>6 DEF SystemStop, Job, JobState
  <2>. QED  BY <2>1 DEF OneJoins
<1>. QED  BY <1>2, <1>3, <1>4, <1>5, <1>6 DEF Decides

(* The peer that startAudio takes, and its socket.                         *)
StartsAt(w, i, t) ==
  /\ monitor.who = "none" /\ task[w].step = "start" /\ Collected(i)
  /\ task' = [task EXCEPT ![w] =
                IF @.todo = {t} THEN IdleTask ELSE [task[w] EXCEPT !.todo = @ \ {t}]]
  /\ IF t.addr = Local THEN UNCHANGED <<remotePeers, peer>>
     ELSE /\ remotePeers' = [remotePeers EXCEPT ![t.addr] = i]
          /\ peer' = [peer EXCEPT ![i] =
               [port |-> t.port, isRunning |-> TRUE, playing |-> TRUE,
                session |-> IF PortTaken(t.port) THEN "none" ELSE "open"]]
  /\ glitch' = glitch
       \cup (IF task[w].outlived THEN {"late"} ELSE {})
       \cup (IF ~isRecording /\ ~audio THEN {"unseen"} ELSE {})
       \cup (IF t.addr \in Known THEN {"twice"} ELSE {})
  /\ UNCHANGED <<service, monitor>>

(* What startAudio leaves of the thread's task.                            *)
LEMMA StartedTask ==
  ASSUME TypeOK, NEW w \in Worker, NEW i \in Peer, NEW t \in task[w].todo, StartsAt(w, i, t)
  PROVE  /\ \A u \in Worker \ {w} : task'[u] = task[u]
         /\ task'[w].todo = task[w].todo \ {t}
         /\ task[w].todo = {t} => task'[w].step = "idle"
         /\ task[w].todo # {t} => /\ task'[w].step = "start" /\ task'[w].kind = task[w].kind
                                  /\ task'[w].outlived = task[w].outlived
<1>. DEFINE r == IF task[w].todo = {t} THEN IdleTask
                 ELSE [task[w] EXCEPT !.todo = task[w].todo \ {t}]
<1>1. task \in [Worker -> Task] /\ task[w] \in Task /\ task[w].step = "start"
  BY DEF TypeOK, StartsAt
<1>2. task' = [task EXCEPT ![w] = r]
  <2>1. task' = [task EXCEPT ![w] =
                   IF @.todo = {t} THEN IdleTask ELSE [task[w] EXCEPT !.todo = @ \ {t}]]
    BY DEF StartsAt
  <2>2. CASE task[w].todo = {t}
    BY <1>1, <2>1, <2>2
  <2>3. CASE task[w].todo # {t}
    <3>1. task' = [task EXCEPT ![w] = [task[w] EXCEPT !.todo = task[w].todo \ {t}]]
      BY <1>1, <2>1, <2>3
    <3>. QED  BY <2>3, <3>1
  <2>. QED  BY <2>2, <2>3
<1>3. /\ r.todo = task[w].todo \ {t}
      /\ task[w].todo = {t} => r.step = "idle"
      /\ task[w].todo # {t} => /\ r.step = "start" /\ r.kind = task[w].kind
                               /\ r.outlived = task[w].outlived
  BY <1>1 DEF Task, IdleTask
<1>. HIDE DEF r
<1>. QED  BY <1>1, <1>2, <1>3

(* What startAudio makes of the peers: one more, with a socket unless its  *)
(* port is that of a peer it knows.                                        *)
LEMMA StartedPeer ==
  ASSUME AudioAssumption, TypeOK, PeersInv, Untouched({"twice"})', NEW w \in Worker,
         NEW i \in Peer, NEW t \in task[w].todo, StartsAt(w, i, t), t.addr # Local
  PROVE  /\ t.addr \notin Known /\ Known' = Known \cup {t.addr}
         /\ Cardinality(Known) \in Nat /\ Cardinality(Known') = Cardinality(Known) + 1
         /\ \A a \in Known : /\ PortOf(a)' = PortOf(a)
                             /\ peer'[remotePeers'[a]].session = peer[remotePeers[a]].session
         /\ PortOf(t.addr)' = t.port
         /\ (\A a \in Known : PortOf(a) # t.port) => peer'[remotePeers'[t.addr]].session = "open"
<1>1. /\ remotePeers' = [remotePeers EXCEPT ![t.addr] = i]
      /\ monitor.who = "none" /\ Collected(i)
  BY DEF StartsAt
<1>2. /\ remotePeers \in [Addr -> Peer \cup {NoPeer}] /\ t.addr \in Addr /\ peer \in [Peer -> RemotePeer]
      /\ i # NoPeer
      /\ \A a \in Addr : remotePeers[a] # i
  BY <1>1 DEF Collected, TypeOK, Task, Target, AudioAssumption
<1>3. /\ Known' = Known \cup {t.addr} /\ remotePeers'[t.addr] = i
      /\ \A a \in Known \ {t.addr} : remotePeers'[a] = remotePeers[a] /\ remotePeers[a] \in Peer \ {i}
  BY <1>1, <1>2 DEF Known
<1>4. Untouched({"twice"}) /\ t.addr \notin Known
  BY DEF StartsAt, Untouched
<1>. DEFINE r == [port |-> t.port, isRunning |-> TRUE, playing |-> TRUE,
                  session |-> IF PortTaken(t.port) THEN "none" ELSE "open"]
<1>5. peer' = [peer EXCEPT ![i] = r]
  BY DEF StartsAt
<1>6. r.port = t.port /\ (~PortTaken(t.port) => r.session = "open")
  OBVIOUS
<1>. HIDE DEF r
<1>7. peer'[i] = r /\ \A j \in Peer \ {i} : peer'[j] = peer[j]
  BY <1>2, <1>5
<1>8. \A a \in Known : /\ PortOf(a)' = PortOf(a)
                       /\ peer'[remotePeers'[a]].session = peer[remotePeers[a]].session
  BY <1>3, <1>4, <1>7 DEF PortOf
<1>9. PortOf(t.addr)' = t.port
  BY <1>3, <1>6, <1>7 DEF PortOf
<1>10. ASSUME PortTaken(t.port) PROVE \E a \in Known : PortOf(a) = t.port
  <2>1. PICK j \in Peer : peer[j].session = "open" /\ peer[j].port = t.port
    BY <1>10 DEF PortTaken
  <2>2. monitor.peer = NoPeer /\ NoPeer \notin Peer
    BY <1>1 DEF PeersInv, Unshared, AudioAssumption
  <2>3. PICK a \in Known : remotePeers[a] = j
    BY <1>4, <2>1, <2>2 DEF PeersInv, Owned
  <2>. QED  BY <2>1, <2>3 DEF PortOf
<1>11. IsFiniteSet(Known)
  BY FS_Subset DEF Known, AudioAssumption
<1>12. Cardinality(Known) \in Nat /\ Cardinality(Known \cup {t.addr}) = Cardinality(Known) + 1
  BY <1>4, <1>11, FS_AddElement, FS_CardinalityType
<1>. QED  BY <1>3, <1>4, <1>6, <1>7, <1>8, <1>9, <1>10, <1>12

(* The job of a call starts one of its peers.                              *)
LEMMA CallStarts ==
  ASSUME AudioAssumption, TypeOK, PeersInv, Untouched({"twice"})', NEW w \in Worker,
         NEW i \in Peer, NEW t \in task[w].todo, StartsAt(w, i, t),
         NEW members \in SUBSET Addr, CallPorts(w, members)
  PROVE  CallPorts(w, members)'
<1>. DEFINE started == PortsOfCall(members) \ task[w].todo
<1>1. task'[w].todo = task[w].todo \ {t}
  BY StartedTask
<1>2. t \in PortsOfCall(members) /\ PortsOfCall(members) \ task'[w].todo = started \cup {t}
  BY <1>1 DEF CallPorts
<1>3. task'[w].todo \subseteq PortsOfCall(members)
  BY <1>1 DEF CallPorts
<1>4. /\ Known = {s.addr : s \in started} \ {Local}
      /\ \A s \in started : s.addr # Local => s.addr \in Known /\ PortOf(s.addr) = s.port
      /\ AllOpen
  BY DEF CallPorts
<1>5. CASE t.addr = Local
  <2>1. SamePeers
    BY <1>5 DEF StartsAt, SamePeers
  <2>2. /\ Known' = Known /\ AllOpen'
        /\ \A a \in Known : PortOf(a)' = PortOf(a)
    BY <1>4, <2>1, PeersStay
  <2>3. Known' = {s.addr : s \in started \cup {t}} \ {Local}
    BY <1>4, <1>5, <2>2
  <2>4. \A s \in started \cup {t} : s.addr # Local => PortOf(s.addr)' = s.port
    BY <1>4, <1>5, <2>2
  <2>. HIDE DEF started
  <2>. QED  BY <1>2, <1>3, <2>2, <2>3, <2>4 DEF CallPorts
<1>6. CASE t.addr # Local
  <2>1. /\ t.addr \notin Known /\ Known' = Known \cup {t.addr}
        /\ \A a \in Known : /\ PortOf(a)' = PortOf(a)
                            /\ peer'[remotePeers'[a]].session = peer[remotePeers[a]].session
        /\ PortOf(t.addr)' = t.port
        /\ (\A a \in Known : PortOf(a) # t.port) => peer'[remotePeers'[t.addr]].session = "open"
    BY <1>6, StartedPeer
  <2>2. Known' = {s.addr : s \in started \cup {t}} \ {Local}
    BY <1>4, <1>6, <2>1
  <2>3. \A s \in started \cup {t} : s.addr # Local => PortOf(s.addr)' = s.port
    BY <1>4, <2>1
  <2>4. \A a \in Known : PortOf(a) # t.port
    <3>. SUFFICES ASSUME NEW a \in Known, PortOf(a) = t.port PROVE FALSE
      OBVIOUS
    <3>1. PICK s \in started : s.addr = a /\ a # Local
      BY <1>4
    <3>2. s.port = t.port /\ s \in PortsOfCall(members)
      BY <1>4, <3>1
    <3>3. s = t
      BY <1>2, <3>2, PortsDiffer
    <3>. QED  BY <2>1, <3>1, <3>3
  <2>5. AllOpen'
    BY <1>4, <2>1, <2>4 DEF AllOpen
  <2>. HIDE DEF started
  <2>. QED  BY <1>2, <1>3, <2>2, <2>3, <2>5 DEF CallPorts
<1>. QED  BY <1>5, <1>6

(* The job of a peer that joins starts it.                                 *)
LEMMA JoinSettles ==
  ASSUME AudioAssumption, TypeOK, PeersInv, Untouched({"twice"})', NEW w \in Worker,
         NEW i \in Peer, NEW t \in task[w].todo, StartsAt(w, i, t), Settled, JoinPort(w)
  PROVE  Settled' /\ task'[w].step = "idle"
<1>1. /\ task[w].step = "start" /\ task[w].todo = {t}
      /\ t.port = Cardinality(Known) + Below(Known, Local)
  BY DEF StartsAt, JoinPort
<1>2. task'[w].step = "idle"
  BY <1>1, StartedTask
<1>3. CASE t.addr = Local
  <2>1. SamePeers
    BY <1>3 DEF StartsAt, SamePeers
  <2>. QED  BY <1>2, <2>1, PeersStay
<1>4. CASE t.addr # Local
  <2>1. /\ t.addr \notin Known /\ Known' = Known \cup {t.addr}
        /\ Cardinality(Known) \in Nat /\ Cardinality(Known') = Cardinality(Known) + 1
        /\ \A a \in Known : /\ PortOf(a)' = PortOf(a)
                            /\ peer'[remotePeers'[a]].session = peer[remotePeers[a]].session
        /\ PortOf(t.addr)' = t.port
        /\ (\A a \in Known : PortOf(a) # t.port) => peer'[remotePeers'[t.addr]].session = "open"
    BY <1>4, StartedPeer
  <2>2. Apart'
    <3>. SUFFICES ASSUME NEW a \in Addr, Known' = {a} PROVE PortOf(a)' # 1 + Below({a}, Local)
      BY DEF Apart
    <3>1. Known = {} /\ a = t.addr
      BY <2>1
    <3>2. t.port = 0
      <4>1. {b \in Known : b < Local} = {}
        BY <3>1
      <4>2. Cardinality(Known) = 0 /\ Below(Known, Local) = 0
        BY <3>1, <4>1, FS_EmptySet DEF Below
      <4>. QED  BY <1>1, <4>2
    <3>3. Below({a}, Local) \in Nat
      BY BelowType DEF AudioAssumption
    <3>. QED  BY <2>1, <3>1, <3>2, <3>3
  <2>3. ASSUME Cardinality(Known') <= 2 PROVE AllOpen'
    <3>1. Cardinality(Known) = 0 \/ Cardinality(Known) = 1
      BY <2>1, <2>3
    <3>2. IsFiniteSet(Known)
      BY FS_Subset DEF Known, AudioAssumption
    <3>3. AllOpen
      BY <3>1 DEF Settled
    <3>4. ASSUME NEW a \in Known PROVE PortOf(a) # t.port
      <4>1. Cardinality(Known) = 1
        BY <3>1, <3>2, <3>4, FS_EmptySet
      <4>2. Known = {a}
        BY <3>2, <4>1, FS_Singleton
      <4>3. a \in Addr
        BY DEF Known
      <4>. QED  BY <1>1, <4>1, <4>2, <4>3 DEF Settled, Apart
    <3>. QED  BY <2>1, <3>3, <3>4 DEF AllOpen
  <2>. QED  BY <1>2, <2>2, <2>3 DEF Settled
<1>. QED  BY <1>3, <1>4

(* startAudio, of whichever job.                                           *)
LEMMA PortsStarted ==
  ASSUME AudioAssumption, TypeOK, PeersInv, PortsInv, NEW w \in Worker, StartAudio(w)
  PROVE  PortsInv'
<1>. SUFFICES ASSUME Untouched(PortRaces)'
              PROVE  Alone' /\ Kinds' /\ OneJoins' /\ (MainFree' => PortsOK')
  BY DEF PortsInv
<1>1. PICK i \in Peer, t \in task[w].todo : StartsAt(w, i, t)
  <2>. DEFINE i == CHOOSE j \in Peer : Collected(j)
  <2>1. i \in Peer /\ Collected(i)
    BY DEF StartAudio
  <2>. HIDE DEF i
  <2>2. \E t \in task[w].todo : StartsAt(w, i, t)
    BY <2>1 DEF StartAudio, StartsAt, i
  <2>. QED  BY <2>1, <2>2
<1>2. /\ Untouched(PortRaces) /\ Untouched({"twice"})' /\ ~task[w].outlived
      /\ task[w].step = "start" /\ MainFree
      /\ UNCHANGED jobs
  BY <1>1 DEF StartsAt, Untouched, PortRaces, MainFree, service
<1>3. Alone /\ Kinds /\ OneJoins /\ PortsOK
  BY <1>2 DEF PortsInv
<1>4. /\ \A u \in Worker \ {w} : task'[u] = task[u] /\ task[u].step = "idle"
      /\ task'[w].todo = task[w].todo \ {t}
      /\ task[w].todo = {t} => task'[w].step = "idle"
      /\ task[w].todo # {t} => /\ task'[w].step = "start" /\ task'[w].kind = task[w].kind
                               /\ task'[w].outlived = task[w].outlived
  BY <1>1, <1>2, <1>3, StartedTask DEF Alone
<1>5. Alone' /\ Kinds' /\ OneJoins'
  BY <1>2, <1>3, <1>4 DEF Alone, Kinds, OneJoins
<1>6. \A u \in Worker \ {w} : /\ ~Busy(u, "call") /\ ~Busy(u, "join")
                              /\ ~Busy(u, "call")' /\ ~Busy(u, "join")'
  BY <1>4 DEF Busy
<1>7. CASE task[w].kind = "call"
  <2>1. PICK members \in SUBSET Addr : CallPorts(w, members)
    BY <1>2, <1>3, <1>7 DEF PortsOK, Busy
  <2>2. CallPorts(w, members)'
    BY <1>1, <1>2, <2>1, CallStarts
  <2>3. ASSUME ~Busy(w, "call")' PROVE Settled'
    <3>1. task[w].todo = {t}
      BY <1>2, <1>4, <1>7, <2>3 DEF Busy
    <3>2. task'[w].todo = {}
      BY <1>4, <3>1
    <3>3. ASSUME NEW a \in Addr, Known' = {a} PROVE PortOf(a)' # 1 + Below({a}, Local)
      <4>1. /\ {a} = {s.addr : s \in PortsOfCall(members)} \ {Local}
            /\ \A s \in PortsOfCall(members) : s.addr # Local => PortOf(s.addr)' = s.port
        BY <2>2, <3>2, <3>3 DEF CallPorts
      <4>2. PICK port : port = PortOf(a)'
        OBVIOUS
      <4>3. \A s \in PortsOfCall(members) : s.addr = a => port = s.port
        BY <4>1, <4>2
      <4>. QED  BY <4>1, <4>2, <4>3, OnlyPort
    <3>4. AllOpen'
      BY <2>2 DEF CallPorts
    <3>. QED  BY <3>3, <3>4 DEF Settled, Apart
  <2>4. ~Busy(w, "join")'
    BY <1>4, <1>7 DEF Busy
  <2>5. PortsOK'
    BY <1>6, <2>2, <2>3, <2>4 DEF PortsOK
  <2>. QED  BY <1>5, <2>5
<1>8. CASE task[w].kind = "join"
  <2>1. Settled /\ JoinPort(w)
    BY <1>2, <1>3, <1>6, <1>8 DEF PortsOK, Busy
  <2>2. Settled' /\ task'[w].step = "idle"
    BY <1>1, <1>2, <2>1, JoinSettles
  <2>3. PortsOK'
    BY <1>6, <2>2 DEF PortsOK, Busy
  <2>. QED  BY <1>5, <2>3
<1>. QED  BY <1>2, <1>3, <1>7, <1>8 DEF Kinds

(* Every step keeps PortsInv.                                              *)
LEMMA PortsStep ==
  ASSUME AudioAssumption, TypeOK, OffIsSilent, HeldInv, PeersInv, GoesOnInv, PortsInv, [Next]_vars
  PROVE  PortsInv'
<1>a. ASSUME UNCHANGED <<task, remotePeers, peer, monitor>>, glitch \subseteq glitch',
             OneJoins => OneJoins'
      PROVE  PortsInv'
  <2>1. SamePeers /\ (MainFree' <=> MainFree) /\ (Untouched(PortRaces)' => Untouched(PortRaces))
    BY <1>a DEF SamePeers, MainFree, Untouched
  <2>2. Known' = Known
    BY <1>a DEF Known
  <2>3. (Alone' <=> Alone) /\ (Kinds' <=> Kinds) /\ (PortsOK' <=> PortsOK)
    BY <1>a, <2>2 DEF Alone, Kinds, PortsOK, Busy, Settled, Apart, AllOpen, PortOf, CallPorts, JoinPort
  <2>. QED  BY <1>a, <2>1, <2>3 DEF PortsInv
<1>1. CASE UNCHANGED vars
  BY <1>1, <1>a DEF vars, service, threads, OneJoins
<1>2. CASE Input
  <2>1. CASE Decides /\ UNCHANGED <<task, threads, dead, glitch>>
    BY <1>a, <2>1, JoinsDecided DEF threads
  <2>2. CASE RecorderFails
    BY <1>a, <2>2 DEF RecorderFails, service, OneJoins
  <2>. QED  BY <1>2, <2>1, <2>2 DEF Input, Decides
<1>3. CASE OnJob
  <2>1. ASSUME NEW id \in Job, OnStopJob(id) PROVE PortsInv'
    <3>1. CASE id = "call" /\ audio
      <4>1. /\ ~MainFree' /\ UNCHANGED <<jobs, task, glitch>>
        BY <2>1, <3>1 DEF OnStopJob, MainFree
      <4>. QED  BY <4>1, PortsEnding DEF OneJoins
    <3>2. CASE ~(id = "call" /\ audio)
      <4>1. JobStopped(id) /\ UNCHANGED <<remotePeers, peer, monitor, glitch>>
        BY <2>1, <3>2 DEF OnStopJob
      <4>2. SamePeers /\ (MainFree' => MainFree)
        BY <4>1 DEF SamePeers, MainFree
      <4>3. ASSUME Untouched(PortRaces), MainFree, \A w \in Worker : ~Busy(w, "call")'
            PROVE  Settled
        <5>1. CASE id = "call"
          <6>1. Known = {}
            BY <3>2, <4>3, <5>1 DEF HeldInv, HeldInCall, Untouched, PortRaces
          <6>. QED  BY <6>1 DEF Settled, Apart, AllOpen
        <5>2. CASE id # "call"
          <6>1. \A w \in Worker : ~Busy(w, "call")
            BY <4>1, <4>3, <5>2, TasksStopped
          <6>. QED  BY <4>3, <6>1 DEF PortsInv, PortsOK
        <5>. QED  BY <5>1, <5>2
      <4>4. /\ \A w \in Worker : task'[w].step # "idle" => SameTask(w)
            /\ OneJoins => OneJoins'
        BY <4>1, TasksStopped
      <4>. QED  BY <4>1, <4>2, <4>3, <4>4, PortsKept
    <3>. QED  BY <3>1, <3>2
  <2>2. ASSUME NEW id \in Job, NEW w \in Worker, OnStartJob(id, w) PROVE PortsInv'
    BY <2>2, PortsJobStarted
  <2>. QED  BY <1>3, <2>1, <2>2 DEF OnJob
<1>4. ASSUME NEW w \in Worker, Executor(w) PROVE PortsInv'
  <2>1. CASE BeginCall(w) \/ ReadPeers(w) \/ ReadSize(w) \/ BeginLeave(w)
    BY <2>1, PortsExecutor
  <2>2. CASE StartAudio(w)
    BY <2>2, PortsStarted
  <2>3. CASE EndAudioOf(w)
    <3>1. \/ "left" \in glitch'
          \/ /\ task' = [task EXCEPT ![w] = IdleTask]
             /\ UNCHANGED <<jobs, remotePeers, peer, monitor, glitch>>
      BY <2>3 DEF EndAudioOf, service
    <3>2. CASE "left" \in glitch'
      BY <3>2 DEF PortsInv, Untouched, PortRaces
    <3>3. CASE /\ task' = [task EXCEPT ![w] = IdleTask]
               /\ UNCHANGED <<jobs, remotePeers, peer, monitor, glitch>>
      <4>1. SamePeers /\ (MainFree' => MainFree) /\ (OneJoins => OneJoins')
        BY <3>3 DEF SamePeers, MainFree, OneJoins
      <4>2. task[w].kind = "leave" /\ task \in [Worker -> Task]
        BY <2>3 DEF EndAudioOf, At, TypeOK
      <4>3. \A u \in Worker : task'[u].step # "idle" => SameTask(u)
        BY <3>3, <4>2 DEF SameTask, IdleTask
      <4>4. \A u \in Worker : Busy(u, "call") => Busy(u, "call")'
        BY <3>3, <4>2 DEF Busy
      <4>5. Untouched(PortRaces) /\ MainFree /\ (\A u \in Worker : ~Busy(u, "call")') => Settled
        BY <4>4 DEF PortsInv, PortsOK
      <4>. QED  BY <3>3, <4>1, <4>3, <4>5, PortsKept
    <3>. QED  BY <3>1, <3>2, <3>3
  <2>. QED  BY <1>4, <2>1, <2>2, <2>3 DEF Executor
<1>5. CASE EndAudio
  <2>1. CASE EndNext \/ CloseRecorder
    <3>1. ~MainFree' /\ UNCHANGED <<jobs, task, glitch>>
      <4>1. CASE EndNext
        BY <4>1 DEF EndNext, ShutDown, MainFree, service
      <4>2. CASE CloseRecorder
        BY <4>2 DEF CloseRecorder, MainFree, service
      <4>. QED  BY <2>1, <4>1, <4>2
    <3>. QED  BY <3>1, PortsEnding DEF OneJoins
  <2>2. CASE PlayerJoined
    <3>1. /\ monitor' = IF monitor.who = "main" THEN [who |-> "main", peer |-> NoPeer] ELSE Free
          /\ \A w \in Worker : task'[w].step = "idle" \/ task'[w] = task[w]
          /\ glitch' = glitch /\ monitor.peer \in Peer /\ UNCHANGED service
      BY <2>2, PlayerJoinedFacts
    <3>2. CASE monitor.who = "main"
      <4>1. ~MainFree' /\ (OneJoins => OneJoins')
        BY <3>1, <3>2 DEF MainFree, service, OneJoins
      <4>. QED  BY <3>1, <4>1, PortsEnding
    <3>3. CASE monitor.who # "main"
      <4>1. monitor.who # "none"
        BY <3>1 DEF PeersInv, Unshared, AudioAssumption
      <4>2. ~Untouched({"left"})
        BY <3>3, <4>1 DEF GoesOnInv, OnlyMainEnds
      <4>. QED  BY <3>1, <4>2 DEF PortsInv, Untouched, PortRaces
    <3>. QED  BY <3>2, <3>3
  <2>3. CASE RecorderJoined
    <3>1. JobStopped("call") /\ Known = {} /\ UNCHANGED <<remotePeers, glitch>> /\ "call" \in Job
      BY <2>3 DEF RecorderJoined, Job
    <3>2. Known' = {}
      BY <3>1 DEF Known
    <3>3. /\ \A w \in Worker : task'[w].step # "idle" => SameTask(w)
          /\ \A w \in Worker : ~Busy(w, "call")' /\ ~Busy(w, "join")'
          /\ OneJoins => OneJoins'
      BY <3>1, TasksStopped
    <3>4. (Alone => Alone') /\ (Kinds => Kinds')
      BY <3>3 DEF Alone, Kinds, SameTask
    <3>5. PortsOK'
      BY <3>2, <3>3 DEF PortsOK, Settled, Apart, AllOpen
    <3>. QED  BY <3>1, <3>3, <3>4, <3>5 DEF PortsInv, Untouched
  <2>. QED  BY <1>5, <2>1, <2>2, <2>3 DEF EndAudio
<1>6. CASE RecorderStep
  BY <1>6, <1>a DEF RecorderStep, service, OneJoins
<1>7. ASSUME NEW i \in Peer, PlayerStep(i) \/ ReceiverDies(i) PROVE PortsInv'
  <2>1. CASE PlayerStep(i)
    <3>1. peer \in [Peer -> RemotePeer] /\ peer' = [peer EXCEPT ![i].playing = FALSE]
      BY <2>1 DEF PlayerStep, PlayerEnds, PlayerWithoutCodec, TypeOK
    <3>2. /\ \A j \in Peer : peer'[j].port = peer[j].port /\ peer'[j].session = peer[j].session
          /\ UNCHANGED <<service, task, remotePeers, monitor, glitch>>
      BY <2>1, <3>1 DEF PlayerStep, RemotePeer
    <3>3. SamePeers /\ (MainFree' => MainFree) /\ (OneJoins => OneJoins')
      BY <3>2 DEF SamePeers, MainFree, OneJoins, service
    <3>4. \A u \in Worker : /\ task'[u].step # "idle" => SameTask(u)
                            /\ Busy(u, "call")' <=> Busy(u, "call")
      BY <3>2 DEF SameTask, Busy
    <3>5. Untouched(PortRaces) /\ MainFree /\ (\A u \in Worker : ~Busy(u, "call")') => Settled
      BY <3>4 DEF PortsInv, PortsOK
    <3>. QED  BY <3>2, <3>3, <3>4, <3>5, PortsKept
  <2>2. CASE ReceiverDies(i)
    BY <1>a, <2>2 DEF ReceiverDies, threads, service, OneJoins
  <2>. QED  BY <1>7, <2>1, <2>2
<1>. QED  BY <1>1, <1>2, <1>3, <1>4, <1>5, <1>6, <1>7 DEF Next, Running

(* Every peer has a socket of its own when there are at most two: those    *)
(* of a call, whose ports go by rank, and one that joins, whose port is    *)
(* counted from what is there, never meet (InCallService.java:129 and 153).*)
THEOREM EveryoneHasASocket == Spec => []OwnSocket
<1>1. Init => PeersInv /\ HeldInv /\ GoesOnInv /\ PortsInv
  <2>. SUFFICES ASSUME Init PROVE PeersInv /\ HeldInv /\ GoesOnInv /\ PortsInv
    OBVIOUS
  <2>1. /\ ~dead /\ ~isRecording /\ recorder.to = {} /\ monitor.who = "none"
        /\ \A i \in Peer : peer[i].session = "none"
        /\ \A w \in Worker : task[w].step = "idle"
        /\ jobs["join"].next = {} /\ Known = {}
    BY DEF Init, NewPeer, RecorderOff, Free, IdleTask, Job, Known
  <2>2. PortsInv
    BY <2>1 DEF PortsInv, Alone, Kinds, OneJoins, PortsOK, Busy, Settled, Apart, AllOpen
  <2>3. GoesOnInv
    BY <2>1 DEF GoesOnInv, OnlyMainEnds, GoesOn
  <2>. QED  BY <2>2, <2>3, PeersStart
<1>2. TypeOK /\ OffIsSilent /\ PeersInv /\ HeldInv /\ GoesOnInv /\ PortsInv /\ [Next]_vars
        => PeersInv' /\ HeldInv' /\ GoesOnInv' /\ PortsInv'
  BY PeersStep, HeldStep, GoesOnStep, PortsStep, AudioAssumption
<1>3. PortsInv => OwnSocket
  <2>. SUFFICES ASSUME PortsInv, MainFree, Cardinality(Known) <= 2, Untouched(PortRaces)
                PROVE  AllOpen
    BY DEF OwnSocket, PortRaces, AllOpen
  <2>1. CASE \A w \in Worker : ~Busy(w, "call")
    BY <2>1 DEF PortsInv, PortsOK, Settled
  <2>2. CASE \E w \in Worker : Busy(w, "call")
    BY <2>2 DEF PortsInv, PortsOK, CallPorts
  <2>. QED  BY <2>1, <2>2
<1>. QED  BY <1>1, <1>2, <1>3, TypeInvariant, PTL DEF Spec

=============================================================================
