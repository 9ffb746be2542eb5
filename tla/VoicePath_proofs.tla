-------------------------- MODULE VoicePath_proofs --------------------------
(***************************************************************************)
(* What is played is in the order it was said, for any codec, speech,      *)
(* clock, jitter buffer and number of packets: PlayedInOrder.              *)
(*                                                                         *)
(* PlayedInOrder speaks only of what has been played. OrderInv adds what   *)
(* the next packet depends on: the queue and the receiver's last number.   *)
(* While sequence numbers grow, they order the packets as their places     *)
(* do, so that the filter lets through only what is behind everything      *)
(* queued or played, and the queue hands out the first of its packets.     *)
(*                                                                         *)
(* HeardAtFirst speaks of the next packet to arrive. FirstInv adds what    *)
(* the clock of the buffer has to do with the packets sent (ClockOK).      *)
(*                                                                         *)
(* TypeOK is proved of any codec that keeps its contexts (CodecWorks).     *)
(*                                                                         *)
(* Of what the packets carry: the 33 bytes of a packed GSM frame keep      *)
(* every frame there is, not only those of the speech that TLC encodes.    *)
(* PackVoip makes bytes, and UnpackVoip gets back from them what was       *)
(* packed.                                                                 *)
(*                                                                         *)
(* With GSM 06.10 as the codec (GsmIsUsed), DecoderFollowsEncoder, for any *)
(* speech. GsmInv says in which contexts the packets were encoded and      *)
(* which context each phone has; what encoder and decoder compute in them  *)
(* is proved in GsmCodec_proofs.                                           *)
(***************************************************************************)
EXTENDS GsmVoice, GsmCodec_proofs

(* The packets sent: one for every place, and numbers to compare.          *)
NetOK ==
  /\ sent \in Nat
  /\ SN \in Int
  /\ lastRtpPacketSequenceNumber \in Int
  /\ \A p \in net : p.k \in 1 .. sent /\ p.SN \in Int
  /\ \A p, q \in net : p.k = q.k => p = q
  /\ queue \subseteq net

HeardOK ==
  /\ heard \in Seq(Nat)
  /\ \A i \in 1 .. Len(heard) : heard[i] \in 1 .. sent
  /\ lastArrived \in Nat

Increasing == \A i, j \in 1 .. Len(heard) : i < j => heard[i] < heard[j]

PlayedBeforeQueued == \A i \in 1 .. Len(heard), q \in queue : heard[i] < q.k

NothingAhead ==
  /\ \A i \in 1 .. Len(heard) : heard[i] <= lastArrived
  /\ \A q \in queue : q.k <= lastArrived

LastIsKnown ==
  lastArrived = 0 \/ \E p \in net : p.k = lastArrived /\ p.SN = lastRtpPacketSequenceNumber

InOrder == Increasing /\ PlayedBeforeQueued /\ NothingAhead /\ LastIsKnown

OrderInv == NetOK /\ HeardOK /\ (Wrapped \/ InOrder)

-----------------------------------------------------------------------------
(* Packets stay in the network: once the numbers have started again, they  *)
(* have.                                                                   *)
LEMMA WrappedStays ==
  ASSUME net \subseteq net', ~Wrapped'
  PROVE  ~Wrapped
BY DEF Wrapped

(* While the numbers grow, a packet with a larger number is behind.        *)
LEMMA NumbersOrder ==
  ASSUME NetOK, ~Wrapped, NEW p \in net, NEW q \in net
  PROVE  /\ p.SN < q.SN => p.k < q.k
         /\ p.SN <= q.SN => p.k <= q.k
<1>1. /\ p.k \in Int /\ q.k \in Int /\ p.SN \in Int /\ q.SN \in Int
      /\ p.k = q.k => p = q
  BY DEF NetOK
<1>2. /\ ~(p.k < q.k /\ p.SN >= q.SN)
      /\ ~(q.k < p.k /\ q.SN >= p.SN)
  BY DEF Wrapped
<1> QED BY <1>1, <1>2

(* Neither the packets nor what was heard or queued change.                *)
LEMMA OthersKeep ==
  ASSUME OrderInv,
         UNCHANGED <<SN, net, lastRtpPacketSequenceNumber, queue, sent, lastArrived, heard>>
  PROVE  OrderInv'
BY DEF OrderInv, NetOK, HeardOK, Wrapped, InOrder, Increasing, PlayedBeforeQueued,
       NothingAhead, LastIsKnown

(* Starting audio: the listener has heard and queued nothing.              *)
LEMMA StartKeeps ==
  ASSUME OrderInv, NEW ph \in Phone, StartAudio(ph)
  PROVE  OrderInv'
<1>1. CASE ph = "listener"
  <2>1. /\ UNCHANGED <<SN, net, sent>>
        /\ lastRtpPacketSequenceNumber' = 0
        /\ queue' = {}
        /\ lastArrived' = 0
        /\ heard' = <<>>
    BY <1>1 DEF StartAudio, NewReceiver
  <2>2. NetOK' /\ HeardOK'
    BY <2>1 DEF OrderInv, NetOK, HeardOK
  <2>3. InOrder'
    BY <2>1 DEF InOrder, Increasing, PlayedBeforeQueued, NothingAhead, LastIsKnown
  <2> QED BY <2>2, <2>3 DEF OrderInv
<1>2. CASE ph # "listener"
  BY <1>2, OthersKeep DEF StartAudio, stream, buffer
<1> QED BY <1>1, <1>2

(* Recording: the new packet has a place of its own.                       *)
LEMMA RecordKeeps ==
  ASSUME OrderInv, NEW lin, Record(lin)
  PROVE  OrderInv'
<1> DEFINE n == [SN |-> SN, TS |-> now, payload |-> Encoded("talker", lin), k |-> sent + 1]
<1>1. /\ net' = net \cup {n}
      /\ SN' = (SN + 1) % SNModulus
      /\ sent' = sent + 1
      /\ UNCHANGED <<lastRtpPacketSequenceNumber, queue, lastArrived, heard>>
  BY DEF Record, SendPacket, buffer
<1>2. n.k = sent + 1 /\ n.SN = SN
  OBVIOUS
<1> HIDE DEF n
<1>3. SN' \in Int
  BY <1>1, StreamAssumption DEF OrderInv, NetOK
<1>4. NetOK'
  BY <1>1, <1>2, <1>3 DEF OrderInv, NetOK
<1>5. HeardOK'
  <2>1. 1 .. sent \subseteq 1 .. sent'
    BY <1>1 DEF OrderInv, NetOK
  <2> QED BY <1>1, <2>1 DEF OrderInv, HeardOK
<1>6. ASSUME ~Wrapped'
      PROVE  InOrder'
  <2>1. InOrder
    BY <1>1, <1>6, WrappedStays DEF OrderInv
  <2> QED BY <1>1, <2>1 DEF InOrder, Increasing, PlayedBeforeQueued, NothingAhead, LastIsKnown
<1> QED BY <1>4, <1>5, <1>6 DEF OrderInv

(* Arriving: what the filter lets through is behind all the others.        *)
LEMMA ArriveKeeps ==
  ASSUME OrderInv, NEW p \in net, Arrive(p)
  PROVE  OrderInv'
<1>1. /\ UNCHANGED <<SN, net, sent, heard>>
      /\ p.SN > lastRtpPacketSequenceNumber
      /\ lastRtpPacketSequenceNumber' = p.SN
      /\ lastArrived' = p.k
      /\ queue' = queue \/ queue' = queue \cup {p}
  BY DEF Arrive, Receive, InSequence, Write
<1>2. NetOK' /\ HeardOK'
  BY <1>1 DEF OrderInv, NetOK, HeardOK
<1>3. ASSUME ~Wrapped'
      PROVE  InOrder'
  <2>1. InOrder /\ ~Wrapped
    BY <1>1, <1>3, WrappedStays DEF OrderInv
  <2>2. /\ p.k \in 1 .. sent
        /\ lastArrived \in Nat
        /\ heard \in Seq(Nat)
        /\ \A i \in 1 .. Len(heard) : heard[i] \in 1 .. sent
        /\ \A q \in queue : q.k \in 1 .. sent
    BY DEF OrderInv, NetOK, HeardOK
  <2>3. lastArrived < p.k
    <3>1. CASE lastArrived = 0
      BY <2>2, <3>1
    <3>2. ASSUME NEW a \in net, a.k = lastArrived, a.SN = lastRtpPacketSequenceNumber
          PROVE  lastArrived < p.k
      <4>1. a.SN < p.SN
        BY <1>1, <3>2 DEF OrderInv, NetOK
      <4> QED BY <2>1, <3>2, <4>1, NumbersOrder DEF OrderInv
    <3> QED BY <2>1, <3>1, <3>2 DEF InOrder, LastIsKnown
  <2>4. /\ \A i \in 1 .. Len(heard) : heard[i] < p.k
        /\ \A q \in queue : q.k < p.k
    BY <2>1, <2>2, <2>3 DEF InOrder, NothingAhead
  <2>5. Increasing'
    BY <1>1, <2>1 DEF InOrder, Increasing
  <2>6. PlayedBeforeQueued'
    BY <1>1, <2>1, <2>4 DEF InOrder, PlayedBeforeQueued
  <2>7. NothingAhead'
    BY <1>1, <2>2, <2>4 DEF NothingAhead
  <2>8. LastIsKnown'
    BY <1>1 DEF LastIsKnown
  <2> QED BY <2>5, <2>6, <2>7, <2>8 DEF InOrder
<1> QED BY <1>2, <1>3 DEF OrderInv

(* Playing: the first of the queue is before all the others.               *)
LEMMA PlayKeeps ==
  ASSUME OrderInv, NEW p \in net, Play(p)
  PROVE  OrderInv'
<1>1. /\ UNCHANGED <<SN, net, lastRtpPacketSequenceNumber, sent, lastArrived>>
      /\ p \in queue
      /\ \A q \in queue : p.SN <= q.SN
      /\ queue' = queue \ {p}
      /\ heard' = Append(heard, p.k)
  BY DEF Play, Poll, ReadTime, First
<1>2. /\ p.k \in 1 .. sent
      /\ heard \in Seq(Nat)
      /\ \A i \in 1 .. Len(heard) : heard[i] \in 1 .. sent
      /\ queue \subseteq net
      /\ \A q \in net : q.k \in 1 .. sent
      /\ \A q \in net : p.k = q.k => p = q
  BY DEF OrderInv, NetOK, HeardOK
<1>3. /\ Len(heard') = Len(heard) + 1
      /\ \A i \in 1 .. Len(heard) : heard'[i] = heard[i]
      /\ heard'[Len(heard) + 1] = p.k
      /\ heard' \in Seq(Nat)
      /\ Len(heard) \in Nat
  BY <1>1, <1>2
<1>4. NetOK' /\ HeardOK'
  BY <1>1, <1>3 DEF OrderInv, NetOK, HeardOK
<1>5. ASSUME ~Wrapped'
      PROVE  InOrder'
  <2>1. InOrder /\ ~Wrapped
    BY <1>1, <1>5, WrappedStays DEF OrderInv
  <2>2. \A q \in queue' : p.k < q.k
    <3> SUFFICES ASSUME NEW q \in queue'
                 PROVE  p.k < q.k
      OBVIOUS
    <3>1. q \in net /\ q # p /\ p.SN <= q.SN
      BY <1>1, <1>2
    <3>2. p.k <= q.k
      BY <2>1, <3>1, NumbersOrder DEF OrderInv
    <3> QED BY <1>2, <3>1, <3>2
  <2>3. \A i \in 1 .. Len(heard) : heard[i] < p.k
    BY <1>1, <2>1 DEF InOrder, PlayedBeforeQueued
  <2>4. Increasing'
    BY <1>3, <2>1, <2>3, SMTT(20) DEF InOrder, Increasing
  <2>5. PlayedBeforeQueued'
    BY <1>1, <1>3, <2>1, <2>2 DEF InOrder, PlayedBeforeQueued
  <2>6. NothingAhead'
    BY <1>1, <1>3, <2>1 DEF InOrder, NothingAhead
  <2>7. LastIsKnown'
    BY <1>1, <2>1 DEF InOrder, LastIsKnown
  <2> QED BY <2>4, <2>5, <2>6, <2>7 DEF InOrder
<1> QED BY <1>4, <1>5 DEF OrderInv

-----------------------------------------------------------------------------
(* At first nothing is sent.                                               *)
LEMMA OrderAtFirst == Init => OrderInv
<1> SUFFICES ASSUME Init
             PROVE  OrderInv
  OBVIOUS
<1>1. /\ sent = 0 /\ net = {} /\ queue = {} /\ heard = <<>>
      /\ lastArrived = 0 /\ lastRtpPacketSequenceNumber = 0
      /\ SN \in Int
  BY StreamAssumption DEF Init, StreamInit
<1> QED BY <1>1 DEF OrderInv, NetOK, HeardOK, InOrder, Increasing, PlayedBeforeQueued,
                    NothingAhead, LastIsKnown

(* Every step of both phones, the network and the clock keeps OrderInv.    *)
LEMMA OrderKept == OrderInv /\ [Next]_vars => OrderInv'
<1> SUFFICES ASSUME OrderInv, [Next]_vars
             PROVE  OrderInv'
  OBVIOUS
<1>1. ASSUME NEW ph \in Phone, StartAudio(ph)
      PROVE  OrderInv'
  BY <1>1, StartKeeps
<1>2. ASSUME NEW ph \in Phone, EndAudio(ph)
      PROVE  OrderInv'
  BY <1>2, OthersKeep DEF EndAudio, stream, buffer
<1>3. ASSUME NEW lin, Record(lin)
      PROVE  OrderInv'
  BY <1>3, RecordKeeps
<1>4. ASSUME NEW p \in net, Arrive(p)
      PROVE  OrderInv'
  BY <1>4, ArriveKeeps
<1>5. ASSUME NEW p \in net, Play(p)
      PROVE  OrderInv'
  BY <1>5, PlayKeeps
<1>6. CASE PlaySilence
  BY <1>6, OthersKeep DEF PlaySilence, ReadSilence, ReadTime
<1>7. CASE TimePasses
  BY <1>7, OthersKeep DEF TimePasses, Tick, buffer
<1>8. CASE UNCHANGED vars
  BY <1>8, OthersKeep DEF vars, stream, buffer
<1> QED BY <1>1, <1>2, <1>3, <1>4, <1>5, <1>6, <1>7, <1>8 DEF Next

(* Packets may be lost, repeated and reordered, the buffer may discard     *)
(* them, and the listener may start again: until the sequence number       *)
(* wraps, the player plays in the order of the talker.                     *)
THEOREM PlayedAsSaid == Spec => []PlayedInOrder
<1>1. OrderInv => PlayedInOrder
  BY DEF OrderInv, InOrder, Increasing, PlayedInOrder
<1> QED BY <1>1, OrderAtFirst, OrderKept, PTL DEF Spec

-----------------------------------------------------------------------------
(* The last number that the receiver's filter let through is that of the   *)
(* last packet it let through, or 0.                                       *)
LastNumber ==
  \/ lastArrived = 0 /\ lastRtpPacketSequenceNumber = 0
  \/ \E p \in net : p.k = lastArrived /\ p.SN = lastRtpPacketSequenceNumber

(* The clock of the jitter buffer: until delta is set, it is at most that  *)
(* of the reader. From then on, it and every later look at the reader's    *)
(* clock are not before the packet that delta was computed from.           *)
ClockOK ==
  /\ now \in Nat \ {0}
  /\ \A p \in net : p.TS \in Nat \ {0}
  /\ base \in Nat
  /\ timestamp \in Nat
  /\ delta \in Int
  /\ delta = 0 => timestamp <= now
  /\ delta # 0 => /\ base > 0
                  /\ timestamp >= SampleRate * base
                  /\ now + delta >= SampleRate * base

FirstInv == OrderInv /\ LastNumber /\ ClockOK

(* Times are whole numbers.                                                *)
LEMMA Products ==
  ASSUME NEW n \in Nat
  PROVE  SampleRate * n \in Nat
BY StreamAssumption

(* Neither the buffer's clock nor the packets change, and time goes on.    *)
LEMMA ClockRuns ==
  ASSUME ClockOK, now' \in Nat, now' >= now, UNCHANGED <<net, timestamp, delta, base>>
  PROVE  ClockOK'
<1>1. CASE delta = 0
  BY <1>1 DEF ClockOK
<1>2. CASE delta # 0
  <2>1. SampleRate * base \in Nat /\ SampleRate * base' = SampleRate * base
    BY Products DEF ClockOK
  <2> QED BY <1>2, <2>1 DEF ClockOK
<1> QED BY <1>1, <1>2

(* A read looks at the clock.                                              *)
LEMMA ReadClock ==
  ASSUME ClockOK, ReadTime, UNCHANGED net
  PROVE  ClockOK'
<1>1. /\ UNCHANGED <<now, net, delta, base>>
      /\ timestamp' = now + delta
  BY DEF ReadTime
<1>2. CASE delta = 0
  BY <1>1, <1>2 DEF ClockOK
<1>3. CASE delta # 0
  <2>1. SampleRate * base \in Nat /\ SampleRate * base' = SampleRate * base
    BY <1>1, Products DEF ClockOK
  <2> QED BY <1>1, <1>3, <2>1 DEF ClockOK
<1> QED BY <1>2, <1>3

(* A packet that sets delta sets the clock to its own time.                *)
LEMMA WriteClock ==
  ASSUME ClockOK, NEW p \in net, Write(p), UNCHANGED <<now, net>>
  PROVE  ClockOK'
<1>1. CASE SetsDelta
  <2> DEFINE t == SampleRate * p.TS
  <2>1. /\ delta = 0 /\ timestamp > 0
        /\ delta' = t - timestamp
        /\ timestamp' = t
        /\ base' = p.TS
    BY <1>1 DEF Write, SetsDelta, LocalTime, RtpTime
  <2>2. p.TS \in Nat \ {0} /\ timestamp <= now /\ timestamp \in Nat /\ now \in Nat \ {0}
    BY <2>1 DEF ClockOK
  <2>3. t \in Nat /\ SampleRate * base' = t
    BY <2>1, <2>2, Products
  <2> HIDE DEF t
  <2>4. /\ now' \in Nat \ {0}
        /\ base' \in Nat /\ base' > 0
        /\ timestamp' \in Nat /\ delta' \in Int
        /\ now' + delta' >= t
    BY <2>1, <2>2, <2>3
  <2>5. delta' = 0 => timestamp' <= now'
    BY <2>1, <2>2, <2>3
  <2>6. \A q \in net' : q.TS \in Nat \ {0}
    BY DEF ClockOK
  <2>7. timestamp' >= t
    BY <2>1, <2>3
  <2> QED BY <2>3, <2>4, <2>5, <2>6, <2>7 DEF ClockOK
<1>2. CASE ~SetsDelta
  <2>1. UNCHANGED <<timestamp, delta, base>>
    BY <1>2 DEF Write, LocalTime
  <2> QED BY <2>1, ClockRuns DEF ClockOK
<1> QED BY <1>1, <1>2

(* The packets stay: what was the last number still is.                    *)
LEMMA LastStays ==
  ASSUME LastNumber, net \subseteq net', UNCHANGED <<lastArrived, lastRtpPacketSequenceNumber>>
  PROVE  LastNumber'
BY DEF LastNumber

(* Nothing of the stream but the clock, and that not backwards.            *)
LEMMA RestKeeps ==
  ASSUME FirstInv, OrderInv', now' \in Nat, now' >= now,
         UNCHANGED <<net, lastRtpPacketSequenceNumber, lastArrived, timestamp, delta, base>>
  PROVE  FirstInv'
BY ClockRuns, LastStays DEF FirstInv

(* At first there is no packet.                                            *)
LEMMA FirstAtFirst == Init => FirstInv
<1> SUFFICES ASSUME Init
             PROVE  FirstInv
  OBVIOUS
<1>1. /\ now = Epoch /\ net = {} /\ base = 0 /\ timestamp = 0 /\ delta = 0
      /\ lastArrived = 0 /\ lastRtpPacketSequenceNumber = 0
  BY DEF Init, StreamInit
<1>2. LastNumber /\ ClockOK
  BY <1>1, StreamAssumption DEF LastNumber, ClockOK
<1> QED BY <1>2, OrderAtFirst DEF FirstInv

(* Every step keeps what the buffer's clock and the last number are.       *)
LEMMA FirstKept == FirstInv /\ [Next]_vars => FirstInv'
<1> SUFFICES ASSUME FirstInv, [Next]_vars
             PROVE  FirstInv'
  OBVIOUS
<1>0. /\ OrderInv /\ OrderInv'
      /\ now \in Nat \ {0}
  BY OrderKept DEF FirstInv, ClockOK
<1>1. ASSUME NEW ph \in Phone, StartAudio(ph)
      PROVE  FirstInv'
  <2>1. CASE ph = "listener"
    <3>1. /\ UNCHANGED <<now, net>>
          /\ lastRtpPacketSequenceNumber' = 0 /\ lastArrived' = 0
          /\ timestamp' = 0 /\ delta' = 0 /\ base' = 0
      BY <1>1, <2>1 DEF StartAudio, NewReceiver
    <3>2. LastNumber' /\ ClockOK'
      BY <3>1 DEF FirstInv, LastNumber, ClockOK
    <3> QED BY <1>0, <3>2 DEF FirstInv
  <2>2. CASE ph # "listener"
    BY <1>0, <1>1, <2>2, RestKeeps DEF StartAudio, stream, buffer
  <2> QED BY <2>1, <2>2
<1>2. ASSUME NEW ph \in Phone, EndAudio(ph)
      PROVE  FirstInv'
  BY <1>0, <1>2, RestKeeps DEF EndAudio, stream, buffer
<1>3. ASSUME NEW lin, Record(lin)
      PROVE  FirstInv'
  <2> DEFINE n == [SN |-> SN, TS |-> now, payload |-> Encoded("talker", lin), k |-> sent + 1]
  <2>1. /\ net' = net \cup {n}
        /\ UNCHANGED <<now, lastRtpPacketSequenceNumber, lastArrived, timestamp, delta, base>>
    BY <1>3 DEF Record, SendPacket, buffer
  <2>2. n.TS = now
    OBVIOUS
  <2> HIDE DEF n
  <2>3. LastNumber'
    BY <2>1, LastStays DEF FirstInv
  <2>4. ClockOK'
    BY <1>0, <2>1, <2>2 DEF FirstInv, ClockOK
  <2> QED BY <1>0, <2>3, <2>4 DEF FirstInv
<1>4. ASSUME NEW p \in net, Arrive(p)
      PROVE  FirstInv'
  <2>1. /\ UNCHANGED <<now, net>>
        /\ Write(p)
        /\ lastRtpPacketSequenceNumber' = p.SN /\ lastArrived' = p.k
    BY <1>4 DEF Arrive, Receive
  <2>2. LastNumber'
    BY <2>1 DEF LastNumber
  <2>3. ClockOK'
    BY <2>1, WriteClock DEF FirstInv
  <2> QED BY <1>0, <2>2, <2>3 DEF FirstInv
<1>5. ASSUME NEW p \in net, Play(p)
      PROVE  FirstInv'
  <2>1. /\ ReadTime
        /\ UNCHANGED <<net, lastRtpPacketSequenceNumber, lastArrived>>
    BY <1>5 DEF Play, Poll, ReadTime
  <2> QED BY <1>0, <2>1, ReadClock, LastStays DEF FirstInv
<1>6. CASE PlaySilence
  <2>1. /\ ReadTime
        /\ UNCHANGED <<net, lastRtpPacketSequenceNumber, lastArrived>>
    BY <1>6 DEF PlaySilence, ReadSilence, ReadTime
  <2> QED BY <1>0, <2>1, ReadClock, LastStays DEF FirstInv
<1>7. CASE TimePasses
  BY <1>0, <1>7, RestKeeps, StreamAssumption DEF TimePasses, Tick, buffer
<1>8. CASE UNCHANGED vars
  BY <1>0, <1>8, RestKeeps DEF vars, stream, buffer
<1> QED BY <1>1, <1>2, <1>3, <1>4, <1>5, <1>6, <1>7, <1>8 DEF Next

(* The buffer takes a packet that is not JitterDelay seconds behind the    *)
(* one that set its clock.                                                 *)
LEMMA InTime ==
  ASSUME ClockOK, ~(ready /\ timestamp = 0), NEW p \in net, base > 0 => p.TS <= base + JitterDelay
  PROVE  ~Outstanding(p)
<1>1. SUFFICES ASSUME ready
               PROVE  ~(SampleRate * p.TS > LocalTime(p) + SampleRate * JitterDelay)
  BY DEF Outstanding, RtpTime
<1>2. /\ p.TS \in Nat /\ base \in Nat /\ timestamp \in Nat /\ delta \in Int
      /\ timestamp > 0
      /\ JitterDelay \in Nat /\ SampleRate \in Nat
  BY <1>1, StreamAssumption DEF ClockOK
<1>3. /\ SampleRate * p.TS \in Nat
      /\ SampleRate * base \in Nat
      /\ SampleRate * JitterDelay \in Nat
  BY <1>2, Products
<1>4. CASE delta = 0
  <2>1. LocalTime(p) = SampleRate * p.TS
    BY <1>2, <1>4 DEF LocalTime, SetsDelta, RtpTime
  <2> QED BY <1>3, <2>1
<1>5. CASE delta # 0
  <2>1. LocalTime(p) = timestamp /\ base > 0 /\ timestamp >= SampleRate * base
    BY <1>5 DEF LocalTime, SetsDelta, ClockOK
  <2>2. SampleRate * p.TS <= SampleRate * (base + JitterDelay)
    BY <1>2, <2>1
  <2>3. SampleRate * (base + JitterDelay) = SampleRate * base + SampleRate * JitterDelay
    BY <1>2
  <2> HIDE DEF LocalTime
  <2> QED BY <1>2, <1>3, <2>1, <2>2, <2>3
<1> QED BY <1>2, <1>4, <1>5

(* A packet behind all that have arrived is neither filtered nor discarded,*)
(* in the first JitterDelay seconds of a stream: RtpPacketReceiver.run and *)
(* JitterBuffer.write take it.                                             *)
THEOREM EveryoneIsHeardAtFirst == Spec => []HeardAtFirst
<1>1. FirstInv => HeardAtFirst
  <2> SUFFICES ASSUME FirstInv, ~Wrapped, ~(ready /\ timestamp = 0),
                      NEW p \in net, p.k > lastArrived, p.SN > 0,
                      base > 0 => p.TS <= base + JitterDelay
               PROVE  InSequence(p) /\ ~Outstanding(p)
    BY DEF HeardAtFirst
  <2>1. ~Outstanding(p)
    BY InTime DEF FirstInv
  <2>2. NetOK
    BY DEF FirstInv, OrderInv
  <2>3. CASE lastArrived = 0 /\ lastRtpPacketSequenceNumber = 0
    BY <2>1, <2>3 DEF InSequence
  <2>4. ASSUME NEW a \in net, a.k = lastArrived, a.SN = lastRtpPacketSequenceNumber
        PROVE  InSequence(p)
    BY <2>2, <2>4 DEF InSequence, Wrapped, NetOK
  <2> QED BY <2>1, <2>3, <2>4 DEF FirstInv, LastNumber
<1> QED BY <1>1, FirstAtFirst, FirstKept, PTL DEF Spec

-----------------------------------------------------------------------------
(* What is asked of a codec: its contexts are not null, and its codes are  *)
(* payloads.                                                               *)
CodecWorks(Context) ==
  /\ NewContext \in Context
  /\ NoContext \notin Context
  /\ \A c \in Context, k \in 1 .. MaxFrames : \A lin \in Speech[k] :
       gsm_encode(c, lin).state \in Context /\ gsm_encode(c, lin).code \in Payload
  /\ \A c \in Context, code \in Payload : gsm_decode(c, code).state \in Context

(* Of the phones: the codec is open, and has contexts, while audio is on.  *)
CodecTypes(Context) ==
  /\ isRecording \in [Phone -> BOOLEAN]
  /\ codec_open \in [Phone -> {0, 1}]
  /\ gsm0610_enc_state \in [Phone -> Context \cup {NoContext}]
  /\ gsm0610_dec_state \in [Phone -> Context \cup {NoContext}]
  /\ \A ph \in Phone :
       /\ codec_open[ph] = 1 <=> isRecording[ph]
       /\ isRecording[ph] => gsm0610_enc_state[ph] \in Context /\ gsm0610_dec_state[ph] \in Context
  /\ starts \in [Phone -> Nat]
  /\ spoken \in Seq(Context) /\ Len(spoken) = sent

(* Of the stream, what neither NetOK nor ClockOK say.                      *)
StreamTypes ==
  /\ SN \in 0 .. SNModulus - 1
  /\ net \subseteq Packet
  /\ lastRtpPacketSequenceNumber \in 0 .. SNModulus - 1
  /\ duration \in Nat
  /\ ready \in BOOLEAN

TypeInv(Context) == FirstInv /\ StreamTypes /\ CodecTypes(Context)

(* Nothing that the phones have of the codec and the bounds changes.       *)
LEMMA CodecRests ==
  ASSUME NEW Context, CodecTypes(Context), UNCHANGED <<native, isRecording, starts, spoken, sent>>
  PROVE  CodecTypes(Context)'
BY DEF CodecTypes, native

(* A read takes nothing from the stream but what is played.                *)
LEMMA ReadTypes ==
  ASSUME StreamTypes, ReadTime, UNCHANGED net
  PROVE  StreamTypes'
BY DEF StreamTypes, ReadTime

(* A write adds a period to the buffer, or nothing.                        *)
LEMMA WriteTypes ==
  ASSUME StreamTypes, NEW p \in net, Write(p), UNCHANGED <<SN, net>>,
         lastRtpPacketSequenceNumber' = p.SN
  PROVE  StreamTypes'
<1>1. p.SN \in 0 .. SNModulus - 1
  BY DEF StreamTypes, Packet
<1>2. duration' \in Nat
  BY StreamAssumption DEF Write, StreamTypes
<1>3. ready' \in BOOLEAN
  BY DEF Write, StreamTypes
<1> QED BY <1>1, <1>2, <1>3 DEF StreamTypes

(* Starting audio opens the codec, and makes new contexts.                 *)
LEMMA StartTypes ==
  ASSUME NEW Context, CodecWorks(Context), StreamTypes, CodecTypes(Context),
         NEW ph \in Phone, StartAudio(ph)
  PROVE  StreamTypes' /\ CodecTypes(Context)'
<1>1. /\ ~isRecording[ph] /\ codec_open[ph] = 0
      /\ isRecording' = [isRecording EXCEPT ![ph] = TRUE]
      /\ starts' = [starts EXCEPT ![ph] = @ + 1]
      /\ codec_open' = [codec_open EXCEPT ![ph] = @ + 1]
      /\ gsm0610_enc_state' = [gsm0610_enc_state EXCEPT ![ph] = NewContext]
      /\ gsm0610_dec_state' = [gsm0610_dec_state EXCEPT ![ph] = NewContext]
      /\ UNCHANGED <<spoken, sent>>
  <2>1. codec_open[ph] = 0
    BY DEF StartAudio, CodecTypes
  <2> QED BY <2>1 DEF StartAudio, JniGsmOpen, NewReceiver, stream
<1>2. CodecTypes(Context)'
  <2>1. /\ isRecording' \in [Phone -> BOOLEAN]
        /\ codec_open' \in [Phone -> {0, 1}]
        /\ starts' \in [Phone -> Nat]
        /\ gsm0610_enc_state' \in [Phone -> Context \cup {NoContext}]
        /\ gsm0610_dec_state' \in [Phone -> Context \cup {NoContext}]
    BY <1>1 DEF CodecTypes, CodecWorks
  <2>2. ASSUME NEW u \in Phone
        PROVE  /\ codec_open'[u] = 1 <=> isRecording'[u]
               /\ isRecording'[u] => /\ gsm0610_enc_state'[u] \in Context
                                     /\ gsm0610_dec_state'[u] \in Context
    <3>1. CASE u = ph
      BY <1>1, <3>1 DEF CodecTypes, CodecWorks
    <3>2. CASE u # ph
      BY <1>1, <3>2 DEF CodecTypes
    <3> QED BY <3>1, <3>2
  <2> QED BY <1>1, <2>1, <2>2 DEF CodecTypes
<1>3. StreamTypes'
  <2>1. CASE ph = "listener"
    <3>1. /\ UNCHANGED <<SN, net>>
          /\ lastRtpPacketSequenceNumber' = 0 /\ duration' = 0 /\ ready' = FALSE
      BY <2>1 DEF StartAudio, NewReceiver
    <3>2. 0 \in 0 .. SNModulus - 1
      BY StreamAssumption
    <3> QED BY <3>1, <3>2 DEF StreamTypes
  <2>2. CASE ph # "listener"
    BY <2>2 DEF StartAudio, StreamTypes, stream, buffer
  <2> QED BY <2>1, <2>2
<1> QED BY <1>2, <1>3

(* Ending audio closes it, and leaves the contexts.                        *)
LEMMA EndTypes ==
  ASSUME NEW Context, CodecTypes(Context), NEW ph \in Phone, EndAudio(ph)
  PROVE  CodecTypes(Context)'
<1>1. /\ isRecording[ph] /\ codec_open[ph] = 1
      /\ isRecording' = [isRecording EXCEPT ![ph] = FALSE]
      /\ codec_open' = [codec_open EXCEPT ![ph] = @ - 1]
      /\ UNCHANGED <<gsm0610_enc_state, gsm0610_dec_state, starts, spoken, sent>>
  BY DEF EndAudio, JniGsmClose, CodecTypes, stream
<1>2. /\ isRecording' \in [Phone -> BOOLEAN]
      /\ codec_open' \in [Phone -> {0, 1}]
  BY <1>1 DEF CodecTypes
<1>3. ASSUME NEW u \in Phone
      PROVE  /\ codec_open'[u] = 1 <=> isRecording'[u]
             /\ isRecording'[u] => /\ gsm0610_enc_state'[u] \in Context
                                   /\ gsm0610_dec_state'[u] \in Context
  <2>1. CASE u = ph
    BY <1>1, <2>1 DEF CodecTypes
  <2>2. CASE u # ph
    BY <1>1, <2>2 DEF CodecTypes
  <2> QED BY <2>1, <2>2
<1> QED BY <1>1, <1>2, <1>3 DEF CodecTypes

(* A recorded block becomes a code of the encoder, never the array of      *)
(* zeros: the codec is open for as long as the recorder runs.              *)
LEMMA RecordTypes ==
  ASSUME NEW Context, CodecWorks(Context), FirstInv, StreamTypes, CodecTypes(Context),
         sent < MaxFrames, NEW lin \in Speech[sent + 1], Record(lin)
  PROVE  StreamTypes' /\ CodecTypes(Context)'
<1> DEFINE n == [SN |-> SN, TS |-> now, payload |-> Encoded("talker", lin), k |-> sent + 1]
           e == gsm_encode(gsm0610_enc_state["talker"], lin)
<1>1. /\ "talker" \in Phone
      /\ isRecording["talker"] /\ codec_open["talker"] = 1
      /\ gsm0610_enc_state["talker"] \in Context
      /\ sent \in Nat /\ now \in Nat /\ sent + 1 \in 1 .. MaxFrames
  <2>1. "talker" \in Phone /\ isRecording["talker"]
    BY VoiceAssumption DEF Record
  <2>2. sent \in Nat /\ now \in Nat
    BY DEF FirstInv, OrderInv, NetOK, ClockOK
  <2>3. sent + 1 \in 1 .. MaxFrames
    BY <2>2, StreamAssumption
  <2> QED BY <2>1, <2>2, <2>3 DEF CodecTypes
<1>2. e.state \in Context /\ e.code \in Payload
  BY <1>1 DEF CodecWorks
<1>3. /\ net' = net \cup {n}
      /\ SN' = (SN + 1) % SNModulus
      /\ sent' = sent + 1
      /\ spoken' = Append(spoken, gsm0610_enc_state'["talker"])
      /\ UNCHANGED <<lastRtpPacketSequenceNumber, duration, ready>>
      /\ UNCHANGED <<codec_open, gsm0610_dec_state, isRecording, starts>>
  BY DEF Record, SendPacket, JniGsmEncodeB, buffer
<1>4. gsm0610_enc_state' = [gsm0610_enc_state EXCEPT !["talker"] = e.state]
  BY <1>1 DEF Record, JniGsmEncodeB
<1>5. Encoded("talker", lin) = e.code
  BY <1>1 DEF Encoded
<1> HIDE DEF e
<1>6. n \in Packet
  BY <1>1, <1>2, <1>5 DEF StreamTypes, Packet
<1> HIDE DEF n
<1>7. StreamTypes'
  <2>1. SN' \in 0 .. SNModulus - 1
    BY <1>3, StreamAssumption DEF StreamTypes
  <2> QED BY <1>3, <1>6, <2>1 DEF StreamTypes
<1>8. CodecTypes(Context)'
  <2>1. /\ gsm0610_enc_state' \in [Phone -> Context \cup {NoContext}]
        /\ gsm0610_enc_state'["talker"] = e.state
        /\ \A u \in Phone : gsm0610_enc_state'[u] = gsm0610_enc_state[u] \/ u = "talker"
    BY <1>1, <1>2, <1>4 DEF CodecTypes
  <2>2. spoken' \in Seq(Context) /\ Len(spoken') = sent'
    BY <1>1, <1>2, <1>3, <2>1 DEF CodecTypes
  <2> QED BY <1>2, <1>3, <2>1, <2>2 DEF CodecTypes
<1> QED BY <1>7, <1>8

(* Playing goes on with the decoder's context.                             *)
LEMMA PlayTypes ==
  ASSUME NEW Context, CodecWorks(Context), FirstInv, StreamTypes, CodecTypes(Context),
         NEW p \in net, Play(p)
  PROVE  StreamTypes' /\ CodecTypes(Context)'
<1> DEFINE d == gsm_decode(gsm0610_dec_state["listener"], p.payload)
<1>1. /\ "listener" \in Phone
      /\ isRecording["listener"] /\ codec_open["listener"] = 1
      /\ gsm0610_dec_state["listener"] \in Context
  BY VoiceAssumption DEF Play, CodecTypes
<1>2. p.payload \in Payload
  BY DEF StreamTypes, Packet
<1>3. d.state \in Context
  BY <1>1, <1>2 DEF CodecWorks
<1>4. gsm0610_dec_state' = [gsm0610_dec_state EXCEPT !["listener"] = d.state]
  BY <1>1 DEF Play, JniGsmDecodeB
<1>5. /\ UNCHANGED <<codec_open, gsm0610_enc_state, isRecording, starts, spoken>>
      /\ UNCHANGED <<net, sent>>
      /\ ReadTime
  BY DEF Play, JniGsmDecodeB, Poll, ReadTime
<1> HIDE DEF d
<1>6. CodecTypes(Context)'
  <2>1. /\ gsm0610_dec_state' \in [Phone -> Context \cup {NoContext}]
        /\ gsm0610_dec_state'["listener"] \in Context
        /\ \A u \in Phone : gsm0610_dec_state'[u] = gsm0610_dec_state[u] \/ u = "listener"
    BY <1>1, <1>3, <1>4 DEF CodecTypes
  <2> QED BY <1>5, <2>1 DEF CodecTypes
<1> QED BY <1>5, <1>6, ReadTypes

(* At first no audio is on.                                                *)
LEMMA TypesAtFirst ==
  ASSUME NEW Context, CodecWorks(Context)
  PROVE  Init => TypeInv(Context)
<1> SUFFICES ASSUME Init
             PROVE  TypeInv(Context)
  OBVIOUS
<1>1. FirstInv
  BY FirstAtFirst
<1>2. StreamTypes
  <2>1. SN \in FirstSNs /\ net = {} /\ lastRtpPacketSequenceNumber = 0 /\ duration = 0
    BY DEF Init, StreamInit
  <2>2. 0 \in 0 .. SNModulus - 1 /\ FirstSNs \subseteq 0 .. SNModulus - 1
    BY StreamAssumption
  <2>3. ready \in BOOLEAN
    BY DEF Init, StreamInit
  <2> QED BY <2>1, <2>2, <2>3 DEF StreamTypes
<1>3. CodecTypes(Context)
  BY DEF Init, StreamInit, NativeInit, CodecTypes
<1> QED BY <1>1, <1>2, <1>3 DEF TypeInv

(* Every step keeps the types.                                             *)
LEMMA TypesKept ==
  ASSUME NEW Context, CodecWorks(Context)
  PROVE  TypeInv(Context) /\ [Next]_vars => TypeInv(Context)'
<1> SUFFICES ASSUME TypeInv(Context), [Next]_vars
             PROVE  TypeInv(Context)'
  OBVIOUS
<1>0. /\ FirstInv /\ StreamTypes /\ CodecTypes(Context)
      /\ FirstInv'
  BY FirstKept DEF TypeInv
<1> SUFFICES StreamTypes' /\ CodecTypes(Context)'
  BY <1>0 DEF TypeInv
<1>1. ASSUME NEW ph \in Phone, StartAudio(ph)
      PROVE  StreamTypes' /\ CodecTypes(Context)'
  BY <1>0, <1>1, StartTypes
<1>2. ASSUME NEW ph \in Phone, EndAudio(ph)
      PROVE  StreamTypes' /\ CodecTypes(Context)'
  <2>1. StreamTypes'
    BY <1>0, <1>2 DEF EndAudio, StreamTypes, stream, buffer
  <2> QED BY <1>0, <1>2, <2>1, EndTypes
<1>3. ASSUME sent < MaxFrames, NEW lin \in Speech[sent + 1], Record(lin)
      PROVE  StreamTypes' /\ CodecTypes(Context)'
  BY <1>0, <1>3, RecordTypes
<1>4. ASSUME NEW p \in net, Arrive(p)
      PROVE  StreamTypes' /\ CodecTypes(Context)'
  <2>1. /\ Write(p) /\ lastRtpPacketSequenceNumber' = p.SN
        /\ UNCHANGED <<SN, net, sent>>
        /\ UNCHANGED <<native, isRecording, starts, spoken>>
    BY <1>4 DEF Arrive, Receive
  <2> QED BY <1>0, <2>1, WriteTypes, CodecRests
<1>5. ASSUME NEW p \in net, Play(p)
      PROVE  StreamTypes' /\ CodecTypes(Context)'
  BY <1>0, <1>5, PlayTypes
<1>6. CASE PlaySilence
  <2>1. ReadTime /\ UNCHANGED <<net, sent, native, isRecording, starts, spoken>>
    BY <1>6 DEF PlaySilence, ReadSilence, ReadTime
  <2> QED BY <1>0, <2>1, ReadTypes, CodecRests
<1>7. CASE TimePasses
  <2>1. UNCHANGED <<SN, net, lastRtpPacketSequenceNumber, duration, ready, sent>>
    BY <1>7 DEF TimePasses, Tick, buffer
  <2>2. UNCHANGED <<native, isRecording, starts, spoken>>
    BY <1>7 DEF TimePasses
  <2> QED BY <1>0, <2>1, <2>2, CodecRests DEF StreamTypes
<1>8. CASE UNCHANGED vars
  BY <1>0, <1>8, CodecRests DEF StreamTypes, vars, stream, buffer
<1> QED BY <1>1, <1>2, <1>3, <1>4, <1>5, <1>6, <1>7, <1>8 DEF Next

(* Types, of any codec that works: while audio is on the codec is open and *)
(* has its contexts, and nothing that is sent is the array of zeros that   *)
(* GsmAudioCodec sends when it is not.                                     *)
THEOREM TypeCorrect ==
  ASSUME NEW Context, CodecWorks(Context)
  PROVE  Spec => []TypeOK
<1>1. Init => TypeInv(Context)
  BY TypesAtFirst
<1>2. TypeInv(Context) /\ [Next]_vars => TypeInv(Context)'
  BY TypesKept
<1>3. TypeInv(Context) => TypeOK
  <2> SUFFICES ASSUME TypeInv(Context)
               PROVE  TypeOK
    OBVIOUS
  <2>1. NetOK /\ HeardOK /\ ClockOK /\ StreamTypes /\ CodecTypes(Context)
    BY DEF TypeInv, FirstInv, OrderInv
  <2>2. StreamTypeOK
    BY <2>1 DEF NetOK, HeardOK, ClockOK, StreamTypes, StreamTypeOK
  <2>3. heard \in Seq(1 .. sent)
    <3>1. /\ heard \in Seq(Nat)
          /\ \A i \in 1 .. Len(heard) : heard[i] \in 1 .. sent
      BY <2>1 DEF HeardOK
    <3>2. Len(heard) \in Nat /\ DOMAIN heard = 1 .. Len(heard)
      BY <3>1
    <3>3. heard = [i \in 1 .. Len(heard) |-> heard[i]]
      BY <3>1
    <3>4. heard \in [1 .. Len(heard) -> 1 .. sent]
      BY <3>1, <3>2, <3>3
    <3> QED BY <3>2, <3>4, SeqDef
  <2> QED BY <2>1, <2>2, <2>3 DEF TypeOK, CodecTypes, CodecWorks
<1> QED BY <1>1, <1>2, <1>3, PTL DEF Spec

-----------------------------------------------------------------------------
(* The payloads of the GSM codec. *)

Bytes(n) == {s \in Seq(Byte) : Len(s) = n}

(* Two runs of bytes, one behind the other.                                *)
LEMMA Concatenated ==
  ASSUME NEW m \in Nat, NEW n \in Nat, NEW s \in Bytes(m), NEW t \in Bytes(n)
  PROVE  /\ s \o t \in Bytes(m + n)
         /\ \A i \in 1 .. m + n : (s \o t)[i] = IF i <= m THEN s[i] ELSE t[i - m]
<1>1. s \in Seq(Byte) /\ t \in Seq(Byte) /\ Len(s) = m /\ Len(t) = n
  BY DEF Bytes
<1>2. /\ s \o t \in Seq(Byte)
      /\ Len(s \o t) = Len(s) + Len(t)
      /\ \A i \in 1 .. Len(s) + Len(t) : (s \o t)[i] = IF i <= Len(s) THEN s[i] ELSE t[i - Len(s)]
  BY <1>1, ConcatProperties, Zenon
<1> QED BY <1>1, <1>2 DEF Bytes

(* The ratios are bytes that keep them.                                    *)
LEMMA RatiosKept ==
  ASSUME NEW l \in [1 .. 8 -> 0 .. 63], \A i \in 1 .. 8 : l[i] <= LARMax[i]
  PROVE  LET c == PackedRatios(l)
         IN  /\ c \in Bytes(5)
             /\ l = <<4 * (c[1] % 16) + c[2] \div 64,
                      c[2] % 64,
                      c[3] \div 8,
                      4 * (c[3] % 8) + c[4] \div 64,
                      (c[4] \div 4) % 16,
                      4 * (c[4] % 4) + c[5] \div 64,
                      (c[5] \div 8) % 8,
                      c[5] % 8>>
<1>1. /\ l[1] \in 0 .. 63 /\ l[2] \in 0 .. 63 /\ l[3] \in 0 .. 31 /\ l[4] \in 0 .. 31
      /\ l[5] \in 0 .. 15 /\ l[6] \in 0 .. 15 /\ l[7] \in 0 .. 7 /\ l[8] \in 0 .. 7
  BY DEF LARMax
<1> DEFINE c == PackedRatios(l)
<1>2. c \in Bytes(5)
  <2> DEFINE q == c[1]
             r == c[2]
             s == c[3]
             t == c[4]
             u == c[5]
  <2>1. c = <<q, r, s, t, u>>
    BY DEF PackedRatios
  <2>2. q \in Byte /\ r \in Byte
    BY <1>1 DEF PackedRatios, Byte, GSM0610_MAGIC
  <2>3. s \in Byte /\ t \in Byte /\ u \in Byte
    BY <1>1, SMTT(20) DEF PackedRatios, Byte
  <2> HIDE DEF c, q, r, s, t, u
  <2> QED BY <2>1, <2>2, <2>3 DEF Bytes
<1>3. /\ l[1] = 4 * (c[1] % 16) + c[2] \div 64
      /\ l[2] = c[2] % 64
      /\ l[3] = c[3] \div 8
      /\ l[4] = 4 * (c[3] % 8) + c[4] \div 64
      /\ l[5] = (c[4] \div 4) % 16
      /\ l[6] = 4 * (c[4] % 4) + c[5] \div 64
      /\ l[7] = (c[5] \div 8) % 8
      /\ l[8] = c[5] % 8
  BY <1>1, SMTT(60) DEF PackedRatios, GSM0610_MAGIC
<1> QED BY <1>2, <1>3

(* The bytes of a subframe keep its lag, gain, grid, maximum and pulses.   *)
LEMMA SubframeKept ==
  ASSUME NEW f \in Frame, NEW i \in 1 .. 4
  PROVE  LET c == PackedSubframe(f.Nc[i], f.bc[i], f.Mc[i], f.xmaxc[i], f.xMc[i])
         IN  /\ c \in Bytes(7)
             /\ f.Nc[i] = c[1] \div 2
             /\ f.bc[i] = 2 * (c[1] % 2) + c[2] \div 128
             /\ f.Mc[i] = (c[2] \div 32) % 4
             /\ f.xmaxc[i] = 2 * (c[2] % 32) + c[3] \div 128
             /\ f.xMc[i] = <<(c[3] \div 16) % 8,
                             (c[3] \div 2) % 8,
                             4 * (c[3] % 2) + c[4] \div 64,
                             (c[4] \div 8) % 8,
                             c[4] % 8,
                             c[5] \div 32,
                             (c[5] \div 4) % 8,
                             2 * (c[5] % 4) + c[6] \div 128,
                             (c[6] \div 16) % 8,
                             (c[6] \div 2) % 8,
                             4 * (c[6] % 2) + c[7] \div 64,
                             (c[7] \div 8) % 8,
                             c[7] % 8>>
<1> DEFINE Nc == f.Nc[i]
           bc == f.bc[i]
           Mc == f.Mc[i]
           xmaxc == f.xmaxc[i]
           x == f.xMc[i]
           c == PackedSubframe(Nc, bc, Mc, xmaxc, x)
<1>1. /\ Nc \in 0 .. 127 /\ bc \in 0 .. 3 /\ Mc \in 0 .. 3 /\ xmaxc \in 0 .. 63
      /\ x \in [1 .. 13 -> 0 .. 7]
  BY DEF Frame
<1> HIDE DEF Nc, bc, Mc, xmaxc, x
<1>0. \A k \in 1 .. 13 : x[k] \in 0 .. 7
  BY <1>1
<1>2. /\ c[1] = 2 * Nc + bc \div 2
      /\ c[2] = 128 * (bc % 2) + 32 * Mc + xmaxc \div 2
      /\ c[3] = 128 * (xmaxc % 2) + 16 * x[1] + 2 * x[2] + x[3] \div 4
      /\ c[4] = 64 * (x[3] % 4) + 8 * x[4] + x[5]
      /\ c[5] = 32 * x[6] + 4 * x[7] + x[8] \div 2
      /\ c[6] = 128 * (x[8] % 2) + 16 * x[9] + 2 * x[10] + x[11] \div 4
      /\ c[7] = 64 * (x[11] % 4) + 8 * x[12] + x[13]
      /\ Len(c) = 7
  BY DEF PackedSubframe
<1>3. c \in Bytes(7)
  <2> DEFINE q == c[1]
             r == c[2]
             s == c[3]
             t == c[4]
             u == c[5]
             v == c[6]
             w == c[7]
  <2>1. c = <<q, r, s, t, u, v, w>>
    BY DEF PackedSubframe
  <2>2. /\ x[1] \in 0 .. 7 /\ x[2] \in 0 .. 7 /\ x[3] \in 0 .. 7 /\ x[4] \in 0 .. 7
        /\ x[5] \in 0 .. 7 /\ x[6] \in 0 .. 7 /\ x[7] \in 0 .. 7 /\ x[8] \in 0 .. 7
        /\ x[9] \in 0 .. 7 /\ x[10] \in 0 .. 7 /\ x[11] \in 0 .. 7 /\ x[12] \in 0 .. 7
        /\ x[13] \in 0 .. 7
    BY <1>0
  <2> HIDE DEF c
  <2>3. q \in Byte /\ r \in Byte
    BY <1>1, <1>2 DEF Byte
  <2>4. s \in Byte
    <3>1. s = 128 * (xmaxc % 2) + 16 * x[1] + 2 * x[2] + x[3] \div 4
      BY <1>2
    <3>2. xmaxc % 2 \in 0 .. 1 /\ x[3] \div 4 \in 0 .. 1
      BY <1>1, <2>2
    <3> QED BY <2>2, <3>1, <3>2 DEF Byte
  <2>5. t \in Byte
    BY <1>2, <2>2 DEF Byte
  <2>6. u \in Byte /\ v \in Byte /\ w \in Byte
    BY <1>2, <2>2, SMTT(20) DEF Byte
  <2> HIDE DEF q, r, s, t, u, v, w
  <2> QED BY <2>1, <2>3, <2>4, <2>5, <2>6 DEF Bytes
<1> HIDE DEF c
<1>4. /\ Nc = c[1] \div 2
      /\ bc = 2 * (c[1] % 2) + c[2] \div 128
      /\ Mc = (c[2] \div 32) % 4
      /\ xmaxc = 2 * (c[2] % 32) + c[3] \div 128
  <2>1. /\ c[1] = 2 * Nc + bc \div 2
        /\ c[2] = 128 * (bc % 2) + 32 * Mc + xmaxc \div 2
    BY <1>2
  <2>2. \E r \in 0 .. 127 : c[3] = 128 * (xmaxc % 2) + r
    <3> DEFINE r == 16 * x[1] + 2 * x[2] + x[3] \div 4
    <3>1. r \in 0 .. 127
      BY <1>0
    <3>2. c[3] = 128 * (xmaxc % 2) + r
      BY <1>1, <1>0, <1>2
    <3> HIDE DEF r
    <3> QED BY <3>1, <3>2
  <2>3. PICK r \in 0 .. 127 : c[3] = 128 * (xmaxc % 2) + r
    BY <2>2
  <2>4. Nc = c[1] \div 2
    BY <1>1, <2>1
  <2>5. bc = 2 * (c[1] % 2) + c[2] \div 128
    BY <1>1, <2>1, SMTT(60)
  <2>6. Mc = (c[2] \div 32) % 4
    BY <1>1, <2>1, SMTT(60)
  <2>7. xmaxc = 2 * (c[2] % 32) + c[3] \div 128
    BY <1>1, <2>1, <2>3, SMTT(60)
  <2> QED BY <2>4, <2>5, <2>6, <2>7
<1>5. /\ x[1] = (c[3] \div 16) % 8
      /\ x[2] = (c[3] \div 2) % 8
      /\ x[3] = 4 * (c[3] % 2) + c[4] \div 64
      /\ x[4] = (c[4] \div 8) % 8
      /\ x[5] = c[4] % 8
  <2>1. \E h \in 0 .. 1 : c[3] = 128 * h + 16 * x[1] + 2 * x[2] + x[3] \div 4
    <3>1. xmaxc % 2 \in 0 .. 1
      BY <1>1
    <3> QED BY <1>2, <3>1
  <2>2. PICK h \in 0 .. 1 : c[3] = 128 * h + 16 * x[1] + 2 * x[2] + x[3] \div 4
    BY <2>1
  <2>0. /\ c[4] = 64 * (x[3] % 4) + 8 * x[4] + x[5]
        /\ x[1] \in 0 .. 7 /\ x[2] \in 0 .. 7 /\ x[3] \in 0 .. 7 /\ x[4] \in 0 .. 7
        /\ x[5] \in 0 .. 7
    BY <1>0, <1>2
  <2>3. x[1] = (c[3] \div 16) % 8
    <3>1. PICK r \in 0 .. 15 : r = 2 * x[2] + x[3] \div 4
      BY <2>0
    <3>2. PICK g \in 0 .. 15 : g = 8 * h + x[1]
      BY <2>0
    <3>3. c[3] = 16 * g + r
      <4>1. c[3] = 128 * h + 16 * x[1] + r
        BY <2>0, <2>2, <3>1
      <4>2. x[1] \in 0 .. 7
        BY <2>0
      <4> QED BY <3>2, <4>1, <4>2
    <3>4. c[3] \div 16 = g
      BY <3>3
    <3>5. x[1] \in 0 .. 7
      BY <2>0
    <3>6. g % 8 = x[1]
      BY <3>2, <3>5
    <3> QED BY <3>4, <3>6
  <2>4. x[2] = (c[3] \div 2) % 8
    <3>1. PICK g \in 0 .. 15 : g = 8 * h + x[1]
      BY <2>0
    <3>2. PICK b \in 0 .. 1 : b = x[3] \div 4
      BY <2>0
    <3>3. c[3] = 16 * g + 2 * x[2] + b
      BY <2>0, <2>2, <3>1, <3>2
    <3> QED BY <2>0, <3>3, SMTT(60)
  <2>5. x[3] = 4 * (c[3] % 2) + c[4] \div 64
    BY <2>0, <2>2, SMTT(60)
  <2>6. x[4] = (c[4] \div 8) % 8 /\ x[5] = c[4] % 8
    BY <2>0, SMTT(60)
  <2> QED BY <2>3, <2>4, <2>5, <2>6
<1>6. /\ x[6] = c[5] \div 32
      /\ x[7] = (c[5] \div 4) % 8
      /\ x[8] = 2 * (c[5] % 4) + c[6] \div 128
      /\ x[9] = (c[6] \div 16) % 8
      /\ x[10] = (c[6] \div 2) % 8
  <2>1. /\ c[5] = 32 * x[6] + 4 * x[7] + x[8] \div 2
        /\ c[6] = 128 * (x[8] % 2) + 16 * x[9] + 2 * x[10] + x[11] \div 4
        /\ x[6] \in 0 .. 7 /\ x[7] \in 0 .. 7 /\ x[8] \in 0 .. 7 /\ x[9] \in 0 .. 7
        /\ x[10] \in 0 .. 7 /\ x[11] \in 0 .. 7
    BY <1>0, <1>2
  <2>2. x[6] = c[5] \div 32 /\ x[7] = (c[5] \div 4) % 8
    BY <2>1, SMTT(60)
  <2>3. x[8] = 2 * (c[5] % 4) + c[6] \div 128
    BY <2>1, SMTT(60)
  <2>4. x[9] = (c[6] \div 16) % 8
    BY <2>1, SMTT(60)
  <2>5. x[10] = (c[6] \div 2) % 8
    BY <2>1, SMTT(60)
  <2> QED BY <2>2, <2>3, <2>4, <2>5
<1>7. /\ x[11] = 4 * (c[6] % 2) + c[7] \div 64
      /\ x[12] = (c[7] \div 8) % 8
      /\ x[13] = c[7] % 8
  <2>1. /\ c[6] = 128 * (x[8] % 2) + 16 * x[9] + 2 * x[10] + x[11] \div 4
        /\ c[7] = 64 * (x[11] % 4) + 8 * x[12] + x[13]
        /\ x[8] \in 0 .. 7 /\ x[9] \in 0 .. 7 /\ x[10] \in 0 .. 7 /\ x[11] \in 0 .. 7
        /\ x[12] \in 0 .. 7 /\ x[13] \in 0 .. 7
    BY <1>0, <1>2
  <2>2. x[11] = 4 * (c[6] % 2) + c[7] \div 64
    BY <2>1, SMTT(60)
  <2>3. x[12] = (c[7] \div 8) % 8 /\ x[13] = c[7] % 8
    BY <2>1, SMTT(60)
  <2> QED BY <2>2, <2>3
<1>8. x = <<x[1], x[2], x[3], x[4], x[5], x[6], x[7], x[8], x[9], x[10], x[11], x[12], x[13]>>
  BY <1>1
<1> QED BY <1>3, <1>4, <1>5, <1>6, <1>7, <1>8, Zenon DEF Nc, bc, Mc, xmaxc, x, c

-----------------------------------------------------------------------------
(* A mask that leaves each of four parameters as it is leaves them all.    *)
LEMMA MaskKeeps ==
  ASSUME NEW n, NEW r, r \in [1 .. 4 -> Int], \A i \in 1 .. 4 : r[i] % n = r[i]
  PROVE  [i \in 1 .. 4 |-> r[i] % n] = r
<1>1. [i \in 1 .. 4 |-> r[i] % n] = [i \in 1 .. 4 |-> r[i]]
  OBVIOUS
<1>2. r = [i \in 1 .. 4 |-> r[i]]
  OBVIOUS
<1>. QED  BY <1>1, <1>2

(* Cutting every parameter to the bits of its field leaves a frame as it   *)
(* is.                                                                     *)
LEMMA MasksKeepFrames ==
  ASSUME NEW f \in Frame
  PROVE  Masked(f) = f
<1>1. /\ f.LARc \in [1 .. 8 -> 0 .. 63]
      /\ \A i \in 1 .. 8 : f.LARc[i] <= LARMax[i]
      /\ f.Nc \in [1 .. 4 -> 0 .. 127]
      /\ f.bc \in [1 .. 4 -> 0 .. 3]
      /\ f.Mc \in [1 .. 4 -> 0 .. 3]
      /\ f.xmaxc \in [1 .. 4 -> 0 .. 63]
      /\ f.xMc \in [1 .. 4 -> [1 .. 13 -> 0 .. 7]]
  BY DEF Frame
<1> DEFINE m == Masked(f)
<1>2. m.LARc = f.LARc
  <2>1. /\ LARMax[1] = 63 /\ LARMax[2] = 63 /\ LARMax[3] = 31 /\ LARMax[4] = 31
        /\ LARMax[5] = 15 /\ LARMax[6] = 15 /\ LARMax[7] = 7 /\ LARMax[8] = 7
    BY DEF LARMax
  <2>2. /\ f.LARc[1] \in 0 .. 63 /\ f.LARc[2] \in 0 .. 63
        /\ f.LARc[3] \in 0 .. 31 /\ f.LARc[4] \in 0 .. 31
        /\ f.LARc[5] \in 0 .. 15 /\ f.LARc[6] \in 0 .. 15
        /\ f.LARc[7] \in 0 .. 7 /\ f.LARc[8] \in 0 .. 7
    BY <1>1, <2>1
  <2> DEFINE l == f.LARc
  <2>3. m.LARc = <<l[1], l[2], l[3], l[4], l[5], l[6], l[7], l[8]>>
    BY <2>2 DEF Masked
  <2>4. l = <<l[1], l[2], l[3], l[4], l[5], l[6], l[7], l[8]>>
    BY <1>1
  <2>. QED  BY <2>3, <2>4
<1>3. m.Nc = f.Nc
  <2>1. m.Nc = [i \in 1 .. 4 |-> f.Nc[i] % 128]
    BY DEF Masked
  <2>2. \A i \in 1 .. 4 : f.Nc[i] \in 0 .. 127
    BY <1>1
  <2>3. \A i \in 1 .. 4 : f.Nc[i] % 128 = f.Nc[i]
    BY <2>2
  <2>4. f.Nc \in [1 .. 4 -> Int]
    BY <1>1
  <2> HIDE DEF m
  <2>5. [i \in 1 .. 4 |-> f.Nc[i] % 128] = f.Nc
    BY <2>3, <2>4, MaskKeeps
  <2>. QED  BY <2>1, <2>5
<1>4. m.bc = f.bc
  <2>1. m.bc = [i \in 1 .. 4 |-> f.bc[i] % 4]
    BY DEF Masked
  <2>2. \A i \in 1 .. 4 : f.bc[i] \in 0 .. 3
    BY <1>1
  <2>3. \A i \in 1 .. 4 : f.bc[i] % 4 = f.bc[i]
    BY <2>2
  <2>4. f.bc \in [1 .. 4 -> Int]
    BY <1>1
  <2> HIDE DEF m
  <2>5. [i \in 1 .. 4 |-> f.bc[i] % 4] = f.bc
    BY <2>3, <2>4, MaskKeeps
  <2>. QED  BY <2>1, <2>5
<1>5. m.Mc = f.Mc
  <2>1. m.Mc = [i \in 1 .. 4 |-> f.Mc[i] % 4]
    BY DEF Masked
  <2>2. \A i \in 1 .. 4 : f.Mc[i] \in 0 .. 3
    BY <1>1
  <2>3. \A i \in 1 .. 4 : f.Mc[i] % 4 = f.Mc[i]
    BY <2>2
  <2>4. f.Mc \in [1 .. 4 -> Int]
    BY <1>1
  <2> HIDE DEF m
  <2>5. [i \in 1 .. 4 |-> f.Mc[i] % 4] = f.Mc
    BY <2>3, <2>4, MaskKeeps
  <2>. QED  BY <2>1, <2>5
<1>6. m.xmaxc = f.xmaxc
  <2>1. m.xmaxc = [i \in 1 .. 4 |-> f.xmaxc[i] % 64]
    BY DEF Masked
  <2>2. \A i \in 1 .. 4 : f.xmaxc[i] \in 0 .. 63
    BY <1>1
  <2>3. \A i \in 1 .. 4 : f.xmaxc[i] % 64 = f.xmaxc[i]
    BY <2>2
  <2>4. f.xmaxc \in [1 .. 4 -> Int]
    BY <1>1
  <2> HIDE DEF m
  <2>5. [i \in 1 .. 4 |-> f.xmaxc[i] % 64] = f.xmaxc
    BY <2>3, <2>4, MaskKeeps
  <2>. QED  BY <2>1, <2>5
<1>7. m.xMc = f.xMc
  <2> DEFINE h(i) == [k \in 1 .. 13 |-> f.xMc[i][k] % 8]
  <2>1. ASSUME NEW i \in 1 .. 4 PROVE h(i) = f.xMc[i]
    <3>1. f.xMc[i] \in [1 .. 13 -> 0 .. 7]
      BY <1>1
    <3> DEFINE g == f.xMc[i]
    <3>2. \A k \in 1 .. 13 : g[k] \in 0 .. 7
      BY <3>1
    <3>3. \A k \in 1 .. 13 : g[k] % 8 = g[k]
      BY <3>2
    <3> HIDE DEF g
    <3>4. [k \in 1 .. 13 |-> g[k] % 8] = [k \in 1 .. 13 |-> g[k]]
      BY <3>3
    <3>5. g = [k \in 1 .. 13 |-> g[k]]
      BY <3>1 DEF g
    <3>. QED  BY <3>4, <3>5 DEF g
  <2>2. m.xMc = [i \in 1 .. 4 |-> h(i)]
    BY DEF Masked
  <2> HIDE DEF h, m
  <2>3. m.xMc = [i \in 1 .. 4 |-> f.xMc[i]]
    BY <2>1, <2>2
  <2>4. f.xMc = [i \in 1 .. 4 |-> f.xMc[i]]
    BY <1>1
  <2>. QED  BY <2>3, <2>4
<1>8. m = [LARc |-> m.LARc, Nc |-> m.Nc, bc |-> m.bc, Mc |-> m.Mc,
           xmaxc |-> m.xmaxc, xMc |-> m.xMc]
  BY DEF Masked
<1>9. f = [LARc |-> f.LARc, Nc |-> f.Nc, bc |-> f.bc, Mc |-> f.Mc,
           xmaxc |-> f.xmaxc, xMc |-> f.xMc]
  BY DEF Frame
<1> HIDE DEF m
<1>10. m = f
  BY <1>2, <1>3, <1>4, <1>5, <1>6, <1>7, <1>8, <1>9, Zenon
<1>. QED  BY <1>10 DEF m

(* Packing makes 33 bytes of every frame, and unpacking them gives back    *)
(* the frame: gsm0610_pack_voip and gsm0610_unpack_voip are inverse.       *)
THEOREM VoipPackingIsLossless ==
  \A f \in Frame : PackVoip(f) \in Bytes(VoipBytes) /\ UnpackVoip(PackVoip(f)) = f
<1> SUFFICES ASSUME NEW f \in Frame
             PROVE  PackVoip(f) \in Bytes(VoipBytes) /\ UnpackVoip(PackVoip(f)) = f
  OBVIOUS
<1> DEFINE sub(i) == PackedSubframe(f.Nc[i], f.bc[i], f.Mc[i], f.xmaxc[i], f.xMc[i])
           a == PackedRatios(f.LARc)
           c == PackVoip(f)
           at(i, n) == c[7 * i - 2 + n]
<1>1. /\ f.LARc \in [1 .. 8 -> 0 .. 63]
      /\ \A i \in 1 .. 8 : f.LARc[i] <= LARMax[i]
      /\ f.Nc \in [1 .. 4 -> 0 .. 127]
      /\ f.bc \in [1 .. 4 -> 0 .. 3]
      /\ f.Mc \in [1 .. 4 -> 0 .. 3]
      /\ f.xmaxc \in [1 .. 4 -> 0 .. 63]
      /\ f.xMc \in [1 .. 4 -> [1 .. 13 -> 0 .. 7]]
  BY DEF Frame
<1>2. a \in Bytes(5)
  BY <1>1, RatiosKept
<1>3. \A i \in 1 .. 4 :
        /\ f.Nc[i] \in 0 .. 127 /\ f.bc[i] \in 0 .. 3 /\ f.Mc[i] \in 0 .. 3
        /\ f.xmaxc[i] \in 0 .. 63 /\ f.xMc[i] \in [1 .. 13 -> 0 .. 7]
  BY <1>1
<1>4. \A i \in 1 .. 4 : sub(i) \in Bytes(7)
  BY SubframeKept, Zenon
<1>5. c = a \o sub(1) \o sub(2) \o sub(3) \o sub(4)
  BY MasksKeepFrames DEF PackVoip
<1>6. /\ c \in Bytes(33)
      /\ \A n \in 1 .. 5 : c[n] = a[n]
      /\ \A n \in 1 .. 7 : /\ c[5 + n] = sub(1)[n]
                           /\ c[12 + n] = sub(2)[n]
                           /\ c[19 + n] = sub(3)[n]
                           /\ c[26 + n] = sub(4)[n]
  <2>1. /\ sub(1) \in Bytes(7) /\ sub(2) \in Bytes(7)
        /\ sub(3) \in Bytes(7) /\ sub(4) \in Bytes(7)
    BY <1>4
  <2> DEFINE s1 == sub(1)
             s2 == sub(2)
             s3 == sub(3)
             s4 == sub(4)
  <2>2. /\ s1 \in Bytes(7) /\ s2 \in Bytes(7) /\ s3 \in Bytes(7) /\ s4 \in Bytes(7)
        /\ c = a \o s1 \o s2 \o s3 \o s4
    BY <2>1, <1>5
  <2> HIDE DEF a, c, s1, s2, s3, s4
  <2>3. /\ c \in Bytes(33)
        /\ \A n \in 1 .. 5 : c[n] = a[n]
        /\ \A n \in 1 .. 7 : /\ c[5 + n] = s1[n]
                             /\ c[12 + n] = s2[n]
                             /\ c[19 + n] = s3[n]
                             /\ c[26 + n] = s4[n]
    <3> DEFINE b12 == a \o s1
               b19 == b12 \o s2
               b26 == b19 \o s3
    <3>1. b12 \in Bytes(12) /\ \A n \in 1 .. 12 : b12[n] = IF n <= 5 THEN a[n] ELSE s1[n - 5]
      <4>1. /\ a \o s1 \in Bytes(5 + 7)
            /\ \A n \in 1 .. 5 + 7 : (a \o s1)[n] = IF n <= 5 THEN a[n] ELSE s1[n - 5]
        <5>1. 5 \in Nat /\ 7 \in Nat
          OBVIOUS
        <5> QED BY <1>2, <2>2, <5>1, Concatenated, Zenon
      <4>2. 5 + 7 = 12
        OBVIOUS
      <4> QED BY <4>1, <4>2, Zenon
    <3>2. b19 \in Bytes(19) /\ \A n \in 1 .. 19 : b19[n] = IF n <= 12 THEN b12[n] ELSE s2[n - 12]
      <4> HIDE DEF b12
      <4>1. /\ b12 \o s2 \in Bytes(12 + 7)
            /\ \A n \in 1 .. 12 + 7 : (b12 \o s2)[n] = IF n <= 12 THEN b12[n] ELSE s2[n - 12]
        <5>1. 12 \in Nat /\ 7 \in Nat
          OBVIOUS
        <5> QED BY <2>2, <3>1, <5>1, Concatenated, Zenon
      <4>2. 12 + 7 = 19
        OBVIOUS
      <4> QED BY <4>1, <4>2, Zenon
    <3>3. b26 \in Bytes(26) /\ \A n \in 1 .. 26 : b26[n] = IF n <= 19 THEN b19[n] ELSE s3[n - 19]
      <4> HIDE DEF b19
      <4>1. /\ b19 \o s3 \in Bytes(19 + 7)
            /\ \A n \in 1 .. 19 + 7 : (b19 \o s3)[n] = IF n <= 19 THEN b19[n] ELSE s3[n - 19]
        <5>1. 19 \in Nat /\ 7 \in Nat
          OBVIOUS
        <5> QED BY <2>2, <3>2, <5>1, Concatenated, Zenon
      <4>2. 19 + 7 = 26
        OBVIOUS
      <4> QED BY <4>1, <4>2, Zenon
    <3>4. c \in Bytes(33) /\ \A n \in 1 .. 33 : c[n] = IF n <= 26 THEN b26[n] ELSE s4[n - 26]
      <4>0. c = b26 \o s4
        BY <2>2
      <4> HIDE DEF b26
      <4>1. /\ b26 \o s4 \in Bytes(26 + 7)
            /\ \A n \in 1 .. 26 + 7 : (b26 \o s4)[n] = IF n <= 26 THEN b26[n] ELSE s4[n - 26]
        <5>1. 26 \in Nat /\ 7 \in Nat
          OBVIOUS
        <5> QED BY <2>2, <3>3, <5>1, Concatenated, Zenon
      <4>2. 26 + 7 = 33
        OBVIOUS
      <4> QED BY <4>0, <4>1, <4>2, Zenon
    <3> HIDE DEF b12, b19, b26
    <3>6. \A n \in 1 .. 5 : c[n] = a[n]
      BY <3>1, <3>2, <3>3, <3>4
    <3>7. \A n \in 1 .. 7 : c[5 + n] = s1[n] /\ c[12 + n] = s2[n]
      BY <3>1, <3>2, <3>3, <3>4
    <3>8. \A n \in 1 .. 7 : c[19 + n] = s3[n] /\ c[26 + n] = s4[n]
      BY <3>3, <3>4
    <3> QED BY <3>4, <3>6, <3>7, <3>8
  <2> QED BY <2>3 DEF s1, s2, s3, s4
<1>7. \A i \in 1 .. 4, n \in 1 .. 7 : at(i, n) = sub(i)[n]
  <2>1. \A n \in 1 .. 7 : /\ at(1, n) = c[5 + n]
                          /\ at(2, n) = c[12 + n]
                          /\ at(3, n) = c[19 + n]
                          /\ at(4, n) = c[26 + n]
    OBVIOUS
  <2> HIDE DEF sub, c, at
  <2>2. \A i \in 1 .. 4 : i = 1 \/ i = 2 \/ i = 3 \/ i = 4
    OBVIOUS
  <2> QED BY <1>6, <2>1, <2>2
<1>8. LET l == f.LARc
      IN  l = <<4 * (c[1] % 16) + c[2] \div 64,
                c[2] % 64,
                c[3] \div 8,
                4 * (c[3] % 8) + c[4] \div 64,
                (c[4] \div 4) % 16,
                4 * (c[4] % 4) + c[5] \div 64,
                (c[5] \div 8) % 8,
                c[5] % 8>>
  <2>1. LET l == f.LARc
        IN  l = <<4 * (a[1] % 16) + a[2] \div 64,
                  a[2] % 64,
                  a[3] \div 8,
                  4 * (a[3] % 8) + a[4] \div 64,
                  (a[4] \div 4) % 16,
                  4 * (a[4] % 4) + a[5] \div 64,
                  (a[5] \div 8) % 8,
                  a[5] % 8>>
    <3> HIDE DEF c
    <3> QED BY <1>1, RatiosKept
  <2> HIDE DEF a, c
  <2>2. c[1] = a[1] /\ c[2] = a[2] /\ c[3] = a[3] /\ c[4] = a[4] /\ c[5] = a[5]
    BY <1>6
  <2> QED BY <2>1, <2>2, Zenon
<1>9. \A i \in 1 .. 4 :
        /\ f.Nc[i] = at(i, 1) \div 2
        /\ f.bc[i] = 2 * (at(i, 1) % 2) + at(i, 2) \div 128
        /\ f.Mc[i] = (at(i, 2) \div 32) % 4
        /\ f.xmaxc[i] = 2 * (at(i, 2) % 32) + at(i, 3) \div 128
        /\ f.xMc[i] = <<(at(i, 3) \div 16) % 8,
                        (at(i, 3) \div 2) % 8,
                        4 * (at(i, 3) % 2) + at(i, 4) \div 64,
                        (at(i, 4) \div 8) % 8,
                        at(i, 4) % 8,
                        at(i, 5) \div 32,
                        (at(i, 5) \div 4) % 8,
                        2 * (at(i, 5) % 4) + at(i, 6) \div 128,
                        (at(i, 6) \div 16) % 8,
                        (at(i, 6) \div 2) % 8,
                        4 * (at(i, 6) % 2) + at(i, 7) \div 64,
                        (at(i, 7) \div 8) % 8,
                        at(i, 7) % 8>>
  <2> SUFFICES ASSUME NEW i \in 1 .. 4
               PROVE  /\ f.Nc[i] = at(i, 1) \div 2
                      /\ f.bc[i] = 2 * (at(i, 1) % 2) + at(i, 2) \div 128
                      /\ f.Mc[i] = (at(i, 2) \div 32) % 4
                      /\ f.xmaxc[i] = 2 * (at(i, 2) % 32) + at(i, 3) \div 128
                      /\ f.xMc[i] = <<(at(i, 3) \div 16) % 8,
                                      (at(i, 3) \div 2) % 8,
                                      4 * (at(i, 3) % 2) + at(i, 4) \div 64,
                                      (at(i, 4) \div 8) % 8,
                                      at(i, 4) % 8,
                                      at(i, 5) \div 32,
                                      (at(i, 5) \div 4) % 8,
                                      2 * (at(i, 5) % 4) + at(i, 6) \div 128,
                                      (at(i, 6) \div 16) % 8,
                                      (at(i, 6) \div 2) % 8,
                                      4 * (at(i, 6) % 2) + at(i, 7) \div 64,
                                      (at(i, 7) \div 8) % 8,
                                      at(i, 7) % 8>>
    BY Zenon
  <2> HIDE DEF c, at
  <2>1. /\ at(i, 1) = sub(i)[1] /\ at(i, 2) = sub(i)[2] /\ at(i, 3) = sub(i)[3]
        /\ at(i, 4) = sub(i)[4] /\ at(i, 5) = sub(i)[5] /\ at(i, 6) = sub(i)[6]
        /\ at(i, 7) = sub(i)[7]
    <3> HIDE DEF sub
    <3>1. \A n \in 1 .. 7 : at(i, n) = sub(i)[n]
      BY <1>7
    <3> QED BY <3>1
  <2>2. /\ f.Nc[i] \in 0 .. 127 /\ f.bc[i] \in 0 .. 3 /\ f.Mc[i] \in 0 .. 3
        /\ f.xmaxc[i] \in 0 .. 63 /\ f.xMc[i] \in [1 .. 13 -> 0 .. 7]
    BY <1>3
  <2>3. /\ f.Nc[i] = sub(i)[1] \div 2
         /\ f.bc[i] = 2 * (sub(i)[1] % 2) + sub(i)[2] \div 128
         /\ f.Mc[i] = (sub(i)[2] \div 32) % 4
         /\ f.xmaxc[i] = 2 * (sub(i)[2] % 32) + sub(i)[3] \div 128
         /\ f.xMc[i] = <<(sub(i)[3] \div 16) % 8,
                         (sub(i)[3] \div 2) % 8,
                         4 * (sub(i)[3] % 2) + sub(i)[4] \div 64,
                         (sub(i)[4] \div 8) % 8,
                         sub(i)[4] % 8,
                         sub(i)[5] \div 32,
                         (sub(i)[5] \div 4) % 8,
                         2 * (sub(i)[5] % 4) + sub(i)[6] \div 128,
                         (sub(i)[6] \div 16) % 8,
                         (sub(i)[6] \div 2) % 8,
                         4 * (sub(i)[6] % 2) + sub(i)[7] \div 64,
                         (sub(i)[7] \div 8) % 8,
                         sub(i)[7] % 8>>
    BY SubframeKept, ZenonT(60)
  <2> HIDE DEF sub
  <2> QED BY <2>1, <2>3
<1>10. UnpackVoip(c) = f
  <2> DEFINE u == UnpackVoip(c)
  <2>1. f = [LARc |-> f.LARc, Nc |-> f.Nc, bc |-> f.bc, Mc |-> f.Mc,
             xmaxc |-> f.xmaxc, xMc |-> f.xMc]
    BY DEF Frame
  <2>2. u = [LARc |-> u.LARc, Nc |-> u.Nc, bc |-> u.bc, Mc |-> u.Mc,
             xmaxc |-> u.xmaxc, xMc |-> u.xMc]
    <3> HIDE DEF c
    <3> QED BY DEF UnpackVoip
  <2>3. u.LARc = f.LARc
    <3> HIDE DEF c
    <3> QED BY <1>8 DEF UnpackVoip
  <2>4. u.Nc = f.Nc /\ u.bc = f.bc /\ u.Mc = f.Mc /\ u.xmaxc = f.xmaxc /\ u.xMc = f.xMc
    <3> HIDE DEF c
    <3>1. u.Nc = f.Nc
      BY <1>1, <1>9 DEF UnpackVoip
    <3>2. u.bc = f.bc
      BY <1>1, <1>9 DEF UnpackVoip
    <3>3. u.Mc = f.Mc
      BY <1>1, <1>9 DEF UnpackVoip
    <3>4. u.xmaxc = f.xmaxc
      BY <1>1, <1>9 DEF UnpackVoip
    <3>5. u.xMc = f.xMc
      <4>1. f.xMc = [i \in 1 .. 4 |-> f.xMc[i]]
        BY <1>1
      <4>2. u.xMc = [i \in 1 .. 4 |-> f.xMc[i]]
        BY <1>9, ZenonT(40) DEF UnpackVoip
      <4> QED BY <4>1, <4>2
    <3> QED BY <3>1, <3>2, <3>3, <3>4, <3>5
  <2> HIDE DEF u, c
  <2> QED BY <2>1, <2>2, <2>3, <2>4, Zenon DEF u
<1>11. c \in Bytes(VoipBytes)
  BY <1>6 DEF VoipBytes
<1> QED BY <1>10, <1>11

-----------------------------------------------------------------------------
(* Encoding and decoding in a context. *)

(* What the microphone records and the encoder takes at once. *)
Block == [1 .. 160 -> Int16]

(* A context of the native library that packs for VoIP, as JniGsmOpen      *)
(* makes it; that of an encoder, and that of a decoder.                    *)
VoipContext(c) == c = [packing |-> "voip", codec |-> c.codec]
EncoderContext(c) == VoipContext(c) /\ EncoderIs(c.codec)
DecoderContext(c) == VoipContext(c) /\ IsState(c.codec)

(* The frame that an encoder makes of the next block, and its state after  *)
(* it.                                                                     *)
Next0610(e, lin) == EncodeAFrame(e.codec, lin)

(* gsm0610_init makes a context for either. *)
LEMMA ContextStarts == EncoderContext(gsm0610_init("voip")) /\ DecoderContext(gsm0610_init("voip"))
<1> DEFINE c == gsm0610_init("voip")
           s == InitState
<1>1. c = [packing |-> "voip", codec |-> s]
  BY DEF gsm0610_init
<1>2. EncoderIs(s)
  BY EncoderStarts
<1>3. IsState(s)
  BY <1>2 DEF EncoderIs
<1> HIDE DEF c, s
<1>4. c.codec = s
  BY <1>1
<1>. QED  BY <1>1, <1>2, <1>3, <1>4 DEF EncoderContext, DecoderContext, VoipContext, c

(* gsm0610_encode on a context of an encoder: the code of one frame, whose *)
(* parameters fit and whose lags are lags, and a context for the next.     *)
LEMMA Encodes ==
  ASSUME NEW c, EncoderContext(c), NEW lin \in Block
  PROVE  LET x == Next0610(c, lin)
             y == gsm0610_encode(c, lin)
         IN  /\ x.frame \in Frame /\ Lags(x.frame)
             /\ y.code = PackVoip(x.frame)
             /\ EncoderContext(y.state)
             /\ y.state.codec = x.state
<1> DEFINE x == Next0610(c, lin)
           y == gsm0610_encode(c, lin)
           code == PackVoip(x.frame)
<1>1. EncoderIs(c.codec) /\ VoipContext(c)
  BY DEF EncoderContext
<1>2. EncoderIs(x.state) /\ x.frame \in Frame /\ Lags(x.frame)
  BY <1>1, EncodedIs DEF Block, Next0610
<1>3. y = CodedFrame(c, lin, x)
  <2>1. SubSeq(lin, 1, FrameLen) = lin
    <3>1. FrameLen = 160
      BY DEF FrameLen
    <3>. QED  BY <3>1, FrameKept DEF Block
  <2>. QED  BY <2>1, Zenon DEF gsm0610_encode, Next0610
<1> HIDE DEF x
<1>4. c.packing = "voip"
  BY <1>1 DEF VoipContext
<1>5. y = [code |-> code, state |-> [c EXCEPT !.codec = x.state]]
  BY <1>3, <1>4 DEF CodedFrame, Coded
<1> HIDE DEF y, code
<1>6. y.code = code /\ y.state = [c EXCEPT !.codec = x.state]
  BY <1>5
<1>7. y.state = [packing |-> "voip", codec |-> x.state]
  BY <1>1, <1>6 DEF VoipContext
<1>8. y.state.codec = x.state
  BY <1>7
<1>9. EncoderContext(y.state)
  BY <1>2, <1>7, <1>8 DEF EncoderContext, VoipContext
<1>. QED  BY <1>2, <1>6, <1>8, <1>9 DEF x, y, code

(* gsm0610_decode of the code of a frame decodes that frame, for the       *)
(* packing loses nothing.                                                  *)
LEMMA Decodes ==
  ASSUME NEW d, DecoderContext(d), NEW f \in Frame
  PROVE  LET z == gsm0610_decode(d, PackVoip(f))
         IN  /\ VoipContext(z.state)
             /\ z.state.codec = DecodeAFrame(d.codec, f).state
<1> DEFINE code == PackVoip(f)
           frames == Unpacked(d.packing, code)
           y == DecodeAFrame(d.codec, f)
           z == gsm0610_decode(d, code)
<1>1. VoipContext(d)
  BY DEF DecoderContext
<1>2. d.packing = "voip"
  BY <1>1 DEF VoipContext
<1>3. UnpackVoip(code) = f
  BY VoipPackingIsLossless
<1>4. z = SpokenFrames(d, frames, DecodeAFrame(d.codec, frames[1]))
  BY Zenon DEF gsm0610_decode
<1> HIDE DEF code
<1>5. frames = <<f>>
  <2>1. Unpacked("voip", code) = <<UnpackVoip(code)>>
    BY DEF Unpacked
  <2>. QED  BY <1>2, <1>3, <2>1
<1> HIDE DEF frames, z
<1>6. z = SpokenFrames(d, frames, y)
  BY <1>4, <1>5
<1> HIDE DEF y
<1>7. z = [amp |-> <<>> \o y.amp, state |-> [d EXCEPT !.codec = y.state]]
  BY <1>5, <1>6 DEF SpokenFrames, Spoken
<1>8. z.state = [d EXCEPT !.codec = y.state]
  BY <1>7
<1>9. z.state = [packing |-> "voip", codec |-> y.state]
  BY <1>1, <1>8 DEF VoipContext
<1>10. z.state.codec = y.state
  BY <1>9
<1>. QED  BY <1>9, <1>10 DEF VoipContext, y, z, code

(* A decoder in sync with an encoder that decodes what this encodes next   *)
(* is in sync with it again.                                               *)
LEMMA ListenerFollows ==
  ASSUME NEW c, EncoderContext(c), NEW d, DecoderContext(d), InSync(c.codec, d.codec),
         NEW lin \in Block
  PROVE  LET y == gsm0610_encode(c, lin)
             z == gsm0610_decode(d, y.code)
         IN  DecoderContext(z.state) /\ InSync(y.state.codec, z.state.codec)
<1> DEFINE x == Next0610(c, lin)
           y == gsm0610_encode(c, lin)
           z == gsm0610_decode(d, y.code)
           e == c.codec
           g == d.codec
<1>1. /\ x.frame \in Frame /\ Lags(x.frame)
      /\ y.code = PackVoip(x.frame)
      /\ y.state.codec = x.state
  BY Encodes
<1>2. IsState(e) /\ Samples(e.dp0, 120) /\ IsState(g) /\ InSync(e, g)
  <2>1. EncoderIs(e) /\ IsState(g)
    BY DEF EncoderContext, DecoderContext
  <2> HIDE DEF e
  <2>2. e.dp0 \in [1 .. 120 -> Int] /\ IsState(e)
    BY <2>1 DEF EncoderIs
  <2>3. Samples(e.dp0, 120)
    BY <2>2 DEF Samples
  <2>. QED  BY <2>1, <2>2, <2>3 DEF e
<1>3. Lags(EncodeAFrame(e, lin).frame)
  BY <1>1 DEF Next0610
<1>4. /\ IsState(DecodeAFrame(g, EncodeAFrame(e, lin).frame).state)
      /\ InSync(EncodeAFrame(e, lin).state, DecodeAFrame(g, EncodeAFrame(e, lin).frame).state)
  <2> HIDE DEF e, g
  <2>. QED  BY <1>2, <1>3, FrameFollows
<1>5. x = EncodeAFrame(e, lin)
  BY DEF Next0610
<1> HIDE DEF x, y, e
<1>6. VoipContext(z.state) /\ z.state.codec = DecodeAFrame(g, x.frame).state
  BY <1>1, Decodes
<1>7. DecoderContext(z.state) /\ InSync(y.state.codec, z.state.codec)
  BY <1>1, <1>4, <1>5, <1>6, Zenon DEF DecoderContext
<1>. QED  BY <1>7 DEF y

-----------------------------------------------------------------------------
(* The contexts of the two phones. *)

(* The codec of the phones is the GSM 06.10 of the native library: on the  *)
(* contexts and blocks of its encoder and on the contexts of its decoder   *)
(* and the codes of frames, which are all that the two phones give it.     *)
(* MCGsmVoice gives TLC the same results, tabulated for the speech of its  *)
(* run.                                                                    *)
GsmIsUsed ==
  /\ NewContext = gsm0610_init("voip")
  /\ \A c : \A lin \in Block : EncoderContext(c) => gsm_encode(c, lin) = gsm0610_encode(c, lin)
  /\ \A d : \A f \in Frame :
       DecoderContext(d) => gsm_decode(d, PackVoip(f)) = gsm0610_decode(d, PackVoip(f))
  /\ \A k \in 1 .. MaxFrames : Speech[k] \subseteq Block

(* The context that the talker's encoder has before the k-th block. *)
Before(k) == IF k = 1 THEN NewContext ELSE spoken[k - 1]

(* The contexts after every block sent so far are contexts of an encoder, *)
SpokenOK ==
  /\ sent <= MaxFrames
  /\ Samples(spoken, sent)
  /\ \A k \in 1 .. sent + 1 : EncoderContext(Before(k))

(* every packet carries the code of some block in the context before it, *)
NetOfFrames ==
  \A p \in net : \E lin \in Block :
    /\ p.payload = gsm0610_encode(Before(p.k), lin).code
    /\ spoken[p.k] = gsm0610_encode(Before(p.k), lin).state

(* the native codec is open exactly while a phone records, *)
PhonesOK ==
  /\ isRecording \in [Phone -> BOOLEAN]
  /\ codec_open \in [Phone -> {0, 1}]
  /\ DOMAIN gsm0610_enc_state = Phone
  /\ DOMAIN gsm0610_dec_state = Phone
  /\ \A ph \in Phone : codec_open[ph] = 1 <=> isRecording[ph]
  /\ starts \in [Phone -> Nat]

(* the talker's encoder has the context after the last packet, *)
TalkerOK ==
  /\ starts["talker"] = 0 => sent = 0 /\ ~isRecording["talker"]
  /\ isRecording["talker"] => gsm0610_enc_state["talker"] = Before(sent + 1)

(* and while all packets were heard from the first, and in turn, *)
InTurn(s) == s = [k \in 1 .. Len(s) |-> k]

(* the listener's decoder is in sync with the encoder after the last one. *)
ListenerOK ==
  isRecording["listener"] /\ InTurn(heard) =>
    /\ DecoderContext(gsm0610_dec_state["listener"])
    /\ InSync(Before(Len(heard) + 1).codec, gsm0610_dec_state["listener"].codec)

GsmInv == OrderInv /\ SpokenOK /\ NetOfFrames /\ PhonesOK /\ TalkerOK /\ ListenerOK

(* A sequence that gets one more. *)
LEMMA OneMoreSample ==
  ASSUME NEW n \in Nat, NEW s, Samples(s, n), NEW e
  PROVE  Samples(Append(s, e), n + 1) /\ OneLonger(Append(s, e), s, e, n)
<1> DEFINE V == {s[i] : i \in 1 .. n} \cup {e}
           t == Append(s, e)
<1>1. s \in Seq(V) /\ Len(s) = n
  <2>1. \A i \in 1 .. n : s[i] \in V
    OBVIOUS
  <2> HIDE DEF V
  <2>. QED  BY <2>1, SamplesSeq
<1>2. e \in V
  OBVIOUS
<1> HIDE DEF V
<1>3. /\ t \in Seq(V)
      /\ Len(t) = n + 1
      /\ \A i \in 1 .. n : t[i] = s[i]
      /\ t[n + 1] = e
  BY <1>1, <1>2, AppendProperties
<1> HIDE DEF t
<1>4. t = [i \in 1 .. n + 1 |-> t[i]]
  BY <1>3, LenProperties
<1>5. Samples(t, n + 1) /\ OneLonger(t, s, e, n)
  BY <1>1, <1>3, <1>4 DEF Samples, OneLonger
<1>. QED  BY <1>5 DEF t

(* What was heard in turn is no more than what was sent. *)
LEMMA InTurnBounds ==
  ASSUME OrderInv, InTurn(heard)
  PROVE  Len(heard) \in Nat /\ Len(heard) \in 0 .. sent
<1>1. /\ heard \in Seq(Nat)
      /\ \A i \in 1 .. Len(heard) : heard[i] \in 1 .. sent
      /\ sent \in Nat
  BY DEF OrderInv, HeardOK, NetOK
<1>2. Len(heard) \in Nat
  BY <1>1
<1>3. CASE Len(heard) = 0
  BY <1>1, <1>3
<1>4. CASE Len(heard) > 0
  <2>1. Len(heard) \in 1 .. Len(heard)
    BY <1>2, <1>4
  <2>2. heard[Len(heard)] = Len(heard)
    BY <2>1 DEF InTurn
  <2>. QED  BY <1>1, <1>2, <2>1, <2>2
<1>. QED  BY <1>2, <1>3, <1>4

(* Contexts and packets stay what they are while nothing is sent. *)
LEMMA SpokenKept ==
  ASSUME UNCHANGED <<spoken, sent, net>>, SpokenOK, NetOfFrames
  PROVE  SpokenOK' /\ NetOfFrames' /\ \A k : Before(k)' = Before(k)
<1>1. \A k : Before(k)' = Before(k)
  BY DEF Before
<1>2. SpokenOK'
  BY <1>1 DEF SpokenOK, Samples
<1>3. NetOfFrames'
  BY <1>1 DEF NetOfFrames
<1>. QED  BY <1>1, <1>2, <1>3

(* The steps that leave codec, microphone and playback alone: packets      *)
(* arrive, silence is played, time passes.                                 *)
LEMMA RestKeepsGsm ==
  ASSUME GsmInv, OrderInv', UNCHANGED <<native, isRecording, starts, spoken, heard, sent, net>>
  PROVE  GsmInv'
<1>1. SpokenOK' /\ NetOfFrames' /\ \A k : Before(k)' = Before(k)
  BY SpokenKept DEF GsmInv
<1>2. PhonesOK' /\ TalkerOK'
  BY <1>1 DEF GsmInv, PhonesOK, TalkerOK, native
<1>3. ListenerOK'
  BY <1>1 DEF GsmInv, ListenerOK, InTurn, native
<1>. QED  BY <1>1, <1>2, <1>3 DEF GsmInv

(* Before the call nothing is sent and no codec is open. *)
LEMMA GsmAtFirst == GsmIsUsed /\ Init => GsmInv
<1> SUFFICES ASSUME GsmIsUsed, Init
             PROVE  GsmInv
  OBVIOUS
<1>1. /\ sent = 0 /\ net = {} /\ spoken = <<>> /\ heard = <<>>
      /\ isRecording = [ph \in Phone |-> FALSE]
      /\ starts = [ph \in Phone |-> 0]
      /\ codec_open = [ph \in Phone |-> 0]
      /\ gsm0610_enc_state = [ph \in Phone |-> NoContext]
      /\ gsm0610_dec_state = [ph \in Phone |-> NoContext]
  BY DEF Init, StreamInit, NativeInit
<1>2. OrderInv
  BY OrderAtFirst
<1>3. SpokenOK
  <2>1. 0 <= MaxFrames
    BY StreamAssumption
  <2>2. Samples(spoken, 0)
    <3>1. <<>> \in [1 .. 0 -> {}]
      BY NothingIs
    <3>. QED  BY <1>1, <3>1 DEF Samples
  <2>3. EncoderContext(NewContext)
    BY ContextStarts DEF GsmIsUsed
  <2>. QED  BY <1>1, <2>1, <2>2, <2>3 DEF SpokenOK, Before
<1>4. NetOfFrames
  BY <1>1 DEF NetOfFrames
<1>5. PhonesOK
  BY <1>1 DEF PhonesOK
<1>6. TalkerOK /\ ListenerOK
  BY <1>1, VoiceAssumption DEF TalkerOK, ListenerOK
<1>. QED  BY <1>2, <1>3, <1>4, <1>5, <1>6 DEF GsmInv

(* A phone opens its codec: the talker before its first packet, the        *)
(* listener before the first it hears.                                     *)
LEMMA StartKeepsGsm ==
  ASSUME GsmIsUsed, GsmInv, OrderInv', NEW ph \in Phone, StartAudio(ph)
  PROVE  GsmInv'
<1>0. SpokenOK /\ NetOfFrames /\ PhonesOK /\ TalkerOK /\ ListenerOK /\ sent \in Nat
  BY DEF GsmInv, OrderInv, NetOK
<1>1. /\ ~isRecording[ph] /\ codec_open[ph] = 0
      /\ isRecording' = [isRecording EXCEPT ![ph] = TRUE]
      /\ starts[ph] < MaxStarts[ph]
      /\ starts' = [starts EXCEPT ![ph] = @ + 1]
      /\ codec_open' = [codec_open EXCEPT ![ph] = @ + 1]
      /\ gsm0610_enc_state' = [gsm0610_enc_state EXCEPT ![ph] = NewContext]
      /\ gsm0610_dec_state' = [gsm0610_dec_state EXCEPT ![ph] = NewContext]
      /\ UNCHANGED <<spoken, sent, net>>
      /\ IF ph = "listener" THEN heard' = <<>> ELSE UNCHANGED heard
  <2>1. codec_open[ph] = 0
    BY <1>0 DEF StartAudio, PhonesOK
  <2> QED BY <2>1 DEF StartAudio, JniGsmOpen, NewReceiver, stream
<1>2. SpokenOK' /\ NetOfFrames' /\ \A k : Before(k)' = Before(k)
  BY <1>0, <1>1, SpokenKept
<1>3. PhonesOK'
  BY <1>0, <1>1 DEF PhonesOK
<1>4. "talker" \in Phone /\ "listener" \in Phone /\ (ph = "talker" \/ ph = "listener")
  BY VoiceAssumption
<1>5. TalkerOK'
  <2>1. CASE ph = "talker"
    <3>1. MaxStarts["talker"] <= 1 /\ MaxStarts["talker"] \in Nat /\ starts["talker"] \in Nat
      BY <1>0, <1>4, VoiceAssumption DEF PhonesOK
    <3>2. starts["talker"] = 0
      BY <1>1, <2>1, <3>1
    <3>3. sent = 0
      BY <1>0, <3>2 DEF TalkerOK
    <3>4. Before(sent + 1) = NewContext
      BY <3>3 DEF Before
    <3>5. gsm0610_enc_state'["talker"] = NewContext
      BY <1>0, <1>1, <1>4, <2>1 DEF PhonesOK
    <3>6. starts'["talker"] # 0
      BY <1>0, <1>1, <1>4, <2>1, <3>2 DEF PhonesOK
    <3>7. Before(sent + 1)' = NewContext
      BY <1>1, <1>2, <3>4
    <3>. QED  BY <3>5, <3>6, <3>7 DEF TalkerOK
  <2>2. CASE ph # "talker"
    <3>1. /\ starts'["talker"] = starts["talker"] /\ isRecording'["talker"] = isRecording["talker"]
          /\ gsm0610_enc_state'["talker"] = gsm0610_enc_state["talker"]
      BY <1>0, <1>1, <1>4, <2>2 DEF PhonesOK
    <3>. QED  BY <1>0, <1>1, <1>2, <3>1 DEF TalkerOK
  <2>. QED  BY <2>1, <2>2
<1>6. ListenerOK'
  <2>1. CASE ph = "listener"
    <3>1. heard' = <<>> /\ gsm0610_dec_state'["listener"] = NewContext
      BY <1>0, <1>1, <1>4, <2>1 DEF PhonesOK
    <3>2. DecoderContext(NewContext)
      BY ContextStarts DEF GsmIsUsed
    <3>3. Before(Len(heard) + 1)' = NewContext
      BY <3>1, GsmIsUsed DEF Before
    <3>4. InSync(NewContext.codec, NewContext.codec)
      BY DEF InSync
    <3>. QED  BY <3>1, <3>2, <3>3, <3>4 DEF ListenerOK
  <2>2. CASE ph # "listener"
    <3>1. /\ isRecording'["listener"] = isRecording["listener"]
          /\ gsm0610_dec_state'["listener"] = gsm0610_dec_state["listener"]
          /\ heard' = heard
      BY <1>0, <1>1, <1>4, <2>2 DEF PhonesOK
    <3>. QED  BY <1>0, <1>2, <3>1 DEF ListenerOK, InTurn
  <2>. QED  BY <2>1, <2>2
<1>. QED  BY <1>2, <1>3, <1>5, <1>6 DEF GsmInv

(* A phone closes its codec. *)
LEMMA EndKeepsGsm ==
  ASSUME GsmInv, OrderInv', NEW ph \in Phone, EndAudio(ph)
  PROVE  GsmInv'
<1>0. SpokenOK /\ NetOfFrames /\ PhonesOK /\ TalkerOK /\ ListenerOK
  BY DEF GsmInv
<1>1. /\ isRecording[ph] /\ codec_open[ph] = 1
      /\ isRecording' = [isRecording EXCEPT ![ph] = FALSE]
      /\ codec_open' = [codec_open EXCEPT ![ph] = @ - 1]
      /\ UNCHANGED <<gsm0610_enc_state, gsm0610_dec_state, starts, spoken, sent, net, heard>>
  BY <1>0 DEF EndAudio, JniGsmClose, PhonesOK, stream
<1>2. SpokenOK' /\ NetOfFrames' /\ \A k : Before(k)' = Before(k)
  BY <1>0, <1>1, SpokenKept
<1>3. PhonesOK'
  BY <1>0, <1>1 DEF PhonesOK
<1>4. \A u \in Phone : isRecording'[u] => isRecording[u]
  BY <1>0, <1>1 DEF PhonesOK
<1>5. "talker" \in Phone /\ "listener" \in Phone
  BY VoiceAssumption
<1>6. TalkerOK'
  BY <1>0, <1>1, <1>2, <1>4, <1>5 DEF TalkerOK
<1>7. ListenerOK'
  BY <1>0, <1>1, <1>2, <1>4, <1>5 DEF ListenerOK, InTurn
<1>. QED  BY <1>2, <1>3, <1>6, <1>7 DEF GsmInv

(* The talker encodes a block in its context, sends the code and has the   *)
(* next context.                                                           *)
LEMMA RecordKeepsGsm ==
  ASSUME GsmIsUsed, GsmInv, OrderInv', sent < MaxFrames, NEW lin \in Speech[sent + 1], Record(lin)
  PROVE  GsmInv'
<1> DEFINE c == Before(sent + 1)
           y == gsm0610_encode(c, lin)
           n == [SN |-> SN, TS |-> now, payload |-> Encoded("talker", lin), k |-> sent + 1]
<1>0. /\ SpokenOK /\ NetOfFrames /\ PhonesOK /\ TalkerOK /\ ListenerOK
      /\ sent \in Nat /\ MaxFrames \in Nat
      /\ "talker" \in Phone /\ "listener" \in Phone
      /\ \A p \in net : p.k \in 1 .. sent
  BY StreamAssumption, VoiceAssumption DEF GsmInv, OrderInv, NetOK
<1>1. isRecording["talker"] /\ codec_open["talker"] = 1 /\ gsm0610_enc_state["talker"] = c
  BY <1>0 DEF Record, PhonesOK, TalkerOK
<1>2. lin \in Block
  <2>1. sent + 1 \in 1 .. MaxFrames
    BY <1>0
  <2>. QED  BY <2>1 DEF GsmIsUsed
<1>3. EncoderContext(c)
  <2>1. sent + 1 \in 1 .. sent + 1
    BY <1>0
  <2>. QED  BY <1>0, <2>1 DEF SpokenOK
<1>4. gsm_encode(c, lin) = y
  BY <1>2, <1>3 DEF GsmIsUsed
<1>5. EncoderContext(y.state)
  BY <1>2, <1>3, Encodes
<1> HIDE DEF c, y
<1>6. gsm0610_enc_state' = [gsm0610_enc_state EXCEPT !["talker"] = y.state]
  BY <1>1, <1>4 DEF Record, JniGsmEncodeB
<1>7. Encoded("talker", lin) = y.code
  BY <1>1, <1>4 DEF Encoded
<1>8. /\ net' = net \cup {n}
      /\ sent' = sent + 1
      /\ spoken' = Append(spoken, gsm0610_enc_state'["talker"])
      /\ UNCHANGED <<codec_open, gsm0610_dec_state, isRecording, starts, heard>>
  BY DEF Record, SendPacket, JniGsmEncodeB
<1>9. n.payload = y.code /\ n.k = sent + 1
  BY <1>7
<1> HIDE DEF n
<1>10. /\ gsm0610_enc_state'["talker"] = y.state
       /\ DOMAIN gsm0610_enc_state' = Phone
  BY <1>0, <1>6 DEF PhonesOK
<1>11. /\ Samples(spoken', sent + 1)
       /\ \A i \in 1 .. sent : spoken'[i] = spoken[i]
       /\ spoken'[sent + 1] = y.state
  <2>1. Samples(spoken, sent)
    BY <1>0 DEF SpokenOK
  <2>2. spoken' = Append(spoken, y.state)
    BY <1>8, <1>10
  <2>3. sent \in Nat
    BY <1>0
  <2>4. Samples(Append(spoken, y.state), sent + 1) /\ OneLonger(Append(spoken, y.state), spoken, y.state, sent)
    BY <2>1, <2>3, OneMoreSample
  <2>5. Samples(spoken', sent + 1) /\ OneLonger(spoken', spoken, y.state, sent)
    BY <2>2, <2>4
  <2>. QED  BY <2>5 DEF OneLonger
<1>12. \A k \in 1 .. sent + 1 : Before(k)' = Before(k)
  <2> SUFFICES ASSUME NEW k \in 1 .. sent + 1
               PROVE  Before(k)' = Before(k)
    OBVIOUS
  <2>1. CASE k = 1
    BY <2>1 DEF Before
  <2>2. CASE k # 1
    <3>1. k - 1 \in 1 .. sent
      BY <1>0, <2>2
    <3>. QED  BY <1>11, <2>2, <3>1 DEF Before
  <2>. QED  BY <2>1, <2>2
<1>13. \A k : k = sent + 2 => Before(k)' = y.state
  <2> SUFFICES ASSUME NEW k, k = sent + 2
               PROVE  Before(k)' = y.state
    OBVIOUS
  <2>1. k # 1 /\ k - 1 = sent + 1
    BY <1>0
  <2>. QED  BY <1>11, <2>1 DEF Before
<1>14. SpokenOK'
  <2>1. sent' <= MaxFrames
    BY <1>0, <1>8
  <2>2. Samples(spoken, sent)'
    BY <1>8, <1>11 DEF Samples
  <2>3. ASSUME NEW k \in 1 .. sent' + 1
        PROVE  EncoderContext(Before(k)')
    <3>1. k \in 1 .. sent + 1 \/ k = sent + 2
      BY <1>0, <1>8
    <3>2. CASE k \in 1 .. sent + 1
      BY <1>0, <1>12, <3>2 DEF SpokenOK
    <3>3. CASE k = sent + 2
      <4>1. Before(k)' = y.state
        BY <1>13, <3>3
      <4>. QED  BY <1>5, <4>1
    <3>. QED  BY <3>1, <3>2, <3>3
  <2>4. \A k \in 1 .. sent' + 1 : EncoderContext(Before(k))'
    BY <2>3 DEF EncoderContext, VoipContext, EncoderIs, IsState, RatiosOK
  <2>. QED  BY <2>1, <2>2, <2>4 DEF SpokenOK
<1>15. NetOfFrames'
  <2> SUFFICES ASSUME NEW p \in net'
               PROVE  \E l \in Block :
                        /\ p.payload = gsm0610_encode(Before(p.k)', l).code
                        /\ spoken'[p.k] = gsm0610_encode(Before(p.k)', l).state
    BY DEF NetOfFrames
  <2>1. CASE p \in net
    <3>1. p.k \in 1 .. sent /\ p.k \in 1 .. sent + 1
      BY <1>0, <2>1
    <3>2. Before(p.k)' = Before(p.k) /\ spoken'[p.k] = spoken[p.k]
      BY <1>11, <1>12, <3>1
    <3>. QED  BY <1>0, <2>1, <3>2 DEF NetOfFrames
  <2>2. CASE p = n
    <3>1. p.k = sent + 1 /\ p.payload = y.code
      BY <1>9, <2>2
    <3>2. sent + 1 \in 1 .. sent + 1
      BY <1>0
    <3>3. Before(p.k)' = c
      BY <1>12, <3>1, <3>2 DEF c
    <3>4. spoken'[p.k] = y.state
      BY <1>11, <3>1
    <3>5. gsm0610_encode(Before(p.k)', lin) = y
      BY <3>3 DEF y
    <3>. QED  BY <1>2, <3>1, <3>4, <3>5
  <2>. QED  BY <1>8, <2>1, <2>2
<1>16. PhonesOK'
  BY <1>0, <1>8, <1>10 DEF PhonesOK
<1>17. TalkerOK'
  <2>1. starts["talker"] # 0
    BY <1>0, <1>1 DEF TalkerOK
  <2>2. sent' + 1 = sent + 2
    BY <1>0, <1>8
  <2>3. Before(sent + 1)' = y.state
    <3>1. PICK k \in Nat : k = sent + 2 /\ k = sent' + 1
      BY <1>0, <2>2
    <3>2. Before(k)' = y.state
      BY <1>13, <3>1
    <3>3. Before(k)' = Before(sent + 1)'
      BY <3>1 DEF Before
    <3>. QED  BY <3>2, <3>3
  <2>. QED  BY <1>8, <1>10, <2>1, <2>3 DEF TalkerOK
<1>18. ListenerOK'
  <2> SUFFICES ASSUME isRecording["listener"], InTurn(heard)
               PROVE  /\ DecoderContext(gsm0610_dec_state["listener"])
                      /\ InSync(Before(Len(heard) + 1)'.codec, gsm0610_dec_state["listener"].codec)
    BY <1>8 DEF ListenerOK, InTurn, DecoderContext, VoipContext, IsState, InSync
  <2>1. Len(heard) + 1 \in 1 .. sent + 1
    BY <1>0, InTurnBounds DEF GsmInv
  <2>. QED  BY <1>0, <1>8, <1>12, <2>1 DEF ListenerOK
<1>. QED  BY <1>14, <1>15, <1>16, <1>17, <1>18 DEF GsmInv

(* The listener decodes a packet. If that is the next in turn, it was      *)
(* encoded in the context that the decoder is in sync with.                *)
LEMMA PlayKeepsGsm ==
  ASSUME GsmIsUsed, GsmInv, OrderInv', NEW p \in net, Play(p)
  PROVE  GsmInv'
<1> DEFINE d == gsm0610_dec_state["listener"]
<1>0. /\ SpokenOK /\ NetOfFrames /\ PhonesOK /\ TalkerOK /\ ListenerOK /\ OrderInv
      /\ sent \in Nat /\ heard \in Seq(Nat) /\ p.k \in 1 .. sent
      /\ "talker" \in Phone /\ "listener" \in Phone
  BY VoiceAssumption DEF GsmInv, OrderInv, NetOK, HeardOK
<1>1. isRecording["listener"] /\ codec_open["listener"] = 1
  BY <1>0 DEF Play, PhonesOK
<1>2. gsm0610_dec_state' = [gsm0610_dec_state EXCEPT !["listener"] = gsm_decode(d, p.payload).state]
  BY <1>1 DEF Play, JniGsmDecodeB
<1>3. /\ UNCHANGED <<codec_open, gsm0610_enc_state, isRecording, starts, spoken>>
      /\ UNCHANGED <<net, sent>>
      /\ heard' = Append(heard, p.k)
  BY DEF Play, JniGsmDecodeB, Poll, ReadTime
<1>4. SpokenOK' /\ NetOfFrames' /\ \A k : Before(k)' = Before(k)
  BY <1>0, <1>3, SpokenKept
<1>5. PhonesOK'
  BY <1>0, <1>2, <1>3 DEF PhonesOK
<1>6. TalkerOK'
  BY <1>0, <1>3, <1>4 DEF TalkerOK
<1>7. gsm0610_dec_state'["listener"] = gsm_decode(d, p.payload).state
  BY <1>0, <1>2 DEF PhonesOK
<1>8. ListenerOK'
  <2> SUFFICES ASSUME InTurn(heard)'
               PROVE  ListenerOK'
    BY DEF ListenerOK
  <2>1. /\ Len(heard) \in Nat /\ Len(heard') = Len(heard) + 1
        /\ \A i \in 1 .. Len(heard) : heard'[i] = heard[i]
        /\ heard'[Len(heard) + 1] = p.k
        /\ heard = [i \in 1 .. Len(heard) |-> heard[i]]
    BY <1>0, <1>3
  <2>2. \A i \in 1 .. Len(heard) + 1 : heard'[i] = i
    <3>1. heard' = [k \in 1 .. Len(heard') |-> k]
      BY DEF InTurn
    <3>. QED  BY <2>1, <3>1
  <2>3. InTurn(heard)
    <3>1. \A i \in 1 .. Len(heard) : heard[i] = i
      BY <2>1, <2>2
    <3>. QED  BY <2>1, <3>1 DEF InTurn
  <2>4. PICK n \in Nat : n = Len(heard) /\ n + 1 = p.k
    BY <2>1, <2>2
  <2>5. DecoderContext(d) /\ InSync(Before(n + 1).codec, d.codec)
    BY <1>0, <1>1, <2>3, <2>4 DEF ListenerOK
  <2>6. PICK lin \in Block :
          /\ p.payload = gsm0610_encode(Before(n + 1), lin).code
          /\ spoken[n + 1] = gsm0610_encode(Before(n + 1), lin).state
    BY <1>0, <2>4 DEF NetOfFrames
  <2>7. EncoderContext(Before(n + 1))
    <3>1. n + 1 \in 1 .. sent + 1
      BY <1>0, <2>4
    <3>. QED  BY <1>0, <3>1 DEF SpokenOK
  <2> DEFINE c == Before(n + 1)
             y == gsm0610_encode(c, lin)
             z == gsm0610_decode(d, y.code)
  <2>8. gsm_decode(d, y.code) = z
    <3>1. Next0610(c, lin).frame \in Frame /\ y.code = PackVoip(Next0610(c, lin).frame)
      BY <2>7, Encodes
    <3> HIDE DEF y, c, d
    <3>. QED  BY <2>5, <3>1 DEF GsmIsUsed
  <2>9. DecoderContext(z.state) /\ InSync(y.state.codec, z.state.codec)
    <3> HIDE DEF c, d
    <3>. QED  BY <2>5, <2>7, ListenerFollows DEF c
  <2>10. gsm0610_dec_state'["listener"] = z.state /\ spoken[n + 1] = y.state
    BY <1>7, <2>6, <2>8
  <2> HIDE DEF y, z
  <2>11. Before(Len(heard) + 1)' = y.state
    <3>1. PICK k \in Nat : k = n + 2 /\ k = Len(heard') + 1 /\ k # 1 /\ k - 1 = n + 1
      BY <2>1, <2>4
    <3>2. Before(k)' = spoken'[n + 1]
      BY <3>1 DEF Before
    <3>3. Before(k)' = Before(Len(heard) + 1)'
      BY <3>1 DEF Before
    <3>. QED  BY <1>3, <2>10, <3>2, <3>3
  <2>12. /\ DecoderContext(gsm0610_dec_state'["listener"])
         /\ InSync(Before(Len(heard) + 1)'.codec, gsm0610_dec_state'["listener"].codec)
    BY <2>9, <2>10, <2>11
  <2>. QED  BY <2>12 DEF ListenerOK, DecoderContext, VoipContext, IsState, InSync
<1>. QED  BY <1>4, <1>5, <1>6, <1>8 DEF GsmInv

(* Over all the steps of the two phones. *)
LEMMA GsmKept == GsmIsUsed /\ GsmInv /\ [Next]_vars => GsmInv'
<1> SUFFICES ASSUME GsmIsUsed, GsmInv, [Next]_vars
             PROVE  GsmInv'
  OBVIOUS
<1>0. OrderInv'
  BY OrderKept DEF GsmInv
<1>1. ASSUME NEW ph \in Phone, StartAudio(ph)
      PROVE  GsmInv'
  BY <1>0, <1>1, StartKeepsGsm
<1>2. ASSUME NEW ph \in Phone, EndAudio(ph)
      PROVE  GsmInv'
  BY <1>0, <1>2, EndKeepsGsm
<1>3. ASSUME sent < MaxFrames, NEW lin \in Speech[sent + 1], Record(lin)
      PROVE  GsmInv'
  BY <1>0, <1>3, RecordKeepsGsm
<1>4. ASSUME NEW p \in net, Arrive(p)
      PROVE  GsmInv'
  BY <1>0, <1>4, RestKeepsGsm DEF Arrive, Receive
<1>5. ASSUME NEW p \in net, Play(p)
      PROVE  GsmInv'
  BY <1>0, <1>5, PlayKeepsGsm
<1>6. CASE PlaySilence
  BY <1>0, <1>6, RestKeepsGsm DEF PlaySilence, ReadSilence, ReadTime
<1>7. CASE TimePasses
  BY <1>0, <1>7, RestKeepsGsm DEF TimePasses, Tick
<1>8. CASE UNCHANGED vars
  BY <1>0, <1>8, RestKeepsGsm DEF vars, stream
<1>. QED  BY <1>1, <1>2, <1>3, <1>4, <1>5, <1>6, <1>7, <1>8 DEF Next

(* While the listener has heard all packets from the first, in turn, the   *)
(* decoder's history of the residual and its last two sets of ratios are   *)
(* those of the encoder after the last packet heard, whatever is said and  *)
(* for however many packets: nothing that the native decoder computes      *)
(* drifts from what the encoder computed.                                  *)
THEOREM DecoderKeepsUp ==
  ASSUME GsmIsUsed
  PROVE  Spec => []DecoderFollowsEncoder
<1>1. GsmInv => DecoderFollowsEncoder
  <2> SUFFICES ASSUME GsmInv, isRecording["listener"], NEW n, n = Len(heard), n > 0,
                      heard = [k \in 1 .. n |-> k]
               PROVE  InSync(spoken[n].codec, gsm0610_dec_state["listener"].codec)
    BY DEF DecoderFollowsEncoder, InSync
  <2>1. InTurn(heard) /\ n \in Nat
    BY InTurnBounds DEF GsmInv, InTurn
  <2>2. Before(n + 1) = spoken[n]
    BY <2>1 DEF Before
  <2>3. InSync(Before(n + 1).codec, gsm0610_dec_state["listener"].codec)
    BY <2>1 DEF GsmInv, ListenerOK
  <2>. QED  BY <2>2, <2>3
<1>2. Init => GsmInv
  BY GsmAtFirst
<1>3. GsmInv /\ [Next]_vars => GsmInv'
  BY GsmKept
<1>. QED  BY <1>1, <1>2, <1>3, PTL DEF Spec

=============================================================================
