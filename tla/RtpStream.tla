----------------------------- MODULE RtpStream -----------------------------
(***************************************************************************)
(* The packets of one phone's microphone on their way to another phone:    *)
(* sequence numbers and time stamps of the sender (RtpSession, RtpPacket), *)
(* a network that loses, repeats and reorders, the filter of the           *)
(* receiver's thread (RtpPacketReceiver) and the jitter buffer between it  *)
(* and the player (JitterBuffer). Both phones have the same clock, of      *)
(* seconds: it is all that the code takes of System.currentTimeMillis.     *)
(***************************************************************************)
EXTENDS Integers

CONSTANTS
  SNModulus,     \* ByteUtil.getMaxIntValueForNumBits(16): 65535
  FirstSNs,      \* (int) (1000 * Math.random())
  SampleRate,    \* samples per millisecond
  JitterDelay,   \* milliseconds
  Period,        \* getFrameSize(): samples of a packet
  Payload,       \* what packets carry
  Epoch,         \* when the call begins
  Step,          \* bound: the clock is looked at once in so many seconds
  MaxTime,       \* bound: when the model stops
  MaxFrames      \* bound: packets sent

ASSUME StreamAssumption ==
  /\ SNModulus \in Nat \ {0}
  /\ FirstSNs \subseteq 0 .. SNModulus - 1
  /\ SampleRate \in Nat \ {0}
  /\ JitterDelay \in Nat
  /\ Period \in Nat
  /\ Epoch \in Nat \ {0}
  /\ Step \in Nat \ {0}
  /\ MaxTime \in Nat
  /\ MaxFrames \in Nat

VARIABLES
  now,           \* System.currentTimeMillis() / 1000
  SN,            \* of the talker's packet object
  net,           \* the datagrams sent: any of them may arrive, at any time
  lastRtpPacketSequenceNumber,
  queue, duration, ready, timestamp, delta,    \* the JitterBuffer
  sent, lastArrived, base                      \* history only, see below

buffer == <<queue, duration, ready, timestamp, delta>>
stream == <<now, SN, net, lastRtpPacketSequenceNumber, buffer, sent, lastArrived, base>>

(* k, history only: the place of the packet in what was sent.              *)
Packet == [SN : 0 .. SNModulus - 1, TS : Nat, payload : Payload, k : Nat]

(* sent: how many packets. lastArrived: the place of the last one that the *)
(* filter let through. base: the time stamp that delta was computed from,  *)
(* 0 before.                                                               *)
StreamTypeOK ==
  /\ now \in Nat
  /\ SN \in 0 .. SNModulus - 1
  /\ net \subseteq Packet
  /\ lastRtpPacketSequenceNumber \in 0 .. SNModulus - 1
  /\ queue \subseteq net
  /\ duration \in Nat
  /\ ready \in BOOLEAN
  /\ timestamp \in Nat
  /\ delta \in Int
  /\ sent \in Nat
  /\ lastArrived \in Nat
  /\ base \in Nat

StreamInit ==
  /\ now = Epoch
  /\ SN \in FirstSNs
  /\ net = {}
  /\ lastRtpPacketSequenceNumber = 0
  /\ queue = {}
  /\ duration = 0
  /\ ready = FALSE
  /\ timestamp = 0
  /\ delta = 0
  /\ sent = 0
  /\ lastArrived = 0
  /\ base = 0

-----------------------------------------------------------------------------
Tick ==
  /\ now + Step <= MaxTime
  /\ now' = now + Step
  /\ UNCHANGED <<SN, net, lastRtpPacketSequenceNumber, buffer, sent, lastArrived, base>>

(* sendPacket and sendRtpPacket: the number is counted on afterwards.      *)
SendPacket(payload) ==
  /\ sent < MaxFrames
  /\ net' = net \cup {[SN |-> SN, TS |-> now, payload |-> payload, k |-> sent + 1]}
  /\ SN' = (SN + 1) % SNModulus
  /\ sent' = sent + 1
  /\ UNCHANGED <<now, lastRtpPacketSequenceNumber, buffer, lastArrived, base>>

(* A new RemotePeer: a receiver and a jitter buffer of its own.            *)
NewReceiver ==
  /\ lastRtpPacketSequenceNumber' = 0
  /\ queue' = {}
  /\ duration' = 0
  /\ ready' = FALSE
  /\ timestamp' = 0
  /\ delta' = 0
  /\ lastArrived' = 0
  /\ base' = 0
  /\ UNCHANGED <<now, SN, net, sent>>

(* Mutant: any other number is let through.                                *)
InSequence_NotAgain(p) == p.SN # lastRtpPacketSequenceNumber
InSequence(p) == p.SN > lastRtpPacketSequenceNumber

(* JitterBuffer.write. The first packet after a read sets the difference   *)
(* between the clock of the stream and that of the reader.                 *)
RtpTime(p) == SampleRate * p.TS
SetsDelta == delta = 0 /\ timestamp > 0
LocalTime(p) == IF SetsDelta THEN RtpTime(p) ELSE timestamp

(* Mutant: what is ahead by the whole jitter is already too far.           *)
Outstanding_AtLimit(p) == ready /\ RtpTime(p) >= LocalTime(p) + SampleRate * JitterDelay
Outstanding(p) == ready /\ RtpTime(p) > LocalTime(p) + SampleRate * JitterDelay

Write(p) ==
  /\ delta' = IF SetsDelta THEN RtpTime(p) - timestamp ELSE delta
  /\ timestamp' = LocalTime(p)
  /\ base' = IF SetsDelta THEN p.TS ELSE base
  /\ IF Outstanding(p)
     THEN UNCHANGED <<queue, duration, ready>>
     ELSE /\ queue' = queue \cup {p}
          /\ duration' = duration + Period
          /\ ready' = (ready \/ duration' > Period + JitterDelay)

(* RtpPacketReceiver.run for one datagram: anything but a larger number is *)
(* silently discarded.                                                     *)
Receive(p) ==
  /\ p \in net
  /\ InSequence(p)
  /\ lastRtpPacketSequenceNumber' = p.SN
  /\ lastArrived' = p.k
  /\ Write(p)
  /\ UNCHANGED <<now, SN, net, sent>>

(* JitterBuffer.read, once the buffer is ready: the packet with the        *)
(* smallest number, if there is one.                                       *)
First(p) == p \in queue /\ \A q \in queue : p.SN <= q.SN

ReadTime ==
  /\ ready
  /\ timestamp' = now + delta
  /\ UNCHANGED <<now, SN, net, lastRtpPacketSequenceNumber, duration, ready, delta,
                 sent, lastArrived, base>>

ReadSilence ==
  /\ queue = {}
  /\ ReadTime
  /\ UNCHANGED queue

Poll(p) ==
  /\ First(p)
  /\ queue' = queue \ {p}
  /\ ReadTime

=============================================================================
