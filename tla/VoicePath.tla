----------------------------- MODULE VoicePath -----------------------------
(***************************************************************************)
(* A voice from microphone to loudspeaker when the phones use the GSM      *)
(* codec: the talker's recorder thread, its native encoder, the RTP        *)
(* stream, and the listener's player thread with its native decoder        *)
(* (voicecall/VoIPAudio, GsmAudioCodec).                                   *)
(***************************************************************************)
EXTENDS RtpStream, NativeCodec, Sequences

CONSTANTS
  Speech,        \* Speech[k]: the blocks that the k-th read may record
  MaxStarts      \* bound: calls of startAudio, for each phone

(* Two directions do not touch each other: one is modelled. A talker that  *)
(* started again would begin another stream.                               *)
ASSUME VoiceAssumption ==
  /\ Phone = {"talker", "listener"}
  /\ MaxFrames <= Len(Speech)
  /\ MaxStarts \in [Phone -> Nat]
  /\ MaxStarts["talker"] <= 1

VARIABLES
  isRecording,   \* VoIPAudio.isRecording: audio has been started
  starts,        \* bound: how often
  spoken,        \* history only: the encoder's context after each packet
  heard          \* history only: the places of the packets decoded

vars == <<stream, native, isRecording, starts, spoken, heard>>

TypeOK ==
  /\ StreamTypeOK
  /\ codec_open \in [Phone -> {0, 1}]
  /\ \A ph \in Phone : codec_open[ph] = 1 <=> isRecording[ph]
  /\ \A ph \in Phone : isRecording[ph] =>
       NoContext \notin {gsm0610_enc_state[ph], gsm0610_dec_state[ph]}
  /\ isRecording \in [Phone -> BOOLEAN]
  /\ starts \in [Phone -> Nat]
  /\ Len(spoken) = sent
  /\ heard \in Seq(1 .. sent)

Init ==
  /\ StreamInit
  /\ NativeInit
  /\ isRecording = [ph \in Phone |-> FALSE]
  /\ starts = [ph \in Phone |-> 0]
  /\ spoken = <<>>
  /\ heard = <<>>

-----------------------------------------------------------------------------
(* startAudio of the first peer opens the codec, and creates the RemotePeer*)
(* with its session and jitter buffer.                                     *)
StartAudio(ph) ==
  /\ ~isRecording[ph]
  /\ starts[ph] < MaxStarts[ph]
  /\ starts' = [starts EXCEPT ![ph] = @ + 1]
  /\ isRecording' = [isRecording EXCEPT ![ph] = TRUE]
  /\ JniGsmOpen(ph)
  /\ IF ph = "listener" THEN NewReceiver /\ heard' = <<>>
     ELSE UNCHANGED <<stream, heard>>
  /\ UNCHANGED spoken

(* endAudio: peers, recorder and player have ended when the codec closes.  *)
EndAudio(ph) ==
  /\ isRecording[ph]
  /\ isRecording' = [isRecording EXCEPT ![ph] = FALSE]
  /\ JniGsmClose(ph)
  /\ UNCHANGED <<stream, starts, spoken, heard>>

(* One turn of Recorder.run.                                               *)
Record(lin) ==
  /\ isRecording["talker"]
  /\ JniGsmEncodeB("talker", lin)
  /\ SendPacket(Encoded("talker", lin))
  /\ spoken' = Append(spoken, gsm0610_enc_state'["talker"])
  /\ UNCHANGED <<isRecording, starts, heard>>

Arrive(p) ==
  /\ isRecording["listener"]
  /\ Receive(p)
  /\ UNCHANGED <<native, isRecording, starts, spoken, heard>>

(* One turn of Player.run.                                                 *)
PlaySilence ==
  /\ isRecording["listener"]
  /\ ReadSilence
  /\ UNCHANGED <<native, isRecording, starts, spoken, heard>>

Play(p) ==
  /\ isRecording["listener"]
  /\ Poll(p)
  /\ JniGsmDecodeB("listener", p.payload)
  /\ heard' = Append(heard, p.k)
  /\ UNCHANGED <<isRecording, starts, spoken>>

TimePasses == Tick /\ UNCHANGED <<native, isRecording, starts, spoken, heard>>

Next ==
  \/ \E ph \in Phone : StartAudio(ph) \/ EndAudio(ph)
  \/ sent < MaxFrames /\ \E lin \in Speech[sent + 1] : Record(lin)
  \/ \E p \in net : Arrive(p) \/ Play(p)
  \/ PlaySilence
  \/ TimePasses

Spec == Init /\ [][Next]_vars

-----------------------------------------------------------------------------
(* The sequence number has started again from 0.                           *)
Wrapped == \E p, q \in net : p.k < q.k /\ p.SN >= q.SN

(* What is played is what was said, in the order it was said and without   *)
(* repetitions, whatever the network does: the receiver's filter and the   *)
(* order of the queue, for as long as the sequence number grows.           *)
PlayedInOrder ==
  Wrapped \/ \A i, j \in 1 .. Len(heard) : i < j => heard[i] < heard[j]

(* A packet that has not been overtaken would be queued if it arrived now, *)
(* but only for the first JitterDelay seconds of a stream, and until the   *)
(* sequence number wraps. Lost for ever are also number 0, which is not    *)
(* larger than the receiver's first "last" number, and what arrives after  *)
(* the buffer is ready and before its reader has looked at the clock.      *)
HeardAtFirst ==
  isRecording["listener"] /\ ~Wrapped /\ ~(ready /\ timestamp = 0) =>
    \A p \in net : p.k > lastArrived /\ p.SN > 0 /\ (base > 0 => p.TS <= base + JitterDelay)
                   => InSequence(p) /\ ~Outstanding(p)

(* "If packets arrive too late then they are discarded" (JitterBuffer):    *)
(* a packet sent within this second is not too late for a reader that has  *)
(* looked at the clock within this second, and has set its delta by a      *)
(* packet that came within the second it was sent in.                      *)
OnlyLateDiscarded ==
  isRecording["listener"] /\ timestamp = now + delta /\ delta = SampleRate * base - base =>
    \A p \in net : Outstanding(p) => p.TS < now

=============================================================================
