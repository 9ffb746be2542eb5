------------------------------ MODULE GsmVoice ------------------------------
(***************************************************************************)
(* The voice path with the codec that the native library compiles. In the  *)
(* formulas a phone's contexts are those of Gsm0610 and the payloads are   *)
(* packed frames.                                                          *)
(***************************************************************************)
EXTENDS VoicePath, Gsm0610

(* The decoder predicts from the same past as the encoder: when a listener *)
(* has decoded all the packets of a stream up to one, in order, its        *)
(* residual and its ratios are what the encoder's were after that packet.  *)
(* (Encoder and decoder compute them by different code.)                   *)
DecoderFollowsEncoder ==
  LET n   == Len(heard)
      enc == spoken[n].codec
      dec == gsm0610_dec_state["listener"].codec
  IN  isRecording["listener"] /\ n > 0 /\ heard = [k \in 1 .. n |-> k] =>
        /\ dec.dp0 = enc.dp0
        /\ dec.LARpp = enc.LARpp
        /\ dec.j = enc.j

(* The packings carry what the encoder makes of a block, alone or behind   *)
(* the frame before it.                                                    *)
SurvivesPacking(before, payload) ==
  LET f == UnpackVoip(payload)
      g == UnpackVoip(before)
  IN  /\ Unpacked("voip", PackVoip(f)) = <<f>>
      /\ Unpacked("none", PackNone(f)) = <<f>>
      /\ Unpacked("wav49", PackWav49(g, f)) = <<g, f>>

=============================================================================
