------------------------------ MODULE Gsm0610 ------------------------------
(***************************************************************************)
(* The codec as native-lib.cpp calls it: contexts with a packing, and      *)
(* encoding and decoding of a buffer that holds whole frames               *)
(* (gsm0610_encode.c, gsm0610_decode.c).                                   *)
(***************************************************************************)
EXTENDS GsmCodec, GsmFrame, SequencesExt

(* Two frames in 65 bytes, from the lowest bit of a byte up: the fields    *)
(* follow each other without a gap, whatever shifts the code does them by. *)
WavBytes == 65

SubframeWidths == <<7, 2, 2, 6>> \o [k \in 1 .. 13 |-> 3]
FieldWidths == <<6, 6, 5, 5, 4, 4, 3, 3>> \o SubframeWidths \o SubframeWidths
               \o SubframeWidths \o SubframeWidths

(* The first bit of every field of a pair of frames, from 0.               *)
FieldStarts ==
  LET widths == FieldWidths \o FieldWidths
      start[i, j \in 1 .. 2 * NoneBytes] ==
        IF i = j THEN widths[i]
        ELSE LET m == (i + j) \div 2 IN start[i, m] + start[m + 1, j]
  IN  [i \in 1 .. 2 * NoneBytes |-> start[1, i] - widths[i]]

PackWav49(f, g) ==
  LET values == PackNone(f) \o PackNone(g)
      widths == FieldWidths \o FieldWidths
      bits   == FlattenSeq([i \in 1 .. 2 * NoneBytes |->
                              [b \in 1 .. widths[i] |-> Shr(values[i], b - 1) % 2]])
  IN  [n \in 1 .. WavBytes |-> SumOver(LAMBDA b : Shl(bits[8 * n - 8 + b], b - 1), 1, 8)]

(* The pair of frames.                                                     *)
UnpackWav49(c) ==
  LET bit(p)   == Shr(c[p \div 8 + 1], p % 8) % 2
      value(i) == SumOver(LAMBDA b : Shl(bit(FieldStarts[i] + b - 1), b - 1),
                          1, (FieldWidths \o FieldWidths)[i])
      fields   == [i \in 1 .. 2 * NoneBytes |-> value(i)]
  IN  <<UnpackNone(SubSeq(fields, 1, NoneBytes)),
        UnpackNone(SubSeq(fields, NoneBytes + 1, 2 * NoneBytes))>>

-----------------------------------------------------------------------------
Packing == {"none", "wav49", "voip"}

(* A context of its own memory: all zero but for the last lag.             *)
gsm0610_init(packing) == [packing |-> packing, codec |-> InitState]

(* What one call leaves of the context, with what it puts out. The loops   *)
(* over a longer buffer are calls on its parts.                            *)
Coded(s, c, e) == [code |-> c, state |-> [s EXCEPT !.codec = e.state]]
CodedPair(s, e, g) == Coded(s, PackWav49(e.frame, g.frame), g)
CodedFrame(s, amp, e) ==
  CASE s.packing = "none"  -> Coded(s, PackNone(e.frame), e)
    [] s.packing = "voip"  -> Coded(s, PackVoip(e.frame), e)
    [] s.packing = "wav49" ->
         CodedPair(s, e, EncodeAFrame(e.state, SubSeq(amp, FrameLen + 1, 2 * FrameLen)))

gsm0610_encode(s, amp) == CodedFrame(s, amp, EncodeAFrame(s.codec, SubSeq(amp, 1, FrameLen)))

Unpacked(packing, code) ==
  CASE packing = "none"  -> <<UnpackNone(code)>>
    [] packing = "voip"  -> <<UnpackVoip(code)>>
    [] packing = "wav49" -> UnpackWav49(code)

Spoken(s, amp, d) == [amp |-> amp \o d.amp, state |-> [s EXCEPT !.codec = d.state]]
SpokenFrames(s, frames, d) ==
  IF Len(frames) = 1 THEN Spoken(s, <<>>, d)
  ELSE Spoken(s, d.amp, DecodeAFrame(d.state, frames[2]))

gsm0610_decode(s, code) ==
  LET frames == Unpacked(s.packing, code)
  IN  SpokenFrames(s, frames, DecodeAFrame(s.codec, frames[1]))

=============================================================================
