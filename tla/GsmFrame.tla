------------------------------ MODULE GsmFrame ------------------------------
(***************************************************************************)
(* The parameters of a GSM 06.10 frame and the 33 bytes that carry them    *)
(* between the phones (gsm0610_pack_voip, gsm0610_unpack_voip, the packing *)
(* that native-lib.cpp chooses), and the 76 bytes of the unpacked form.    *)
(* The packing of the packets cuts every field to its bits (Masked); the   *)
(* other two do not, and are for fields in the ranges of Frame.            *)
(***************************************************************************)
EXTENDS Integers, Sequences

(* A field may be as wide as its bits; the encoder uses fewer lags.        *)
LARMax == <<63, 63, 31, 31, 15, 15, 7, 7>>
Frame == [LARc  : {l \in [1 .. 8 -> 0 .. 63] : \A i \in 1 .. 8 : l[i] <= LARMax[i]},
          Nc    : [1 .. 4 -> 0 .. 127],
          bc    : [1 .. 4 -> 0 .. 3],
          Mc    : [1 .. 4 -> 0 .. 3],
          xmaxc : [1 .. 4 -> 0 .. 63],
          xMc   : [1 .. 4 -> [1 .. 13 -> 0 .. 7]]]

Byte == 0 .. 255
VoipBytes == 33
GSM0610_MAGIC == 13

-----------------------------------------------------------------------------
(* The magic number and the ratios, and then the four subframes, from the  *)
(* highest bit of a byte down.                                             *)

PackedRatios(l) ==
  <<16 * GSM0610_MAGIC + l[1] \div 4,
    64 * (l[1] % 4) + l[2],
    8 * l[3] + l[4] \div 4,
    64 * (l[4] % 4) + 4 * l[5] + l[6] \div 4,
    64 * (l[6] % 4) + 8 * l[7] + l[8]>>

PackedSubframe(Nc, bc, Mc, xmaxc, x) ==
  <<2 * Nc + bc \div 2,
    128 * (bc % 2) + 32 * Mc + xmaxc \div 2,
    128 * (xmaxc % 2) + 16 * x[1] + 2 * x[2] + x[3] \div 4,
    64 * (x[3] % 4) + 8 * x[4] + x[5],
    32 * x[6] + 4 * x[7] + x[8] \div 2,
    128 * (x[8] % 2) + 16 * x[9] + 2 * x[10] + x[11] \div 4,
    64 * (x[11] % 4) + 8 * x[12] + x[13]>>

(* A field that is split between two bytes is masked part by part, which   *)
(* cuts the same bits.                                                     *)
Masked(f) ==
  [LARc  |-> <<f.LARc[1] % 64, f.LARc[2] % 64, f.LARc[3] % 32, f.LARc[4] % 32,
               f.LARc[5] % 16, f.LARc[6] % 16, f.LARc[7] % 8, f.LARc[8] % 8>>,
   Nc    |-> [i \in 1 .. 4 |-> f.Nc[i] % 128],
   bc    |-> [i \in 1 .. 4 |-> f.bc[i] % 4],
   Mc    |-> [i \in 1 .. 4 |-> f.Mc[i] % 4],
   xmaxc |-> [i \in 1 .. 4 |-> f.xmaxc[i] % 64],
   xMc   |-> [i \in 1 .. 4 |-> [k \in 1 .. 13 |-> f.xMc[i][k] % 8]]]

PackVoip(f) ==
  LET m      == Masked(f)
      sub(i) == PackedSubframe(m.Nc[i], m.bc[i], m.Mc[i], m.xmaxc[i], m.xMc[i])
  IN  PackedRatios(m.LARc) \o sub(1) \o sub(2) \o sub(3) \o sub(4)

(* The magic number is not looked at.                                      *)
UnpackVoip(c) ==
  LET at(i, n) == c[7 * i - 2 + n]
  IN  [LARc  |-> <<4 * (c[1] % 16) + c[2] \div 64,
                   c[2] % 64,
                   c[3] \div 8,
                   4 * (c[3] % 8) + c[4] \div 64,
                   (c[4] \div 4) % 16,
                   4 * (c[4] % 4) + c[5] \div 64,
                   (c[5] \div 8) % 8,
                   c[5] % 8>>,
       Nc    |-> [i \in 1 .. 4 |-> at(i, 1) \div 2],
       bc    |-> [i \in 1 .. 4 |-> 2 * (at(i, 1) % 2) + at(i, 2) \div 128],
       Mc    |-> [i \in 1 .. 4 |-> (at(i, 2) \div 32) % 4],
       xmaxc |-> [i \in 1 .. 4 |-> 2 * (at(i, 2) % 32) + at(i, 3) \div 128],
       xMc   |-> [i \in 1 .. 4 |->
                    <<(at(i, 3) \div 16) % 8,
                      (at(i, 3) \div 2) % 8,
                      4 * (at(i, 3) % 2) + at(i, 4) \div 64,
                      (at(i, 4) \div 8) % 8,
                      at(i, 4) % 8,
                      at(i, 5) \div 32,
                      (at(i, 5) \div 4) % 8,
                      2 * (at(i, 5) % 4) + at(i, 6) \div 128,
                      (at(i, 6) \div 16) % 8,
                      (at(i, 6) \div 2) % 8,
                      4 * (at(i, 6) % 2) + at(i, 7) \div 64,
                      (at(i, 7) \div 8) % 8,
                      at(i, 7) % 8>>]]

-----------------------------------------------------------------------------
(* One byte for every field, in the order of transmission.                 *)

NoneBytes == 76

(* Mutant: the grid position before the gain.                              *)
PackNone_GridFirst(f) ==
  LET sub(i) == <<f.Nc[i], f.Mc[i], f.bc[i], f.xmaxc[i]>> \o f.xMc[i]
  IN  f.LARc \o sub(1) \o sub(2) \o sub(3) \o sub(4)

PackNone(f) ==
  LET sub(i) == <<f.Nc[i], f.bc[i], f.Mc[i], f.xmaxc[i]>> \o f.xMc[i]
  IN  f.LARc \o sub(1) \o sub(2) \o sub(3) \o sub(4)

UnpackNone(c) ==
  LET at(i, n) == c[17 * i - 9 + n]
  IN  [LARc  |-> SubSeq(c, 1, 8),
       Nc    |-> [i \in 1 .. 4 |-> at(i, 1)],
       bc    |-> [i \in 1 .. 4 |-> at(i, 2)],
       Mc    |-> [i \in 1 .. 4 |-> at(i, 3)],
       xmaxc |-> [i \in 1 .. 4 |-> at(i, 4)],
       xMc   |-> [i \in 1 .. 4 |-> [k \in 1 .. 13 |-> at(i, 4 + k)]]]

=============================================================================
