------------------------------ MODULE GsmCodec ------------------------------
(***************************************************************************)
(* The GSM 06.10 full rate codec of the phone's native library             *)
(* (client/app/src/main/cpp/spandsp/gsm0610_*.c, the branches that the     *)
(* Android build compiles): 160 samples to the parameters of a frame and   *)
(* back. Operators named after the functions of the source; a C function   *)
(* that updates the codec's state returns the updated fields beside its    *)
(* result. Signals are sequences, x[0 .. n-1] of the source being          *)
(* x[1 .. n] here; the only intermediate values that a loop carries along  *)
(* are those of a recursive function over the index of the loop.           *)
(***************************************************************************)
EXTENDS GsmArithmetic, FiniteSets

FrameLen == 160
SubLen == 40
History == 120      \* samples of the residual that the predictor looks back

Zeros(n) == Signal(n, LAMBDA k : 0)

(* A filter that takes the samples of a frame one by one, and keeps what   *)
(* it puts out in field out of its state. (By subframes: TLC's recursion.) *)
Filter(step(_, _), s0, input) ==
  LET after[b \in 0 .. Len(input) \div SubLen] ==
        IF b = 0 THEN s0
        ELSE LET p == after[b - 1]
                 n == Len(p.out)
                 sample[k \in n .. n + SubLen] ==
                   IF k = n THEN p ELSE step(sample[k - 1], input[k])
             IN  sample[n + SubLen]
  IN  after[Len(input) \div SubLen]

(* gsm0610_state_t after gsm0610_init. dp0 is the part of the array that   *)
(* outlives a frame; e, whose margins stay zero, lives within a subframe.  *)
InitState ==
  [dp0 |-> Zeros(History), z1 |-> 0, L_z2 |-> 0, mp |-> 0, u |-> Zeros(8),
   LARpp |-> <<Zeros(8), Zeros(8)>>, j |-> 0, nrp |-> 40, v |-> Zeros(9), msr |-> 0]

-----------------------------------------------------------------------------
(* Preprocessing: 13 bit samples, offset compensation, pre-emphasis. *)

Alpha == 32735      \* what the offset compensation remembers, of 32768
Beta == 28180       \* what the (de-)emphasis takes of the last sample

Preprocess(s, amp) ==
  LET step(p, a) ==
        LET SO == 4 * Shr(a, 3)
            z2 == SaturatedAdd32(MultR32(p.L_z2, Alpha), Shl(SO - p.z1, 15))
            mp == ToInt16(Shr(SaturatedAdd32(z2, Half), 15))
        IN  [out |-> Append(p.out, SaturatedAdd16(mp, MultR(p.mp, -Beta))),
             z1 |-> SO, L_z2 |-> z2, mp |-> mp]
  IN  Filter(step, [out |-> <<>>, z1 |-> s.z1, L_z2 |-> s.L_z2, mp |-> s.mp], amp)

-----------------------------------------------------------------------------
(* LPC analysis. *)

(* The signal is scaled so that no sum overflows, and scaled back in place *)
(* afterwards: what it loses on the way is lost to the filters as well.    *)
Autocorrelation(amp) ==
  LET smax     == Peak(amp)
      scalauto == IF smax = 0 THEN 0 ELSE 4 - Norm(Shl(smax, 16))
      scaled   == IF scalauto <= 0 THEN amp
                  ELSE Signal(FrameLen, LAMBDA k : MultR(amp[k], Shr(Half, scalauto - 1)))
  IN  [amp   |-> IF scalauto <= 0 THEN amp
                 ELSE Signal(FrameLen, LAMBDA k : ToInt16(Shl(scaled[k], scalauto))),
       L_ACF |-> [lag \in 0 .. 8 |->
                    2 * SumOver(LAMBDA k : scaled[k] * scaled[k - lag], lag + 1, FrameLen)]]

(* Schur recursion; r ends in zeros once the signal is predicted.          *)
ReflectionCoefficients(L_ACF) ==
  LET shift == Norm(L_ACF[0])
      ACF   == [i \in 0 .. 8 |-> Shr(Shl(L_ACF[i], shift), 16)]
      schur[n \in 0 .. 8] ==
        IF n = 0 THEN [P |-> ACF, K |-> ACF, r |-> <<>>]
        ELSE LET p == schur[n - 1]
                 a == SaturatedAbs16(p.P[1])
                 r == IF p.P[1] > 0 THEN -GsmDiv(a, p.P[0]) ELSE GsmDiv(a, p.P[0])
             IN  IF Len(p.r) = 8 THEN p
                 ELSE IF p.P[0] < a THEN [p EXCEPT !.r = @ \o Zeros(9 - n)]
                 ELSE [P |-> [m \in 0 .. 8 |->
                                IF m = 0 THEN SaturatedAdd16(p.P[0], MultR(p.P[1], r))
                                ELSE IF m <= 8 - n
                                     THEN SaturatedAdd16(p.P[m + 1], MultR(p.K[m], r))
                                ELSE p.P[m]],
                       K |-> [m \in 0 .. 8 |->
                                IF m \in 1 .. 8 - n
                                THEN SaturatedAdd16(p.K[m], MultR(p.P[m + 1], r))
                                ELSE p.K[m]],
                       r |-> Append(p.r, r)]
  IN  IF L_ACF[0] = 0 THEN Zeros(8) ELSE schur[8].r

LogAreaRatio(r) ==
  LET a == SaturatedAbs16(r)
      t == IF a < 22118 THEN Shr(a, 1)
           ELSE IF a < 31130 THEN a - 11059
           ELSE Shl(a - 26112, 2)
  IN  IF r < 0 THEN -t ELSE t

TransformToLogAreaRatios(r) == Signal(8, LAMBDA i : LogAreaRatio(r[i]))

(* One row per LAR: A, B, INVA and the smallest code.                      *)
LAR_A   == <<20480, 20480, 20480, 20480, 13964, 15360, 8534, 9036>>
LAR_B   == <<0, 0, 2048, -2560, 94, -1792, -341, -1144>>
LAR_INV == <<13107, 13107, 13107, 13107, 19223, 17476, 31454, 29708>>
LAR_MIC == <<-32, -32, -16, -16, -8, -8, -4, -4>>
LAR_MAC == <<31, 31, 15, 15, 7, 7, 3, 3>>

CodeRatio(i, LAR) ==
  LET t == Shr(SaturatedAdd16(SaturatedAdd16(SaturatedMul16(LAR_A[i], LAR), LAR_B[i]),
                              256), 9)
  IN  IF t > LAR_MAC[i] THEN LAR_MAC[i] - LAR_MIC[i]
      ELSE IF t < LAR_MIC[i] THEN 0
      ELSE t - LAR_MIC[i]

QuantizationAndCoding(LAR) == Signal(8, LAMBDA i : CodeRatio(i, LAR[i]))

(* The coded ratios of a frame, and the signal as the analysis leaves it.  *)
LpcAnalysis(so) ==
  LET ac == Autocorrelation(so)
  IN  [LARc |-> QuantizationAndCoding(
                  TransformToLogAreaRatios(ReflectionCoefficients(ac.L_ACF))),
       amp  |-> ac.amp]

-----------------------------------------------------------------------------
(* Short term filters: the ratios of the last frame fade into the new ones.*)

DecodeRatio(i, code) ==
  LET t == MultR(LAR_INV[i],
                 SaturatedSub16(ToInt16(Shl(SaturatedAdd16(code, LAR_MIC[i]), 10)),
                                2 * LAR_B[i]))
  IN  SaturatedAdd16(t, t)

DecodeLogAreaRatios(LARc) == Signal(8, LAMBDA i : DecodeRatio(i, LARc[i]))

(* Coefficients for the samples 0-12, 13-26, 27-39 and 40-159.             *)
SegmentEnd == <<13, 27, 40, 160>>
SegmentOf(k) == CHOOSE n \in 1 .. 4 : k <= SegmentEnd[n] /\ (n > 1 => k > SegmentEnd[n - 1])

Coefficient(segment, old, new) ==
  CASE segment = 1 -> SaturatedAdd16(SaturatedAdd16(Shr(old, 2), Shr(new, 2)), Shr(old, 1))
    [] segment = 2 -> SaturatedAdd16(Shr(old, 1), Shr(new, 1))
    [] segment = 3 -> SaturatedAdd16(SaturatedAdd16(Shr(old, 2), Shr(new, 2)), Shr(new, 1))
    [] segment = 4 -> new

LarpToRp(LARp) ==
  LET a == SaturatedAbs16(LARp)
      t == IF a < 11059 THEN Shl(a, 1)
           ELSE IF a < 20070 THEN a + 11059
           ELSE SaturatedAdd16(Shr(a, 2), 26112)
  IN  IF LARp < 0 THEN -t ELSE t

(* The four sets of reflection coefficients of a frame.                    *)
FilterCoefficients(old, new) ==
  Signal(4, LAMBDA n : Signal(8, LAMBDA i : LarpToRp(Coefficient(n, old[i], new[i]))))

(* The set in force when the samples out have been filtered.              *)
RpAt(rps, out) == rps[SegmentOf(Len(out) + 1)]

(* The state of a lattice filter after the frame, with its output.         *)
ShortTermAnalysisFiltering(u0, rps, amp) ==
  LET lattice(rp, u, a) ==
        LET stage[i \in 0 .. 8] ==
              IF i = 0 THEN [di |-> a, u_out |-> a, u |-> <<>>]
              ELSE LET p == stage[i - 1]
                   IN  [di    |-> Saturate(p.di + Shr(rp[i] * u[i] + Half, 15)),
                        u_out |-> Saturate(u[i] + Shr(rp[i] * p.di + Half, 15)),
                        u     |-> Append(p.u, p.u_out)]
        IN  stage[8]
      step(p, a) == LET l == lattice(RpAt(rps, p.out), p.u, a)
                    IN  [out |-> Append(p.out, l.di), u |-> l.u]
  IN  Filter(step, [out |-> <<>>, u |-> u0], amp)

ShortTermSynthesisFiltering(v0, rps, wt) ==
  LET lattice(rp, v, a) ==
        LET stage[n \in 0 .. 8] ==
              IF n = 0 THEN [sri |-> a, v |-> <<>>]
              ELSE LET p   == stage[n - 1]
                       i   == 9 - n
                       sri == SaturatedSub16(p.sri, MultR(rp[i], v[i]))
                   IN  [sri |-> sri,
                        v   |-> <<SaturatedAdd16(v[i], MultR(rp[i], sri))>> \o p.v]
        IN  stage[8]
      step(p, a) == LET l == lattice(RpAt(rps, p.out), p.v, a)
                    IN  [out |-> Append(p.out, l.sri), v |-> <<l.sri>> \o l.v]
  IN  Filter(step, [out |-> <<>>, v |-> v0], wt)

(* The state remembers the ratios of two frames and which of them is older.*)
Ratios(s, LARc) ==
  LET new == DecodeLogAreaRatios(LARc)
  IN  [LARpp |-> [s.LARpp EXCEPT ![s.j + 1] = new],
       j     |-> 1 - s.j,
       rps   |-> FilterCoefficients(s.LARpp[2 - s.j], new)]

-----------------------------------------------------------------------------
(* Long term prediction. dp is the reconstructed residual dp[-120 .. -1].  *)

DLB == <<6554, 16384, 26214, 32767>>
QLB == <<3277, 11469, 21299, 32767>>

(* dp[k - lag] of the source, for the k-th sample of the subframe.         *)
Past(dp, k, lag) == dp[History + k - lag]

(* The best lag, the shortest of equal ones, and 40 if none correlates.    *)
MaxCrossCorr(wt, dp) ==
  LET better(p, q) == IF q.max > p.max THEN q ELSE p
      best[r \in (40 .. 120) \X (40 .. 120)] ==
        IF r[1] = r[2] THEN [max |-> SumOver(LAMBDA k : wt[k] * Past(dp, k, r[1]), 1, SubLen),
                             lag |-> r[1]]
        ELSE better(best[LeftOf(r)], best[RightOf(r)])
  IN  better([max |-> 0, lag |-> 40], best[<<40, 120>>])

(* The code of the gain, which is L_max / L_power.                         *)
GainCode(L_max, L_power) ==
  LET temp    == Norm(L_power)
      R       == Shr(Shl(L_max, temp), 16)
      S       == Shr(Shl(L_power, temp), 16)
      fits(b) == b = 3 \/ R <= SaturatedMul16(S, DLB[b + 1])
  IN  IF L_max <= 0 THEN 0
      ELSE IF L_max >= L_power THEN 3
      ELSE CHOOSE b \in 0 .. 3 : fits(b) /\ \A c \in 0 .. b - 1 : ~fits(c)

LtpParameters(best, scale, dp) ==
  [Nc |-> best.lag,
   bc |-> GainCode(Shr(2 * best.max, 6 - scale),
                   2 * SumOver(LAMBDA k : Shr(Past(dp, k, best.lag), 3)
                                          * Shr(Past(dp, k, best.lag), 3), 1, SubLen))]

EvaluateLtpParameters(d, dp) ==
  LET dmax  == Peak(d)
      bits  == IF dmax = 0 THEN 0 ELSE Norm(Shl(dmax, 16))
      scale == IF bits > 6 THEN 0 ELSE 6 - bits
  IN  LtpParameters(MaxCrossCorr(Signal(SubLen, LAMBDA k : Shr(d[k], scale)), dp), scale, dp)

(* The estimate dpp and what it leaves of the signal.                      *)
LongTermAnalysisFiltering(ltp, d, dp) ==
  LET dpp == Signal(SubLen, LAMBDA k : MultR(QLB[ltp.bc + 1], Past(dp, k, ltp.Nc)))
  IN  [Nc |-> ltp.Nc, bc |-> ltp.bc, dpp |-> dpp,
       e  |-> Signal(SubLen, LAMBDA k : SaturatedSub16(d[k], dpp[k]))]

LongTermPredictor(d, dp) == LongTermAnalysisFiltering(EvaluateLtpParameters(d, dp), d, dp)

(* Mutant: the shortest lag is taken for a bad one.                        *)
LongTermSynthesisFiltering_NotShortest(s, Ncr, bcr, erp) ==
  LET Nr == IF Ncr <= 40 \/ Ncr > 120 THEN s.nrp ELSE Ncr
  IN  [nrp |-> Nr,
       drp |-> Signal(SubLen, LAMBDA k :
                 SaturatedAdd16(erp[k], MultR(QLB[bcr + 1], Past(s.dp0, k, Nr))))]

(* A lag outside 40 .. 120 is not the encoder's: the last good one is used.*)
LongTermSynthesisFiltering(s, Ncr, bcr, erp) ==
  LET Nr == IF Ncr < 40 \/ Ncr > 120 THEN s.nrp ELSE Ncr
  IN  [nrp |-> Nr,
       drp |-> Signal(SubLen, LAMBDA k :
                 SaturatedAdd16(erp[k], MultR(QLB[bcr + 1], Past(s.dp0, k, Nr))))]

-----------------------------------------------------------------------------
(* Regular pulse excitation: every third sample of the residual. *)

H == <<-134, -374, 0, 2054, 5741, 8192, 5741, 2054, 0, -374, -134>>

WeightingFilter(e) ==
  LET padded == Zeros(5) \o e \o Zeros(5)
  IN  Signal(SubLen, LAMBDA k :
        Saturate(Shr(4096 + SumOver(LAMBDA i : padded[k + i - 1] * H[i], 1, 11), 13)))

GridSelection(x) ==
  LET EM == [m \in 0 .. 3 |->
               2 * SumOver(LAMBDA i : Shr(x[m + 3 * i - 2], 2) * Shr(x[m + 3 * i - 2], 2),
                           1, 13)]
      Mc == CHOOSE m \in 0 .. 3 : /\ \A n \in 0 .. 3 : EM[n] <= EM[m]
                                  /\ \A n \in 0 .. m - 1 : EM[n] < EM[m]
  IN  [Mc |-> Mc, xM |-> Signal(13, LAMBDA i : x[Mc + 3 * i - 2])]

(* Exponent and mantissa of the coded maximum.                             *)
ExpMant(xmaxc) ==
  LET exp  == IF xmaxc > 15 THEN Shr(xmaxc, 3) - 1 ELSE 0
      mant == xmaxc - 8 * exp
      n    == IF mant <= 7 THEN 3 - TopBit(mant) ELSE 0
  IN  IF mant = 0 THEN [exp |-> -4, mant |-> 7]
      ELSE [exp |-> exp - n, mant |-> Shl(mant + 1, n) - 9]

NRFAC == <<29128, 26215, 23832, 21846, 20165, 18725, 17476, 16384>>
FAC == <<18431, 20479, 22527, 24575, 26623, 28671, 30719, 32767>>

ApcmQuantization(xM) ==
  LET xmax  == Peak(xM)
      exp   == Cardinality({i \in 0 .. 5 : Shr(xmax, 9 + i) > 0})
      xmaxc == SaturatedAdd16(Shr(xmax, exp + 5), 8 * exp)
      em    == ExpMant(xmaxc)
  IN  [xmaxc |-> xmaxc,
       xMc   |-> Signal(13, LAMBDA i :
                   4 + Shr(SaturatedMul16(ToInt16(Shl(xM[i], 6 - em.exp)),
                                          NRFAC[em.mant + 1]), 12))]

ApcmInverseQuantization(xMc, xmaxc) ==
  LET em    == ExpMant(xmaxc)
      shift == SaturatedSub16(6, em.exp)
      round == Asl(1, shift - 1)
  IN  Signal(13, LAMBDA i :
        Asr(SaturatedAdd16(MultR(FAC[em.mant + 1], 4096 * (2 * xMc[i] - 7)), round), shift))

GridPositioning(Mc, xMp) ==
  Signal(SubLen, LAMBDA k :
    IF (k - 1 - Mc) % 3 = 0 /\ (k - 1 - Mc) \div 3 \in 0 .. 12
    THEN xMp[(k - 1 - Mc) \div 3 + 1] ELSE 0)

(* The coded pulses of a grid, and the residual that the decoder has.      *)
CodedPulses(Mc, apcm) ==
  [Mc |-> Mc, xmaxc |-> apcm.xmaxc, xMc |-> apcm.xMc,
   e  |-> GridPositioning(Mc, ApcmInverseQuantization(apcm.xMc, apcm.xmaxc))]

CodedGrid(grid) == CodedPulses(grid.Mc, ApcmQuantization(grid.xM))
RpeEncoding(e) == CodedGrid(GridSelection(WeightingFilter(e)))

RpeDecoding(xmaxc, Mcr, xMcr) == GridPositioning(Mcr, ApcmInverseQuantization(xMcr, xmaxc))

-----------------------------------------------------------------------------
(* Frames. *)

(* The encoder decodes as it goes along: dp0 grows by each reconstructed   *)
(* subframe ...                                                            *)
EncodedSubframe(p, ltp, rpe) ==
  [dp0   |-> p.dp0 \o Signal(SubLen, LAMBDA i : SaturatedAdd16(rpe.e[i], ltp.dpp[i])),
   Nc    |-> Append(p.Nc, ltp.Nc),
   bc    |-> Append(p.bc, ltp.bc),
   Mc    |-> Append(p.Mc, rpe.Mc),
   xmaxc |-> Append(p.xmaxc, rpe.xmaxc),
   xMc   |-> Append(p.xMc, rpe.xMc)]

PredictedSubframe(p, ltp) == EncodedSubframe(p, ltp, RpeEncoding(ltp.e))

EncodedSubframes(dp0, residual) ==
  LET sub[k \in 0 .. 4] ==
        IF k = 0 THEN [dp0 |-> dp0, Nc |-> <<>>, bc |-> <<>>, Mc |-> <<>>,
                       xmaxc |-> <<>>, xMc |-> <<>>]
        ELSE LET p   == sub[k - 1]
                 top == Len(p.dp0)
             IN  PredictedSubframe(p, LongTermPredictor(SubSeq(residual, 40 * k - 39, 40 * k),
                                                        SubSeq(p.dp0, top - 119, top)))
  IN  sub[4]

(* ... and its last 120 samples are moved to its beginning. pre, lpc, lar, *)
(* st and f are the results of the encoder's parts, in their order.        *)
EncodedFrame(s, pre, lpc, lar, st, f) ==
  [frame |-> [LARc |-> lpc.LARc, Nc |-> f.Nc, bc |-> f.bc, Mc |-> f.Mc,
              xmaxc |-> f.xmaxc, xMc |-> f.xMc],
   state |-> [s EXCEPT !.dp0 = SubSeq(f.dp0, FrameLen + 1, FrameLen + History),
                       !.z1 = pre.z1, !.L_z2 = pre.L_z2, !.mp = pre.mp,
                       !.u = st.u, !.LARpp = lar.LARpp, !.j = lar.j]]

EncodeAnalysed(s, pre, lpc) ==
  LET lar == Ratios(s, lpc.LARc)
      st  == ShortTermAnalysisFiltering(s.u, lar.rps, lpc.amp)
  IN  EncodedFrame(s, pre, lpc, lar, st, EncodedSubframes(s.dp0, st.out))

EncodeAFrame(s, amp) ==
  LET pre == Preprocess(s, amp) IN EncodeAnalysed(s, pre, LpcAnalysis(pre.out))

(* De-emphasis, and 13 bit samples again.                                  *)
Postprocessing(msr0, amp) ==
  LET step(p, a) ==
        LET msr == SaturatedAdd16(a, MultR(p.msr, Beta))
        IN  [out |-> Append(p.out, 8 * Shr(SaturatedAdd16(msr, msr), 3)), msr |-> msr]
  IN  Filter(step, [out |-> <<>>, msr |-> msr0], amp)

(* The decoder shifts its history by a subframe at a time.                 *)
DecodedSubframe(p, lts) ==
  [dp0 |-> SubSeq(p.dp0, SubLen + 1, History) \o lts.drp,
   nrp |-> lts.nrp,
   wt  |-> p.wt \o lts.drp]

DecodedSubframes(s, f) ==
  LET sub[j \in 0 .. 4] ==
        IF j = 0 THEN [dp0 |-> s.dp0, nrp |-> s.nrp, wt |-> <<>>]
        ELSE LET p == sub[j - 1]
             IN  DecodedSubframe(p, LongTermSynthesisFiltering(p, f.Nc[j], f.bc[j],
                                      RpeDecoding(f.xmaxc[j], f.Mc[j], f.xMc[j])))
  IN  sub[4]

DecodedFrame(s, lt, lar, st, post) ==
  [state |-> [s EXCEPT !.dp0 = lt.dp0, !.nrp = lt.nrp, !.LARpp = lar.LARpp,
                       !.j = lar.j, !.v = st.v, !.msr = post.msr],
   amp   |-> post.out]

DecodeAFrame(s, f) ==
  LET lt  == DecodedSubframes(s, f)
      lar == Ratios(s, f.LARc)
      st  == ShortTermSynthesisFiltering(s.v, lar.rps, lt.wt)
  IN  DecodedFrame(s, lt, lar, st, Postprocessing(s.msr, st.out))

=============================================================================
