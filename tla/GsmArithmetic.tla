--------------------------- MODULE GsmArithmetic ---------------------------
(***************************************************************************)
(* The saturated 16 and 32 bit arithmetic of the native GSM 06.10 codec    *)
(* (spandsp/saturated.h, gsm0610_local.h, the first part of                *)
(* gsm0610_lpc.c). An operator takes and returns the mathematical value of *)
(* the C integer; where the C code narrows a value, ToInt16 says what the  *)
(* narrowing keeps. A shift to the right is Shr: TLA+'s \div rounds down,  *)
(* as the arithmetic shift of a negative number does.                      *)
(***************************************************************************)
EXTENDS Integers, Sequences

MaxInt16 == 32767
MinInt16 == -32768
Int16 == MinInt16 .. MaxInt16

MaxInt32 == 2147483647
MinInt32 == -MaxInt32 - 1

(* 2^0 .. 2^30, all the shifts of the codec.                               *)
PowerOfTwo == <<1, 2, 4, 8, 16, 32, 64, 128, 256, 512, 1024, 2048, 4096, 8192, 16384,
                32768, 65536, 131072, 262144, 524288, 1048576, 2097152, 4194304,
                8388608, 16777216, 33554432, 67108864, 134217728, 268435456,
                536870912, 1073741824>>
Two(n) == PowerOfTwo[n + 1]

Shr(a, n) == a \div Two(n)
Shl(a, n) == a * Two(n)

(* The cast to int16_t.                                                    *)
ToInt16(a) == LET low == a % 65536 IN IF low > MaxInt16 THEN low - 65536 ELSE low

Saturate(a) ==
  IF a > MaxInt16 THEN MaxInt16 ELSE IF a < MinInt16 THEN MinInt16 ELSE a

SaturatedAdd16(a, b) == Saturate(a + b)
SaturatedSub16(a, b) == Saturate(a - b)

(* No intermediate value of this definition leaves 32 bits either.         *)
SaturatedAdd32(a, b) ==
  IF a > 0 /\ b > MaxInt32 - a THEN MaxInt32
  ELSE IF a < 0 /\ b < MinInt32 - a THEN MinInt32
  ELSE a + b

SaturatedMul16(a, b) ==
  IF a = MinInt16 /\ b = MinInt16 THEN MaxInt16 ELSE Shr(a * b, 15)

SaturatedAbs16(a) ==
  IF a = MinInt16 THEN MaxInt16 ELSE IF a < 0 THEN -a ELSE a

(* Multiplication with rounding; Half is 1 / 2 as a fraction of 15 bits.    *)
Half == 16384
MultR(a, b) ==
  IF a = MinInt16 /\ b = MinInt16 THEN MaxInt16 ELSE Shr(a * b + Half, 15)

(* (a * b + Half) >> 15 for a of 32 bits, whose product takes 64.          *)
MultR32(a, b) == Shr(a, 15) * b + Shr((a % 32768) * b + Half, 15)

(* Arithmetic shifts by a signed count.                                    *)
Asr(a, n) ==
  IF n >= 16 THEN (IF a < 0 THEN -1 ELSE 0)
  ELSE IF n <= -16 THEN 0
  ELSE IF n < 0 THEN ToInt16(Shl(a, -n))
  ELSE Shr(a, n)

Asl(a, n) ==
  IF n >= 16 THEN 0
  ELSE IF n <= -16 THEN (IF a < 0 THEN -1 ELSE 0)
  ELSE IF n < 0 THEN Asr(a, -n)
  ELSE ToInt16(Shl(a, n))

-----------------------------------------------------------------------------
(* The position of the highest set bit of a positive number.               *)
TopBit(a) == CHOOSE k \in 0 .. 30 : Two(k) <= a /\ (k < 30 => a < Two(k + 1))

(* How far a number can be shifted to the left within 32 bits.             *)
Norm(a) == IF a <= -1073741824 THEN 0
           ELSE 30 - TopBit(IF a < 0 THEN -a - 1 ELSE a)

(* 15 bits of the fraction num / denom, with 0 <= num <= denom.            *)
GsmDiv(num, denom) ==
  LET bits[k \in 0 .. 15] ==
        IF k = 0 THEN <<0, num>>
        ELSE LET last == bits[k - 1]
                 n32  == 2 * last[2]
             IN  IF n32 >= denom THEN <<2 * last[1] + 1, n32 - denom>>
                 ELSE <<2 * last[1], n32>>
  IN  IF num = 0 THEN 0 ELSE bits[15][1]

-----------------------------------------------------------------------------
(* The signal f(1), ..., f(n). (As a function it is [k \in 1 .. n |-> f(k)];*)
(* SubSeq makes TLC compute its samples once and not at every use.)        *)
Signal(n, f(_)) == SubSeq([k \in 1 .. n |-> f(k)], 1, n)

(* Sums over i .. j and peaks are taken by halves, which keeps TLC's      *)
(* recursion flat: r is the first and the last index of a part.            *)
LeftOf(r)  == <<r[1], (r[1] + r[2]) \div 2>>
RightOf(r) == <<(r[1] + r[2]) \div 2 + 1, r[2]>>

SumOver(f(_), i, j) ==
  LET sum[r \in (i .. j) \X (i .. j)] ==
        IF r[1] = r[2] THEN f(r[1]) ELSE sum[LeftOf(r)] + sum[RightOf(r)]
  IN  sum[<<i, j>>]

(* The largest saturated magnitude of a signal.                            *)
Peak(s) ==
  LET larger(p, q) == IF p > q THEN p ELSE q
      peak[r \in (1 .. Len(s)) \X (1 .. Len(s))] ==
        IF r[1] = r[2] THEN SaturatedAbs16(s[r[1]]) ELSE larger(peak[LeftOf(r)], peak[RightOf(r)])
  IN  peak[<<1, Len(s)>>]

=============================================================================
