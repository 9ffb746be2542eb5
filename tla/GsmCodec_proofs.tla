--------------------------- MODULE GsmCodec_proofs ---------------------------
(***************************************************************************)
(* What the GSM 06.10 codec of the native library computes, for every      *)
(* signal: EncodedIs, that all parameters of a frame fit their fields, and *)
(* FrameFollows, that the decoder goes on from where the encoder does.     *)
(*                                                                         *)
(* The first takes most of the module, for it goes through every loop of   *)
(* the encoder: of each, that it has a value (a recursive function of TLA+ *)
(* is a CHOOSE) and of what kind the value is. The recursions are          *)
(* instances of two, by halves of a range and along a loop, of which this  *)
(* is proved by induction once. The only bounds that take an argument are  *)
(* those of the pulses, CodeCovers: the code of a grid's maximum is the    *)
(* code of a number that is not smaller.                                   *)
(***************************************************************************)
EXTENDS GsmCodec, GsmFrame, SequenceTheorems, FiniteSetTheorems,
        WellFoundedInduction, TLAPS

-----------------------------------------------------------------------------
(* Signals: sequences as functions over 1 .. n. *)

(* A sequence of n samples. *)
Samples(s, n) == s = [i \in 1 .. n |-> s[i]]

(* Samples are a sequence of their length, over any set they are all in. *)
LEMMA SamplesSeq ==
  ASSUME NEW n \in Nat, NEW s, Samples(s, n)
  PROVE  Len(s) = n /\ \A V : (\A i \in 1 .. n : s[i] \in V) => s \in Seq(V)
<1>1. ASSUME NEW V, \A i \in 1 .. n : s[i] \in V PROVE s \in Seq(V)
  <2>1. s \in [1 .. n -> V]
    BY <1>1 DEF Samples
  <2>. QED  BY <2>1, SeqDef, Zenon
<1>2. s \in Seq({s[i] : i \in 1 .. n})
  BY <1>1
<1>3. DOMAIN s = 1 .. n /\ Len(s) \in Nat /\ DOMAIN s = 1 .. Len(s)
  BY <1>2, LenProperties, Zenon DEF Samples
<1>4. Len(s) = n
  <2> DEFINE l == Len(s)
  <2>1. l \in Nat /\ 1 .. l = 1 .. n
    BY <1>3, Zenon
  <2> HIDE DEF l
  <2>2. l = n
    BY <2>1
  <2>. QED  BY <2>2 DEF l
<1>. QED  BY <1>1, <1>4

(* SubSeq takes the samples from the m-th to the n-th. *)
LEMMA PartOf ==
  ASSUME NEW s, NEW m \in Int, NEW n \in Int, m <= n
  PROVE  SubSeq(s, m, n) = [i \in 1 .. n - m + 1 |-> s[m + i - 1]]
<1> DEFINE V == {s[i] : i \in m .. n}
<1>1. /\ SubSeq(s, m, n) \in Seq(V)
      /\ Len(SubSeq(s, m, n)) = n - m + 1
      /\ \A i \in 1 .. n - m + 1 : SubSeq(s, m, n)[i] = s[m + i - 1]
  <2>1. \A i \in m .. n : s[i] \in V
    OBVIOUS
  <2> HIDE DEF V
  <2>2. SubSeq(s, m, n) \in Seq(V)
    BY <2>1, SubSeqProperties, Zenon
  <2>4. \A i \in 1 .. n - m + 1 : SubSeq(s, m, n)[i] = s[m + i - 1]
    BY <2>1, SubSeqProperties, SMT
  <2>3. Len(SubSeq(s, m, n)) = n - m + 1
    BY <2>1, SubSeqProperties, SMT
  <2>. QED  BY <2>2, <2>3, <2>4
<1> DEFINE p == SubSeq(s, m, n)
<1> HIDE DEF p
<1>2. p \in [1 .. Len(p) -> V]
  BY <1>1, LenProperties, Zenon DEF p
<1> HIDE DEF V
<1>3. Len(p) = n - m + 1
  BY <1>1 DEF p
<1>. QED  BY <1>1, <1>2, <1>3 DEF p

(* A signal is what Signal makes of its samples: SubSeq leaves it as it    *)
(* is.                                                                     *)
LEMMA Whole ==
  ASSUME NEW n \in Nat \ {0}, NEW s, Samples(s, n)
  PROVE  SubSeq(s, 1, n) = s
<1>1. SubSeq(s, 1, n) = [i \in 1 .. n - 1 + 1 |-> s[1 + i - 1]]
  BY PartOf
<1>. QED  BY <1>1 DEF Samples

(* u is s and then t. *)
Joins(u, s, t, m, n) ==
  /\ Samples(u, m + n)
  /\ \A i \in 1 .. m : u[i] = s[i]
  /\ \A i \in 1 .. n : u[m + i] = t[i]

(* One signal behind the other: the subframes of the residual. *)
LEMMA Joined ==
  ASSUME NEW m \in Nat, NEW n \in Nat, NEW s, NEW t, Samples(s, m), Samples(t, n)
  PROVE  Joins(s \o t, s, t, m, n)
<1> DEFINE V == {s[i] : i \in 1 .. m} \cup {t[i] : i \in 1 .. n}
           p == s \o t
<1>1. s \in Seq(V) /\ t \in Seq(V) /\ Len(s) = m /\ Len(t) = n
  <2>1. (\A i \in 1 .. m : s[i] \in V) /\ (\A i \in 1 .. n : t[i] \in V)
    OBVIOUS
  <2> HIDE DEF V
  <2>. QED  BY <2>1, SamplesSeq
<1> HIDE DEF V
<1>2. /\ p \in Seq(V) /\ Len(p) = Len(s) + Len(t)
      /\ \A i \in 1 .. Len(s) + Len(t) : p[i] = IF i <= Len(s) THEN s[i] ELSE t[i - Len(s)]
  BY <1>1, ConcatProperties, Zenon
<1>3. p \in [1 .. Len(p) -> V]
  BY <1>2, LenProperties, Zenon
<1> HIDE DEF p
<1>4. Len(p) = m + n
  BY <1>1, <1>2
<1>5. Samples(p, m + n)
  BY <1>3, <1>4 DEF Samples
<1>6. \A i \in 1 .. m : p[i] = s[i]
  BY <1>1, <1>2
<1>7. ASSUME NEW i \in 1 .. n PROVE p[m + i] = t[i]
  <2>1. m + i \in 1 .. m + n /\ ~(m + i <= m) /\ m + i - m = i
    OBVIOUS
  <2>. QED  BY <1>1, <1>2, <2>1
<1>. QED  BY <1>5, <1>6, <1>7 DEF p, Joins

-----------------------------------------------------------------------------
(* Recursion: by halves of a range, and along a loop. *)

(* i *)
(* Induction over the numbers, in the form that the provers can use: with  *)
(* a set for the property.                                                 *)
LEMMA Induct ==
  ASSUME NEW T \in SUBSET Nat, 0 \in T, \A n \in T : n + 1 \in T
  PROVE  T = Nat
<1>. SUFFICES ASSUME Nat \ T # {} PROVE FALSE
  OBVIOUS
<1>1. \A x, y \in Nat : <<x, y>> \in OpToRel(<, Nat) <=> x < y
  BY DEF OpToRel
<1>2. PICK x \in Nat \ T : \A y \in Nat \ T : ~(<<y, x>> \in OpToRel(<, Nat))
  <2> DEFINE R == OpToRel(<, Nat)
             U == Nat \ T
  <2>1. IsWellFoundedOn(R, Nat) /\ U \subseteq Nat /\ U # {}
    BY NatLessThanWellFounded
  <2> HIDE DEF R, U
  <2>2. \E x \in U : \A y \in U : ~(<<y, x>> \in R)
    BY <2>1, WFMin
  <2>. QED  BY <2>2 DEF R, U
<1>3. \A y \in Nat : y < x => y \in T
  BY <1>1, <1>2
<1>4. x # 0 /\ x - 1 \in Nat
  OBVIOUS
<1>5. x - 1 \in T
  BY <1>3, <1>4
<1>6. (x - 1) + 1 \in T
  BY <1>5
<1>. QED  BY <1>6

Pairs(i, j) == (i .. j) \X (i .. j)

Splits(r) ==
  /\ r[1] < r[2] =>
       /\ LeftOf(r)[1] <= LeftOf(r)[2] /\ LeftOf(r)[2] - LeftOf(r)[1] < r[2] - r[1]
       /\ RightOf(r)[1] <= RightOf(r)[2] /\ RightOf(r)[2] - RightOf(r)[1] < r[2] - r[1]
       /\ LeftOf(r)[1] = r[1] /\ RightOf(r)[2] = r[2] /\ RightOf(r)[1] = LeftOf(r)[2] + 1
  /\ r[2] < r[1] => LeftOf(r)[2] < LeftOf(r)[1] /\ RightOf(r)[2] < RightOf(r)[1]

(* Halving a range of indices, as SumOver, Peak and MaxCrossCorr do, makes *)
(* two shorter ones that follow each other.                                *)
LEMMA PartsOfPairs ==
  ASSUME NEW i \in Int, NEW j \in Int, NEW r \in Pairs(i, j), r[1] # r[2]
  PROVE  LeftOf(r) \in Pairs(i, j) /\ RightOf(r) \in Pairs(i, j) /\ Splits(r)
<1>1. PICK a \in i .. j, b \in i .. j : r = <<a, b>>
  BY DEF Pairs
<1>2. PICK m \in Int : m = (a + b) \div 2 /\ 2 * m <= a + b /\ a + b <= 2 * m + 1
  <2>1. a + b \in Int
    OBVIOUS
  <2>2. \A c \in Int : c \div 2 \in Int /\ 2 * (c \div 2) <= c /\ c <= 2 * (c \div 2) + 1
    OBVIOUS
  <2>. QED  BY <2>1, <2>2
<1>3. LeftOf(r) = <<a, m>> /\ RightOf(r) = <<m + 1, b>>
  BY <1>1, <1>2 DEF LeftOf, RightOf
<1>4. a # b /\ r[1] = a /\ r[2] = b
  BY <1>1
<1>. QED  BY <1>2, <1>3, <1>4 DEF Pairs, Splits

(* A value for every range of indices: of a single one F, of the others G  *)
(* of their halves.                                                        *)
Halved(h, r, F, G) == IF r[1] = r[2] THEN F[r[1]] ELSE G[<<h[LeftOf(r)], h[RightOf(r)]>>]

Combines(G, V) == G \in [V \X V -> V] /\ \E z \in V : G[<<z, z>>] = z
HasHalves(i, j, V, F, G) ==
  \E h \in [Pairs(i, j) -> V] : h = [r \in Pairs(i, j) |-> Halved(h, r, F, G)]

(* The recursion by halves defines a function, for any way G to combine:   *)
(* so that the value of the CHOOSE in SumOver, Peak or MaxCrossCorr is     *)
(* that function. (By induction over the length of a range.)               *)
LEMMA HalvesExist ==
  ASSUME NEW i \in Int, NEW j \in Int, NEW V, NEW F \in [i .. j -> V], NEW G, Combines(G, V)
  PROVE  HasHalves(i, j, V, F, G)
<1>. PICK z \in V : G \in [V \X V -> V] /\ G[<<z, z>>] = z
  BY DEF Combines
<1> DEFINE D == Pairs(i, j)
           Upto(h, n) == \A r \in D : r[2] - r[1] <= n => h[r] = Halved(h, r, F, G)
           T == {n \in Nat : \E h \in [D -> V] : Upto(h, n)}
<1>0. \A r \in D : r[1] \in i .. j /\ r[2] \in i .. j
  BY DEF Pairs
<1> HIDE DEF D
<1>1. 0 \in T
  <2> DEFINE h == [r \in D |-> IF r[1] = r[2] THEN F[r[1]] ELSE z]
  <2>1. h \in [D -> V]
    BY <1>0
  <2>2. Upto(h, 0)
    <3> SUFFICES ASSUME NEW r \in D, r[2] - r[1] <= 0 PROVE h[r] = Halved(h, r, F, G)
      OBVIOUS
    <3>1. CASE r[1] = r[2]
      BY <3>1 DEF Halved
    <3>2. CASE r[1] # r[2]
      <4>1. r[2] < r[1]
        BY <1>0, <3>2
      <4>2. /\ LeftOf(r) \in D /\ RightOf(r) \in D
            /\ LeftOf(r)[2] < LeftOf(r)[1] /\ RightOf(r)[2] < RightOf(r)[1]
        BY <3>2, <4>1, PartsOfPairs DEF D, Splits
      <4>3. h[LeftOf(r)] = z /\ h[RightOf(r)] = z
        <5>1. \A s \in D : s[2] < s[1] => s[1] # s[2]
          BY <1>0
        <5>. QED  BY <4>2, <5>1
      <4>. QED  BY <3>2, <4>3 DEF Halved
    <3>. QED  BY <3>1, <3>2
  <2>. QED  BY <2>1, <2>2
<1>2. ASSUME NEW n \in T PROVE n + 1 \in T
  <2>1. PICK h \in [D -> V] : Upto(h, n)
    OBVIOUS
  <2> DEFINE g == [r \in D |-> IF r[2] - r[1] <= n THEN h[r] ELSE Halved(h, r, F, G)]
  <2>2. \A r \in D : r[2] - r[1] <= n + 1 => g[r] = Halved(h, r, F, G)
    BY <2>1
  <2>3. \A r \in D : r[2] - r[1] <= n + 1 => Halved(g, r, F, G) = Halved(h, r, F, G)
    <3> SUFFICES ASSUME NEW r \in D, r[2] - r[1] <= n + 1, r[1] # r[2]
                 PROVE  Halved(g, r, F, G) = Halved(h, r, F, G)
      BY DEF Halved
    <3>1. LeftOf(r) \in D /\ RightOf(r) \in D
      BY PartsOfPairs DEF D
    <3>2. LeftOf(r)[2] - LeftOf(r)[1] <= n /\ RightOf(r)[2] - RightOf(r)[1] <= n
      <4>1. r[1] \in Int /\ r[2] \in Int /\ n \in Nat
        BY <1>0
      <4>2. /\ LeftOf(r)[1] \in Int /\ LeftOf(r)[2] \in Int
            /\ RightOf(r)[1] \in Int /\ RightOf(r)[2] \in Int
        BY <1>0, <3>1
      <4>3. CASE r[1] < r[2]
        <5>1. /\ LeftOf(r)[2] - LeftOf(r)[1] < r[2] - r[1]
              /\ RightOf(r)[2] - RightOf(r)[1] < r[2] - r[1]
          BY <4>3, PartsOfPairs DEF D, Splits
        <5>. QED  BY <4>1, <4>2, <5>1
      <4>4. CASE r[2] < r[1]
        <5>1. LeftOf(r)[2] < LeftOf(r)[1] /\ RightOf(r)[2] < RightOf(r)[1]
          BY <4>4, PartsOfPairs DEF D, Splits
        <5>. QED  BY <4>1, <4>2, <5>1
      <4>. QED  BY <4>1, <4>3, <4>4
    <3>3. g[LeftOf(r)] = h[LeftOf(r)] /\ g[RightOf(r)] = h[RightOf(r)]
      BY <3>1, <3>2
    <3> HIDE DEF g
    <3>. QED  BY <3>3 DEF Halved
  <2>4. g \in [D -> V]
    <3>1. \A r \in D : Halved(h, r, F, G) \in V
      <4> SUFFICES ASSUME NEW r \in D PROVE Halved(h, r, F, G) \in V
        OBVIOUS
      <4>1. CASE r[1] = r[2]
        BY <1>0, <4>1 DEF Halved
      <4>2. CASE r[1] # r[2]
        <5>1. LeftOf(r) \in D /\ RightOf(r) \in D
          BY <4>2, PartsOfPairs DEF D
        <5>. QED  BY <4>2, <5>1 DEF Halved
      <4>. QED  BY <4>1, <4>2
    <3>. QED  BY <3>1
  <2>5. Upto(g, n + 1)
    BY <2>2, <2>3
  <2> HIDE DEF Upto, g
  <2>. QED  BY <2>4, <2>5
<1>3. T = Nat
  <2>1. T \in SUBSET Nat
    OBVIOUS
  <2> HIDE DEF T
  <2>. QED  BY <1>1, <1>2, <2>1, Induct
<1>4. PICK n \in Nat : \A r \in D : r[2] - r[1] <= n
  <2>1. CASE i <= j
    <3>1. j - i \in Nat /\ \A r \in D : r[2] - r[1] <= j - i
      BY <1>0, <2>1
    <3>. QED  BY <3>1
  <2>2. CASE ~(i <= j)
    <3>1. D = {}
      BY <1>0, <2>2
    <3>. QED  BY <3>1
  <2>. QED  BY <2>1, <2>2
<1>5. PICK h \in [D -> V] : Upto(h, n)
  BY <1>3
<1>6. h = [r \in D |-> Halved(h, r, F, G)]
  <2>1. \A r \in D : h[r] = Halved(h, r, F, G)
    BY <1>4, <1>5
  <2>. QED  BY <2>1
<1>. QED  BY <1>6 DEF D, HasHalves

(* What holds for single indices and is kept by combining two halves holds *)
(* for all ranges.                                                         *)
LEMMA HalvesHold ==
  ASSUME NEW i \in Int, NEW j \in Int, NEW h, NEW P,
         \A k \in i .. j : h[<<k, k>>] \in P[<<k, k>>],
         \A r \in Pairs(i, j) :
           r[1] < r[2] /\ h[LeftOf(r)] \in P[LeftOf(r)] /\ h[RightOf(r)] \in P[RightOf(r)]
             => h[r] \in P[r],
         NEW r0 \in Pairs(i, j), r0[1] <= r0[2]
  PROVE  h[r0] \in P[r0]
<1> DEFINE D == Pairs(i, j)
           T == {n \in Nat : \A r \in D : r[1] <= r[2] /\ r[2] - r[1] <= n => h[r] \in P[r]}
<1>0. \A r \in D : r[1] \in i .. j /\ r[2] \in i .. j /\ r = <<r[1], r[2]>>
  BY DEF Pairs
<1> HIDE DEF D
<1>1. ASSUME NEW r \in D, r[1] = r[2] PROVE h[r] \in P[r]
  <2>1. r = <<r[1], r[1]>> /\ r[1] \in i .. j
    BY <1>0, <1>1
  <2>2. h[<<r[1], r[1]>>] \in P[<<r[1], r[1]>>]
    BY <2>1
  <2>. QED  BY <2>1, <2>2
<1>2. 0 \in T
  BY <1>0, <1>1
<1>3. ASSUME NEW n \in T PROVE n + 1 \in T
  <2> SUFFICES ASSUME NEW r \in D, r[1] < r[2], r[2] - r[1] <= n + 1 PROVE h[r] \in P[r]
    <3>1. ASSUME \A r \in D : r[1] < r[2] /\ r[2] - r[1] <= n + 1 => h[r] \in P[r]
          PROVE  \A r \in D : r[1] <= r[2] /\ r[2] - r[1] <= n + 1 => h[r] \in P[r]
      <4> SUFFICES ASSUME NEW r \in D, r[1] <= r[2], r[2] - r[1] <= n + 1 PROVE h[r] \in P[r]
        OBVIOUS
      <4>1. r[1] = r[2] \/ r[1] < r[2]
        BY <1>0
      <4>. QED  BY <1>1, <3>1, <4>1
    <3>2. n + 1 \in Nat
      OBVIOUS
    <3>. QED  BY <3>1, <3>2
  <2>1. /\ LeftOf(r) \in D /\ RightOf(r) \in D
        /\ LeftOf(r)[1] <= LeftOf(r)[2] /\ LeftOf(r)[2] - LeftOf(r)[1] < r[2] - r[1]
        /\ RightOf(r)[1] <= RightOf(r)[2] /\ RightOf(r)[2] - RightOf(r)[1] < r[2] - r[1]
    <3>1. r[1] # r[2]
      BY <1>0
    <3>. QED  BY <3>1, PartsOfPairs DEF D, Splits
  <2>2. h[LeftOf(r)] \in P[LeftOf(r)] /\ h[RightOf(r)] \in P[RightOf(r)]
    <3>1. \A s \in D : s[1] \in Int /\ s[2] \in Int
      BY <1>0
    <3>2. \A s \in D : s[1] <= s[2] /\ s[2] - s[1] < r[2] - r[1] => h[s] \in P[s]
      BY <3>1
    <3>. QED  BY <2>1, <3>2
  <2>. QED  BY <2>2 DEF D
<1>4. T = Nat
  <2>1. T \in SUBSET Nat
    OBVIOUS
  <2> HIDE DEF T
  <2>. QED  BY <1>2, <1>3, <2>1, Induct
<1>5. r0[2] - r0[1] \in T
  BY <1>0, <1>4 DEF D
<1>. QED  BY <1>0, <1>5 DEF D

(* sum is the recursive function of SumOver for F over i .. j. *)
Sums(sum, F, i, j) ==
  sum = [r \in (i .. j) \X (i .. j) |->
           IF r[1] = r[2] THEN F[r[1]] ELSE sum[LeftOf(r)] + sum[RightOf(r)]]

Summable(F, i, j) ==
  /\ \E sum : Sums(sum, F, i, j)
  /\ \A sum : Sums(sum, F, i, j) => sum[<<i, j>>] \in Int

(* There is one, and the sum of whole numbers is a whole number. *)
LEMMA SumsExist ==
  ASSUME NEW i \in Int, NEW j \in Int, i <= j, NEW F \in [i .. j -> Int]
  PROVE  Summable(F, i, j)
<1> DEFINE G == [p \in Int \X Int |-> p[1] + p[2]]
<1>1. G \in [Int \X Int -> Int] /\ 0 \in Int /\ G[<<0, 0>>] = 0
  OBVIOUS
<1>2. \A v, w \in Int : G[<<v, w>>] = v + w
  OBVIOUS
<1> HIDE DEF G
<1>3. \E sum : Sums(sum, F, i, j)
  <2>1. PICK h \in [Pairs(i, j) -> Int] : h = [r \in Pairs(i, j) |-> Halved(h, r, F, G)]
    <3>1. Combines(G, Int)
      BY <1>1 DEF Combines
    <3>2. HasHalves(i, j, Int, F, G)
      BY <3>1, HalvesExist, Zenon
    <3>. QED  BY <3>2 DEF HasHalves
  <2>2. \A r \in Pairs(i, j) :
          Halved(h, r, F, G) = IF r[1] = r[2] THEN F[r[1]] ELSE h[LeftOf(r)] + h[RightOf(r)]
    <3> SUFFICES ASSUME NEW r \in Pairs(i, j), r[1] # r[2]
                 PROVE  G[<<h[LeftOf(r)], h[RightOf(r)]>>] = h[LeftOf(r)] + h[RightOf(r)]
      BY DEF Halved
    <3>1. LeftOf(r) \in Pairs(i, j) /\ RightOf(r) \in Pairs(i, j)
      BY PartsOfPairs
    <3>. QED  BY <1>2, <3>1
  <2>3. h = [r \in Pairs(i, j) |-> IF r[1] = r[2] THEN F[r[1]] ELSE h[LeftOf(r)] + h[RightOf(r)]]
    BY <2>1, <2>2
  <2>. QED  BY <2>3 DEF Sums, Pairs
<1>4. ASSUME NEW h, Sums(h, F, i, j) PROVE h[<<i, j>>] \in Int
  <2> DEFINE P == [r \in Pairs(i, j) |-> Int]
             r0 == <<i, j>>
  <2>1. \A r \in Pairs(i, j) : h[r] = IF r[1] = r[2] THEN F[r[1]] ELSE h[LeftOf(r)] + h[RightOf(r)]
    BY <1>4 DEF Sums, Pairs
  <2>2. \A k \in i .. j : h[<<k, k>>] \in P[<<k, k>>]
    BY <2>1 DEF Pairs
  <2>3. \A r \in Pairs(i, j) :
           r[1] < r[2] /\ h[LeftOf(r)] \in P[LeftOf(r)] /\ h[RightOf(r)] \in P[RightOf(r)]
             => h[r] \in P[r]
    <3> SUFFICES ASSUME NEW r \in Pairs(i, j), r[1] < r[2],
                        h[LeftOf(r)] \in P[LeftOf(r)], h[RightOf(r)] \in P[RightOf(r)]
                 PROVE  h[r] \in P[r]
      OBVIOUS
    <3>1. r[1] # r[2]
      BY DEF Pairs
    <3>2. LeftOf(r) \in Pairs(i, j) /\ RightOf(r) \in Pairs(i, j)
      BY <3>1, PartsOfPairs
    <3>. QED  BY <2>1, <3>1, <3>2
  <2>4. r0 \in Pairs(i, j) /\ r0[1] <= r0[2] /\ P[r0] = Int
    BY DEF Pairs
  <2> HIDE DEF P, r0
  <2>5. h[r0] \in P[r0]
    BY <2>2, <2>3, <2>4, HalvesHold, Zenon
  <2>. QED  BY <2>4, <2>5 DEF r0
<1>. QED  BY <1>3, <1>4 DEF Summable

-----------------------------------------------------------------------------
(* The largest magnitude of a signal. *)

(* The values of int16_t, for the provers. *)
LEMMA Int16Is ==
  \A x : x \in Int16 <=> x \in Int /\ -32768 <= x /\ x <= 32767
<1>1. MinInt16 = -32768 /\ MaxInt16 = 32767
  BY DEF MinInt16, MaxInt16
<1>2. MinInt16 \in Int /\ MaxInt16 \in Int
  BY <1>1
<1>3. \A x : x \in Int16 <=> x \in Int /\ MinInt16 <= x /\ x <= MaxInt16
  BY <1>2 DEF Int16
<1>. QED  BY <1>1, <1>3

Larger(p, q) == IF p > q THEN p ELSE q
(* peak is the recursive function of Peak for the n samples of s. *)
Peaks(peak, s, n) ==
  peak = [r \in (1 .. n) \X (1 .. n) |->
            IF r[1] = r[2] THEN SaturatedAbs16(s[r[1]])
            ELSE Larger(peak[LeftOf(r)], peak[RightOf(r)])]

IsPeak(v, s, n) ==
  v \in Nat /\ v <= 32767 /\ \A k \in 1 .. n : SaturatedAbs16(s[k]) <= v

(* There is one, and it bounds the samples. *)
LEMMA PeaksExist ==
  ASSUME NEW n \in Nat \ {0}, NEW s \in [1 .. n -> Int16]
  PROVE  /\ \E peak : Peaks(peak, s, n)
         /\ \A peak : Peaks(peak, s, n) => IsPeak(peak[<<1, n>>], s, n)
<1> DEFINE V == {v \in Nat : v <= 32767}
           F == [k \in 1 .. n |-> SaturatedAbs16(s[k])]
           G == [p \in V \X V |-> Larger(p[1], p[2])]
<1>1. Combines(G, V)
  <2>1. G \in [V \X V -> V]
    BY DEF Larger
  <2>2. 0 \in V /\ G[<<0, 0>>] = 0
    BY DEF Larger
  <2> HIDE DEF G, V
  <2>. QED  BY <2>1, <2>2 DEF Combines
<1>2. F \in [1 .. n -> V]
  <2>1. ASSUME NEW k \in 1 .. n PROVE SaturatedAbs16(s[k]) \in V
    BY Int16Is DEF SaturatedAbs16, MinInt16, MaxInt16
  <2>. QED  BY <2>1
<1>3. \A v, w \in V : G[<<v, w>>] = Larger(v, w)
  OBVIOUS
<1>4. \A k \in 1 .. n : F[k] = SaturatedAbs16(s[k])
  OBVIOUS
<1>5. 1 \in Int /\ n \in Int
  OBVIOUS
<1> HIDE DEF G, F, V
<1>6. \E peak : Peaks(peak, s, n)
  <2>1. HasHalves(1, n, V, F, G)
    <3>1. PICK one \in Int : one = 1
      OBVIOUS
    <3>2. HasHalves(one, n, V, F, G)
      BY <1>1, <1>2, <1>5, <3>1, HalvesExist
    <3>. QED  BY <3>1, <3>2
  <2>2. PICK h \in [Pairs(1, n) -> V] : h = [r \in Pairs(1, n) |-> Halved(h, r, F, G)]
    BY <2>1 DEF HasHalves
  <2>3. \A r \in Pairs(1, n) :
          Halved(h, r, F, G) = IF r[1] = r[2] THEN SaturatedAbs16(s[r[1]])
                               ELSE Larger(h[LeftOf(r)], h[RightOf(r)])
    <3> SUFFICES ASSUME NEW r \in Pairs(1, n)
                 PROVE  /\ r[1] # r[2] => G[<<h[LeftOf(r)], h[RightOf(r)]>>] = Larger(h[LeftOf(r)], h[RightOf(r)])
                        /\ r[1] = r[2] => F[r[1]] = SaturatedAbs16(s[r[1]])
      BY DEF Halved
    <3>1. r[1] # r[2] => LeftOf(r) \in Pairs(1, n) /\ RightOf(r) \in Pairs(1, n)
      BY <1>5, PartsOfPairs
    <3>2. r[1] \in 1 .. n
      BY DEF Pairs
    <3>. QED  BY <1>3, <1>4, <3>1, <3>2
  <2>4. h = [r \in Pairs(1, n) |-> IF r[1] = r[2] THEN SaturatedAbs16(s[r[1]])
                                    ELSE Larger(h[LeftOf(r)], h[RightOf(r)])]
    BY <2>2, <2>3
  <2>. QED  BY <2>4 DEF Peaks, Pairs
<1>7. ASSUME NEW h, Peaks(h, s, n)
      PROVE  IsPeak(h[<<1, n>>], s, n)
  <2> DEFINE P == [r \in Pairs(1, n) |-> {v \in V : \A k \in r[1] .. r[2] : F[k] <= v}]
             r0 == <<1, n>>
  <2>1. \A r \in Pairs(1, n) : h[r] = IF r[1] = r[2] THEN SaturatedAbs16(s[r[1]])
                                      ELSE Larger(h[LeftOf(r)], h[RightOf(r)])
    BY <1>7 DEF Peaks, Pairs
  <2>2. \A k \in 1 .. n : h[<<k, k>>] \in P[<<k, k>>]
    <3> SUFFICES ASSUME NEW k \in 1 .. n PROVE h[<<k, k>>] \in P[<<k, k>>]
      OBVIOUS
    <3>1. <<k, k>> \in Pairs(1, n) /\ F[k] \in V /\ \A m \in k .. k : m = k
      BY <1>2 DEF Pairs
    <3>2. F[k] <= F[k] /\ h[<<k, k>>] = F[k]
      BY <1>4, <2>1, <3>1 DEF V
    <3>. QED  BY <3>1, <3>2
  <2>3. \A r \in Pairs(1, n) :
           r[1] < r[2] /\ h[LeftOf(r)] \in P[LeftOf(r)] /\ h[RightOf(r)] \in P[RightOf(r)]
             => h[r] \in P[r]
    <3> SUFFICES ASSUME NEW r \in Pairs(1, n), r[1] < r[2], NEW v \in P[LeftOf(r)], NEW w \in P[RightOf(r)],
                        v = h[LeftOf(r)], w = h[RightOf(r)]
                 PROVE  h[r] \in P[r]
      OBVIOUS
    <3>1. PICK a \in 1 .. n, b \in 1 .. n, m \in Int :
            /\ r = <<a, b>>
            /\ LeftOf(r) \in Pairs(1, n) /\ LeftOf(r)[1] = a /\ LeftOf(r)[2] = m
            /\ RightOf(r) \in Pairs(1, n) /\ RightOf(r)[1] = m + 1 /\ RightOf(r)[2] = b
      <4>1. r[1] # r[2] /\ r = <<r[1], r[2]>> /\ r[1] \in 1 .. n /\ r[2] \in 1 .. n
        BY DEF Pairs
      <4>2. /\ LeftOf(r) \in Pairs(1, n) /\ RightOf(r) \in Pairs(1, n)
            /\ LeftOf(r)[1] = r[1] /\ RightOf(r)[2] = r[2] /\ RightOf(r)[1] = LeftOf(r)[2] + 1
        <5>1. LeftOf(r) \in Pairs(1, n) /\ RightOf(r) \in Pairs(1, n) /\ Splits(r)
          BY <1>5, <4>1, PartsOfPairs
        <5>. QED  BY <5>1 DEF Splits
      <4>3. LeftOf(r)[2] \in Int
        BY <4>2 DEF Pairs
      <4>. QED  BY <4>1, <4>2, <4>3
    <3>2. v \in V /\ \A k \in a .. m : F[k] <= v
      BY <3>1
    <3>3. w \in V /\ \A k \in m + 1 .. b : F[k] <= w
      BY <3>1
    <3>4. Larger(v, w) \in V
      BY <3>2, <3>3 DEF Larger
    <3>5. \A k \in a .. b : F[k] <= Larger(v, w)
      <4> SUFFICES ASSUME NEW k \in a .. b PROVE F[k] <= Larger(v, w)
        OBVIOUS
      <4>1. k \in 1 .. n /\ F[k] \in Int
        BY <1>2 DEF V
      <4>2. k \in a .. m \/ k \in m + 1 .. b
        OBVIOUS
      <4>. QED  BY <3>2, <3>3, <4>1, <4>2 DEF Larger, V
    <3>6. h[r] = Larger(v, w)
      <4>1. r[1] # r[2]
        BY DEF Pairs
      <4>. QED  BY <2>1, <4>1
    <3>. QED  BY <3>1, <3>4, <3>5, <3>6
  <2>4. r0 \in Pairs(1, n) /\ r0[1] <= r0[2] /\ r0[1] = 1 /\ r0[2] = n
    BY DEF Pairs
  <2> HIDE DEF P, r0
  <2>5. h[r0] \in P[r0]
    BY <1>5, <2>2, <2>3, <2>4, HalvesHold
  <2>6. h[r0] \in V /\ \A k \in 1 .. n : F[k] <= h[r0]
    BY <2>4, <2>5 DEF P
  <2>. QED  BY <1>4, <2>6 DEF r0, V, IsPeak
<1>. QED  BY <1>6, <1>7

(* The loops that look for the largest magnitude (gsm0610_lpc.c,           *)
(* gsm0610_long_term.c, gsm0610_rpe.c) find a bound of all magnitudes that *)
(* 15 bits hold.                                                           *)
LEMMA PeakBounds ==
  ASSUME NEW n \in Nat \ {0}, NEW s \in [1 .. n -> Int16], Len(s) = n
  PROVE  IsPeak(Peak(s), s, n)
<1> DEFINE peak == CHOOSE h : Peaks(h, s, n)
<1>1. Peak(s) = peak[<<1, n>>]
  BY Zenon DEF Peak, Peaks, Larger
<1>2. Peaks(peak, s, n)
  BY PeaksExist, Zenon
<1> HIDE DEF peak
<1>. QED  BY <1>1, <1>2, PeaksExist

(* A lag of the encoder. *)
IsLag(l) == l \in 40 .. 120

-----------------------------------------------------------------------------
(* The search for the lag. *)

Better(p, q) == IF q.max > p.max THEN q ELSE p
Correlation(wt, dp, a) == SumOver(LAMBDA k : wt[k] * Past(dp, k, a), 1, SubLen)
Bests(best, wt, dp) ==
  best = [r \in (40 .. 120) \X (40 .. 120) |->
            IF r[1] = r[2] THEN [max |-> Correlation(wt, dp, r[1]), lag |-> r[1]]
            ELSE Better(best[LeftOf(r)], best[RightOf(r)])]

(* evaluate_ltp_parameters: the lag that correlates best is one of 40 ..   *)
(* 120, whatever the signal and the residual are, for the search goes over *)
(* no other and starts with 40.                                            *)
LEMMA LagIsLag ==
  ASSUME NEW wt, NEW dp
  PROVE  IsLag(MaxCrossCorr(wt, dp).lag)
<1> DEFINE M == {Correlation(wt, dp, a) : a \in 40 .. 120}
           V == [max : M, lag : 40 .. 120]
           F == [a \in 40 .. 120 |-> [max |-> Correlation(wt, dp, a), lag |-> a]]
           best == CHOOSE h : Bests(h, wt, dp)
<1>1. MaxCrossCorr(wt, dp) = Better([max |-> 0, lag |-> 40], best[<<40, 120>>])
  BY Zenon DEF MaxCrossCorr, Bests, Better, Correlation
<1>2. F \in [40 .. 120 -> V]
  OBVIOUS
<1>3. \A p, q \in V : Better(p, q) \in V
  <2> HIDE DEF V
  <2>. QED  BY DEF Better
<1>4. \A p \in V : Better(p, p) = p
  BY DEF Better
<1>5. V # {}
  <2>1. [max |-> Correlation(wt, dp, 40), lag |-> 40] \in V
    OBVIOUS
  <2>. QED  BY <2>1
<1>6. \A p \in V : IsLag(p.lag)
  BY DEF IsLag
<1>7. \A a \in 40 .. 120 : F[a] = [max |-> Correlation(wt, dp, a), lag |-> a]
  OBVIOUS
<1>8. 40 \in Int /\ 120 \in Int
  OBVIOUS
<1> HIDE DEF V, F
<1>9. \E h : Bests(h, wt, dp)
  <2> DEFINE G == [p \in V \X V |-> Better(p[1], p[2])]
  <2>1. Combines(G, V)
    <3>1. G \in [V \X V -> V]
      BY <1>3
    <3>2. PICK z \in V : TRUE
      BY <1>5
    <3>3. G[<<z, z>>] = z
      BY <1>4
    <3> HIDE DEF G
    <3>. QED  BY <3>1, <3>3 DEF Combines
  <2>2. \A p, q \in V : G[<<p, q>>] = Better(p, q)
    OBVIOUS
  <2> HIDE DEF G
  <2>3. PICK h \in [Pairs(40, 120) -> V] : h = [r \in Pairs(40, 120) |-> Halved(h, r, F, G)]
    <3>1. HasHalves(40, 120, V, F, G)
      BY <1>2, <1>8, <2>1, HalvesExist
    <3>. QED  BY <3>1 DEF HasHalves
  <2>4. \A r \in Pairs(40, 120) :
          Halved(h, r, F, G) = IF r[1] = r[2] THEN [max |-> Correlation(wt, dp, r[1]), lag |-> r[1]]
                               ELSE Better(h[LeftOf(r)], h[RightOf(r)])
    <3> SUFFICES ASSUME NEW r \in Pairs(40, 120)
                 PROVE  /\ r[1] # r[2] => G[<<h[LeftOf(r)], h[RightOf(r)]>>] = Better(h[LeftOf(r)], h[RightOf(r)])
                        /\ r[1] = r[2] => F[r[1]] = [max |-> Correlation(wt, dp, r[1]), lag |-> r[1]]
      BY DEF Halved
    <3>1. r[1] # r[2] => LeftOf(r) \in Pairs(40, 120) /\ RightOf(r) \in Pairs(40, 120)
      BY <1>8, PartsOfPairs
    <3>2. r[1] \in 40 .. 120
      BY DEF Pairs
    <3>. QED  BY <1>7, <2>2, <3>1, <3>2
  <2>5. h = [r \in Pairs(40, 120) |->
               IF r[1] = r[2] THEN [max |-> Correlation(wt, dp, r[1]), lag |-> r[1]]
               ELSE Better(h[LeftOf(r)], h[RightOf(r)])]
    BY <2>3, <2>4
  <2>. QED  BY <2>5 DEF Bests, Pairs
<1>10. Bests(best, wt, dp)
  BY <1>9, Zenon
<1> HIDE DEF best
<1>11. best[<<40, 120>>] \in V
  <2> DEFINE P == [r \in Pairs(40, 120) |-> V]
             r0 == <<40, 120>>
  <2>1. \A r \in Pairs(40, 120) :
          best[r] = IF r[1] = r[2] THEN [max |-> Correlation(wt, dp, r[1]), lag |-> r[1]]
                    ELSE Better(best[LeftOf(r)], best[RightOf(r)])
    BY <1>10 DEF Bests, Pairs
  <2>2. \A k \in 40 .. 120 : best[<<k, k>>] \in P[<<k, k>>]
    <3> SUFFICES ASSUME NEW k \in 40 .. 120 PROVE best[<<k, k>>] \in V /\ <<k, k>> \in Pairs(40, 120)
      OBVIOUS
    <3>1. <<k, k>> \in Pairs(40, 120) /\ F[k] \in V
      BY <1>2 DEF Pairs
    <3>2. best[<<k, k>>] = F[k]
      BY <1>7, <2>1, <3>1
    <3>. QED  BY <3>1, <3>2
  <2>3. \A r \in Pairs(40, 120) :
           r[1] < r[2] /\ best[LeftOf(r)] \in P[LeftOf(r)] /\ best[RightOf(r)] \in P[RightOf(r)]
             => best[r] \in P[r]
    <3> SUFFICES ASSUME NEW r \in Pairs(40, 120), r[1] < r[2],
                        best[LeftOf(r)] \in P[LeftOf(r)], best[RightOf(r)] \in P[RightOf(r)]
                 PROVE  best[r] \in V
      OBVIOUS
    <3>1. r[1] # r[2]
      BY DEF Pairs
    <3>2. LeftOf(r) \in Pairs(40, 120) /\ RightOf(r) \in Pairs(40, 120)
      BY <1>8, <3>1, PartsOfPairs
    <3>3. best[LeftOf(r)] \in V /\ best[RightOf(r)] \in V
      BY <3>2
    <3>4. best[r] = Better(best[LeftOf(r)], best[RightOf(r)])
      BY <2>1, <3>1
    <3>. QED  BY <1>3, <3>3, <3>4
  <2>4. r0 \in Pairs(40, 120) /\ r0[1] <= r0[2] /\ P[r0] = V
    BY DEF Pairs
  <2> HIDE DEF P, r0
  <2>5. best[r0] \in P[r0]
    <3>1. PICK i \in Int, j \in Int : i = 40 /\ j = 120
      OBVIOUS
    <3>2. \A k \in i .. j : best[<<k, k>>] \in P[<<k, k>>]
      BY <2>2, <3>1
    <3>3. \A r \in Pairs(i, j) :
             r[1] < r[2] /\ best[LeftOf(r)] \in P[LeftOf(r)] /\ best[RightOf(r)] \in P[RightOf(r)]
               => best[r] \in P[r]
      BY <2>3, <3>1
    <3>4. r0 \in Pairs(i, j) /\ r0[1] <= r0[2]
      BY <2>4, <3>1
    <3>. QED  BY <3>2, <3>3, <3>4, HalvesHold, Zenon
  <2>. QED  BY <2>4, <2>5 DEF r0
<1>12. IsLag(40)
  BY DEF IsLag
<1>13. IsLag(best[<<40, 120>>].lag)
  BY <1>6, <1>11
<1> DEFINE p == [max |-> 0, lag |-> 40]
           q == best[<<40, 120>>]
<1>14. p.lag = 40
  OBVIOUS
<1> HIDE DEF p, q
<1>. QED  BY <1>1, <1>12, <1>13, <1>14 DEF Better, p, q

-----------------------------------------------------------------------------
(* Saturated arithmetic. *)

(* Powers of two are positive. *)
LEMMA TwoIs ==
  \A n \in 0 .. 30 : Two(n) \in Int /\ Two(n) > 0
<1>1. ASSUME NEW n \in 0 .. 30 PROVE Two(n) \in Int /\ Two(n) > 0
  <2>1. CASE n \in 0 .. 10
    BY <2>1 DEF Two, PowerOfTwo
  <2>2. CASE n \in 11 .. 20
    BY <2>2 DEF Two, PowerOfTwo
  <2>3. CASE n \in 21 .. 30
    BY <2>3 DEF Two, PowerOfTwo
  <2>. QED  BY <2>1, <2>2, <2>3
<1>. QED  BY <1>1

(* Shifts of whole numbers. *)
LEMMA Shifted ==
  ASSUME NEW a \in Int, NEW n \in 0 .. 30
  PROVE  Shr(a, n) \in Int /\ Shl(a, n) \in Int
<1>1. Two(n) \in Int /\ Two(n) > 0
  BY TwoIs
<1>. QED  BY <1>1 DEF Shr, Shl

(* Saturation makes 16 bits. *)
LEMMA SaturatedIs ==
  \A a \in Int : Saturate(a) \in Int16 /\ Saturate(a) \in Int
BY Int16Is DEF Saturate, MinInt16, MaxInt16

(* saturated_add16 and saturated_sub16 return 16 bits. *)
LEMMA Added ==
  ASSUME NEW a \in Int, NEW b \in Int
  PROVE  /\ SaturatedAdd16(a, b) \in Int16 /\ SaturatedAdd16(a, b) \in Int
         /\ SaturatedSub16(a, b) \in Int16 /\ SaturatedSub16(a, b) \in Int
BY SaturatedIs DEF SaturatedAdd16, SaturatedSub16

(* saturated_mul16 and gsm_mult_r return numbers. *)
LEMMA Multiplied ==
  ASSUME NEW a \in Int, NEW b \in Int
  PROVE  SaturatedMul16(a, b) \in Int /\ MultR(a, b) \in Int
<1>1. a * b \in Int /\ a * b + Half \in Int /\ 15 \in 0 .. 30
  BY DEF Half
<1>2. Shr(a * b, 15) \in Int /\ Shr(a * b + Half, 15) \in Int
  BY <1>1, Shifted
<1>. QED  BY <1>2 DEF SaturatedMul16, MultR, MaxInt16

(* A cast to int16_t makes 16 bits. *)
LEMMA Narrowed ==
  ASSUME NEW a \in Int
  PROVE  ToInt16(a) \in Int16 /\ ToInt16(a) \in Int
<1>1. PICK l \in Int : l = a % 65536 /\ 0 <= l /\ l < 65536
  OBVIOUS
<1>. QED  BY <1>1, Int16Is DEF ToInt16, MaxInt16

(* saturated_abs16 returns a number. *)
LEMMA Magnitude ==
  ASSUME NEW a \in Int
  PROVE  SaturatedAbs16(a) \in Int
BY DEF SaturatedAbs16, MaxInt16, MinInt16

(* top_bit: the highest bit of a positive number of at most 31 bits is one *)
(* of them.                                                                *)
LEMMA TopBitIs ==
  ASSUME NEW a \in Int, a > 0
  PROVE  TopBit(a) \in 0 .. 30 /\ Two(TopBit(a)) <= a /\ (TopBit(a) < 30 => a < Two(TopBit(a) + 1))
<1> DEFINE B == {k \in Nat : k <= 30 /\ Two(k) <= a}
<1>1. \E k \in 0 .. 30 : Two(k) <= a /\ (k < 30 => a < Two(k + 1))
  <2> SUFFICES ASSUME \A k \in 0 .. 30 : Two(k) <= a => k < 30 /\ Two(k + 1) <= a PROVE FALSE
    <3>1. \A k \in 0 .. 30 : k < 30 => k + 1 \in 0 .. 30
      OBVIOUS
    <3>2. \A k \in 0 .. 30 : Two(k) \in Int
      BY TwoIs
    <3>. QED  BY <3>1, <3>2
  <2> DEFINE T == {n \in Nat : n <= 30 => Two(n) <= a}
  <2>1. 0 \in T
    BY DEF Two, PowerOfTwo
  <2>2. \A n \in T : n + 1 \in T
    OBVIOUS
  <2>3. T = Nat
    <3>1. T \in SUBSET Nat
      OBVIOUS
    <3> HIDE DEF T
    <3>. QED  BY <2>1, <2>2, <3>1, Induct
  <2>4. 30 \in T
    BY <2>3
  <2>. QED  BY <2>4
<1>. QED  BY <1>1 DEF TopBit

(* gsm0610_norm: by how much 32 bits can be shifted is defined for all but *)
(* 0 and -1.                                                               *)
LEMMA NormIs ==
  ASSUME NEW a \in Int, a # 0, a # -1
  PROVE  Norm(a) \in 0 .. 30
<1> DEFINE m == IF a < 0 THEN -a - 1 ELSE a
<1>1. m \in Int /\ m > 0
  OBVIOUS
<1> HIDE DEF m
<1>2. TopBit(m) \in 0 .. 30
  BY <1>1, TopBitIs
<1>. QED  BY <1>2 DEF Norm, m

-----------------------------------------------------------------------------
(* Loops that carry a value along. *)

(* f[n] is z, and every later value up to the m-th is G of the one before  *)
(* and of its index: the loops that carry a value along.                   *)
Counted(f, n, m, z, G) ==
  f = [k \in n .. m |-> IF k = n THEN z ELSE G[<<f[k - 1], k>>]]

(* Such a loop has its values. *)
LEMMA CountedExist ==
  ASSUME NEW n \in Int, NEW m \in Int, n <= m, NEW z, NEW G
  PROVE  \E f : Counted(f, n, m, z, G)
<1> DEFINE Upto(f, l) == \A k \in n .. m : k <= l + n => f[k] = IF k = n THEN z ELSE G[<<f[k - 1], k>>]
           T == {l \in Nat : \E f : f = [k \in n .. m |-> f[k]] /\ Upto(f, l)}
<1>1. 0 \in T
  <2> DEFINE f == [k \in n .. m |-> z]
  <2>1. Upto(f, 0) /\ f = [k \in n .. m |-> f[k]]
    OBVIOUS
  <2> HIDE DEF f, Upto
  <2>. QED  BY <2>1
<1>2. ASSUME NEW l \in T PROVE l + 1 \in T
  <2>1. PICK f : f = [k \in n .. m |-> f[k]] /\ Upto(f, l)
    OBVIOUS
  <2> DEFINE g == [k \in n .. m |-> IF k <= l + n THEN f[k] ELSE G[<<f[k - 1], k>>]]
  <2>2. ASSUME NEW k \in n .. m, k <= l + 1 + n
        PROVE  g[k] = IF k = n THEN z ELSE G[<<g[k - 1], k>>]
    <3>0. k \in Int /\ n \in Int /\ l \in Nat
      OBVIOUS
    <3>1. CASE k = n
      <4>1. g[k] = f[k] /\ f[k] = z
        BY <2>1, <3>0, <3>1
      <4> HIDE DEF g
      <4>. QED  BY <3>1, <4>1
    <3>2. CASE k # n
      <4>1. k - 1 \in n .. m /\ k - 1 <= l + n
        BY <2>2, <3>0, <3>2
      <4>2. g[k - 1] = f[k - 1]
        BY <4>1
      <4>3. g[k] = G[<<f[k - 1], k>>]
        BY <2>1, <3>0, <3>2
      <4> HIDE DEF g
      <4>. QED  BY <3>2, <4>2, <4>3
    <3>. QED  BY <3>1, <3>2
  <2>3. g = [k \in n .. m |-> g[k]]
    OBVIOUS
  <2> HIDE DEF g
  <2>4. Upto(g, l + 1)
    BY <2>2
  <2>5. l + 1 \in Nat
    OBVIOUS
  <2> HIDE DEF Upto
  <2>. QED  BY <2>3, <2>4, <2>5
<1>3. T = Nat
  <2>1. T \in SUBSET Nat
    OBVIOUS
  <2> HIDE DEF T
  <2>. QED  BY <1>1, <1>2, <2>1, Induct
<1>4. m - n \in T
  BY <1>3
<1>5. PICK f : f = [k \in n .. m |-> f[k]] /\ Upto(f, m - n)
  BY <1>4
<1>6. \A k \in n .. m : f[k] = IF k = n THEN z ELSE G[<<f[k - 1], k>>]
  BY <1>5
<1>. QED  BY <1>5, <1>6 DEF Counted

(* A loop's invariant that holds at first and is kept by every turn holds  *)
(* all along.                                                              *)
LEMMA CountedHold ==
  ASSUME NEW n \in Int, NEW m \in Int, n <= m, NEW f, NEW P, f[n] \in P[n],
         \A k \in n + 1 .. m : f[k - 1] \in P[k - 1] => f[k] \in P[k]
  PROVE  \A k \in n .. m : f[k] \in P[k]
<1> DEFINE T == {l \in Nat : n + l <= m => f[n + l] \in P[n + l]}
<1>1. 0 \in T
  OBVIOUS
<1>2. ASSUME NEW l \in T PROVE l + 1 \in T
  <2> SUFFICES ASSUME n + (l + 1) <= m PROVE f[n + (l + 1)] \in P[n + (l + 1)]
    OBVIOUS
  <2>1. PICK k \in n + 1 .. m : k = n + (l + 1) /\ k - 1 = n + l
    OBVIOUS
  <2>2. f[k - 1] \in P[k - 1]
    BY <2>1
  <2>. QED  BY <2>1, <2>2
<1>3. T = Nat
  <2>1. T \in SUBSET Nat
    OBVIOUS
  <2> HIDE DEF T
  <2>. QED  BY <1>1, <1>2, <2>1, Induct
<1>4. ASSUME NEW k \in n .. m PROVE f[k] \in P[k]
  <2>1. k - n \in T /\ n + (k - n) = k
    BY <1>3
  <2>. QED  BY <2>1
<1>. QED  BY <1>4

(* One turn of gsm_div. *)
NextBit(last, denom) ==
  IF 2 * last[2] >= denom THEN <<2 * last[1] + 1, 2 * last[2] - denom>>
  ELSE <<2 * last[1], 2 * last[2]>>
Bits(bits, num, denom) ==
  bits = [k \in 0 .. 15 |-> IF k = 0 THEN <<0, num>> ELSE NextBit(bits[k - 1], denom)]

(* gsm_div returns a number, whatever its operands. *)
LEMMA Divided ==
  ASSUME NEW num \in Int, NEW denom \in Int
  PROVE  GsmDiv(num, denom) \in Int
<1> DEFINE bits == CHOOSE b : Bits(b, num, denom)
           V == Int \X Int
           P == [k \in 0 .. 15 |-> V]
<1>1. GsmDiv(num, denom) = IF num = 0 THEN 0 ELSE bits[15][1]
  BY Zenon DEF GsmDiv, Bits, NextBit
<1>2. \A v \in V : NextBit(v, denom) \in V
  BY DEF NextBit
<1>3. <<0, num>> \in V
  OBVIOUS
<1>4. ASSUME NEW b, b[0] = <<0, num>>, \A k \in 1 .. 15 : b[k - 1] \in V => b[k] = NextBit(b[k - 1], denom)
      PROVE  \A k \in 0 .. 15 : b[k] \in V
  <2> HIDE DEF V
  <2>1. b[0] \in P[0]
    BY <1>3, <1>4
  <2>2. \A k \in 0 + 1 .. 15 : b[k - 1] \in P[k - 1] => b[k] \in P[k]
    BY <1>2, <1>4
  <2>3. \A k \in 0 .. 15 : b[k] \in P[k]
    <3> HIDE DEF P
    <3>. QED  BY <2>1, <2>2, CountedHold
  <2>. QED  BY <2>3
<1> HIDE DEF V, bits
<1>5. \E b : Bits(b, num, denom)
  <2> DEFINE G == [q \in V \X (0 .. 15) |-> NextBit(q[1], denom)]
  <2>1. PICK b : Counted(b, 0, 15, <<0, num>>, G)
    BY CountedExist
  <2>2. b = [k \in 0 .. 15 |-> IF k = 0 THEN <<0, num>> ELSE G[<<b[k - 1], k>>]]
    BY <2>1 DEF Counted
  <2>3. \A k \in 0 .. 15 : b[k] \in V
    BY <1>4, <2>2
  <2>4. \A k \in 0 .. 15 : k # 0 => G[<<b[k - 1], k>>] = NextBit(b[k - 1], denom)
    BY <2>3
  <2>5. b = [k \in 0 .. 15 |-> IF k = 0 THEN <<0, num>> ELSE NextBit(b[k - 1], denom)]
    BY <2>2, <2>4
  <2>. QED  BY <2>5 DEF Bits
<1>6. Bits(bits, num, denom)
  BY <1>5, Zenon DEF bits
<1>7. bits[15] \in V
  BY <1>4, <1>6 DEF Bits
<1>. QED  BY <1>1, <1>7 DEF V

-----------------------------------------------------------------------------
(* Weighting filter. *)

(* A signal is the sequence of its samples. *)
LEMMA Kept ==
  ASSUME NEW n \in Nat \ {0}, NEW V, NEW s \in [1 .. n -> V]
  PROVE  SubSeq(s, 1, n) = s /\ Len(s) = n /\ Samples(s, n)
<1>1. Samples(s, n)
  BY DEF Samples
<1>2. SubSeq(s, 1, n) = s
  BY <1>1, Whole, Zenon
<1>3. Len(s) = n
  BY <1>1, SamplesSeq
<1>. QED  BY <1>1, <1>2, <1>3

(* Two signals, one behind the other. *)
LEMMA Linked ==
  ASSUME NEW m \in Nat, NEW n \in Nat, NEW V, NEW s \in [1 .. m -> V], NEW t \in [1 .. n -> V]
  PROVE  s \o t \in [1 .. m + n -> V]
<1>1. Samples(s, m) /\ Samples(t, n)
  BY DEF Samples
<1>2. Joins(s \o t, s, t, m, n)
  BY <1>1, Joined, Zenon
<1> DEFINE u == s \o t
<1> HIDE DEF u
<1>3. /\ u = [i \in 1 .. m + n |-> u[i]]
      /\ \A i \in 1 .. m : u[i] = s[i]
      /\ \A i \in 1 .. n : u[m + i] = t[i]
  BY <1>2 DEF Joins, Samples, u
<1>4. ASSUME NEW i \in 1 .. m + n PROVE u[i] \in V
  <2>1. CASE i <= m
    <3>1. i \in 1 .. m
      BY <2>1
    <3>. QED  BY <1>3, <3>1
  <2>2. CASE ~(i <= m)
    <3>1. i - m \in 1 .. n /\ m + (i - m) = i
      BY <2>2
    <3>2. u[m + (i - m)] = t[i - m]
      BY <1>3, <3>1
    <3>3. t[i - m] \in V
      BY <3>1
    <3>. QED  BY <3>1, <3>2, <3>3
  <2>. QED  BY <2>1, <2>2
<1>5. u \in [1 .. m + n -> V]
  BY <1>3, <1>4
<1>. QED  BY <1>5 DEF u

(* Zeros(n) are n zeros. *)
LEMMA ZerosAre ==
  ASSUME NEW n \in Nat \ {0}
  PROVE  Zeros(n) \in [1 .. n -> {0}]
<1> DEFINE s == [k \in 1 .. n |-> 0]
<1>1. Zeros(n) = SubSeq(s, 1, n)
  BY Zenon DEF Zeros, Signal
<1>2. s \in [1 .. n -> {0}]
  OBVIOUS
<1> HIDE DEF s
<1>. QED  BY <1>1, <1>2, Kept

(* The convolution of weighting_filter at the k-th sample. *)
Window(padded, k) == SumOver(LAMBDA i : padded[k + i - 1] * H[i], 1, 11)

(* Its sum is a number. *)
LEMMA WindowIs ==
  ASSUME NEW padded \in [1 .. 50 -> Int], NEW k \in 1 .. 40
  PROVE  Window(padded, k) \in Int
<1> DEFINE F == [i \in 1 .. 11 |-> padded[k + i - 1] * H[i]]
           body(sum) == [r \in (1 .. 11) \X (1 .. 11) |->
                           IF r[1] = r[2] THEN padded[k + r[1] - 1] * H[r[1]]
                           ELSE sum[LeftOf(r)] + sum[RightOf(r)]]
           s == CHOOSE sum : sum = body(sum)
<1>1. Window(padded, k) = s[<<1, 11>>]
  BY Zenon DEF Window, SumOver
<1>2. F \in [1 .. 11 -> Int]
  <2>1. \A i \in 1 .. 11 : H[i] \in Int
    BY DEF H
  <2>2. \A i \in 1 .. 11 : padded[k + i - 1] \in Int
    OBVIOUS
  <2>3. \A i \in 1 .. 11 : padded[k + i - 1] * H[i] \in Int
    BY <2>1, <2>2
  <2>. QED  BY <2>3
<1>3. \A sum : Sums(sum, F, 1, 11) <=> sum = body(sum)
  <2>1. ASSUME NEW sum
        PROVE  [r \in (1 .. 11) \X (1 .. 11) |-> IF r[1] = r[2] THEN F[r[1]] ELSE sum[LeftOf(r)] + sum[RightOf(r)]]
               = body(sum)
    OBVIOUS
  <2> HIDE DEF F, body
  <2>. QED  BY <2>1 DEF Sums
<1> HIDE DEF F, body
<1>4. /\ \E sum : Sums(sum, F, 1, 11)
      /\ \A sum : Sums(sum, F, 1, 11) => sum[<<1, 11>>] \in Int
  <2>1. Summable(F, 1, 11)
    <3>1. 1 \in Int /\ 11 \in Int /\ 1 <= 11
      OBVIOUS
    <3>. QED  BY <1>2, <3>1, SumsExist
  <2>. QED  BY <2>1 DEF Summable
<1>5. s = body(s)
  BY <1>3, <1>4
<1>. QED  BY <1>1, <1>3, <1>4, <1>5

(* weighting_filter makes 40 samples of 16 bits. *)
LEMMA WeightedIs ==
  ASSUME NEW e \in [1 .. 40 -> Int]
  PROVE  WeightingFilter(e) \in [1 .. 40 -> Int16]
<1> DEFINE padded == Zeros(5) \o e \o Zeros(5)
           x == [k \in 1 .. 40 |-> Saturate(Shr(4096 + Window(padded, k), 13))]
<1>1. WeightingFilter(e) = SubSeq(x, 1, 40)
  BY Zenon DEF WeightingFilter, Signal, SubLen, Window
<1>2. padded \in [1 .. 50 -> Int]
  <2>1. Zeros(5) \in [1 .. 5 -> Int]
    <3>1. Zeros(5) \in [1 .. 5 -> {0}]
      <4>1. 5 \in Nat \ {0}
        OBVIOUS
      <4>. QED  BY <4>1, ZerosAre
    <3>. QED  BY <3>1
  <2>2. PICK z \in [1 .. 5 -> Int] : z = Zeros(5)
    BY <2>1
  <2>3. z \o e \in [1 .. 5 + 40 -> Int]
    BY Linked
  <2>4. PICK y \in [1 .. 45 -> Int] : y = z \o e
    <3>1. 5 + 40 = 45
      OBVIOUS
    <3>. QED  BY <2>3, <3>1
  <2>5. y \o z \in [1 .. 45 + 5 -> Int]
    BY Linked
  <2>6. 45 + 5 = 50
    OBVIOUS
  <2>7. y \o z \in [1 .. 50 -> Int]
    BY <2>5, <2>6
  <2>. QED  BY <2>2, <2>4, <2>7
<1> HIDE DEF padded
<1>3. x \in [1 .. 40 -> Int16]
  <2>1. ASSUME NEW k \in 1 .. 40 PROVE Saturate(Shr(4096 + Window(padded, k), 13)) \in Int16
    <3>1. 4096 + Window(padded, k) \in Int /\ 13 \in 0 .. 30
      BY <1>2, WindowIs
    <3>2. Shr(4096 + Window(padded, k), 13) \in Int
      BY <3>1, Shifted
    <3>. QED  BY <3>2, SaturatedIs
  <2>. QED  BY <2>1
<1> HIDE DEF x
<1>4. SubSeq(x, 1, 40) = x
  BY <1>3, Kept
<1>. QED  BY <1>1, <1>3, <1>4

-----------------------------------------------------------------------------
(* Grid selection and gain. *)

(* The energy of the m-th grid. *)
Energy(x, m) == SumOver(LAMBDA i : Shr(x[m + 3 * i - 2], 2) * Shr(x[m + 3 * i - 2], 2), 1, 13)

(* It is a number. *)
LEMMA EnergyIs ==
  ASSUME NEW x \in [1 .. 40 -> Int16], NEW m \in 0 .. 3
  PROVE  Energy(x, m) \in Int
<1> DEFINE F == [i \in 1 .. 13 |-> Shr(x[m + 3 * i - 2], 2) * Shr(x[m + 3 * i - 2], 2)]
           body(sum) == [r \in (1 .. 13) \X (1 .. 13) |->
                           IF r[1] = r[2] THEN Shr(x[m + 3 * r[1] - 2], 2) * Shr(x[m + 3 * r[1] - 2], 2)
                           ELSE sum[LeftOf(r)] + sum[RightOf(r)]]
           s == CHOOSE sum : sum = body(sum)
<1>1. Energy(x, m) = s[<<1, 13>>]
  BY Zenon DEF Energy, SumOver
<1>2. F \in [1 .. 13 -> Int]
  <2>1. ASSUME NEW i \in 1 .. 13 PROVE F[i] \in Int
    <3>1. m + 3 * i - 2 \in 1 .. 40 /\ 2 \in 0 .. 30
      OBVIOUS
    <3>2. PICK a \in Int : a = x[m + 3 * i - 2]
      BY <3>1, Int16Is
    <3>3. PICK b \in Int : b = Shr(a, 2)
      BY <3>1, Shifted
    <3>4. b * b \in Int
      OBVIOUS
    <3>. QED  BY <3>2, <3>3, <3>4
  <2>. QED  BY <2>1
<1>3. \A sum : Sums(sum, F, 1, 13) <=> sum = body(sum)
  <2>1. ASSUME NEW sum
        PROVE  [r \in (1 .. 13) \X (1 .. 13) |-> IF r[1] = r[2] THEN F[r[1]] ELSE sum[LeftOf(r)] + sum[RightOf(r)]]
               = body(sum)
    OBVIOUS
  <2> HIDE DEF F, body
  <2>. QED  BY <2>1 DEF Sums
<1> HIDE DEF F, body
<1>4. /\ \E sum : Sums(sum, F, 1, 13)
      /\ \A sum : Sums(sum, F, 1, 13) => sum[<<1, 13>>] \in Int
  <2>1. Summable(F, 1, 13)
    <3>1. 1 \in Int /\ 13 \in Int /\ 1 <= 13
      OBVIOUS
    <3>. QED  BY <1>2, <3>1, SumsExist
  <2>. QED  BY <2>1 DEF Summable
<1>5. s = body(s)
  BY <1>3, <1>4
<1>. QED  BY <1>1, <1>3, <1>4, <1>5

(* rpe_grid_selection finds one of the four grids, with its 13 pulses. *)
LEMMA GridIs ==
  ASSUME NEW x \in [1 .. 40 -> Int16]
  PROVE  /\ GridSelection(x).Mc \in 0 .. 3
         /\ GridSelection(x).xM \in [1 .. 13 -> Int16]
<1> DEFINE EM == [m \in 0 .. 3 |-> 2 * Energy(x, m)]
           best(m) == m \in 0 .. 3 /\ (\A n \in 0 .. 3 : EM[n] <= EM[m]) /\ (\A n \in 0 .. m - 1 : EM[n] < EM[m])
           Mc == CHOOSE m \in 0 .. 3 : /\ \A n \in 0 .. 3 : EM[n] <= EM[m]
                                       /\ \A n \in 0 .. m - 1 : EM[n] < EM[m]
           xM == [i \in 1 .. 13 |-> x[Mc + 3 * i - 2]]
           g == GridSelection(x)
<1>1. g.Mc = Mc /\ g.xM = SubSeq(xM, 1, 13)
  <2>1. g = [Mc |-> Mc, xM |-> SubSeq(xM, 1, 13)]
    BY Zenon DEF GridSelection, Energy, Signal
  <2> HIDE DEF g, Mc, xM
  <2>. QED  BY <2>1
<1> HIDE DEF g
<1>2. \A m \in 0 .. 3 : EM[m] \in Int
  BY EnergyIs
<1> HIDE DEF EM
<1>3. PICK m \in 0 .. 3 : (\A n \in 0 .. 3 : EM[n] <= EM[m]) /\ (\A n \in 0 .. m - 1 : EM[n] < EM[m])
  <2>1. PICK a \in Int, b \in Int, c \in Int, d \in Int : EM[0] = a /\ EM[1] = b /\ EM[2] = c /\ EM[3] = d
    <3>1. 0 \in 0 .. 3 /\ 1 \in 0 .. 3 /\ 2 \in 0 .. 3 /\ 3 \in 0 .. 3
      OBVIOUS
    <3>2. EM[0] \in Int /\ EM[1] \in Int /\ EM[2] \in Int /\ EM[3] \in Int
      BY <1>2, <3>1
    <3>. QED  BY <3>2
  <2>2. \A n \in 0 .. 3 : n = 0 \/ n = 1 \/ n = 2 \/ n = 3
    OBVIOUS
  <2>3. CASE b <= a /\ c <= a /\ d <= a
    BY <2>1, <2>2, <2>3
  <2>4. CASE a < b /\ c <= b /\ d <= b
    BY <2>1, <2>2, <2>4
  <2>5. CASE a < c /\ b < c /\ d <= c
    BY <2>1, <2>2, <2>5
  <2>6. CASE a < d /\ b < d /\ c < d
    BY <2>1, <2>2, <2>6
  <2>7. \/ b <= a /\ c <= a /\ d <= a
        \/ a < b /\ c <= b /\ d <= b
        \/ a < c /\ b < c /\ d <= c
        \/ a < d /\ b < d /\ c < d
    OBVIOUS
  <2>. QED  BY <2>3, <2>4, <2>5, <2>6, <2>7
<1>4. Mc \in 0 .. 3
  BY <1>3
<1> HIDE DEF Mc
<1>5. xM \in [1 .. 13 -> Int16]
  <2>1. \A i \in 1 .. 13 : Mc + 3 * i - 2 \in 1 .. 40
    BY <1>4
  <2>. QED  BY <2>1
<1>6. SubSeq(xM, 1, 13) = xM
  <2>1. 13 \in Nat \ {0}
    OBVIOUS
  <2> HIDE DEF xM
  <2>. QED  BY <1>5, <2>1, Kept
<1>. QED  BY <1>1, <1>4, <1>5, <1>6 DEF g

(* The coded gain of the long term predictor has two bits. *)
LEMMA GainIs ==
  ASSUME NEW L_max, NEW L_power
  PROVE  GainCode(L_max, L_power) \in 0 .. 3
<1> DEFINE temp == Norm(L_power)
           R == Shr(Shl(L_max, temp), 16)
           S == Shr(Shl(L_power, temp), 16)
           fits(b) == b = 3 \/ R <= SaturatedMul16(S, DLB[b + 1])
<1> HIDE DEF R, S, temp
<1>1. \E b \in 0 .. 3 : fits(b) /\ \A c \in 0 .. b - 1 : ~fits(c)
  <2>1. fits(3)
    OBVIOUS
  <2> DEFINE B == {b \in 0 .. 3 : fits(b)}
  <2> HIDE DEF fits
  <2>2. CASE fits(0)
    BY <2>2
  <2>3. CASE ~fits(0) /\ fits(1)
    BY <2>3
  <2>4. CASE ~fits(0) /\ ~fits(1) /\ fits(2)
    <3>1. \A c \in 0 .. 2 - 1 : c = 0 \/ c = 1
      OBVIOUS
    <3>. QED  BY <2>4, <3>1
  <2>5. CASE ~fits(0) /\ ~fits(1) /\ ~fits(2)
    <3>1. \A c \in 0 .. 3 - 1 : c = 0 \/ c = 1 \/ c = 2
      OBVIOUS
    <3>. QED  BY <2>1, <2>5, <3>1
  <2>. QED  BY <2>2, <2>3, <2>4, <2>5
<1> DEFINE ch == CHOOSE b \in 0 .. 3 : fits(b) /\ \A c \in 0 .. b - 1 : ~fits(c)
<1>2. GainCode(L_max, L_power) = IF L_max <= 0 THEN 0 ELSE IF L_max >= L_power THEN 3 ELSE ch
  BY Zenon DEF GainCode, R, S, temp
<1>3. ch \in 0 .. 3
  <2> HIDE DEF fits
  <2>. QED  BY <1>1
<1> HIDE DEF ch
<1>. QED  BY <1>2, <1>3

-----------------------------------------------------------------------------
(* Quantization of the pulses: the code of the maximum covers it. *)

(* The highest bits of the mantissas that ExpMant normalizes. *)
LEMMA SmallTopBits ==
  ASSUME NEW a \in 1 .. 7
  PROVE  TopBit(a) = IF a = 1 THEN 0 ELSE IF a <= 3 THEN 1 ELSE 2
<1>1. \A n \in 3 .. 30 : Two(n) >= 8
  <2>1. ASSUME NEW n \in 3 .. 30 PROVE Two(n) >= 8
    <3>1. CASE n \in 3 .. 10
      BY <3>1 DEF Two, PowerOfTwo
    <3>2. CASE n \in 11 .. 20
      BY <3>2 DEF Two, PowerOfTwo
    <3>3. CASE n \in 21 .. 30
      BY <3>3 DEF Two, PowerOfTwo
    <3>. QED  BY <3>1, <3>2, <3>3
  <2>. QED  BY <2>1
<1>2. PICK t \in 0 .. 30 : t = TopBit(a) /\ Two(t) <= a /\ (t < 30 => a < Two(t + 1))
  <2>1. a \in Int /\ a > 0
    OBVIOUS
  <2>. QED  BY <2>1, TopBitIs
<1>3. t = 0 \/ t = 1 \/ t = 2
  <2>1. CASE t \in 3 .. 30
    <3>1. Two(t) >= 8 /\ Two(t) \in Int
      BY <1>1, <2>1, TwoIs
    <3>. QED  BY <1>2, <3>1
  <2>. QED  BY <2>1
<1>4. Two(0) = 1 /\ Two(1) = 2 /\ Two(2) = 4 /\ Two(3) = 8
  BY DEF Two, PowerOfTwo
<1>5. CASE t = 0
  <2>1. a = 1
    BY <1>2, <1>4, <1>5
  <2>. QED  BY <1>2, <1>5, <2>1
<1>6. CASE t = 1
  <2>1. a = 2 \/ a = 3
    BY <1>2, <1>4, <1>6
  <2>. QED  BY <1>2, <1>6, <2>1
<1>7. CASE t = 2
  <2>1. a >= 4
    BY <1>2, <1>4, <1>7
  <2>. QED  BY <1>2, <1>7, <2>1
<1>. QED  BY <1>3, <1>5, <1>6, <1>7

(* apcm_quantization_xmaxc_to_exp_mant, for all codes q + 8 * e of a       *)
(* maximum: the exponent and the mantissa they stand for.                  *)
LEMMA ExpMantIs ==
  ASSUME NEW q \in 0 .. 15, NEW e \in 0 .. 6, e > 0 => q >= 8
  PROVE  /\ q >= 8 => ExpMant(q + 8 * e) = [exp |-> e, mant |-> q - 8]
         /\ q \in 4 .. 7 => ExpMant(q + 8 * e) = [exp |-> -1, mant |-> 2 * q - 7]
         /\ q \in 2 .. 3 => ExpMant(q + 8 * e) = [exp |-> -2, mant |-> 4 * q - 5]
         /\ q = 1 => ExpMant(q + 8 * e) = [exp |-> -3, mant |-> 7]
         /\ q = 0 => ExpMant(q + 8 * e) = [exp |-> -4, mant |-> 7]
<1> DEFINE c == q + 8 * e
           x == IF c > 15 THEN Shr(c, 3) - 1 ELSE 0
           m == c - 8 * x
           n == IF m <= 7 THEN 3 - TopBit(m) ELSE 0
<1>1. ExpMant(c) = IF m = 0 THEN [exp |-> -4, mant |-> 7]
                   ELSE [exp |-> x - n, mant |-> Shl(m + 1, n) - 9]
  BY Zenon DEF ExpMant
<1>2. Two(0) = 1 /\ Two(1) = 2 /\ Two(2) = 4 /\ Two(3) = 8
  BY DEF Two, PowerOfTwo
<1>3. x = e /\ m = q
  <2>1. Shr(c, 3) = c \div 8
    BY <1>2 DEF Shr
  <2>2. CASE e = 0
    BY <2>2
  <2>3. CASE e > 0
    <3>1. c \div 8 = e + 1 /\ c > 15
      <4>1. PICK r \in 0 .. 7, k \in 2 .. 7 : q = 8 + r /\ k = e + 1
        <5>1. q - 8 \in 0 .. 7 /\ e + 1 \in 2 .. 7 /\ q = 8 + (q - 8)
          BY <2>3
        <5>. QED  BY <5>1
      <4>2. c = 8 * k + r
        BY <4>1 DEF c
      <4>3. (8 * k + r) \div 8 = k /\ 8 * k + r > 15
        OBVIOUS
      <4>. QED  BY <4>1, <4>2, <4>3
    <3>. QED  BY <2>1, <3>1
  <2>. QED  BY <2>2, <2>3
<1> HIDE DEF c, x, m
<1>4. CASE q >= 8
  <2>1. n = 0
    BY <1>3, <1>4
  <2>2. Shl(q + 1, 0) = q + 1
    BY <1>2 DEF Shl
  <2> HIDE DEF n
  <2>3. x - n = e /\ Shl(m + 1, n) - 9 = q - 8 /\ m # 0
    BY <1>3, <1>4, <2>1, <2>2
  <2>. QED  BY <1>1, <1>4, <2>3 DEF c
<1>5. CASE q \in 4 .. 7
  <2>0. q \in 1 .. 7
    BY <1>5
  <2>1. n = 1 /\ e = 0
    BY <1>3, <1>5, <2>0, SmallTopBits
  <2>2. Shl(q + 1, 1) = 2 * q + 2
    BY <1>2 DEF Shl
  <2> HIDE DEF n
  <2>3. x - n = -1 /\ Shl(m + 1, n) - 9 = 2 * q - 7 /\ m # 0
    BY <1>3, <1>5, <2>1, <2>2
  <2>. QED  BY <1>1, <1>5, <2>3 DEF c
<1>6. CASE q \in 2 .. 3
  <2>0. q \in 1 .. 7
    BY <1>6
  <2>1. n = 2 /\ e = 0
    BY <1>3, <1>6, <2>0, SmallTopBits
  <2>2. Shl(q + 1, 2) = 4 * q + 4
    BY <1>2 DEF Shl
  <2> HIDE DEF n
  <2>3. x - n = -2 /\ Shl(m + 1, n) - 9 = 4 * q - 5 /\ m # 0
    BY <1>3, <1>6, <2>1, <2>2
  <2>. QED  BY <1>1, <1>6, <2>3 DEF c
<1>7. CASE q = 1
  <2>0. q \in 1 .. 7
    BY <1>7
  <2>1. n = 3 /\ e = 0
    BY <1>3, <1>7, <2>0, SmallTopBits
  <2>2. Shl(q + 1, 3) = 16
    BY <1>2, <1>7 DEF Shl
  <2> HIDE DEF n
  <2>3. x - n = -3 /\ Shl(m + 1, n) - 9 = 7 /\ m # 0
    BY <1>3, <1>7, <2>1, <2>2
  <2>. QED  BY <1>1, <1>7, <2>3 DEF c
<1>8. CASE q = 0
  BY <1>1, <1>3, <1>8 DEF c
<1>. QED  BY <1>4, <1>5, <1>6, <1>7, <1>8 DEF c

(* How many numbers 0 .. m there are. *)
LEMMA UptoSize ==
  ASSUME NEW m \in Nat, NEW S, S = 0 .. m
  PROVE  Cardinality(S) = m + 1
<1>1. Cardinality(0 .. m) = IF 0 > m THEN 0 ELSE m - 0 + 1
  BY FS_Interval
<1> DEFINE T == 0 .. m
<1> HIDE DEF T
<1>2. Cardinality(T) = m + 1
  BY <1>1 DEF T
<1>3. S = T
  BY DEF T
<1>. QED  BY <1>2, <1>3

(* The exponent of the largest magnitude: how often the loop of            *)
(* apcm_quantization counts.                                               *)
Level(xmax) == Cardinality({i \in 0 .. 5 : Shr(xmax, 9 + i) > 0})

(* The largest magnitude is coded with exponent e and q in its four        *)
(* highest bits.                                                           *)
LevelIs(xmax, q, e) ==
  /\ q \in 0 .. 15 /\ e \in 0 .. 6 /\ (e > 0 => q >= 8)
  /\ Level(xmax) = e
  /\ Shr(xmax, e + 5) = q
  /\ xmax < (q + 1) * Two(e + 5)

(* Every magnitude of 15 bits is. *)
LEMMA LevelExists ==
  ASSUME NEW xmax \in Nat, xmax <= 32767
  PROVE  \E q, e \in 0 .. 15 : LevelIs(xmax, q, e)
<1> DEFINE S == {i \in 0 .. 5 : Shr(xmax, 9 + i) > 0}
<1>1. /\ Two(5) = 32 /\ Two(6) = 64 /\ Two(7) = 128 /\ Two(8) = 256
      /\ Two(9) = 512 /\ Two(10) = 1024 /\ Two(11) = 2048
      /\ Two(12) = 4096 /\ Two(13) = 8192 /\ Two(14) = 16384
  BY DEF Two, PowerOfTwo
<1>2. /\ Shr(xmax, 9 + 0) > 0 <=> 512 <= xmax
      /\ Shr(xmax, 9 + 1) > 0 <=> 1024 <= xmax
      /\ Shr(xmax, 9 + 2) > 0 <=> 2048 <= xmax
      /\ Shr(xmax, 9 + 3) > 0 <=> 4096 <= xmax
      /\ Shr(xmax, 9 + 4) > 0 <=> 8192 <= xmax
      /\ Shr(xmax, 9 + 5) > 0 <=> 16384 <= xmax
  BY <1>1 DEF Shr
<1>3. \A i : i \in S <=> \/ i = 0 /\ 512 <= xmax
                         \/ i = 1 /\ 1024 <= xmax
                         \/ i = 2 /\ 2048 <= xmax
                         \/ i = 3 /\ 4096 <= xmax
                         \/ i = 4 /\ 8192 <= xmax
                         \/ i = 5 /\ 16384 <= xmax
  <2>1. \A i : i \in 0 .. 5 <=> i = 0 \/ i = 1 \/ i = 2 \/ i = 3 \/ i = 4 \/ i = 5
    OBVIOUS
  <2>. QED  BY <1>2, <2>1
<1>4. Level(xmax) = Cardinality(S)
  BY DEF Level
<1> HIDE DEF S
<1>6. CASE 0 <= xmax /\ xmax < 512
  <2>1. S = {}
    BY <1>3, <1>6
  <2>2. Cardinality(S) = 0
    BY <2>1, FS_EmptySet
  <2>3. Shr(xmax, 0 + 5) = xmax \div 32 /\ Two(0 + 5) = 32
    BY <1>1 DEF Shr
  <2>4. PICK q \in 0 .. 15 : q = xmax \div 32 /\ xmax < (q + 1) * 32
    <3>1. xmax \div 32 \in 0 .. 15 /\ xmax < (xmax \div 32 + 1) * 32
      BY <1>6
    <3>. QED  BY <3>1
  <2>5. LevelIs(xmax, q, 0)
    BY <1>4, <2>2, <2>3, <2>4 DEF LevelIs
  <2>6. 0 \in 0 .. 15
    OBVIOUS
  <2>. QED  BY <2>4, <2>5, <2>6
<1>7. CASE 512 <= xmax /\ xmax < 1024
  <2>1. S = 0 .. 0
    <3>1. \A i : i \in 0 .. 0 <=> i = 0
      OBVIOUS
    <3>2. \A i : i \in S <=> i = 0
      BY <1>3, <1>7
    <3>. QED  BY <3>1, <3>2
  <2>2. Cardinality(S) = 1
    <3>1. PICK m \in Nat : m = 0
      OBVIOUS
    <3>2. S = 0 .. m
      BY <2>1, <3>1
    <3>3. Cardinality(S) = m + 1
      BY <3>2, UptoSize
    <3>. QED  BY <3>1, <3>3
  <2>3. Shr(xmax, 1 + 5) = xmax \div 64 /\ Two(1 + 5) = 64
    BY <1>1 DEF Shr
  <2>4. PICK q \in 0 .. 15 : q = xmax \div 64 /\ xmax < (q + 1) * 64 /\ q >= 8
    <3>1. xmax \div 64 \in 8 .. 15 /\ xmax < (xmax \div 64 + 1) * 64
      BY <1>7
    <3>. QED  BY <3>1
  <2>5. LevelIs(xmax, q, 1)
    BY <1>4, <2>2, <2>3, <2>4 DEF LevelIs
  <2>6. 1 \in 0 .. 15
    OBVIOUS
  <2>. QED  BY <2>4, <2>5, <2>6
<1>8. CASE 1024 <= xmax /\ xmax < 2048
  <2>1. S = 0 .. 1
    <3>1. \A i : i \in 0 .. 1 <=> i = 0 \/ i = 1
      OBVIOUS
    <3>2. \A i : i \in S <=> i = 0 \/ i = 1
      BY <1>3, <1>8
    <3>. QED  BY <3>1, <3>2
  <2>2. Cardinality(S) = 2
    <3>1. PICK m \in Nat : m = 1
      OBVIOUS
    <3>2. S = 0 .. m
      BY <2>1, <3>1
    <3>3. Cardinality(S) = m + 1
      BY <3>2, UptoSize
    <3>. QED  BY <3>1, <3>3
  <2>3. Shr(xmax, 2 + 5) = xmax \div 128 /\ Two(2 + 5) = 128
    BY <1>1 DEF Shr
  <2>4. PICK q \in 0 .. 15 : q = xmax \div 128 /\ xmax < (q + 1) * 128 /\ q >= 8
    <3>1. xmax \div 128 \in 8 .. 15 /\ xmax < (xmax \div 128 + 1) * 128
      BY <1>8
    <3>. QED  BY <3>1
  <2>5. LevelIs(xmax, q, 2)
    BY <1>4, <2>2, <2>3, <2>4 DEF LevelIs
  <2>6. 2 \in 0 .. 15
    OBVIOUS
  <2>. QED  BY <2>4, <2>5, <2>6
<1>9. CASE 2048 <= xmax /\ xmax < 4096
  <2>1. S = 0 .. 2
    <3>1. \A i : i \in 0 .. 2 <=> i = 0 \/ i = 1 \/ i = 2
      OBVIOUS
    <3>2. \A i : i \in S <=> i = 0 \/ i = 1 \/ i = 2
      BY <1>3, <1>9
    <3>. QED  BY <3>1, <3>2
  <2>2. Cardinality(S) = 3
    <3>1. PICK m \in Nat : m = 2
      OBVIOUS
    <3>2. S = 0 .. m
      BY <2>1, <3>1
    <3>3. Cardinality(S) = m + 1
      BY <3>2, UptoSize
    <3>. QED  BY <3>1, <3>3
  <2>3. Shr(xmax, 3 + 5) = xmax \div 256 /\ Two(3 + 5) = 256
    BY <1>1 DEF Shr
  <2>4. PICK q \in 0 .. 15 : q = xmax \div 256 /\ xmax < (q + 1) * 256 /\ q >= 8
    <3>1. xmax \div 256 \in 8 .. 15 /\ xmax < (xmax \div 256 + 1) * 256
      BY <1>9
    <3>. QED  BY <3>1
  <2>5. LevelIs(xmax, q, 3)
    BY <1>4, <2>2, <2>3, <2>4 DEF LevelIs
  <2>6. 3 \in 0 .. 15
    OBVIOUS
  <2>. QED  BY <2>4, <2>5, <2>6
<1>10. CASE 4096 <= xmax /\ xmax < 8192
  <2>1. S = 0 .. 3
    <3>1. \A i : i \in 0 .. 3 <=> i = 0 \/ i = 1 \/ i = 2 \/ i = 3
      OBVIOUS
    <3>2. \A i : i \in S <=> i = 0 \/ i = 1 \/ i = 2 \/ i = 3
      BY <1>3, <1>10
    <3>. QED  BY <3>1, <3>2
  <2>2. Cardinality(S) = 4
    <3>1. PICK m \in Nat : m = 3
      OBVIOUS
    <3>2. S = 0 .. m
      BY <2>1, <3>1
    <3>3. Cardinality(S) = m + 1
      BY <3>2, UptoSize
    <3>. QED  BY <3>1, <3>3
  <2>3. Shr(xmax, 4 + 5) = xmax \div 512 /\ Two(4 + 5) = 512
    BY <1>1 DEF Shr
  <2>4. PICK q \in 0 .. 15 : q = xmax \div 512 /\ xmax < (q + 1) * 512 /\ q >= 8
    <3>1. xmax \div 512 \in 8 .. 15 /\ xmax < (xmax \div 512 + 1) * 512
      BY <1>10
    <3>. QED  BY <3>1
  <2>5. LevelIs(xmax, q, 4)
    BY <1>4, <2>2, <2>3, <2>4 DEF LevelIs
  <2>6. 4 \in 0 .. 15
    OBVIOUS
  <2>. QED  BY <2>4, <2>5, <2>6
<1>11. CASE 8192 <= xmax /\ xmax < 16384
  <2>1. S = 0 .. 4
    <3>1. \A i : i \in 0 .. 4 <=> i = 0 \/ i = 1 \/ i = 2 \/ i = 3 \/ i = 4
      OBVIOUS
    <3>2. \A i : i \in S <=> i = 0 \/ i = 1 \/ i = 2 \/ i = 3 \/ i = 4
      BY <1>3, <1>11
    <3>. QED  BY <3>1, <3>2
  <2>2. Cardinality(S) = 5
    <3>1. PICK m \in Nat : m = 4
      OBVIOUS
    <3>2. S = 0 .. m
      BY <2>1, <3>1
    <3>3. Cardinality(S) = m + 1
      BY <3>2, UptoSize
    <3>. QED  BY <3>1, <3>3
  <2>3. Shr(xmax, 5 + 5) = xmax \div 1024 /\ Two(5 + 5) = 1024
    BY <1>1 DEF Shr
  <2>4. PICK q \in 0 .. 15 : q = xmax \div 1024 /\ xmax < (q + 1) * 1024 /\ q >= 8
    <3>1. xmax \div 1024 \in 8 .. 15 /\ xmax < (xmax \div 1024 + 1) * 1024
      BY <1>11
    <3>. QED  BY <3>1
  <2>5. LevelIs(xmax, q, 5)
    BY <1>4, <2>2, <2>3, <2>4 DEF LevelIs
  <2>6. 5 \in 0 .. 15
    OBVIOUS
  <2>. QED  BY <2>4, <2>5, <2>6
<1>12. CASE 16384 <= xmax /\ xmax < 32768
  <2>1. S = 0 .. 5
    <3>1. \A i : i \in 0 .. 5 <=> i = 0 \/ i = 1 \/ i = 2 \/ i = 3 \/ i = 4 \/ i = 5
      OBVIOUS
    <3>2. \A i : i \in S <=> i = 0 \/ i = 1 \/ i = 2 \/ i = 3 \/ i = 4 \/ i = 5
      BY <1>3, <1>12
    <3>. QED  BY <3>1, <3>2
  <2>2. Cardinality(S) = 6
    <3>1. PICK m \in Nat : m = 5
      OBVIOUS
    <3>2. S = 0 .. m
      BY <2>1, <3>1
    <3>3. Cardinality(S) = m + 1
      BY <3>2, UptoSize
    <3>. QED  BY <3>1, <3>3
  <2>3. Shr(xmax, 6 + 5) = xmax \div 2048 /\ Two(6 + 5) = 2048
    BY <1>1 DEF Shr
  <2>4. PICK q \in 0 .. 15 : q = xmax \div 2048 /\ xmax < (q + 1) * 2048 /\ q >= 8
    <3>1. xmax \div 2048 \in 8 .. 15 /\ xmax < (xmax \div 2048 + 1) * 2048
      BY <1>12
    <3>. QED  BY <3>1
  <2>5. LevelIs(xmax, q, 6)
    BY <1>4, <2>2, <2>3, <2>4 DEF LevelIs
  <2>6. 6 \in 0 .. 15
    OBVIOUS
  <2>. QED  BY <2>4, <2>5, <2>6
<1>. QED  BY <1>6, <1>7, <1>8, <1>9, <1>10, <1>11, <1>12

(* The exponent and the mantissa of a code cover a magnitude: scaled by    *)
(* the exponent, it stays below the bound of the mantissa's step.          *)
Covers(em, xmax) ==
  /\ em.exp \in Int /\ -4 <= em.exp /\ em.exp <= 6
  /\ em.mant \in 0 .. 7
  /\ xmax * Two(6 - em.exp) <= (em.mant + 9) * 2048 - 1

(* The code of a maximum covers it. This is why no pulse overflows its     *)
(* three bits.                                                             *)
LEMMA CodeCovers ==
  ASSUME NEW xmax \in Nat, NEW q \in Int, NEW e \in Int, LevelIs(xmax, q, e)
  PROVE  Covers(ExpMant(q + 8 * e), xmax)
<1>1. /\ Two(0) = 1 /\ Two(1) = 2 /\ Two(2) = 4 /\ Two(3) = 8 /\ Two(4) = 16
      /\ Two(5) = 32 /\ Two(6) = 64 /\ Two(7) = 128 /\ Two(8) = 256
      /\ Two(9) = 512 /\ Two(10) = 1024 /\ Two(11) = 2048
  BY DEF Two, PowerOfTwo
<1>2. q \in 0 .. 15 /\ e \in 0 .. 6 /\ (e > 0 => q >= 8) /\ xmax < (q + 1) * Two(e + 5)
  BY DEF LevelIs
<1> DEFINE em == ExpMant(q + 8 * e)
<1>3. /\ q >= 8 => em = [exp |-> e, mant |-> q - 8]
      /\ q \in 4 .. 7 => em = [exp |-> -1, mant |-> 2 * q - 7]
      /\ q \in 2 .. 3 => em = [exp |-> -2, mant |-> 4 * q - 5]
      /\ q = 1 => em = [exp |-> -3, mant |-> 7]
      /\ q = 0 => em = [exp |-> -4, mant |-> 7]
  BY <1>2, ExpMantIs
<1> HIDE DEF em
<1>4. CASE q >= 8
  <2>1. em.exp = e /\ em.mant = q - 8 /\ em.mant \in 0 .. 7
    BY <1>2, <1>3, <1>4
  <2>2. xmax * Two(6 - e) <= (q + 1) * 2048 - 1
    <3>1. CASE e = 0
      <4>1. Two(e + 5) = 32 /\ Two(6 - e) = 64
        BY <1>1, <3>1
      <4>. QED  BY <1>2, <4>1
    <3>2. CASE e = 1
      <4>1. Two(e + 5) = 64 /\ Two(6 - e) = 32
        BY <1>1, <3>2
      <4>. QED  BY <1>2, <4>1
    <3>3. CASE e = 2
      <4>1. Two(e + 5) = 128 /\ Two(6 - e) = 16
        BY <1>1, <3>3
      <4>. QED  BY <1>2, <4>1
    <3>4. CASE e = 3
      <4>1. Two(e + 5) = 256 /\ Two(6 - e) = 8
        BY <1>1, <3>4
      <4>. QED  BY <1>2, <4>1
    <3>5. CASE e = 4
      <4>1. Two(e + 5) = 512 /\ Two(6 - e) = 4
        BY <1>1, <3>5
      <4>. QED  BY <1>2, <4>1
    <3>6. CASE e = 5
      <4>1. Two(e + 5) = 1024 /\ Two(6 - e) = 2
        BY <1>1, <3>6
      <4>. QED  BY <1>2, <4>1
    <3>7. CASE e = 6
      <4>1. Two(e + 5) = 2048 /\ Two(6 - e) = 1
        BY <1>1, <3>7
      <4>. QED  BY <1>2, <4>1
    <3>. QED  BY <1>2, <3>1, <3>2, <3>3, <3>4, <3>5, <3>6, <3>7
  <2>. QED  BY <1>2, <2>1, <2>2 DEF Covers, em
<1>5. CASE q \in 4 .. 7
  <2>1. em.exp = -1 /\ em.mant = 2 * q - 7 /\ e = 0
    BY <1>2, <1>3, <1>5
  <2>2. Two(6 - em.exp) = 128 /\ Two(e + 5) = 32
    BY <1>1, <2>1
  <2>. QED  BY <1>2, <1>5, <2>1, <2>2 DEF Covers, em
<1>6. CASE q \in 2 .. 3
  <2>1. em.exp = -2 /\ em.mant = 4 * q - 5 /\ e = 0
    BY <1>2, <1>3, <1>6
  <2>2. Two(6 - em.exp) = 256 /\ Two(e + 5) = 32
    BY <1>1, <2>1
  <2>. QED  BY <1>2, <1>6, <2>1, <2>2 DEF Covers, em
<1>7. CASE q = 1
  <2>1. em.exp = -3 /\ em.mant = 7 /\ e = 0
    BY <1>2, <1>3, <1>7
  <2>2. Two(6 - em.exp) = 512 /\ Two(e + 5) = 32
    BY <1>1, <2>1
  <2>. QED  BY <1>2, <1>7, <2>1, <2>2 DEF Covers, em
<1>8. CASE q = 0
  <2>1. em.exp = -4 /\ em.mant = 7 /\ e = 0
    BY <1>2, <1>3, <1>8
  <2>2. Two(6 - em.exp) = 1024 /\ Two(e + 5) = 32
    BY <1>1, <2>1
  <2>. QED  BY <1>2, <1>8, <2>1, <2>2 DEF Covers, em
<1>. QED  BY <1>2, <1>4, <1>5, <1>6, <1>7, <1>8

(* A magnitude bounds its sample, but for -32768 whose magnitude           *)
(* saturates.                                                              *)
LEMMA MagnitudeBounds ==
  ASSUME NEW v \in Int16, NEW xmax \in Nat, xmax <= 32767, SaturatedAbs16(v) <= xmax
  PROVE  v \in Int /\ ((-xmax <= v /\ v <= xmax) \/ (v = -32768 /\ xmax = 32767))
<1>1. v \in Int /\ -32768 <= v
  BY Int16Is
<1>2. SaturatedAbs16(v) = IF v = -32768 THEN 32767 ELSE IF v < 0 THEN -v ELSE v
  BY DEF SaturatedAbs16, MinInt16, MaxInt16
<1> DEFINE a == SaturatedAbs16(v)
<1> HIDE DEF a
<1>3. a <= xmax /\ a = IF v = -32768 THEN 32767 ELSE IF v < 0 THEN -v ELSE v
  BY <1>2 DEF a
<1>4. CASE v = -32768
  BY <1>1, <1>3, <1>4
<1>5. CASE v # -32768
  BY <1>1, <1>3, <1>5
<1>. QED  BY <1>4, <1>5

Room(xmax, n, m) == xmax <= 32767 /\ xmax * Two(n) <= (m + 9) * 2048 - 1
(* A scaled pulse below the bound of the mantissa m. *)
Scaled(t, m) ==
  /\ t \in Int
  /\ t <= (m + 9) * 2048 - 1
  /\ -t <= (m + 9) * 2048 - 1 \/ (t = -32768 /\ m = 7)

(* A pulse no larger than the maximum is still below that bound when it is *)
(* shifted and cast to 16 bits.                                            *)
LEMMA ScaledIs ==
  ASSUME NEW v \in Int16, NEW n \in 0 .. 10, NEW m \in 0 .. 7, NEW xmax \in Nat,
         Room(xmax, n, m), SaturatedAbs16(v) <= xmax
  PROVE  Scaled(ToInt16(Shl(v, n)), m)
<1>0. xmax <= 32767 /\ xmax * Two(n) <= (m + 9) * 2048 - 1
  BY DEF Room
<1>1. /\ Two(0) = 1 /\ Two(1) = 2 /\ Two(2) = 4 /\ Two(3) = 8 /\ Two(4) = 16
      /\ Two(5) = 32 /\ Two(6) = 64 /\ Two(7) = 128 /\ Two(8) = 256
      /\ Two(9) = 512 /\ Two(10) = 1024
  BY DEF Two, PowerOfTwo
<1>2. v \in Int /\ ((-xmax <= v /\ v <= xmax) \/ (v = -32768 /\ xmax = 32767))
  BY <1>0, MagnitudeBounds
<1>3. \A a \in Int : -32768 <= a /\ a <= 32767 => ToInt16(a) = a
  <2> SUFFICES ASSUME NEW a \in Int, -32768 <= a, a <= 32767 PROVE ToInt16(a) = a
    OBVIOUS
  <2>1. a % 65536 = IF a >= 0 THEN a ELSE a + 65536
    OBVIOUS
  <2>. QED  BY <2>1 DEF ToInt16, MaxInt16
<1>4. n = 0 \/ n = 1 \/ n = 2 \/ n = 3 \/ n = 4 \/ n = 5 \/ n = 6 \/ n = 7 \/ n = 8 \/ n = 9 \/ n = 10
  OBVIOUS
<1> DEFINE a == Shl(v, n)
<1>5. a \in Int /\ a <= (m + 9) * 2048 - 1 /\ (-a <= (m + 9) * 2048 - 1 \/ (a = -32768 /\ m = 7))
  <2>1. CASE n = 0
    <3>1. Two(n) = 1 /\ a = v * 1
      BY <1>1, <2>1 DEF Shl
    <3> HIDE DEF a
    <3>. QED  BY <1>0, <1>2, <3>1
  <2>2. CASE n = 1
    <3>1. Two(n) = 2 /\ a = v * 2
      BY <1>1, <2>2 DEF Shl
    <3> HIDE DEF a
    <3>. QED  BY <1>0, <1>2, <3>1
  <2>3. CASE n = 2
    <3>1. Two(n) = 4 /\ a = v * 4
      BY <1>1, <2>3 DEF Shl
    <3> HIDE DEF a
    <3>. QED  BY <1>0, <1>2, <3>1
  <2>4. CASE n = 3
    <3>1. Two(n) = 8 /\ a = v * 8
      BY <1>1, <2>4 DEF Shl
    <3> HIDE DEF a
    <3>. QED  BY <1>0, <1>2, <3>1
  <2>5. CASE n = 4
    <3>1. Two(n) = 16 /\ a = v * 16
      BY <1>1, <2>5 DEF Shl
    <3> HIDE DEF a
    <3>. QED  BY <1>0, <1>2, <3>1
  <2>6. CASE n = 5
    <3>1. Two(n) = 32 /\ a = v * 32
      BY <1>1, <2>6 DEF Shl
    <3> HIDE DEF a
    <3>. QED  BY <1>0, <1>2, <3>1
  <2>7. CASE n = 6
    <3>1. Two(n) = 64 /\ a = v * 64
      BY <1>1, <2>7 DEF Shl
    <3> HIDE DEF a
    <3>. QED  BY <1>0, <1>2, <3>1
  <2>8. CASE n = 7
    <3>1. Two(n) = 128 /\ a = v * 128
      BY <1>1, <2>8 DEF Shl
    <3> HIDE DEF a
    <3>. QED  BY <1>0, <1>2, <3>1
  <2>9. CASE n = 8
    <3>1. Two(n) = 256 /\ a = v * 256
      BY <1>1, <2>9 DEF Shl
    <3> HIDE DEF a
    <3>. QED  BY <1>0, <1>2, <3>1
  <2>10. CASE n = 9
    <3>1. Two(n) = 512 /\ a = v * 512
      BY <1>1, <2>10 DEF Shl
    <3> HIDE DEF a
    <3>. QED  BY <1>0, <1>2, <3>1
  <2>11. CASE n = 10
    <3>1. Two(n) = 1024 /\ a = v * 1024
      BY <1>1, <2>11 DEF Shl
    <3> HIDE DEF a
    <3>. QED  BY <1>0, <1>2, <3>1
  <2>. QED  BY <1>4, <2>1, <2>2, <2>3, <2>4, <2>5, <2>6, <2>7, <2>8, <2>9, <2>10, <2>11
<1> HIDE DEF a
<1>6. ToInt16(a) = a
  BY <1>3, <1>5
<1>. QED  BY <1>5, <1>6 DEF a, Scaled

(* Then its code has three bits. *)
LEMMA CodeOf ==
  ASSUME NEW m \in 0 .. 7, NEW t, Scaled(t, m)
  PROVE  4 + Shr(SaturatedMul16(t, NRFAC[m + 1]), 12) \in 0 .. 7
<1>0. t \in Int /\ t <= (m + 9) * 2048 - 1 /\ (-t <= (m + 9) * 2048 - 1 \/ (t = -32768 /\ m = 7))
  BY DEF Scaled
<1>1. Two(12) = 4096 /\ Two(15) = 32768
  BY DEF Two, PowerOfTwo
<1>2. ASSUME NEW N \in Int, N > 0, t * N < 536870912, t * N >= -536870912
      PROVE  4 + Shr(SaturatedMul16(t, N), 12) \in 0 .. 7
  <2>1. PICK y \in Int : y = t * N /\ y < 536870912 /\ y >= -536870912
    BY <1>0, <1>2
  <2>2. SaturatedMul16(t, N) = y \div 32768
    BY <1>0, <1>1, <1>2, <2>1 DEF SaturatedMul16, Shr, MinInt16
  <2>3. PICK z \in Int : z = y \div 32768 /\ z < 16384 /\ z >= -16384
    BY <2>1
  <2>4. Shr(z, 12) = z \div 4096
    BY <1>1 DEF Shr
  <2>5. 4 + z \div 4096 \in 0 .. 7
    BY <2>3
  <2>. QED  BY <2>2, <2>3, <2>4, <2>5
<1>3. m = 0 \/ m = 1 \/ m = 2 \/ m = 3 \/ m = 4 \/ m = 5 \/ m = 6 \/ m = 7
  OBVIOUS
<1>4. CASE m = 0
  <2>1. NRFAC[m + 1] = 29128
    BY <1>4 DEF NRFAC
  <2>2. t * 29128 < 536870912 /\ t * 29128 >= -536870912
    BY <1>0, <1>4
  <2>3. 29128 \in Int /\ 29128 > 0
    OBVIOUS
  <2>. QED  BY <1>2, <2>1, <2>2, <2>3
<1>5. CASE m = 1
  <2>1. NRFAC[m + 1] = 26215
    BY <1>5 DEF NRFAC
  <2>2. t * 26215 < 536870912 /\ t * 26215 >= -536870912
    BY <1>0, <1>5
  <2>3. 26215 \in Int /\ 26215 > 0
    OBVIOUS
  <2>. QED  BY <1>2, <2>1, <2>2, <2>3
<1>6. CASE m = 2
  <2>1. NRFAC[m + 1] = 23832
    BY <1>6 DEF NRFAC
  <2>2. t * 23832 < 536870912 /\ t * 23832 >= -536870912
    BY <1>0, <1>6
  <2>3. 23832 \in Int /\ 23832 > 0
    OBVIOUS
  <2>. QED  BY <1>2, <2>1, <2>2, <2>3
<1>7. CASE m = 3
  <2>1. NRFAC[m + 1] = 21846
    BY <1>7 DEF NRFAC
  <2>2. t * 21846 < 536870912 /\ t * 21846 >= -536870912
    BY <1>0, <1>7
  <2>3. 21846 \in Int /\ 21846 > 0
    OBVIOUS
  <2>. QED  BY <1>2, <2>1, <2>2, <2>3
<1>8. CASE m = 4
  <2>1. NRFAC[m + 1] = 20165
    BY <1>8 DEF NRFAC
  <2>2. t * 20165 < 536870912 /\ t * 20165 >= -536870912
    BY <1>0, <1>8
  <2>3. 20165 \in Int /\ 20165 > 0
    OBVIOUS
  <2>. QED  BY <1>2, <2>1, <2>2, <2>3
<1>9. CASE m = 5
  <2>1. NRFAC[m + 1] = 18725
    BY <1>9 DEF NRFAC
  <2>2. t * 18725 < 536870912 /\ t * 18725 >= -536870912
    BY <1>0, <1>9
  <2>3. 18725 \in Int /\ 18725 > 0
    OBVIOUS
  <2>. QED  BY <1>2, <2>1, <2>2, <2>3
<1>10. CASE m = 6
  <2>1. NRFAC[m + 1] = 17476
    BY <1>10 DEF NRFAC
  <2>2. t * 17476 < 536870912 /\ t * 17476 >= -536870912
    BY <1>0, <1>10
  <2>3. 17476 \in Int /\ 17476 > 0
    OBVIOUS
  <2>. QED  BY <1>2, <2>1, <2>2, <2>3
<1>11. CASE m = 7
  <2>1. NRFAC[m + 1] = 16384
    BY <1>11 DEF NRFAC
  <2>2. t * 16384 < 536870912 /\ t * 16384 >= -536870912
    BY <1>0, <1>11
  <2>3. 16384 \in Int /\ 16384 > 0
    OBVIOUS
  <2>. QED  BY <1>2, <2>1, <2>2, <2>3
<1>. QED  BY <1>3, <1>4, <1>5, <1>6, <1>7, <1>8, <1>9, <1>10, <1>11

-----------------------------------------------------------------------------
(* The codes of a subframe. *)

(* apcm_quantization: the maximum of a grid gets a code of six bits, and   *)
(* each of its pulses one of three, whatever they are. (The code masks no  *)
(* field when it packs it.)                                                *)
LEMMA PulsesAreCoded ==
  ASSUME NEW xM \in [1 .. 13 -> Int16]
  PROVE  /\ ApcmQuantization(xM).xmaxc \in 0 .. 63
         /\ ApcmQuantization(xM).xMc \in [1 .. 13 -> 0 .. 7]
<1> DEFINE xmax == Peak(xM)
           e == Level(xmax)
           c == SaturatedAdd16(Shr(xmax, e + 5), 8 * e)
           em == ExpMant(c)
           code(i) == 4 + Shr(SaturatedMul16(ToInt16(Shl(xM[i], 6 - em.exp)), NRFAC[em.mant + 1]), 12)
           x == [i \in 1 .. 13 |-> code(i)]
           a == ApcmQuantization(xM)
<1>1. a = [xmaxc |-> c, xMc |-> SubSeq(x, 1, 13)]
  BY Zenon DEF ApcmQuantization, Level, Signal
<1>2. 13 \in Nat \ {0}
  OBVIOUS
<1>3. IsPeak(xmax, xM, 13)
  <2>1. Len(xM) = 13
    BY <1>2, Kept
  <2>. QED  BY <1>2, <2>1, PeakBounds
<1> HIDE DEF xmax
<1>4. xmax \in Nat /\ xmax <= 32767 /\ \A k \in 1 .. 13 : SaturatedAbs16(xM[k]) <= xmax
  BY <1>3 DEF IsPeak
<1>5. PICK q \in 0 .. 15, d \in 0 .. 15 : LevelIs(xmax, q, d)
  BY <1>4, LevelExists
<1>6. e = d /\ Shr(xmax, e + 5) = q /\ q \in 0 .. 15 /\ d \in 0 .. 6
  BY <1>5 DEF LevelIs
<1>7. c = q + 8 * d /\ c \in 0 .. 63
  <2>1. c = Saturate(q + 8 * d)
    BY <1>6 DEF SaturatedAdd16
  <2> HIDE DEF c
  <2>2. Saturate(q + 8 * d) = q + 8 * d
    BY <1>6 DEF Saturate, MaxInt16, MinInt16
  <2>. QED  BY <1>6, <2>1, <2>2
<1> HIDE DEF c, e
<1>8. Covers(em, xmax)
  <2>1. q \in Int /\ d \in Int
    BY <1>6
  <2>2. Covers(ExpMant(q + 8 * d), xmax)
    <3>1. xmax \in Nat
      BY <1>4
    <3>. QED  BY <1>5, <2>1, <3>1, CodeCovers, Zenon
  <2>. QED  BY <1>7, <2>2
<1> HIDE DEF em
<1>9. PICK n \in 0 .. 10, m \in 0 .. 7 : /\ n = 6 - em.exp /\ m = em.mant
                                        /\ xmax * Two(n) <= (m + 9) * 2048 - 1
  <2>1. 6 - em.exp \in 0 .. 10
    BY <1>8 DEF Covers
  <2>. QED  BY <1>8, <2>1 DEF Covers
<1>10. ASSUME NEW i \in 1 .. 13 PROVE code(i) \in 0 .. 7
  <2> DEFINE v == xM[i]
             t == ToInt16(Shl(v, n))
  <2>1. v \in Int16 /\ SaturatedAbs16(v) <= xmax
    BY <1>4
  <2> HIDE DEF v
  <2>2. Scaled(t, m)
    <3>1. Room(xmax, n, m) /\ xmax \in Nat
      BY <1>4, <1>9 DEF Room
    <3>. QED  BY <2>1, <3>1, ScaledIs, Zenon
  <2> HIDE DEF t
  <2>3. 4 + Shr(SaturatedMul16(t, NRFAC[m + 1]), 12) \in 0 .. 7
    BY <2>2, CodeOf, Zenon
  <2>4. code(i) = 4 + Shr(SaturatedMul16(t, NRFAC[m + 1]), 12)
    <3>1. t = ToInt16(Shl(xM[i], 6 - em.exp)) /\ NRFAC[m + 1] = NRFAC[em.mant + 1]
      BY <1>9 DEF t, v
    <3>. QED  BY <3>1, Zenon
  <2>. QED  BY <2>3, <2>4
<1> HIDE DEF code
<1>11. x \in [1 .. 13 -> 0 .. 7]
  BY <1>10
<1> HIDE DEF x
<1>12. SubSeq(x, 1, 13) = x
  BY <1>2, <1>11, Kept
<1> HIDE DEF a
<1>13. a.xmaxc = c /\ a.xMc = x
  BY <1>1, <1>12
<1>. QED  BY <1>7, <1>11, <1>13 DEF a

(* apcm_inverse_quantization makes pulses of the codes. *)
LEMMA PulsesAreHeard ==
  ASSUME NEW xmaxc \in 0 .. 63, NEW xMc \in [1 .. 13 -> 0 .. 7]
  PROVE  ApcmInverseQuantization(xMc, xmaxc) \in [1 .. 13 -> Int]
<1> DEFINE em == ExpMant(xmaxc)
           shift == SaturatedSub16(6, em.exp)
           round == Asl(1, shift - 1)
           pulse(i) == Asr(SaturatedAdd16(MultR(FAC[em.mant + 1], 4096 * (2 * xMc[i] - 7)), round), shift)
           x == [i \in 1 .. 13 |-> pulse(i)]
<1>1. ApcmInverseQuantization(xMc, xmaxc) = SubSeq(x, 1, 13)
  BY Zenon DEF ApcmInverseQuantization, Signal
<1>2. em.exp \in Int /\ -4 <= em.exp /\ em.exp <= 6 /\ em.mant \in 0 .. 7
  <2>1. PICK q \in 0 .. 15, e \in 0 .. 6 : xmaxc = q + 8 * e /\ (e > 0 => q >= 8)
    <3>1. CASE xmaxc <= 15
      <4>1. xmaxc \in 0 .. 15 /\ 0 \in 0 .. 6 /\ xmaxc = xmaxc + 8 * 0
        BY <3>1
      <4>. QED  BY <4>1
    <3>2. CASE xmaxc > 15
      <4>1. PICK k \in 2 .. 7, r \in 0 .. 7 : xmaxc = 8 * k + r
        <5>1. xmaxc \div 8 \in 2 .. 7
          BY <3>2
        <5>2. xmaxc - 8 * (xmaxc \div 8) \in 0 .. 7
          OBVIOUS
        <5>3. xmaxc = 8 * (xmaxc \div 8) + (xmaxc - 8 * (xmaxc \div 8))
          BY <5>1
        <5>. QED  BY <5>1, <5>2, <5>3
      <4>2. 8 + r \in 0 .. 15 /\ k - 1 \in 0 .. 6 /\ xmaxc = 8 + r + 8 * (k - 1) /\ 8 + r >= 8
        BY <4>1
      <4>. QED  BY <4>2
    <3>. QED  BY <3>1, <3>2
  <2>2. /\ q >= 8 => em = [exp |-> e, mant |-> q - 8]
        /\ q \in 4 .. 7 => em = [exp |-> -1, mant |-> 2 * q - 7]
        /\ q \in 2 .. 3 => em = [exp |-> -2, mant |-> 4 * q - 5]
        /\ q = 1 => em = [exp |-> -3, mant |-> 7]
        /\ q = 0 => em = [exp |-> -4, mant |-> 7]
    BY <2>1, ExpMantIs
  <2> HIDE DEF em
  <2>3. q >= 8 \/ q \in 4 .. 7 \/ q \in 2 .. 3 \/ q = 1 \/ q = 0
    OBVIOUS
  <2>. QED  BY <2>2, <2>3
<1> HIDE DEF em
<1>3. shift \in 0 .. 10
  <2>1. 6 - em.exp \in 0 .. 10
    BY <1>2
  <2>2. Saturate(6 - em.exp) = 6 - em.exp
    BY <2>1 DEF Saturate, MaxInt16, MinInt16
  <2>. QED  BY <2>1, <2>2 DEF SaturatedSub16
<1> HIDE DEF shift
<1>4. round \in Int
  <2>1. CASE shift = 0
    <3>1. Asl(1, shift - 1) = Shr(1, 1)
      <4>1. PICK n \in Int : n = shift - 1 /\ n = -1 /\ -n = 1
        BY <2>1
      <4>2. Asl(1, n) = Asr(1, 1)
        BY <4>1 DEF Asl
      <4>3. Asr(1, 1) = Shr(1, 1)
        BY DEF Asr
      <4>. QED  BY <4>1, <4>2, <4>3
    <3>2. Shr(1, 1) \in Int
      <4>1. 1 \in Int /\ 1 \in 0 .. 30
        OBVIOUS
      <4>. QED  BY <4>1, Shifted
    <3>. QED  BY <2>1, <3>1, <3>2
  <2>2. CASE shift # 0
    <3>1. PICK k \in 0 .. 30 : k = shift - 1 /\ k <= 9
      BY <1>3, <2>2
    <3>2. Asl(1, k) = ToInt16(Shl(1, k))
      BY <3>1 DEF Asl
    <3>3. Shl(1, k) \in Int
      <4>1. 1 \in Int
        OBVIOUS
      <4>. QED  BY <4>1, Shifted
    <3>. QED  BY <3>1, <3>2, <3>3, Narrowed
  <2>. QED  BY <2>1, <2>2
<1> HIDE DEF round
<1>5. ASSUME NEW i \in 1 .. 13 PROVE pulse(i) \in Int
  <2>1. PICK f \in Int : f = FAC[em.mant + 1]
    BY <1>2 DEF FAC
  <2>2. PICK a \in Int : a = 4096 * (2 * xMc[i] - 7)
    <3>1. xMc[i] \in Int
      OBVIOUS
    <3>. QED  BY <3>1
  <2>3. PICK b \in Int : b = SaturatedAdd16(MultR(f, a), round)
    <3>1. MultR(f, a) \in Int
      BY Multiplied
    <3>. QED  BY <1>4, <3>1, Added
  <2>4. Asr(b, shift) = Shr(b, shift)
    BY <1>3 DEF Asr
  <2>5. Shr(b, shift) \in Int
    <3>1. shift \in 0 .. 30
      BY <1>3
    <3>. QED  BY <3>1, Shifted
  <2>. QED  BY <2>1, <2>2, <2>3, <2>4, <2>5
<1> HIDE DEF pulse
<1>6. x \in [1 .. 13 -> Int]
  BY <1>5
<1>7. SubSeq(x, 1, 13) = x
  <2>1. 13 \in Nat \ {0}
    OBVIOUS
  <2> HIDE DEF x
  <2>. QED  BY <1>6, <2>1, Kept
<1>. QED  BY <1>1, <1>6, <1>7

(* rpe_grid_positioning makes a subframe of the pulses. *)
LEMMA PositionedIs ==
  ASSUME NEW Mc \in 0 .. 3, NEW xMp \in [1 .. 13 -> Int]
  PROVE  GridPositioning(Mc, xMp) \in [1 .. 40 -> Int]
<1> DEFINE at(k) == IF (k - 1 - Mc) % 3 = 0 /\ (k - 1 - Mc) \div 3 \in 0 .. 12
                    THEN xMp[(k - 1 - Mc) \div 3 + 1] ELSE 0
           x == [k \in 1 .. 40 |-> at(k)]
<1>1. GridPositioning(Mc, xMp) = SubSeq(x, 1, 40)
  BY Zenon DEF GridPositioning, Signal, SubLen
<1>2. ASSUME NEW k \in 1 .. 40 PROVE at(k) \in Int
  <2> DEFINE b == (k - 1 - Mc) \div 3
  <2>1. b \in 0 .. 12 => b + 1 \in 1 .. 13
    OBVIOUS
  <2> HIDE DEF b
  <2>2. b \in 0 .. 12 => xMp[b + 1] \in Int
    BY <2>1
  <2>3. at(k) = IF (k - 1 - Mc) % 3 = 0 /\ b \in 0 .. 12 THEN xMp[b + 1] ELSE 0
    BY DEF b
  <2> HIDE DEF at
  <2>. QED  BY <2>2, <2>3
<1> HIDE DEF at
<1>3. x \in [1 .. 40 -> Int]
  BY <1>2
<1>4. SubSeq(x, 1, 40) = x
  <2>1. 40 \in Nat \ {0}
    OBVIOUS
  <2> HIDE DEF x
  <2>. QED  BY <1>3, <2>1, Kept
<1>. QED  BY <1>1, <1>3, <1>4

(* gsm0610_rpe_encoding: the grid, the maximum and the pulses fit their    *)
(* fields, and what the decoder will make of them are 40 numbers.          *)
LEMMA CodesAre ==
  ASSUME NEW e \in [1 .. 40 -> Int]
  PROVE  /\ RpeEncoding(e).Mc \in 0 .. 3
         /\ RpeEncoding(e).xmaxc \in 0 .. 63
         /\ RpeEncoding(e).xMc \in [1 .. 13 -> 0 .. 7]
         /\ RpeEncoding(e).e \in [1 .. 40 -> Int]
<1> DEFINE g == GridSelection(WeightingFilter(e))
           a == ApcmQuantization(g.xM)
           r == RpeEncoding(e)
<1>1. r = [Mc |-> g.Mc, xmaxc |-> a.xmaxc, xMc |-> a.xMc,
           e |-> GridPositioning(g.Mc, ApcmInverseQuantization(a.xMc, a.xmaxc))]
  BY Zenon DEF RpeEncoding, CodedGrid, CodedPulses
<1>2. g.Mc \in 0 .. 3 /\ g.xM \in [1 .. 13 -> Int16]
  BY WeightedIs, GridIs
<1> HIDE DEF g
<1>3. a.xmaxc \in 0 .. 63 /\ a.xMc \in [1 .. 13 -> 0 .. 7]
  BY <1>2, PulsesAreCoded
<1> HIDE DEF a
<1>4. ApcmInverseQuantization(a.xMc, a.xmaxc) \in [1 .. 13 -> Int]
  BY <1>3, PulsesAreHeard
<1>5. GridPositioning(g.Mc, ApcmInverseQuantization(a.xMc, a.xmaxc)) \in [1 .. 40 -> Int]
  BY <1>2, <1>4, PositionedIs
<1> HIDE DEF r
<1>. QED  BY <1>1, <1>2, <1>3, <1>5 DEF r

-----------------------------------------------------------------------------
(* The encoder's loop over the subframes, and a subframe of the decoder. *)

(* The last 120 samples: all that the predictors look at. *)
HistoryOf(dp0) == SubSeq(dp0, Len(dp0) - 119, Len(dp0))

Moves(s, t) == HistoryOf(s \o t) = SubSeq(HistoryOf(s), 41, 120) \o t

(* They move by a subframe, when one is put behind them: the encoder lets  *)
(* dp0 grow and looks at its end, the decoder moves it.                    *)
LEMMA HistoryMoves ==
  ASSUME NEW n \in Nat, n >= 120, NEW s, NEW t, Samples(s, n), Samples(t, 40)
  PROVE  /\ Moves(s, t)
         /\ Samples(s \o t, n + 40)
         /\ Samples(HistoryOf(s), 120)
<1> DEFINE h == HistoryOf(s)
           r == SubSeq(h, 41, 120)
           c == s \o t
           l == HistoryOf(c)
           rt == r \o t
<1> HIDE DEF h, r, c, l, rt
<1>1. Len(s) = n /\ Len(t) = 40
  BY SamplesSeq
<1>2. /\ Samples(s \o t, n + 40)
      /\ \A i \in 1 .. n : (s \o t)[i] = s[i]
      /\ \A i \in 1 .. 40 : (s \o t)[n + i] = t[i]
  <2>1. 40 \in Nat
    OBVIOUS
  <2>2. Joins(s \o t, s, t, n, 40)
    BY <2>1, Joined, Zenon
  <2>. QED  BY <2>2 DEF Joins
<1>3. Samples(c, n + 40)
  BY <1>2 DEF c
<1>4. h = [i \in 1 .. 120 |-> s[n - 120 + i]]
  <2>1. h = [i \in 1 .. n - (n - 119) + 1 |-> s[n - 119 + i - 1]]
    BY <1>1, PartOf DEF HistoryOf, h
  <2>. QED  BY <2>1
<1>5. r = [i \in 1 .. 80 |-> h[40 + i]]
  <2>1. r = [i \in 1 .. 120 - 41 + 1 |-> h[41 + i - 1]]
    BY PartOf DEF r
  <2>. QED  BY <2>1
<1>6. l = [i \in 1 .. 120 |-> c[n - 80 + i]]
  <2>1. Len(c) = n + 40
    BY <1>3, SamplesSeq
  <2>2. l = [i \in 1 .. n + 40 - (n + 40 - 119) + 1 |-> c[n + 40 - 119 + i - 1]]
    BY <2>1, PartOf DEF HistoryOf, l
  <2>. QED  BY <2>2
<1>7. /\ Samples(r \o t, 120)
      /\ \A i \in 1 .. 80 : (r \o t)[i] = r[i]
      /\ \A i \in 1 .. 40 : (r \o t)[80 + i] = t[i]
  <2>1. Samples(r, 80)
    BY <1>5 DEF Samples
  <2>2. 80 \in Nat /\ 40 \in Nat
    OBVIOUS
  <2>3. Joins(r \o t, r, t, 80, 40)
    BY <2>1, <2>2, Joined, Zenon
  <2>4. 80 + 40 = 120
    OBVIOUS
  <2>5. Samples(r \o t, 80 + 40)
    BY <2>3, Zenon DEF Joins
  <2>6. Samples(r \o t, 120)
    BY <2>4, <2>5
  <2>. QED  BY <2>3, <2>6 DEF Joins
<1>8. rt = [i \in 1 .. 120 |-> rt[i]]
  <2>1. Samples(rt, 120)
    BY <1>7 DEF rt
  <2>. QED  BY <2>1 DEF Samples
<1>9. l = rt
  <2>1. ASSUME NEW i \in 1 .. 120 PROVE l[i] = rt[i]
    <3>1. CASE i <= 80
      <4>1. 40 + i \in 1 .. 120 /\ n - 80 + i \in 1 .. n + 40 /\ i \in 1 .. 80
            /\ n - 120 + (40 + i) = n - 80 + i /\ n - 80 + i <= n
        BY <3>1
      <4>2. rt[i] = s[n - 80 + i]
        BY <1>4, <1>5, <1>7, <4>1 DEF rt
      <4>3. l[i] = s[n - 80 + i]
        <5>1. l[i] = c[n - 80 + i]
          BY <1>6
        <5>2. c[n - 80 + i] = s[n - 80 + i]
          <6>1. n - 80 + i \in 1 .. n
            BY <4>1
          <6>. QED  BY <1>2, <6>1, Zenon DEF c
        <5>. QED  BY <5>1, <5>2
      <4>. QED  BY <4>2, <4>3
    <3>2. CASE i > 80
      <4>1. PICK k \in 1 .. 40 : i = 80 + k
        <5>1. i - 80 \in 1 .. 40 /\ i = 80 + (i - 80)
          BY <3>2
        <5>. QED  BY <5>1
      <4>2. rt[i] = t[k]
        BY <1>7, <4>1 DEF rt
      <4>3. n - 80 + i = n + k
        BY <4>1
      <4>4. l[i] = c[n + k]
        BY <1>6, <4>3
      <4>. QED  BY <1>2, <4>2, <4>4 DEF c
    <3>. QED  BY <3>1, <3>2
  <2>. QED  BY <1>6, <1>8, <2>1
<1>10. Samples(h, 120)
  BY <1>4 DEF Samples
<1>. QED  BY <1>3, <1>9, <1>10 DEF rt, h, r, c, l, Moves

(* The encoder's turn for the k-th subframe. *)
SubframeStep(p, k, residual) ==
  LET top == Len(p.dp0)
  IN  PredictedSubframe(p, LongTermPredictor(SubSeq(residual, 40 * k - 39, 40 * k),
                                             SubSeq(p.dp0, top - 119, top)))
SubframeStart(dp0) == [dp0 |-> dp0, Nc |-> <<>>, bc |-> <<>>, Mc |-> <<>>,
                       xmaxc |-> <<>>, xMc |-> <<>>]
(* The encoder's loop over the four subframes is these four turns. *)
LEMMA EncodedInSteps ==
  ASSUME NEW dp0, NEW r
  PROVE  EncodedSubframes(dp0, r) =
           SubframeStep(SubframeStep(SubframeStep(SubframeStep(SubframeStart(dp0), 1, r), 2, r), 3, r), 4, r)
<1> DEFINE s0 == SubframeStart(dp0)
           s1 == SubframeStep(s0, 1, r)
           s2 == SubframeStep(s1, 2, r)
           s3 == SubframeStep(s2, 3, r)
           s4 == SubframeStep(s3, 4, r)
           body(f) == [k \in 0 .. 4 |-> IF k = 0 THEN s0 ELSE SubframeStep(f[k - 1], k, r)]
           g == [k \in 0 .. 4 |-> IF k = 0 THEN s0 ELSE IF k = 1 THEN s1 ELSE IF k = 2 THEN s2
                                  ELSE IF k = 3 THEN s3 ELSE s4]
           sub == CHOOSE f : f = body(f)
<1>1. EncodedSubframes(dp0, r) = sub[4]
  BY Zenon DEF EncodedSubframes, SubframeStep, SubframeStart
<1>2. g = body(g)
  <2> DEFINE t(k) == SubframeStep(g[k - 1], k, r)
  <2>1. s1 = t(1) /\ s2 = t(2) /\ s3 = t(3) /\ s4 = t(4)
    OBVIOUS
  <2> HIDE DEF s0, s1, s2, s3, s4
  <2>. QED  BY <2>1
<1>3. sub = body(sub)
  BY <1>2
<1>4. sub[0] = s0 /\ sub[1] = SubframeStep(sub[0], 1, r) /\ sub[2] = SubframeStep(sub[1], 2, r)
      /\ sub[3] = SubframeStep(sub[2], 3, r) /\ sub[4] = SubframeStep(sub[3], 4, r)
  <2> HIDE DEF sub, s0
  <2>1. \A k \in 1 .. 4 : sub[k] = SubframeStep(sub[k - 1], k, r)
    BY <1>3
  <2>2. sub[0] = s0
    BY <1>3
  <2>. QED  BY <2>1, <2>2
<1>. QED  BY <1>1, <1>4

Ltp(p, k, r) == LongTermPredictor(SubSeq(r, 40 * k - 39, 40 * k), HistoryOf(p.dp0))
Rpe(p, k, r) == RpeEncoding(Ltp(p, k, r).e)
(* The k-th codes of f are those of a prediction and of its pulses. *)
Codes(f, k, l, e) ==
  /\ f.Nc[k] = l.Nc
  /\ f.bc[k] = l.bc
  /\ f.Mc[k] = e.Mc
  /\ f.xmaxc[k] = e.xmaxc
  /\ f.xMc[k] = e.xMc
(* The decoder has the end of the encoder's residual. *)
InStep(p, q, n) == Samples(p.dp0, n) /\ q.dp0 = HistoryOf(p.dp0)

SubframeLag(p, k, r) == Ltp(p, k, r).Nc
SubframeHeard(q, l, e) ==
  DecodedSubframe(q, LongTermSynthesisFiltering(q, l.Nc, l.bc, RpeDecoding(e.xmaxc, e.Mc, e.xMc)))

(* A subframe that the encoder has coded with a lag of 40 .. 120 adds to   *)
(* the decoder's residual what it has added to the encoder's. (The decoder *)
(* replaces any other lag by its last good one.)                           *)
LEMMA SubframeFollows ==
  ASSUME NEW n \in Nat, n >= 120, NEW p, NEW q, InStep(p, q, n),
         NEW k, NEW r, SubframeLag(p, k, r) \in 40 .. 120
  PROVE  InStep(SubframeStep(p, k, r), SubframeHeard(q, Ltp(p, k, r), Rpe(p, k, r)), n + 40)
<1>0. Samples(p.dp0, n) /\ q.dp0 = HistoryOf(p.dp0)
  BY DEF InStep
<1> DEFINE h == HistoryOf(p.dp0)
           d == SubSeq(r, 40 * k - 39, 40 * k)
           par == EvaluateLtpParameters(d, h)
           ltp == LongTermPredictor(d, h)
           rpe == RpeEncoding(ltp.e)
           grid == GridSelection(WeightingFilter(ltp.e))
           apcm == ApcmQuantization(grid.xM)
           pulses == GridPositioning(grid.Mc, ApcmInverseQuantization(apcm.xMc, apcm.xmaxc))
           F(i) == SaturatedAdd16(pulses[i], MultR(QLB[par.bc + 1], Past(h, i, par.Nc)))
           new == [i \in 1 .. 40 |-> F(i)]
           dpp == [i \in 1 .. 40 |-> MultR(QLB[par.bc + 1], Past(h, i, par.Nc))]
           x == SubframeStep(p, k, r)
           lts == LongTermSynthesisFiltering(q, ltp.Nc, ltp.bc, RpeDecoding(rpe.xmaxc, rpe.Mc, rpe.xMc))
           y == DecodedSubframe(q, lts)
<1> HIDE DEF h, d, par, ltp, rpe, grid, apcm, pulses, new, dpp, x, lts, y
<1>1. x = EncodedSubframe(p, ltp, rpe)
  BY Zenon DEF x, SubframeStep, PredictedSubframe, ltp, rpe, h, d, HistoryOf
<1>2. ltp.Nc = par.Nc /\ ltp.bc = par.bc /\ ltp.dpp = dpp
  <2>1. SubSeq(dpp, 1, 40) = dpp
    <3>1. Samples(dpp, 40)
      BY DEF Samples, dpp
    <3>2. 40 \in Nat \ {0}
      OBVIOUS
    <3>. QED  BY <3>1, <3>2, Whole, Zenon
  <2>2. Signal(SubLen, LAMBDA i : MultR(QLB[par.bc + 1], Past(h, i, par.Nc))) = dpp
    BY <2>1, Zenon DEF Signal, dpp, SubLen
  <2>. QED  BY <2>2 DEF ltp, par, LongTermPredictor, LongTermAnalysisFiltering
<1>3. /\ rpe.Mc = grid.Mc /\ rpe.xmaxc = apcm.xmaxc /\ rpe.xMc = apcm.xMc
      /\ rpe.e = pulses
  BY DEF rpe, RpeEncoding, CodedGrid, CodedPulses, grid, apcm, pulses
<1>4. par.Nc \in 40 .. 120
  BY <1>2 DEF SubframeLag, Ltp, ltp, d, h
<1>5. Samples(new, 40) /\ SubSeq(new, 1, 40) = new
  <2>1. Samples(new, 40)
    BY DEF Samples, new
  <2>2. 40 \in Nat \ {0}
    OBVIOUS
  <2>. QED  BY <2>1, <2>2, Whole, Zenon
<1>6. x.dp0 = p.dp0 \o new
  <2>1. Signal(SubLen, LAMBDA i : SaturatedAdd16(rpe.e[i], ltp.dpp[i])) = new
    <3>1. [i \in 1 .. 40 |-> SaturatedAdd16(rpe.e[i], ltp.dpp[i])] = new
      BY <1>2, <1>3 DEF new, dpp
    <3>. QED  BY <1>5, <3>1, Zenon DEF Signal, SubLen
  <2>. QED  BY <1>1, <2>1 DEF EncodedSubframe
<1>7. y.dp0 = SubSeq(h, 41, 120) \o new
  <2>1. lts.drp = new
    <3> DEFINE Nr == IF ltp.Nc < 40 \/ ltp.Nc > 120 THEN q.nrp ELSE ltp.Nc
               erp == RpeDecoding(rpe.xmaxc, rpe.Mc, rpe.xMc)
               drp == [i \in 1 .. 40 |-> SaturatedAdd16(erp[i], MultR(QLB[ltp.bc + 1], Past(q.dp0, i, Nr)))]
    <3>2. RpeDecoding(rpe.xmaxc, rpe.Mc, rpe.xMc) = pulses
      BY <1>3 DEF RpeDecoding, pulses
    <3>3. ~(ltp.Nc < 40 \/ ltp.Nc > 120)
      BY <1>2, <1>4
    <3>4. lts.drp = SubSeq(drp, 1, 40)
      BY Zenon DEF lts, LongTermSynthesisFiltering, Signal, SubLen
    <3>5. Nr = par.Nc /\ erp = pulses /\ ltp.bc = par.bc /\ q.dp0 = h
      BY <1>0, <1>2, <3>2, <3>3 DEF h
    <3> HIDE DEF Nr, erp
    <3>6. drp = new
      BY <3>5 DEF new
    <3>. QED  BY <1>5, <3>4, <3>6
  <2>. QED  BY <1>0, <2>1 DEF y, DecodedSubframe, SubLen, History, h
<1>8. Samples(p.dp0 \o new, n + 40) /\ HistoryOf(p.dp0 \o new) = SubSeq(h, 41, 120) \o new
  <2> DEFINE old == p.dp0
  <2>1. Samples(old, n)
    BY <1>0
  <2> HIDE DEF old
  <2>2. Samples(old \o new, n + 40)
    BY <1>5, <2>1, HistoryMoves, Zenon
  <2>3. HistoryOf(old \o new) = SubSeq(HistoryOf(old), 41, 120) \o new
    <3>1. Moves(old, new)
      BY <1>5, <2>1, HistoryMoves, Zenon
    <3>. QED  BY <3>1 DEF Moves
  <2>. QED  BY <2>2, <2>3 DEF h, old
<1>9. ltp = Ltp(p, k, r) /\ rpe = Rpe(p, k, r)
  BY DEF ltp, rpe, h, d, Ltp, Rpe
<1>10. Samples(x.dp0, n + 40) /\ y.dp0 = HistoryOf(x.dp0)
  BY <1>6, <1>7, <1>8
<1>. QED  BY <1>9, <1>10 DEF x, y, lts, InStep, SubframeHeard

-----------------------------------------------------------------------------
(* The codes of four subframes. *)

(* Part of a signal. *)
LEMMA PieceIs ==
  ASSUME NEW n \in Nat, NEW V, NEW s \in [1 .. n -> V], NEW a \in Int, NEW b \in Int,
         1 <= a, a <= b, b <= n
  PROVE  SubSeq(s, a, b) \in [1 .. b - a + 1 -> V]
<1>1. SubSeq(s, a, b) = [i \in 1 .. b - a + 1 |-> s[a + i - 1]]
  BY PartOf
<1>2. \A i \in 1 .. b - a + 1 : s[a + i - 1] \in V
  OBVIOUS
<1>. QED  BY <1>1, <1>2

(* The signal without samples. *)
LEMMA NothingIs ==
  ASSUME NEW V
  PROVE  <<>> \in [1 .. 0 -> V]
<1>1. <<>> \in Seq(V) /\ Len(<<>>) = 0
  OBVIOUS
<1>2. <<>> \in [1 .. Len(<<>>) -> V]
  BY <1>1, LenProperties
<1>. QED  BY <1>1, <1>2

(* A signal with a sample more. *)
LEMMA OneMore ==
  ASSUME NEW V, NEW n \in Nat, NEW s \in [1 .. n -> V], NEW e \in V
  PROVE  Append(s, e) \in [1 .. n + 1 -> V]
<1>1. s \in Seq(V) /\ Len(s) = n
  <2>1. Samples(s, n)
    BY DEF Samples
  <2>2. Len(s) = n
    BY <2>1, SamplesSeq
  <2>3. \A i \in 1 .. n : s[i] \in V
    OBVIOUS
  <2>. QED  BY <2>1, <2>2, <2>3, SamplesSeq
<1> DEFINE u == Append(s, e)
<1>2. u \in Seq(V) /\ Len(u) = Len(s) + 1
  BY <1>1, AppendProperties
<1> HIDE DEF u
<1>3. u \in [1 .. Len(u) -> V]
  BY <1>2, LenProperties
<1>4. u \in [1 .. n + 1 -> V]
  BY <1>1, <1>2, <1>3
<1>. QED  BY <1>4 DEF u

(* gsm0610_long_term_predictor: lag and gain fit, for any subframe of the  *)
(* signal and any residual of 120 samples.                                 *)
LEMMA PredictionIs ==
  ASSUME NEW d \in [1 .. 40 -> Int], NEW dp \in [1 .. 120 -> Int]
  PROVE  LET l == LongTermPredictor(d, dp)
         IN  l.Nc \in 40 .. 120 /\ l.bc \in 0 .. 3 /\ l.dpp \in [1 .. 40 -> Int] /\ l.e \in [1 .. 40 -> Int]
<1> DEFINE par == EvaluateLtpParameters(d, dp)
           l == LongTermPredictor(d, dp)
           dpp == [i \in 1 .. 40 |-> MultR(QLB[par.bc + 1], Past(dp, i, par.Nc))]
           e == [i \in 1 .. 40 |-> SaturatedSub16(d[i], dpp[i])]
<1>0. 40 \in Nat \ {0}
  OBVIOUS
<1>1. par.Nc \in 40 .. 120 /\ par.bc \in 0 .. 3
  <2> DEFINE dmax == Peak(d)
             bits == IF dmax = 0 THEN 0 ELSE Norm(Shl(dmax, 16))
             scale == IF bits > 6 THEN 0 ELSE 6 - bits
             best == MaxCrossCorr(Signal(SubLen, LAMBDA k : Shr(d[k], scale)), dp)
             power == 2 * SumOver(LAMBDA k : Shr(Past(dp, k, best.lag), 3) * Shr(Past(dp, k, best.lag), 3), 1, SubLen)
             gain == GainCode(Shr(2 * best.max, 6 - scale), power)
  <2>1. par = [Nc |-> best.lag, bc |-> gain]
    BY Zenon DEF EvaluateLtpParameters, LtpParameters
  <2>2. IsLag(best.lag)
    BY LagIsLag, Zenon
  <2>3. gain \in 0 .. 3
    BY GainIs, Zenon
  <2> HIDE DEF best, gain, par
  <2>. QED  BY <2>1, <2>2, <2>3 DEF IsLag
<1>2. dpp \in [1 .. 40 -> Int]
  <2> HIDE DEF par
  <2>1. ASSUME NEW i \in 1 .. 40 PROVE MultR(QLB[par.bc + 1], Past(dp, i, par.Nc)) \in Int
    <3>1. QLB[par.bc + 1] \in Int
      BY <1>1 DEF QLB
    <3>2. Past(dp, i, par.Nc) \in Int
      BY <1>1 DEF Past, History
    <3>. QED  BY <3>1, <3>2, Multiplied
  <2>. QED  BY <2>1
<1>3. SubSeq(dpp, 1, 40) = dpp
  <2> HIDE DEF dpp
  <2>. QED  BY <1>0, <1>2, Kept
<1>4. e \in [1 .. 40 -> Int]
  <2> HIDE DEF dpp
  <2>1. ASSUME NEW i \in 1 .. 40 PROVE SaturatedSub16(d[i], dpp[i]) \in Int
    <3>1. d[i] \in Int /\ dpp[i] \in Int
      BY <1>2
    <3>. QED  BY <3>1, Added
  <2>. QED  BY <2>1
<1>5. SubSeq(e, 1, 40) = e
  <2> HIDE DEF e
  <2>. QED  BY <1>0, <1>4, Kept
<1> DEFINE dppS == Signal(SubLen, LAMBDA k : MultR(QLB[par.bc + 1], Past(dp, k, par.Nc)))
           eS == Signal(SubLen, LAMBDA k : SaturatedSub16(d[k], dppS[k]))
<1>6. l = [Nc |-> par.Nc, bc |-> par.bc, dpp |-> dppS, e |-> eS]
  BY Zenon DEF LongTermPredictor, LongTermAnalysisFiltering
<1> HIDE DEF par, l
<1>7. dppS = dpp
  BY <1>3, Zenon DEF Signal, SubLen, dpp
<1> HIDE DEF dppS
<1>8. eS = e
  BY <1>5, <1>7, Zenon DEF Signal, SubLen, e
<1> HIDE DEF e, eS, dpp
<1>9. l.Nc \in 40 .. 120 /\ l.bc \in 0 .. 3 /\ l.dpp \in [1 .. 40 -> Int] /\ l.e \in [1 .. 40 -> Int]
  BY <1>1, <1>2, <1>4, <1>6, <1>7, <1>8
<1>. QED  BY <1>9 DEF l

(* The encoder has made the codes of n subframes, and the residual has     *)
(* grown by them.                                                          *)
SubframesAre(p, n) ==
  /\ p.dp0 \in [1 .. 120 + 40 * n -> Int]
  /\ p.Nc \in [1 .. n -> 40 .. 120]
  /\ p.bc \in [1 .. n -> 0 .. 3]
  /\ p.Mc \in [1 .. n -> 0 .. 3]
  /\ p.xmaxc \in [1 .. n -> 0 .. 63]
  /\ p.xMc \in [1 .. n -> [1 .. 13 -> 0 .. 7]]

(* Every subframe adds its codes. *)
LEMMA SubframeIs ==
  ASSUME NEW n \in 0 .. 3, NEW p, SubframesAre(p, n), NEW r \in [1 .. 160 -> Int]
  PROVE  SubframesAre(SubframeStep(p, n + 1, r), n + 1)
<1> DEFINE l == Ltp(p, n + 1, r)
           c == Rpe(p, n + 1, r)
           x == SubframeStep(p, n + 1, r)
           h == HistoryOf(p.dp0)
           d == SubSeq(r, 40 * (n + 1) - 39, 40 * (n + 1))
           new == [i \in 1 .. 40 |-> SaturatedAdd16(c.e[i], l.dpp[i])]
<1>0. /\ p.dp0 \in [1 .. 120 + 40 * n -> Int]
      /\ p.Nc \in [1 .. n -> 40 .. 120]
      /\ p.bc \in [1 .. n -> 0 .. 3]
      /\ p.Mc \in [1 .. n -> 0 .. 3]
      /\ p.xmaxc \in [1 .. n -> 0 .. 63]
      /\ p.xMc \in [1 .. n -> [1 .. 13 -> 0 .. 7]]
  BY DEF SubframesAre
<1>1. x = EncodedSubframe(p, l, c)
  BY Zenon DEF SubframeStep, PredictedSubframe, Ltp, Rpe, HistoryOf
<1>2. h \in [1 .. 120 -> Int]
  <2>1. PICK m \in Nat : m = 120 + 40 * n /\ m >= 120
    OBVIOUS
  <2>2. p.dp0 \in [1 .. m -> Int]
    BY <1>0, <2>1
  <2>3. Len(p.dp0) = m
    BY <2>2, SamplesSeq DEF Samples
  <2> DEFINE dp == p.dp0
  <2> HIDE DEF dp
  <2>4. PICK a \in Int : a = m - 119 /\ 1 <= a /\ a <= m /\ m - a + 1 = 120
    BY <2>1
  <2>5. SubSeq(dp, a, m) \in [1 .. m - a + 1 -> Int]
    <3>1. dp \in [1 .. m -> Int]
      BY <2>2, Zenon DEF dp
    <3>2. m \in Int /\ m <= m /\ 1 <= a /\ a <= m
      BY <2>4
    <3>. QED  BY <3>1, <3>2, PieceIs, Zenon
  <2>. QED  BY <2>3, <2>4, <2>5 DEF HistoryOf, dp
<1>3. d \in [1 .. 40 -> Int]
  <2>1. PICK a \in Int, b \in Int : /\ a = 40 * (n + 1) - 39 /\ b = 40 * (n + 1)
                                    /\ 1 <= a /\ a <= b /\ b <= 160 /\ b - a + 1 = 40
    OBVIOUS
  <2>2. 160 \in Nat
    OBVIOUS
  <2>3. SubSeq(r, a, b) \in [1 .. b - a + 1 -> Int]
    BY <2>1, <2>2, PieceIs
  <2>. QED  BY <2>1, <2>3
<1>4. l = LongTermPredictor(d, h)
  BY Zenon DEF Ltp
<1> HIDE DEF d, h
<1>5. l.Nc \in 40 .. 120 /\ l.bc \in 0 .. 3 /\ l.dpp \in [1 .. 40 -> Int] /\ l.e \in [1 .. 40 -> Int]
  BY <1>2, <1>3, <1>4, PredictionIs
<1>6. c.Mc \in 0 .. 3 /\ c.xmaxc \in 0 .. 63 /\ c.xMc \in [1 .. 13 -> 0 .. 7] /\ c.e \in [1 .. 40 -> Int]
  <2>1. c = RpeEncoding(l.e)
    BY Zenon DEF Rpe, Ltp
  <2> HIDE DEF c, l
  <2>. QED  BY <1>5, <2>1, CodesAre
<1> HIDE DEF c, l
<1>7. new \in [1 .. 40 -> Int]
  <2>1. ASSUME NEW i \in 1 .. 40 PROVE SaturatedAdd16(c.e[i], l.dpp[i]) \in Int
    <3>1. c.e[i] \in Int /\ l.dpp[i] \in Int
      BY <1>5, <1>6
    <3>. QED  BY <3>1, Added
  <2>. QED  BY <2>1
<1>8. Signal(SubLen, LAMBDA i : SaturatedAdd16(c.e[i], l.dpp[i])) = new
  <2>1. SubSeq(new, 1, 40) = new
    <3> HIDE DEF new
    <3>1. 40 \in Nat \ {0}
      OBVIOUS
    <3>. QED  BY <1>7, <3>1, Kept
  <2>. QED  BY <2>1, Zenon DEF Signal, SubLen, new
<1> HIDE DEF new
<1>9. x = [dp0 |-> p.dp0 \o new, Nc |-> Append(p.Nc, l.Nc), bc |-> Append(p.bc, l.bc),
           Mc |-> Append(p.Mc, c.Mc), xmaxc |-> Append(p.xmaxc, c.xmaxc),
           xMc |-> Append(p.xMc, c.xMc)]
  BY <1>1, <1>8, Zenon DEF EncodedSubframe
<1> HIDE DEF x
<1>10. p.dp0 \o new \in [1 .. 120 + 40 * (n + 1) -> Int]
  <2>1. PICK m \in Nat, k \in Nat : m = 120 + 40 * n /\ k = 40 /\ m + k = 120 + 40 * (n + 1)
    OBVIOUS
  <2>2. p.dp0 \in [1 .. m -> Int] /\ new \in [1 .. k -> Int]
    BY <1>0, <1>7, <2>1
  <2>3. p.dp0 \o new \in [1 .. m + k -> Int]
    BY <2>2, Linked
  <2>. QED  BY <2>1, <2>3
<1>11. n \in Nat
  OBVIOUS
<1>12. Append(p.Nc, l.Nc) \in [1 .. n + 1 -> 40 .. 120]
  BY <1>0, <1>5, <1>11, OneMore
<1>13. Append(p.bc, l.bc) \in [1 .. n + 1 -> 0 .. 3]
  BY <1>0, <1>5, <1>11, OneMore
<1>14. Append(p.Mc, c.Mc) \in [1 .. n + 1 -> 0 .. 3]
  BY <1>0, <1>6, <1>11, OneMore
<1>15. Append(p.xmaxc, c.xmaxc) \in [1 .. n + 1 -> 0 .. 63]
  BY <1>0, <1>6, <1>11, OneMore
<1>16. Append(p.xMc, c.xMc) \in [1 .. n + 1 -> [1 .. 13 -> 0 .. 7]]
  BY <1>0, <1>6, <1>11, OneMore
<1>17. SubframesAre(x, n + 1)
  BY <1>9, <1>10, <1>12, <1>13, <1>14, <1>15, <1>16 DEF SubframesAre
<1>. QED  BY <1>17 DEF x

(* After the four subframes of a frame all codes fit. *)
LEMMA SubframesEncoded ==
  ASSUME NEW dp0 \in [1 .. 120 -> Int], NEW r \in [1 .. 160 -> Int]
  PROVE  SubframesAre(EncodedSubframes(dp0, r), 4)
<1> DEFINE p0 == SubframeStart(dp0)
           p1 == SubframeStep(p0, 1, r)
           p2 == SubframeStep(p1, 2, r)
           p3 == SubframeStep(p2, 3, r)
           p4 == SubframeStep(p3, 4, r)
<1>1. SubframesAre(p0, 0)
  <2>1. \A V : <<>> \in [1 .. 0 -> V]
    BY NothingIs
  <2>2. 120 + 40 * 0 = 120
    OBVIOUS
  <2>3. p0.dp0 \in [1 .. 120 + 40 * 0 -> Int]
    BY <2>2 DEF SubframeStart
  <2> DEFINE none == <<>>
  <2>4. p0.Nc = none /\ p0.bc = none /\ p0.Mc = none /\ p0.xmaxc = none /\ p0.xMc = none
    BY DEF SubframeStart
  <2> HIDE DEF none, p0
  <2>5. \A V : none \in [1 .. 0 -> V]
    BY <2>1 DEF none
  <2>. QED  BY <2>3, <2>4, <2>5 DEF SubframesAre
<1>2. 0 \in 0 .. 3 /\ 1 \in 0 .. 3 /\ 2 \in 0 .. 3 /\ 3 \in 0 .. 3 /\ 0 + 1 = 1 /\ 1 + 1 = 2 /\ 2 + 1 = 3 /\ 3 + 1 = 4
  OBVIOUS
<1> HIDE DEF p0
<1>3. SubframesAre(p1, 1)
  <2>1. SubframesAre(SubframeStep(p0, 0 + 1, r), 0 + 1)
    BY <1>1, <1>2, SubframeIs
  <2>. QED  BY <1>2, <2>1
<1> HIDE DEF p1
<1>4. SubframesAre(p2, 2)
  <2>1. SubframesAre(SubframeStep(p1, 1 + 1, r), 1 + 1)
    BY <1>2, <1>3, SubframeIs
  <2>. QED  BY <1>2, <2>1
<1> HIDE DEF p2
<1>5. SubframesAre(p3, 3)
  <2>1. SubframesAre(SubframeStep(p2, 2 + 1, r), 2 + 1)
    BY <1>2, <1>4, SubframeIs
  <2>. QED  BY <1>2, <2>1
<1> HIDE DEF p3
<1>6. SubframesAre(p4, 4)
  <2>1. SubframesAre(SubframeStep(p3, 3 + 1, r), 3 + 1)
    BY <1>2, <1>5, SubframeIs
  <2>. QED  BY <1>2, <2>1
<1>. QED  BY <1>6, EncodedInSteps DEF p0, p1, p2, p3

-----------------------------------------------------------------------------
(* LPC analysis. *)

(* A frame is the sequence of its 160 samples. *)
LEMMA FrameKept ==
  ASSUME NEW V, NEW s \in [1 .. 160 -> V]
  PROVE  SubSeq(s, 1, 160) = s /\ Len(s) = 160 /\ Samples(s, 160)
<1>1. PICK n \in Nat \ {0} : n = 160
  OBVIOUS
<1>2. s \in [1 .. n -> V]
  BY <1>1
<1>3. SubSeq(s, 1, n) = s /\ Len(s) = n /\ Samples(s, n)
  BY <1>2, Kept, Zenon
<1>. QED  BY <1>1, <1>3

(* The signal with itself, a lag apart. *)
Correlated(s, lag) == SumOver(LAMBDA k : s[k] * s[k - lag], lag + 1, FrameLen)

(* A sum of whole numbers. *)
LEMMA CorrelatedIs ==
  ASSUME NEW s \in [1 .. 160 -> Int], NEW lag \in 0 .. 8
  PROVE  Correlated(s, lag) \in Int
<1>0. PICK n \in Int, i \in Int : n = 160 /\ i = lag + 1 /\ i <= n
  OBVIOUS
<1> DEFINE F == [k \in i .. n |-> s[k] * s[k - lag]]
           body(sum) == [r \in (i .. n) \X (i .. n) |->
                           IF r[1] = r[2] THEN s[r[1]] * s[r[1] - lag]
                           ELSE sum[LeftOf(r)] + sum[RightOf(r)]]
           t == CHOOSE sum : sum = body(sum)
<1>1. Correlated(s, lag) = t[<<i, n>>]
  <2>1. n = FrameLen /\ i = lag + 1
    BY <1>0 DEF FrameLen
  <2>2. Correlated(s, lag) = SumOver(LAMBDA k : s[k] * s[k - lag], i, n)
    BY <2>1, Zenon DEF Correlated
  <2>. QED  BY <2>2, Zenon DEF SumOver
<1>2. F \in [i .. n -> Int]
  <2>1. ASSUME NEW k \in i .. n PROVE s[k] * s[k - lag] \in Int
    <3>1. k \in 1 .. 160 /\ k - lag \in 1 .. 160
      BY <1>0
    <3>2. s[k] \in Int /\ s[k - lag] \in Int
      BY <3>1
    <3>. QED  BY <3>2
  <2>. QED  BY <2>1
<1>3. \A sum : Sums(sum, F, i, n) <=> sum = body(sum)
  <2>1. ASSUME NEW sum
        PROVE  [r \in (i .. n) \X (i .. n) |-> IF r[1] = r[2] THEN F[r[1]] ELSE sum[LeftOf(r)] + sum[RightOf(r)]]
               = body(sum)
    OBVIOUS
  <2> HIDE DEF F, body
  <2>. QED  BY <2>1 DEF Sums
<1> HIDE DEF F, body
<1>4. Summable(F, i, n)
  BY <1>0, <1>2, SumsExist
<1>5. t = body(t)
  BY <1>3, <1>4, Zenon DEF Summable
<1>. QED  BY <1>1, <1>3, <1>4, <1>5, Zenon DEF Summable

(* gsm0610_lpc.c, autocorrelation: nine numbers, and a signal that is      *)
(* scaled and scaled back and still of 16 bits. The first number is even,  *)
(* so that normalizing by it is defined unless it is 0.                    *)
LEMMA AutocorrelationIs ==
  ASSUME NEW amp \in [1 .. 160 -> Int16]
  PROVE  LET ac == Autocorrelation(amp)
         IN  ac.amp \in [1 .. 160 -> Int16] /\ ac.L_ACF \in [0 .. 8 -> Int] /\ ac.L_ACF[0] # -1
<1> DEFINE smax == Peak(amp)
           scalauto == IF smax = 0 THEN 0 ELSE 4 - Norm(Shl(smax, 16))
           factor == Shr(Half, scalauto - 1)
           low == [k \in 1 .. 160 |-> MultR(amp[k], factor)]
           scaled == IF scalauto <= 0 THEN amp ELSE SubSeq(low, 1, 160)
           high == [k \in 1 .. 160 |-> ToInt16(Shl(scaled[k], scalauto))]
           ac == Autocorrelation(amp)
<1>1. ac = [amp   |-> IF scalauto <= 0 THEN amp ELSE SubSeq(high, 1, 160),
            L_ACF |-> [lag \in 0 .. 8 |-> 2 * Correlated(scaled, lag)]]
  BY Zenon DEF Autocorrelation, Correlated, Signal, FrameLen
<1>2. smax \in Nat
  <2>1. Len(amp) = 160
    BY FrameKept
  <2>2. IsPeak(smax, amp, 160)
    <3>1. 160 \in Nat \ {0}
      OBVIOUS
    <3>. QED  BY <2>1, <3>1, PeakBounds
  <2>. QED  BY <2>2 DEF IsPeak
<1> HIDE DEF smax, ac
<1>3. scalauto \in Int /\ scalauto <= 4
  <2>1. ASSUME smax # 0 PROVE Norm(Shl(smax, 16)) \in 0 .. 30
    <3>1. Two(16) = 65536
      BY DEF Two, PowerOfTwo
    <3>2. Shl(smax, 16) \in Int /\ Shl(smax, 16) # 0 /\ Shl(smax, 16) # -1
      BY <1>2, <2>1, <3>1 DEF Shl
    <3>. QED  BY <3>2, NormIs
  <2>. QED  BY <2>1
<1> HIDE DEF scalauto
<1>4. scaled \in [1 .. 160 -> Int] /\ (scalauto <= 0 \/ scalauto \in 1 .. 4)
  <2>1. amp \in [1 .. 160 -> Int]
    BY Int16Is
  <2>2. ASSUME scalauto \in 1 .. 4 PROVE SubSeq(low, 1, 160) \in [1 .. 160 -> Int]
    <3>1. factor \in Int
      <4>1. scalauto - 1 \in 0 .. 30 /\ Half \in Int
        BY <2>2 DEF Half
      <4>. QED  BY <4>1, Shifted
    <3> HIDE DEF factor
    <3>2. low \in [1 .. 160 -> Int]
      BY <2>1, <3>1, Multiplied
    <3> HIDE DEF low
    <3>3. SubSeq(low, 1, 160) = low
      BY <3>2, FrameKept
    <3>. QED  BY <3>2, <3>3
  <2>3. scalauto <= 0 \/ scalauto \in 1 .. 4
    BY <1>3
  <2> HIDE DEF low
  <2>. QED  BY <1>3, <2>1, <2>2, <2>3
<1> HIDE DEF scaled
<1>5. ASSUME scalauto \in 1 .. 4 PROVE SubSeq(high, 1, 160) \in [1 .. 160 -> Int16]
  <2>1. ASSUME NEW k \in 1 .. 160 PROVE ToInt16(Shl(scaled[k], scalauto)) \in Int16
    <3>1. scaled[k] \in Int /\ scalauto \in 0 .. 30
      BY <1>4, <1>5
    <3>2. Shl(scaled[k], scalauto) \in Int
      BY <3>1, Shifted
    <3>. QED  BY <3>2, Narrowed
  <2>2. high \in [1 .. 160 -> Int16]
    BY <2>1
  <2> HIDE DEF high
  <2>3. SubSeq(high, 1, 160) = high
    BY <2>2, FrameKept
  <2>. QED  BY <2>2, <2>3
<1> HIDE DEF high
<1>6. ac.amp \in [1 .. 160 -> Int16]
  <2>1. ac.amp = IF scalauto <= 0 THEN amp ELSE SubSeq(high, 1, 160)
    BY <1>1
  <2>2. CASE scalauto <= 0
    BY <2>1, <2>2
  <2>3. CASE ~(scalauto <= 0)
    BY <1>4, <1>5, <2>1, <2>3
  <2>. QED  BY <2>2, <2>3
<1>7. \A lag \in 0 .. 8 : Correlated(scaled, lag) \in Int
  BY <1>4, CorrelatedIs
<1>8. ac.L_ACF = [lag \in 0 .. 8 |-> 2 * Correlated(scaled, lag)]
  BY <1>1
<1>9. ac.L_ACF \in [0 .. 8 -> Int]
  <2>1. \A lag \in 0 .. 8 : 2 * Correlated(scaled, lag) \in Int
    BY <1>7
  <2>. QED  BY <1>8, <2>1
<1>10. ac.L_ACF[0] # -1
  <2>1. PICK c \in Int : c = Correlated(scaled, 0)
    <3>1. 0 \in 0 .. 8
      OBVIOUS
    <3>. QED  BY <1>7, <3>1
  <2>2. ac.L_ACF[0] = 2 * c
    BY <1>8, <2>1
  <2>. QED  BY <2>2
<1>. QED  BY <1>6, <1>9, <1>10 DEF ac

(* One turn of reflection_coefficients. *)
SchurStep(p, n) ==
  LET a == SaturatedAbs16(p.P[1])
      r == IF p.P[1] > 0 THEN -GsmDiv(a, p.P[0]) ELSE GsmDiv(a, p.P[0])
  IN  IF Len(p.r) = 8 THEN p
      ELSE IF p.P[0] < a THEN [p EXCEPT !.r = @ \o Zeros(9 - n)]
      ELSE [P |-> [m \in 0 .. 8 |->
                     IF m = 0 THEN SaturatedAdd16(p.P[0], MultR(p.P[1], r))
                     ELSE IF m <= 8 - n
                          THEN SaturatedAdd16(p.P[m + 1], MultR(p.K[m], r))
                     ELSE p.P[m]],
            K |-> [m \in 0 .. 8 |->
                     IF m \in 1 .. 8 - n
                     THEN SaturatedAdd16(p.K[m], MultR(p.P[m + 1], r))
                     ELSE p.K[m]],
            r |-> Append(p.r, r)]
SchurStart(ACF) == [P |-> ACF, K |-> ACF, r |-> <<>>]
Schurs(f, ACF) == f = [n \in 0 .. 8 |-> IF n = 0 THEN SchurStart(ACF) ELSE SchurStep(f[n - 1], n)]

(* After n turns there are n coefficients, or all eight. *)
Schur(n) == {p \in [P : [0 .. 8 -> Int], K : [0 .. 8 -> Int], r : UNION {[1 .. m -> Int] : m \in 0 .. 8}] :
               p.r \in [1 .. n -> Int] \/ p.r \in [1 .. 8 -> Int]}

(* Every turn adds a coefficient, or fills up with zeros. *)
LEMMA SchurStepIs ==
  ASSUME NEW n \in 1 .. 8, NEW p \in Schur(n - 1)
  PROVE  SchurStep(p, n) \in Schur(n)
<1> DEFINE a == SaturatedAbs16(p.P[1])
           r == IF p.P[1] > 0 THEN -GsmDiv(a, p.P[0]) ELSE GsmDiv(a, p.P[0])
           z == p.r \o Zeros(9 - n)
           PP == [m \in 0 .. 8 |->
                     IF m = 0 THEN SaturatedAdd16(p.P[0], MultR(p.P[1], r))
                     ELSE IF m <= 8 - n
                          THEN SaturatedAdd16(p.P[m + 1], MultR(p.K[m], r))
                     ELSE p.P[m]]
           KK == [m \in 0 .. 8 |->
                     IF m \in 1 .. 8 - n
                     THEN SaturatedAdd16(p.K[m], MultR(p.P[m + 1], r))
                     ELSE p.K[m]]
           rr == Append(p.r, r)
           x == SchurStep(p, n)
           R == UNION {[1 .. m -> Int] : m \in 0 .. 8}
<1>0. x = IF Len(p.r) = 8 THEN p
          ELSE IF p.P[0] < a THEN [p EXCEPT !.r = z]
          ELSE [P |-> PP, K |-> KK, r |-> rr]
  BY Zenon DEF SchurStep
<1> HIDE DEF x
<1>1. /\ p.P \in [0 .. 8 -> Int] /\ p.K \in [0 .. 8 -> Int] /\ p.r \in R
      /\ p = [P |-> p.P, K |-> p.K, r |-> p.r]
      /\ p.r \in [1 .. n - 1 -> Int] \/ p.r \in [1 .. 8 -> Int]
  BY DEF Schur
<1>2. \A m \in 0 .. 8 : [1 .. m -> Int] \subseteq R
  OBVIOUS
<1> HIDE DEF R
<1>3. \A y : /\ y.P \in [0 .. 8 -> Int] /\ y.K \in [0 .. 8 -> Int]
             /\ y = [P |-> y.P, K |-> y.K, r |-> y.r]
             /\ y.r \in [1 .. n -> Int] \/ y.r \in [1 .. 8 -> Int]
             => y \in Schur(n)
  <2> SUFFICES ASSUME NEW y,
                      y.P \in [0 .. 8 -> Int], y.K \in [0 .. 8 -> Int],
                      y = [P |-> y.P, K |-> y.K, r |-> y.r],
                      y.r \in [1 .. n -> Int] \/ y.r \in [1 .. 8 -> Int]
               PROVE  y \in Schur(n)
    OBVIOUS
  <2>1. y.r \in R
    <3>1. n \in 0 .. 8 /\ 8 \in 0 .. 8
      OBVIOUS
    <3>. QED  BY <1>2, <3>1
  <2>2. y \in [P : [0 .. 8 -> Int], K : [0 .. 8 -> Int], r : R]
    BY <2>1
  <2>. QED  BY <2>2 DEF Schur, R
<1>4. a \in Int /\ r \in Int
  <2>1. 0 \in 0 .. 8 /\ 1 \in 0 .. 8
    OBVIOUS
  <2>2. p.P[0] \in Int /\ p.P[1] \in Int
    BY <1>1, <2>1
  <2>3. a \in Int
    BY <2>2, Magnitude
  <2> HIDE DEF a
  <2>4. GsmDiv(a, p.P[0]) \in Int
    BY <2>2, <2>3, Divided
  <2>. QED  BY <2>3, <2>4
<1> HIDE DEF a, r
<1>5. PP \in [0 .. 8 -> Int]
  <2>1. ASSUME NEW m \in 0 .. 8
        PROVE  PP[m] \in Int
    <3>1. 0 \in 0 .. 8 /\ 1 \in 0 .. 8 /\ (m # 0 /\ m <= 8 - n => m + 1 \in 0 .. 8)
      OBVIOUS
    <3>2. p.P[0] \in Int /\ p.P[1] \in Int /\ p.P[m] \in Int /\ p.K[m] \in Int
      BY <1>1, <3>1
    <3>3. SaturatedAdd16(p.P[0], MultR(p.P[1], r)) \in Int
      <4>1. MultR(p.P[1], r) \in Int
        BY <1>4, <3>2, Multiplied
      <4>. QED  BY <3>2, <4>1, Added
    <3>4. ASSUME m # 0, m <= 8 - n
          PROVE  SaturatedAdd16(p.P[m + 1], MultR(p.K[m], r)) \in Int
      <4>1. p.P[m + 1] \in Int
        BY <1>1, <3>1, <3>4
      <4>2. MultR(p.K[m], r) \in Int
        BY <1>4, <3>2, Multiplied
      <4>. QED  BY <4>1, <4>2, Added
    <3>. QED  BY <3>2, <3>3, <3>4
  <2>2. PP = [m \in 0 .. 8 |-> PP[m]]
    OBVIOUS
  <2> HIDE DEF PP
  <2>. QED  BY <2>1, <2>2
<1>6. KK \in [0 .. 8 -> Int]
  <2>1. ASSUME NEW m \in 0 .. 8
        PROVE  KK[m] \in Int
    <3>1. m \in 1 .. 8 - n => m + 1 \in 0 .. 8
      OBVIOUS
    <3>2. p.K[m] \in Int
      BY <1>1
    <3>3. ASSUME m \in 1 .. 8 - n
          PROVE  SaturatedAdd16(p.K[m], MultR(p.P[m + 1], r)) \in Int
      <4>1. p.P[m + 1] \in Int
        BY <1>1, <3>1, <3>3
      <4>2. MultR(p.P[m + 1], r) \in Int
        BY <1>4, <4>1, Multiplied
      <4>. QED  BY <3>2, <4>2, Added
    <3>. QED  BY <3>2, <3>3
  <2>2. KK = [m \in 0 .. 8 |-> KK[m]]
    OBVIOUS
  <2> HIDE DEF KK
  <2>. QED  BY <2>1, <2>2
<1>7. Len(p.r) # 8 => p.r \in [1 .. n - 1 -> Int]
  <2>1. p.r \in [1 .. 8 -> Int] => Len(p.r) = 8
    <3>1. 8 \in Nat \ {0}
      OBVIOUS
    <3>. QED  BY <3>1, Kept
  <2>. QED  BY <1>1, <2>1
<1> HIDE DEF PP, KK
<1>8. CASE Len(p.r) = 8
  <2>1. x = p
    BY <1>0, <1>8
  <2>2. p.r \in [1 .. 8 -> Int]
    <3>1. PICK k \in Nat : k = n - 1 /\ k # 8
      OBVIOUS
    <3>2. p.r \in [1 .. k -> Int] => Len(p.r) = k
      BY SamplesSeq DEF Samples
    <3>. QED  BY <1>1, <1>8, <3>1, <3>2
  <2>. QED  BY <1>1, <1>3, <2>1, <2>2 DEF x
<1>9. CASE Len(p.r) # 8 /\ p.P[0] < a
  <2>1. z \in [1 .. 8 -> Int]
    <3>1. PICK k \in Nat, l \in Nat \ {0} : k = n - 1 /\ l = 9 - n /\ k + l = 8
      OBVIOUS
    <3>2. p.r \in [1 .. k -> Int]
      BY <1>7, <1>9, <3>1
    <3>3. Zeros(l) \in [1 .. l -> {0}]
      BY ZerosAre
    <3>4. Zeros(l) \in [1 .. l -> Int]
      BY <3>3
    <3>5. p.r \o Zeros(l) \in [1 .. k + l -> Int]
      BY <3>2, <3>4, Linked
    <3>. QED  BY <3>1, <3>5
  <2> HIDE DEF z
  <2>2. x = [p EXCEPT !.r = z]
    BY <1>0, <1>9
  <2>3. x = [P |-> p.P, K |-> p.K, r |-> z]
    BY <1>1, <2>2
  <2>. QED  BY <1>1, <1>3, <2>1, <2>3 DEF x
<1>10. CASE Len(p.r) # 8 /\ ~(p.P[0] < a)
  <2>1. rr \in [1 .. n -> Int]
    <3>1. PICK k \in Nat : k = n - 1 /\ k + 1 = n
      OBVIOUS
    <3>2. p.r \in [1 .. k -> Int]
      BY <1>7, <1>10, <3>1
    <3>3. Append(p.r, r) \in [1 .. k + 1 -> Int]
      BY <1>4, <3>2, OneMore
    <3>. QED  BY <3>1, <3>3
  <2> HIDE DEF rr
  <2>2. x = [P |-> PP, K |-> KK, r |-> rr]
    BY <1>0, <1>10
  <2>. QED  BY <1>3, <1>5, <1>6, <2>1, <2>2 DEF x
<1>11. x \in Schur(n)
  BY <1>8, <1>9, <1>10 DEF x
<1>. QED  BY <1>11 DEF x

(* reflection_coefficients returns eight numbers. *)
LEMMA ReflectionIs ==
  ASSUME NEW L_ACF \in [0 .. 8 -> Int], L_ACF[0] # -1
  PROVE  ReflectionCoefficients(L_ACF) \in [1 .. 8 -> Int]
<1> DEFINE shift == Norm(L_ACF[0])
           ACF == [i \in 0 .. 8 |-> Shr(Shl(L_ACF[i], shift), 16)]
           schur == CHOOSE f : Schurs(f, ACF)
<1>1. ReflectionCoefficients(L_ACF) = IF L_ACF[0] = 0 THEN Zeros(8) ELSE schur[8].r
  BY Zenon DEF ReflectionCoefficients, Schurs, SchurStep, SchurStart
<1>2. CASE L_ACF[0] = 0
  <2>1. 8 \in Nat \ {0}
    OBVIOUS
  <2>2. Zeros(8) \in [1 .. 8 -> {0}]
    BY <2>1, ZerosAre
  <2>3. Zeros(8) \in [1 .. 8 -> Int]
    BY <2>2
  <2>. QED  BY <1>1, <1>2, <2>3
<1>3. CASE L_ACF[0] # 0
  <2>1. shift \in 0 .. 30
    <3>1. L_ACF[0] \in Int
      <4>1. 0 \in 0 .. 8
        OBVIOUS
      <4>. QED  BY <4>1
    <3>. QED  BY <1>3, <3>1, NormIs
  <2> HIDE DEF shift
  <2>2. ACF \in [0 .. 8 -> Int]
    <3>1. ASSUME NEW i \in 0 .. 8 PROVE Shr(Shl(L_ACF[i], shift), 16) \in Int
      <4>1. L_ACF[i] \in Int /\ 16 \in 0 .. 30
        OBVIOUS
      <4>2. Shl(L_ACF[i], shift) \in Int
        BY <2>1, <4>1, Shifted
      <4>. QED  BY <4>1, <4>2, Shifted
    <3>. QED  BY <3>1
  <2> HIDE DEF ACF
  <2> DEFINE z == SchurStart(ACF)
             P == [k \in 0 .. 8 |-> Schur(k)]
  <2>3. z \in Schur(0)
    <3> DEFINE R == UNION {[1 .. m -> Int] : m \in 0 .. 8}
    <3>1. <<>> \in [1 .. 0 -> Int] /\ 0 \in 0 .. 8
      BY NothingIs
    <3>2. <<>> \in R
      BY <3>1
    <3> HIDE DEF R
    <3>3. z.r = <<>> /\ z \in [P : [0 .. 8 -> Int], K : [0 .. 8 -> Int], r : R]
      BY <2>2, <3>2 DEF SchurStart
    <3> HIDE DEF z
    <3>4. z.r \in [1 .. 0 -> Int]
      BY <3>1, <3>3
    <3>. QED  BY <3>3, <3>4 DEF Schur, R
  <2> HIDE DEF z
  <2>4. ASSUME NEW f, f[0] = z, \A k \in 1 .. 8 : f[k - 1] \in Schur(k - 1) => f[k] = SchurStep(f[k - 1], k)
        PROVE  \A k \in 0 .. 8 : f[k] \in Schur(k)
    <3>1. f[0] \in P[0]
      BY <2>3, <2>4
    <3>2. ASSUME NEW k \in 0 + 1 .. 8, f[k - 1] \in P[k - 1] PROVE f[k] \in P[k]
      <4>1. k \in 1 .. 8 /\ k - 1 \in 0 .. 8 /\ k \in 0 .. 8
        OBVIOUS
      <4>2. f[k - 1] \in Schur(k - 1)
        BY <3>2, <4>1
      <4>3. f[k] = SchurStep(f[k - 1], k)
        BY <2>4, <4>1, <4>2
      <4>4. f[k] \in Schur(k)
        BY <4>1, <4>2, <4>3, SchurStepIs
      <4>. QED  BY <4>1, <4>4
    <3>3. \A k \in 0 .. 8 : f[k] \in P[k]
      <4> HIDE DEF P
      <4>. QED  BY <3>1, <3>2, CountedHold
    <3>. QED  BY <3>3
  <2>5. \E f : Schurs(f, ACF)
    <3> DEFINE W == UNION {Schur(k) : k \in 0 .. 8}
               G == [q \in W \X (0 .. 8) |-> SchurStep(q[1], q[2])]
    <3>1. PICK f : Counted(f, 0, 8, z, G)
      <4>1. 0 \in Int /\ 8 \in Int /\ 0 <= 8
        OBVIOUS
      <4>. QED  BY <4>1, CountedExist
    <3>2. f = [k \in 0 .. 8 |-> IF k = 0 THEN z ELSE G[<<f[k - 1], k>>]]
      BY <3>1 DEF Counted
    <3>3. ASSUME NEW k \in 1 .. 8, f[k - 1] \in Schur(k - 1)
          PROVE  G[<<f[k - 1], k>>] = SchurStep(f[k - 1], k)
      <4>1. k - 1 \in 0 .. 8 /\ k \in 0 .. 8
        OBVIOUS
      <4>2. f[k - 1] \in W
        BY <3>3, <4>1
      <4> HIDE DEF W
      <4>. QED  BY <4>1, <4>2
    <3> HIDE DEF G, W
    <3>4. f[0] = z
      BY <3>2
    <3>5. \A k \in 1 .. 8 : k \in 0 .. 8 /\ k # 0 /\ f[k] = G[<<f[k - 1], k>>]
      BY <3>2
    <3>6. \A k \in 0 .. 8 : f[k] \in Schur(k)
      BY <2>4, <3>3, <3>4, <3>5
    <3>7. \A k \in 0 .. 8 : k # 0 => f[k] = SchurStep(f[k - 1], k)
      <4>1. \A k \in 0 .. 8 : k # 0 => k \in 1 .. 8 /\ k - 1 \in 0 .. 8
        OBVIOUS
      <4>. QED  BY <3>3, <3>5, <3>6, <4>1
    <3>8. f = [k \in 0 .. 8 |-> IF k = 0 THEN z ELSE SchurStep(f[k - 1], k)]
      BY <3>2, <3>4, <3>7
    <3>. QED  BY <3>8 DEF Schurs, z
  <2>6. Schurs(schur, ACF)
    BY <2>5, Zenon
  <2> HIDE DEF schur
  <2>7. schur[8] \in Schur(8)
    <3>1. schur = [k \in 0 .. 8 |-> IF k = 0 THEN z ELSE SchurStep(schur[k - 1], k)]
      BY <2>6 DEF Schurs, z
    <3>2. schur[0] = z /\ \A k \in 1 .. 8 : schur[k] = SchurStep(schur[k - 1], k)
      BY <3>1
    <3>3. 8 \in 0 .. 8
      OBVIOUS
    <3>. QED  BY <2>4, <3>2, <3>3
  <2>8. schur[8].r \in [1 .. 8 -> Int]
    BY <2>7 DEF Schur
  <2>. QED  BY <1>1, <1>3, <2>8
<1>. QED  BY <1>2, <1>3

(* quantization_and_coding: every coded ratio fits its field, for any      *)
(* reflection coefficients.                                                *)
LEMMA RatioCodes ==
  ASSUME NEW r \in [1 .. 8 -> Int]
  PROVE  QuantizationAndCoding(TransformToLogAreaRatios(r))
           \in {l \in [1 .. 8 -> 0 .. 63] : \A i \in 1 .. 8 : l[i] <= LARMax[i]}
<1> DEFINE lar == [i \in 1 .. 8 |-> LogAreaRatio(r[i])]
           code == [i \in 1 .. 8 |-> CodeRatio(i, lar[i])]
<1>0. 8 \in Nat \ {0}
  OBVIOUS
<1>1. lar \in [1 .. 8 -> Int]
  <2>1. ASSUME NEW i \in 1 .. 8 PROVE LogAreaRatio(r[i]) \in Int
    <3>1. PICK a \in Int : a = SaturatedAbs16(r[i])
      <4>1. r[i] \in Int
        OBVIOUS
      <4>. QED  BY <4>1, Magnitude
    <3>2. Shr(a, 1) \in Int /\ Shl(a - 26112, 2) \in Int
      <4>1. PICK b \in Int, i1 \in 0 .. 30, i2 \in 0 .. 30 : b = a - 26112 /\ i1 = 1 /\ i2 = 2
        OBVIOUS
      <4>2. Shr(a, i1) \in Int /\ Shl(b, i2) \in Int
        BY Shifted
      <4>. QED  BY <4>1, <4>2
    <3>. QED  BY <3>1, <3>2 DEF LogAreaRatio
  <2>. QED  BY <2>1
<1>2. TransformToLogAreaRatios(r) = lar
  <2>1. SubSeq(lar, 1, 8) = lar
    <3> HIDE DEF lar
    <3>. QED  BY <1>0, <1>1, Kept
  <2>. QED  BY <2>1, Zenon DEF TransformToLogAreaRatios, Signal
<1> HIDE DEF lar
<1>3. ASSUME NEW i \in 1 .. 8, NEW v \in Int PROVE CodeRatio(i, v) \in 0 .. 63 /\ CodeRatio(i, v) <= LARMax[i]
  <2>1. LAR_A[i] \in Int /\ LAR_B[i] \in Int
    BY DEF LAR_A, LAR_B
  <2> DEFINE s == SaturatedAdd16(SaturatedAdd16(SaturatedMul16(LAR_A[i], v), LAR_B[i]), 256)
             t == Shr(s, 9)
  <2>2. t \in Int
    <3>1. SaturatedMul16(LAR_A[i], v) \in Int
      BY <2>1, Multiplied
    <3>2. SaturatedAdd16(SaturatedMul16(LAR_A[i], v), LAR_B[i]) \in Int
      BY <2>1, <3>1, Added
    <3>3. s \in Int
      <4>1. 256 \in Int
        OBVIOUS
      <4>. QED  BY <3>2, <4>1, Added
    <3> HIDE DEF s
    <3>4. 9 \in 0 .. 30
      OBVIOUS
    <3>. QED  BY <3>3, <3>4, Shifted
  <2>3. CodeRatio(i, v) = IF t > LAR_MAC[i] THEN LAR_MAC[i] - LAR_MIC[i]
                          ELSE IF t < LAR_MIC[i] THEN 0
                          ELSE t - LAR_MIC[i]
    BY DEF CodeRatio
  <2> HIDE DEF t
  <2>4. /\ LAR_MAC[i] \in Int /\ LAR_MIC[i] \in Int /\ LARMax[i] \in 0 .. 63
        /\ LAR_MAC[i] - LAR_MIC[i] = LARMax[i]
    BY DEF LAR_MAC, LAR_MIC, LARMax
  <2>. QED  BY <2>2, <2>3, <2>4
<1>4. /\ code \in [1 .. 8 -> 0 .. 63]
      /\ \A i \in 1 .. 8 : code[i] <= LARMax[i]
  <2>1. \A i \in 1 .. 8 : lar[i] \in Int
    BY <1>1
  <2>. QED  BY <1>3, <2>1
<1>5. QuantizationAndCoding(lar) = code
  <2>1. SubSeq(code, 1, 8) = code
    <3> HIDE DEF code
    <3>. QED  BY <1>0, <1>4, Kept
  <2>. QED  BY <2>1, Zenon DEF QuantizationAndCoding, Signal
<1> HIDE DEF code
<1>. QED  BY <1>2, <1>4, <1>5

(* gsm0610_lpc_analysis: the coded ratios fit, and the signal it leaves is *)
(* one of 16 bits.                                                         *)
LEMMA AnalysisIs ==
  ASSUME NEW so \in [1 .. 160 -> Int16]
  PROVE  /\ LpcAnalysis(so).LARc \in {l \in [1 .. 8 -> 0 .. 63] : \A i \in 1 .. 8 : l[i] <= LARMax[i]}
         /\ LpcAnalysis(so).amp \in [1 .. 160 -> Int16]
<1> DEFINE ac == Autocorrelation(so)
           r == ReflectionCoefficients(ac.L_ACF)
           c == QuantizationAndCoding(TransformToLogAreaRatios(r))
<1>1. LpcAnalysis(so).LARc = c /\ LpcAnalysis(so).amp = ac.amp
  BY DEF LpcAnalysis
<1>2. ac.amp \in [1 .. 160 -> Int16] /\ ac.L_ACF \in [0 .. 8 -> Int] /\ ac.L_ACF[0] # -1
  BY AutocorrelationIs
<1> HIDE DEF ac
<1>3. r \in [1 .. 8 -> Int]
  BY <1>2, ReflectionIs
<1> HIDE DEF r
<1>4. c \in {l \in [1 .. 8 -> 0 .. 63] : \A i \in 1 .. 8 : l[i] <= LARMax[i]}
  BY <1>3, RatioCodes
<1> HIDE DEF c
<1>. QED  BY <1>1, <1>2, <1>4

-----------------------------------------------------------------------------
(* Short term filter. *)

(* decode_log_area_ratios makes eight numbers of the codes. *)
LEMMA DecodedRatiosAre ==
  ASSUME NEW c \in [1 .. 8 -> 0 .. 63]
  PROVE  DecodeLogAreaRatios(c) \in [1 .. 8 -> Int]
<1> DEFINE x == [i \in 1 .. 8 |-> DecodeRatio(i, c[i])]
<1>1. x \in [1 .. 8 -> Int]
  <2>1. ASSUME NEW i \in 1 .. 8 PROVE DecodeRatio(i, c[i]) \in Int
    <3>1. LAR_INV[i] \in Int /\ LAR_MIC[i] \in Int /\ 2 * LAR_B[i] \in Int /\ c[i] \in Int
      BY DEF LAR_INV, LAR_MIC, LAR_B
    <3>2. PICK a \in Int : a = SaturatedAdd16(c[i], LAR_MIC[i])
      BY <3>1, Added
    <3>3. PICK b \in Int : b = ToInt16(Shl(a, 10))
      <4>1. PICK n \in 0 .. 30 : n = 10
        OBVIOUS
      <4>2. Shl(a, n) \in Int
        BY Shifted
      <4>. QED  BY <4>1, <4>2, Narrowed
    <3>4. PICK d \in Int : d = SaturatedSub16(b, 2 * LAR_B[i])
      BY <3>1, Added
    <3>5. PICK t \in Int : t = MultR(LAR_INV[i], d)
      BY <3>1, Multiplied
    <3>6. SaturatedAdd16(t, t) \in Int
      BY Added
    <3>. QED  BY <3>2, <3>3, <3>4, <3>5, <3>6 DEF DecodeRatio
  <2>. QED  BY <2>1
<1>2. SubSeq(x, 1, 8) = x
  <2>1. 8 \in Nat \ {0}
    OBVIOUS
  <2> HIDE DEF x
  <2>. QED  BY <1>1, <2>1, Kept
<1>. QED  BY <1>1, <1>2, Zenon DEF DecodeLogAreaRatios, Signal

(* Interpolated and transformed, a ratio is a number. *)
LEMMA CoefficientIs ==
  ASSUME NEW n \in 1 .. 4, NEW old \in Int, NEW new \in Int
  PROVE  LarpToRp(Coefficient(n, old, new)) \in Int
<1>1. Coefficient(n, old, new) \in Int
  <2>1. PICK one \in 0 .. 30, two \in 0 .. 30 : one = 1 /\ two = 2
    OBVIOUS
  <2>2. PICK o1 \in Int, o2 \in Int, n1 \in Int, n2 \in Int :
          o1 = Shr(old, 1) /\ o2 = Shr(old, 2) /\ n1 = Shr(new, 1) /\ n2 = Shr(new, 2)
    <3>1. Shr(old, one) \in Int /\ Shr(old, two) \in Int /\ Shr(new, one) \in Int /\ Shr(new, two) \in Int
      BY Shifted
    <3>. QED  BY <2>1, <3>1
  <2>3. PICK s \in Int : s = SaturatedAdd16(o2, n2)
    BY Added
  <2>4. SaturatedAdd16(s, o1) \in Int /\ SaturatedAdd16(o1, n1) \in Int /\ SaturatedAdd16(s, n1) \in Int
    BY Added
  <2>5. n = 1 \/ n = 2 \/ n = 3 \/ n = 4
    OBVIOUS
  <2>. QED  BY <2>2, <2>3, <2>4, <2>5 DEF Coefficient
<1> DEFINE l == Coefficient(n, old, new)
<1> HIDE DEF l
<1>2. PICK a \in Int : a = SaturatedAbs16(l)
  BY <1>1, Magnitude DEF l
<1>3. Shl(a, 1) \in Int /\ SaturatedAdd16(Shr(a, 2), 26112) \in Int
  <2>1. PICK one \in 0 .. 30, two \in 0 .. 30, c \in Int : one = 1 /\ two = 2 /\ c = 26112
    OBVIOUS
  <2>2. Shl(a, one) \in Int /\ Shr(a, two) \in Int
    BY Shifted
  <2>3. SaturatedAdd16(Shr(a, two), c) \in Int
    BY <2>2, Added
  <2>. QED  BY <2>1, <2>2, <2>3
<1>4. LarpToRp(l) \in Int
  BY <1>2, <1>3 DEF LarpToRp
<1>. QED  BY <1>4 DEF l

(* The four sets of coefficients of a frame. *)
LEMMA CoefficientsAre ==
  ASSUME NEW old \in [1 .. 8 -> Int], NEW new \in [1 .. 8 -> Int]
  PROVE  FilterCoefficients(old, new) \in [1 .. 4 -> [1 .. 8 -> Int]]
<1> DEFINE row(n) == [i \in 1 .. 8 |-> LarpToRp(Coefficient(n, old[i], new[i]))]
           table == [n \in 1 .. 4 |-> SubSeq(row(n), 1, 8)]
<1>1. FilterCoefficients(old, new) = SubSeq(table, 1, 4)
  BY Zenon DEF FilterCoefficients, Signal
<1>2. ASSUME NEW n \in 1 .. 4 PROVE SubSeq(row(n), 1, 8) \in [1 .. 8 -> Int]
  <2>1. \A i \in 1 .. 8 : old[i] \in Int /\ new[i] \in Int
    OBVIOUS
  <2>2. row(n) \in [1 .. 8 -> Int]
    BY <2>1, CoefficientIs
  <2>3. 8 \in Nat \ {0}
    OBVIOUS
  <2> HIDE DEF row
  <2>4. SubSeq(row(n), 1, 8) = row(n)
    BY <2>2, <2>3, Kept
  <2>. QED  BY <2>2, <2>4
<1> HIDE DEF row
<1>3. table \in [1 .. 4 -> [1 .. 8 -> Int]]
  BY <1>2
<1>4. SubSeq(table, 1, 4) = table
  <2>1. 4 \in Nat \ {0}
    OBVIOUS
  <2> HIDE DEF table
  <2>. QED  BY <1>3, <2>1, Kept
<1>. QED  BY <1>1, <1>3, <1>4

(* The ratios of two frames, and which are older. *)
RatiosOK(s) == s.LARpp \in [1 .. 2 -> [1 .. 8 -> Int]] /\ s.j \in 0 .. 1

(* Every frame leaves the ratios in that form. *)
LEMMA RatiosAre ==
  ASSUME NEW s, RatiosOK(s), NEW c \in [1 .. 8 -> 0 .. 63]
  PROVE  RatiosOK(Ratios(s, c)) /\ Ratios(s, c).rps \in [1 .. 4 -> [1 .. 8 -> Int]]
<1> DEFINE new == DecodeLogAreaRatios(c)
           x == Ratios(s, c)
<1>1. x = [LARpp |-> [s.LARpp EXCEPT ![s.j + 1] = new], j |-> 1 - s.j,
           rps |-> FilterCoefficients(s.LARpp[2 - s.j], new)]
  BY Zenon DEF Ratios
<1>2. new \in [1 .. 8 -> Int]
  BY DecodedRatiosAre
<1> HIDE DEF new, x
<1>3. s.LARpp \in [1 .. 2 -> [1 .. 8 -> Int]] /\ s.j \in 0 .. 1 /\ s.j + 1 \in 1 .. 2 /\ 2 - s.j \in 1 .. 2
  BY DEF RatiosOK
<1>4. [s.LARpp EXCEPT ![s.j + 1] = new] \in [1 .. 2 -> [1 .. 8 -> Int]]
  BY <1>2, <1>3
<1>5. FilterCoefficients(s.LARpp[2 - s.j], new) \in [1 .. 4 -> [1 .. 8 -> Int]]
  <2>1. s.LARpp[2 - s.j] \in [1 .. 8 -> Int]
    BY <1>3
  <2>. QED  BY <1>2, <2>1, CoefficientsAre
<1>6. 1 - s.j \in 0 .. 1
  BY <1>3
<1>. QED  BY <1>1, <1>4, <1>5, <1>6 DEF x, RatiosOK

(* A loop whose turns stay in the sets P has all its values in them. *)
LEMMA CountedIs ==
  ASSUME NEW n \in Int, NEW m \in Int, n <= m, NEW P, NEW z \in P[n], NEW G,
         \A k \in n + 1 .. m : \A p \in P[k - 1] : G[<<p, k>>] \in P[k]
  PROVE  \E f : Counted(f, n, m, z, G) /\ \A k \in n .. m : f[k] \in P[k]
<1>1. PICK f : Counted(f, n, m, z, G)
  BY CountedExist
<1>2. f = [k \in n .. m |-> IF k = n THEN z ELSE G[<<f[k - 1], k>>]]
  BY <1>1 DEF Counted
<1>3. f[n] \in P[n]
  BY <1>2
<1>4. ASSUME NEW k \in n + 1 .. m, f[k - 1] \in P[k - 1] PROVE f[k] \in P[k]
  <2>1. k \in n .. m /\ k # n
    OBVIOUS
  <2>2. f[k] = G[<<f[k - 1], k>>]
    BY <1>2, <2>1
  <2>. QED  BY <1>4, <2>2
<1>5. \A k \in n .. m : f[k] \in P[k]
  BY <1>3, <1>4, CountedHold
<1>. QED  BY <1>1, <1>5

(* Every sample of a frame has its set of coefficients. *)
LEMMA SegmentIs ==
  ASSUME NEW k \in 1 .. 160
  PROVE  SegmentOf(k) \in 1 .. 4
<1> DEFINE in(n) == k <= SegmentEnd[n] /\ (n > 1 => k > SegmentEnd[n - 1])
<1>0. SegmentEnd[1] = 13 /\ SegmentEnd[2] = 27 /\ SegmentEnd[3] = 40 /\ SegmentEnd[4] = 160
  BY DEF SegmentEnd
<1>1. \E n \in 1 .. 4 : in(n)
  <2>1. CASE k <= 13
    <3>1. 1 \in 1 .. 4 /\ in(1)
      BY <1>0, <2>1
    <3>. QED  BY <3>1
  <2>2. CASE k > 13 /\ k <= 27
    <3>1. 2 \in 1 .. 4 /\ in(2)
      BY <1>0, <2>2
    <3>. QED  BY <3>1
  <2>3. CASE k > 27 /\ k <= 40
    <3>1. 3 \in 1 .. 4 /\ in(3)
      BY <1>0, <2>3
    <3>. QED  BY <3>1
  <2>4. CASE k > 40
    <3>1. 4 \in 1 .. 4 /\ in(4)
      BY <1>0, <2>4
    <3>. QED  BY <3>1
  <2>. QED  BY <2>1, <2>2, <2>3, <2>4
<1>. QED  BY <1>1, Zenon DEF SegmentOf

(* One stage of the lattice of short_term_analysis_filtering. *)
Stage(rp, u, p, i) ==
  [di    |-> Saturate(p.di + Shr(rp[i] * u[i] + Half, 15)),
   u_out |-> Saturate(u[i] + Shr(rp[i] * p.di + Half, 15)),
   u     |-> Append(p.u, p.u_out)]
StageStart(a) == [di |-> a, u_out |-> a, u |-> <<>>]
Stages(f, rp, u, a) ==
  f = [i \in 0 .. 8 |-> IF i = 0 THEN StageStart(a) ELSE Stage(rp, u, f[i - 1], i)]
Lattice(rp, u, a) == (CHOOSE f : Stages(f, rp, u, a))[8]

(* What there is after i stages. *)
AfterStage(i) == [di : Int, u_out : Int, u : [1 .. i -> Int]]

(* Every stage adds to the memory of the filter. *)
LEMMA StageIs ==
  ASSUME NEW rp \in [1 .. 8 -> Int], NEW u \in [1 .. 8 -> Int],
         NEW i \in 1 .. 8, NEW p \in AfterStage(i - 1)
  PROVE  Stage(rp, u, p, i) \in AfterStage(i)
<1>1. p.di \in Int /\ p.u_out \in Int /\ p.u \in [1 .. i - 1 -> Int] /\ rp[i] \in Int /\ u[i] \in Int
  BY DEF AfterStage
<1>2. \A a, b, c \in Int : Saturate(c + Shr(a * b + Half, 15)) \in Int
  <2> SUFFICES ASSUME NEW a \in Int, NEW b \in Int, NEW c \in Int
               PROVE  Saturate(c + Shr(a * b + Half, 15)) \in Int
    OBVIOUS
  <2>1. PICK x \in Int : x = a * b + Half
    BY DEF Half
  <2>2. Shr(x, 15) \in Int
    <3>1. PICK n \in 0 .. 30 : n = 15
      OBVIOUS
    <3>2. Shr(x, n) \in Int
      BY Shifted
    <3>. QED  BY <3>1, <3>2
  <2>3. c + Shr(x, 15) \in Int
    BY <2>2
  <2>. QED  BY <2>1, <2>3, SaturatedIs
<1>3. Append(p.u, p.u_out) \in [1 .. i -> Int]
  <2>1. PICK k \in Nat : k = i - 1 /\ k + 1 = i
    OBVIOUS
  <2>2. Append(p.u, p.u_out) \in [1 .. k + 1 -> Int]
    BY <1>1, <2>1, OneMore
  <2>. QED  BY <2>1, <2>2
<1>. QED  BY <1>1, <1>2, <1>3 DEF Stage, AfterStage

(* After eight stages a sample is filtered, and there is the memory for    *)
(* the next.                                                               *)
LEMMA LatticeIs ==
  ASSUME NEW rp \in [1 .. 8 -> Int], NEW u \in [1 .. 8 -> Int], NEW a \in Int
  PROVE  Lattice(rp, u, a).di \in Int /\ Lattice(rp, u, a).u \in [1 .. 8 -> Int]
<1> DEFINE z == StageStart(a)
           P == [k \in 0 .. 8 |-> AfterStage(k)]
           W == UNION {AfterStage(k) : k \in 0 .. 8}
           G == [q \in W \X (0 .. 8) |-> Stage(rp, u, q[1], q[2])]
           f == CHOOSE g : Stages(g, rp, u, a)
<1>0. 0 \in Int /\ 8 \in Int /\ 0 <= 8
  OBVIOUS
<1>1. z \in P[0]
  <2>1. <<>> \in [1 .. 0 -> Int] /\ P[0] = AfterStage(0)
    BY NothingIs
  <2>. QED  BY <2>1 DEF StageStart, AfterStage
<1>2. ASSUME NEW k \in 0 + 1 .. 8, NEW p \in P[k - 1]
      PROVE  G[<<p, k>>] = Stage(rp, u, p, k) /\ Stage(rp, u, p, k) \in P[k]
  <2>1. k \in 1 .. 8 /\ k - 1 \in 0 .. 8 /\ k \in 0 .. 8
    OBVIOUS
  <2>2. p \in AfterStage(k - 1)
    BY <2>1
  <2>3. p \in W
    BY <2>1, <2>2
  <2>4. Stage(rp, u, p, k) \in AfterStage(k)
    BY <2>1, <2>2, StageIs
  <2> HIDE DEF W
  <2>. QED  BY <2>1, <2>3, <2>4
<1> HIDE DEF P, W, G, z
<1>3. \E g : Stages(g, rp, u, a)
  <2>1. \A k \in 0 + 1 .. 8 : \A p \in P[k - 1] : G[<<p, k>>] \in P[k]
    BY <1>2
  <2>2. PICK g : Counted(g, 0, 8, z, G) /\ \A k \in 0 .. 8 : g[k] \in P[k]
    BY <1>0, <1>1, <2>1, CountedIs
  <2>3. g = [k \in 0 .. 8 |-> IF k = 0 THEN z ELSE G[<<g[k - 1], k>>]]
    BY <2>2 DEF Counted
  <2>4. \A k \in 0 .. 8 : k # 0 => G[<<g[k - 1], k>>] = Stage(rp, u, g[k - 1], k)
    <3>1. \A k \in 0 .. 8 : k # 0 => k \in 0 + 1 .. 8 /\ k - 1 \in 0 .. 8
      OBVIOUS
    <3>. QED  BY <1>2, <2>2, <3>1
  <2>5. g = [k \in 0 .. 8 |-> IF k = 0 THEN z ELSE Stage(rp, u, g[k - 1], k)]
    BY <2>3, <2>4
  <2>. QED  BY <2>5 DEF Stages, z
<1>4. Stages(f, rp, u, a)
  BY <1>3, Zenon
<1> HIDE DEF f
<1>5. f[8] \in P[8]
  <2>1. f = [k \in 0 .. 8 |-> IF k = 0 THEN z ELSE Stage(rp, u, f[k - 1], k)]
    BY <1>4 DEF Stages, z
  <2>2. f[0] \in P[0]
    BY <1>1, <2>1
  <2>3. ASSUME NEW k \in 0 + 1 .. 8, f[k - 1] \in P[k - 1] PROVE f[k] \in P[k]
    <3>1. f[k] = Stage(rp, u, f[k - 1], k)
      BY <2>1
    <3>. QED  BY <1>2, <2>3, <3>1
  <2>4. \A k \in 0 .. 8 : f[k] \in P[k]
    BY <1>0, <2>2, <2>3, CountedHold
  <2>. QED  BY <2>4
<1>6. f[8] \in AfterStage(8)
  BY <1>5 DEF P
<1>. QED  BY <1>6 DEF f, Lattice, AfterStage

(* short_term_analysis_filtering for one sample, and for 40 of them. *)
AnalysisStep(rps, p, a) ==
  LET l == Lattice(RpAt(rps, p.out), p.u, a) IN [out |-> Append(p.out, l.di), u |-> l.u]
AnalysisRuns(f, rps, amp, p) ==
  f = [k \in Len(p.out) .. Len(p.out) + SubLen |->
         IF k = Len(p.out) THEN p ELSE AnalysisStep(rps, f[k - 1], amp[k])]
AnalysisRun(rps, amp, p) == (CHOOSE f : AnalysisRuns(f, rps, amp, p))[Len(p.out) + SubLen]

(* k samples are filtered. *)
Analysed(k) == [out : [1 .. k -> Int], u : [1 .. 8 -> Int]]

(* Every turn filters a sample. *)
LEMMA AnalysisStepIs ==
  ASSUME NEW rps \in [1 .. 4 -> [1 .. 8 -> Int]], NEW k \in 1 .. 160, NEW p \in Analysed(k - 1), NEW a \in Int
  PROVE  AnalysisStep(rps, p, a) \in Analysed(k)
<1>1. p.out \in [1 .. k - 1 -> Int] /\ p.u \in [1 .. 8 -> Int]
  BY DEF Analysed
<1>2. PICK n \in Nat : n = k - 1 /\ n + 1 = k
  OBVIOUS
<1>3. RpAt(rps, p.out) \in [1 .. 8 -> Int]
  <2>1. p.out \in [1 .. n -> Int]
    BY <1>1, <1>2
  <2>2. Len(p.out) = n
    BY <2>1, SamplesSeq DEF Samples
  <2>3. SegmentOf(k) \in 1 .. 4
    BY SegmentIs
  <2>. QED  BY <1>2, <2>2, <2>3 DEF RpAt
<1> DEFINE l == Lattice(RpAt(rps, p.out), p.u, a)
<1>4. l.di \in Int /\ l.u \in [1 .. 8 -> Int]
  BY <1>1, <1>3, LatticeIs
<1> HIDE DEF l
<1>5. Append(p.out, l.di) \in [1 .. k -> Int]
  <2>1. p.out \in [1 .. n -> Int]
    BY <1>1, <1>2
  <2>2. Append(p.out, l.di) \in [1 .. n + 1 -> Int]
    BY <1>4, <2>1, OneMore
  <2>. QED  BY <1>2, <2>2
<1>6. AnalysisStep(rps, p, a) = [out |-> Append(p.out, l.di), u |-> l.u]
  BY DEF AnalysisStep, l
<1>. QED  BY <1>4, <1>5, <1>6 DEF Analysed

(* 40 turns filter 40. *)
LEMMA AnalysisRunIs ==
  ASSUME NEW rps \in [1 .. 4 -> [1 .. 8 -> Int]], NEW amp \in [1 .. 160 -> Int],
         NEW n \in 0 .. 120, NEW p \in Analysed(n)
  PROVE  AnalysisRun(rps, amp, p) \in Analysed(n + 40)
<1> DEFINE m == n + 40
           P == [k \in 0 .. 160 |-> Analysed(k)]
           W == UNION {Analysed(k) : k \in 0 .. 160}
           G == [q \in W \X (0 .. 160) |-> AnalysisStep(rps, q[1], amp[q[2]])]
           f == CHOOSE g : AnalysisRuns(g, rps, amp, p)
<1>0. n \in Int /\ m \in Int /\ n <= m /\ \A k \in n .. m : k \in 0 .. 160
  OBVIOUS
<1>1. p \in P[n]
  OBVIOUS
<1>2. ASSUME NEW k \in n + 1 .. m, NEW q \in P[k - 1]
      PROVE  G[<<q, k>>] = AnalysisStep(rps, q, amp[k]) /\ AnalysisStep(rps, q, amp[k]) \in P[k]
  <2>1. k \in 1 .. 160 /\ k - 1 \in 0 .. 160 /\ k \in 0 .. 160
    OBVIOUS
  <2>2. q \in Analysed(k - 1)
    BY <2>1
  <2>3. q \in W
    BY <2>1, <2>2
  <2>4. AnalysisStep(rps, q, amp[k]) \in Analysed(k)
    <3>1. amp[k] \in Int
      BY <2>1
    <3>. QED  BY <2>1, <2>2, <3>1, AnalysisStepIs
  <2> HIDE DEF W
  <2>. QED  BY <2>1, <2>3, <2>4
<1>3. Len(p.out) = n /\ Len(p.out) + SubLen = m
  <2>1. n \in Nat
    OBVIOUS
  <2>2. p.out \in [1 .. n -> Int]
    BY Zenon DEF Analysed
  <2>3. Len(p.out) = n
    BY <2>1, <2>2, SamplesSeq DEF Samples
  <2>. QED  BY <2>3 DEF SubLen
<1>4. \A g : AnalysisRuns(g, rps, amp, p) <=>
             g = [k \in n .. m |-> IF k = n THEN p ELSE AnalysisStep(rps, g[k - 1], amp[k])]
  <2> HIDE DEF m
  <2>. QED  BY <1>3, Zenon DEF AnalysisRuns
<1>5. AnalysisRun(rps, amp, p) = f[m]
  <2> HIDE DEF m
  <2>. QED  BY <1>3, Zenon DEF AnalysisRun
<1>6. P[m] = Analysed(n + 40)
  OBVIOUS
<1> HIDE DEF P, W, G, m
<1>7. \E g : AnalysisRuns(g, rps, amp, p)
  <2>1. ASSUME NEW k \in n + 1 .. m, NEW q \in P[k - 1] PROVE G[<<q, k>>] \in P[k]
    <3>1. G[<<q, k>>] = AnalysisStep(rps, q, amp[k]) /\ AnalysisStep(rps, q, amp[k]) \in P[k]
      BY <1>2
    <3>. QED  BY <3>1, Zenon
  <2>2. PICK g : Counted(g, n, m, p, G) /\ \A k \in n .. m : g[k] \in P[k]
    BY <1>0, <1>1, <2>1, CountedIs
  <2>3. g = [k \in n .. m |-> IF k = n THEN p ELSE G[<<g[k - 1], k>>]]
    BY <2>2 DEF Counted
  <2>4. \A k \in n .. m : k # n => G[<<g[k - 1], k>>] = AnalysisStep(rps, g[k - 1], amp[k])
    <3>1. \A k \in n .. m : k # n => k \in n + 1 .. m /\ k - 1 \in n .. m
      BY <1>0
    <3>. QED  BY <1>2, <2>2, <3>1
  <2>5. g = [k \in n .. m |-> IF k = n THEN p ELSE AnalysisStep(rps, g[k - 1], amp[k])]
    BY <2>3, <2>4
  <2>. QED  BY <1>4, <2>5
<1>8. f = [k \in n .. m |-> IF k = n THEN p ELSE AnalysisStep(rps, f[k - 1], amp[k])]
  BY <1>4, <1>7, Zenon
<1> HIDE DEF f
<1>9. f[m] \in P[m]
  <2>1. f[n] \in P[n]
    BY <1>0, <1>1, <1>8
  <2>2. ASSUME NEW k \in n + 1 .. m, f[k - 1] \in P[k - 1] PROVE f[k] \in P[k]
    <3>1. k \in n .. m /\ k # n
      BY <1>0
    <3>2. f[k] = AnalysisStep(rps, f[k - 1], amp[k])
      BY <1>8, <3>1, Zenon
    <3>. QED  BY <1>2, <2>2, <3>2
  <2>3. \A k \in n .. m : f[k] \in P[k]
    BY <1>0, <2>1, <2>2, CountedHold
  <2>. QED  BY <1>0, <2>3
<1>. QED  BY <1>5, <1>6, <1>9

(* gsm0610_short_term_analysis_filter filters the 160 samples of a frame. *)
LEMMA AnalysedIs ==
  ASSUME NEW rps \in [1 .. 4 -> [1 .. 8 -> Int]], NEW u \in [1 .. 8 -> Int], NEW amp \in [1 .. 160 -> Int]
  PROVE  ShortTermAnalysisFiltering(u, rps, amp) \in Analysed(160)
<1> DEFINE s0 == [out |-> <<>>, u |-> u]
           s1 == AnalysisRun(rps, amp, s0)
           s2 == AnalysisRun(rps, amp, s1)
           s3 == AnalysisRun(rps, amp, s2)
           s4 == AnalysisRun(rps, amp, s3)
           blocks == Len(amp) \div SubLen
           body(f) == [b \in 0 .. blocks |-> IF b = 0 THEN s0 ELSE AnalysisRun(rps, amp, f[b - 1])]
           g == [b \in 0 .. 4 |-> IF b = 0 THEN s0 ELSE IF b = 1 THEN s1 ELSE IF b = 2 THEN s2
                                  ELSE IF b = 3 THEN s3 ELSE s4]
           after == CHOOSE f : f = body(f)
<1>1. ShortTermAnalysisFiltering(u, rps, amp) = after[blocks]
  BY Zenon DEF ShortTermAnalysisFiltering, Filter, AnalysisRun, AnalysisRuns, AnalysisStep,
               Lattice, Stages, Stage, StageStart
<1>2. blocks = 4
  <2>1. Len(amp) = 160
    BY FrameKept
  <2>. QED  BY <2>1 DEF SubLen
<1> HIDE DEF blocks
<1>3. g = body(g)
  <2> HIDE DEF s0, s1, s2, s3, s4
  <2>1. /\ g[0] = s0 /\ g[1] = s1 /\ g[2] = s2 /\ g[3] = s3 /\ g[4] = s4
        /\ g = [b \in 0 .. 4 |-> g[b]]
    OBVIOUS
  <2>2. s1 = AnalysisRun(rps, amp, s0) /\ s2 = AnalysisRun(rps, amp, s1)
        /\ s3 = AnalysisRun(rps, amp, s2) /\ s4 = AnalysisRun(rps, amp, s3)
    BY DEF s1, s2, s3, s4
  <2>3. \A b \in 0 .. 4 : b = 0 \/ b = 1 \/ b = 2 \/ b = 3 \/ b = 4
    OBVIOUS
  <2> HIDE DEF g
  <2>4. \A b \in 0 .. 4 : g[b] = IF b = 0 THEN s0 ELSE AnalysisRun(rps, amp, g[b - 1])
    BY <2>1, <2>2, <2>3
  <2>. QED  BY <1>2, <2>1, <2>4
<1>4. after = body(after)
  <2> HIDE DEF g, body
  <2>. QED  BY <1>3, Zenon
<1> HIDE DEF after, g
<1>5. after[4] = s4
  <2>1. \A b \in 0 .. 4 : after[b] = IF b = 0 THEN s0 ELSE AnalysisRun(rps, amp, after[b - 1])
    BY <1>2, <1>4
  <2>2. 0 \in 0 .. 4 /\ 1 \in 0 .. 4 /\ 2 \in 0 .. 4 /\ 3 \in 0 .. 4 /\ 4 \in 0 .. 4
        /\ 1 - 1 = 0 /\ 2 - 1 = 1 /\ 3 - 1 = 2 /\ 4 - 1 = 3
    OBVIOUS
  <2> HIDE DEF s0
  <2>3. after[0] = s0
    BY <2>1, <2>2
  <2>4. after[1] = s1
    BY <2>1, <2>2, <2>3
  <2> HIDE DEF s1
  <2>5. after[2] = s2
    BY <2>1, <2>2, <2>4
  <2> HIDE DEF s2
  <2>6. after[3] = s3
    BY <2>1, <2>2, <2>5
  <2> HIDE DEF s3
  <2>. QED  BY <2>1, <2>2, <2>6
<1>6. 0 \in 0 .. 120 /\ 40 \in 0 .. 120 /\ 80 \in 0 .. 120 /\ 120 \in 0 .. 120
      /\ 0 + 40 = 40 /\ 40 + 40 = 80 /\ 80 + 40 = 120 /\ 120 + 40 = 160
  OBVIOUS
<1>7. s0 \in Analysed(0)
  <2>1. <<>> \in [1 .. 0 -> Int]
    BY NothingIs
  <2>. QED  BY <2>1 DEF Analysed
<1> HIDE DEF s0
<1>8. s1 \in Analysed(40)
  BY <1>6, <1>7, AnalysisRunIs
<1> HIDE DEF s1
<1>9. s2 \in Analysed(80)
  BY <1>6, <1>8, AnalysisRunIs
<1> HIDE DEF s2
<1>10. s3 \in Analysed(120)
  BY <1>6, <1>9, AnalysisRunIs
<1> HIDE DEF s3
<1>11. s4 \in Analysed(160)
  BY <1>6, <1>10, AnalysisRunIs
<1>. QED  BY <1>1, <1>2, <1>5, <1>11

-----------------------------------------------------------------------------
(* Preprocessing. *)

(* saturated_add32 returns a number. *)
LEMMA Saturated32 ==
  ASSUME NEW a \in Int, NEW b \in Int
  PROVE  SaturatedAdd32(a, b) \in Int
  BY DEF SaturatedAdd32, MaxInt32, MinInt32

(* The product of 32 and 16 bits in the offset compensation is a number. *)
LEMMA Multiplied32 ==
  ASSUME NEW a \in Int, NEW b \in Int
  PROVE  MultR32(a, b) \in Int
<1>1. PICK n \in 0 .. 30 : n = 15
  OBVIOUS
<1>2. PICK l \in Int : l = a % 32768
  OBVIOUS
<1>3. PICK x \in Int : x = l * b + Half
  BY DEF Half
<1>4. PICK y \in Int : y = Shr(x, n)
  BY Shifted
<1>5. PICK z \in Int : z = Shr(a, n)
  BY Shifted
<1>6. z * b + y \in Int
  OBVIOUS
<1>7. MultR32(a, b) = z * b + y
  BY <1>1, <1>2, <1>3, <1>4, <1>5 DEF MultR32
<1>. QED  BY <1>6, <1>7

(* gsm0610_preprocess for one sample, and for 40 of them. *)
PreStep(p, a) ==
  LET SO == 4 * Shr(a, 3)
      z2 == SaturatedAdd32(MultR32(p.L_z2, Alpha), Shl(SO - p.z1, 15))
      mp == ToInt16(Shr(SaturatedAdd32(z2, Half), 15))
  IN  [out |-> Append(p.out, SaturatedAdd16(mp, MultR(p.mp, -Beta))),
       z1 |-> SO, L_z2 |-> z2, mp |-> mp]
PreRuns(f, amp, p) ==
  f = [k \in Len(p.out) .. Len(p.out) + SubLen |->
         IF k = Len(p.out) THEN p ELSE PreStep(f[k - 1], amp[k])]
PreRun(amp, p) == (CHOOSE f : PreRuns(f, amp, p))[Len(p.out) + SubLen]

(* k samples are preprocessed. *)
Prepared(k) == [out : [1 .. k -> Int16], z1 : Int, L_z2 : Int, mp : Int]

(* Every turn makes a sample of 16 bits. *)
LEMMA PreStepIs ==
  ASSUME NEW k \in 1 .. 160, NEW p \in Prepared(k - 1), NEW a \in Int
  PROVE  PreStep(p, a) \in Prepared(k)
<1>1. p.out \in [1 .. k - 1 -> Int16] /\ p.z1 \in Int /\ p.L_z2 \in Int /\ p.mp \in Int
  BY Zenon DEF Prepared
<1>2. PICK n \in Nat : n = k - 1 /\ n + 1 = k
  OBVIOUS
<1>3. PICK three \in 0 .. 30, fifteen \in 0 .. 30 : three = 3 /\ fifteen = 15
  OBVIOUS
<1>4. PICK alpha \in Int, beta \in Int, half \in Int : alpha = Alpha /\ beta = -Beta /\ half = Half
  BY DEF Alpha, Beta, Half
<1> DEFINE SO == 4 * Shr(a, three)
           z2 == SaturatedAdd32(MultR32(p.L_z2, alpha), Shl(SO - p.z1, fifteen))
           mp == ToInt16(Shr(SaturatedAdd32(z2, half), fifteen))
           o  == SaturatedAdd16(mp, MultR(p.mp, beta))
<1>5. SO \in Int
  <2>1. Shr(a, three) \in Int
    BY Shifted
  <2>. QED  BY <2>1
<1>6. PreStep(p, a) = [out |-> Append(p.out, o), z1 |-> SO, L_z2 |-> z2, mp |-> mp]
  BY <1>3, <1>4, Zenon DEF PreStep
<1> HIDE DEF SO
<1>7. z2 \in Int
  <2>1. PICK d \in Int : d = SO - p.z1
    BY <1>1, <1>5
  <2>2. PICK s \in Int : s = Shl(d, fifteen)
    BY Shifted
  <2>3. PICK m \in Int : m = MultR32(p.L_z2, alpha)
    BY <1>1, Multiplied32
  <2>. QED  BY <2>1, <2>2, <2>3, Saturated32
<1> HIDE DEF z2
<1>8. mp \in Int
  <2>1. PICK s \in Int : s = SaturatedAdd32(z2, half)
    BY <1>7, Saturated32
  <2>2. PICK t \in Int : t = Shr(s, fifteen)
    BY Shifted
  <2>. QED  BY <2>1, <2>2, Narrowed
<1> HIDE DEF mp
<1>9. o \in Int16
  <2>1. PICK m \in Int : m = MultR(p.mp, beta)
    BY <1>1, Multiplied
  <2>. QED  BY <1>8, <2>1, Added
<1> HIDE DEF o
<1>10. Append(p.out, o) \in [1 .. k -> Int16]
  <2>1. p.out \in [1 .. n -> Int16]
    BY <1>1, <1>2, Zenon
  <2>2. Append(p.out, o) \in [1 .. n + 1 -> Int16]
    BY <1>9, <2>1, OneMore
  <2>. QED  BY <1>2, <2>2, Zenon
<1>11. PICK x \in [1 .. k -> Int16] : x = Append(p.out, o)
  BY <1>10
<1>. QED  BY <1>5, <1>6, <1>7, <1>8, <1>11 DEF Prepared

(* 40 turns make 40. *)
LEMMA PreRunIs ==
  ASSUME NEW amp \in [1 .. 160 -> Int16], NEW n \in 0 .. 120, NEW p \in Prepared(n)
  PROVE  PreRun(amp, p) \in Prepared(n + 40)
<1> DEFINE m == n + 40
           P == [k \in 0 .. 160 |-> Prepared(k)]
           W == UNION {Prepared(k) : k \in 0 .. 160}
           G == [q \in W \X (0 .. 160) |-> PreStep(q[1], amp[q[2]])]
           f == CHOOSE g : PreRuns(g, amp, p)
<1>0. n \in Int /\ m \in Int /\ n <= m /\ \A k \in n .. m : k \in 0 .. 160
  OBVIOUS
<1>1. p \in P[n]
  OBVIOUS
<1>2. ASSUME NEW k \in n + 1 .. m, NEW q \in P[k - 1]
      PROVE  G[<<q, k>>] = PreStep(q, amp[k]) /\ PreStep(q, amp[k]) \in P[k]
  <2>1. k \in 1 .. 160 /\ k - 1 \in 0 .. 160 /\ k \in 0 .. 160
    OBVIOUS
  <2>2. q \in Prepared(k - 1)
    BY <2>1
  <2>3. q \in W
    BY <2>1, <2>2
  <2>4. PreStep(q, amp[k]) \in Prepared(k)
    <3>1. amp[k] \in Int
      BY <2>1, Int16Is
    <3>. QED  BY <2>1, <2>2, <3>1, PreStepIs
  <2> HIDE DEF W
  <2>. QED  BY <2>1, <2>3, <2>4
<1>3. Len(p.out) = n /\ Len(p.out) + SubLen = m
  <2>1. n \in Nat
    OBVIOUS
  <2>2. p.out \in [1 .. n -> Int16]
    BY Zenon DEF Prepared
  <2>3. Len(p.out) = n
    BY <2>1, <2>2, SamplesSeq DEF Samples
  <2>. QED  BY <2>3 DEF SubLen
<1>4. \A g : PreRuns(g, amp, p) <=>
             g = [k \in n .. m |-> IF k = n THEN p ELSE PreStep(g[k - 1], amp[k])]
  <2> HIDE DEF m
  <2>. QED  BY <1>3, Zenon DEF PreRuns
<1>5. PreRun(amp, p) = f[m]
  <2> HIDE DEF m
  <2>. QED  BY <1>3, Zenon DEF PreRun
<1>6. P[m] = Prepared(n + 40)
  OBVIOUS
<1> HIDE DEF P, W, G, m
<1>7. \E g : PreRuns(g, amp, p)
  <2>1. ASSUME NEW k \in n + 1 .. m, NEW q \in P[k - 1] PROVE G[<<q, k>>] \in P[k]
    <3>1. G[<<q, k>>] = PreStep(q, amp[k]) /\ PreStep(q, amp[k]) \in P[k]
      BY <1>2
    <3>. QED  BY <3>1, Zenon
  <2>2. PICK g : Counted(g, n, m, p, G) /\ \A k \in n .. m : g[k] \in P[k]
    BY <1>0, <1>1, <2>1, CountedIs
  <2>3. g = [k \in n .. m |-> IF k = n THEN p ELSE G[<<g[k - 1], k>>]]
    BY <2>2 DEF Counted
  <2>4. \A k \in n .. m : k # n => G[<<g[k - 1], k>>] = PreStep(g[k - 1], amp[k])
    <3>1. \A k \in n .. m : k # n => k \in n + 1 .. m /\ k - 1 \in n .. m
      BY <1>0
    <3>. QED  BY <1>2, <2>2, <3>1
  <2>5. g = [k \in n .. m |-> IF k = n THEN p ELSE PreStep(g[k - 1], amp[k])]
    BY <2>3, <2>4
  <2>. QED  BY <1>4, <2>5
<1>8. f = [k \in n .. m |-> IF k = n THEN p ELSE PreStep(f[k - 1], amp[k])]
  BY <1>4, <1>7, Zenon
<1> HIDE DEF f
<1>9. f[m] \in P[m]
  <2>1. f[n] \in P[n]
    <3>1. n \in n .. m
      BY <1>0
    <3>2. f[n] = p
      BY <1>8, <3>1, Zenon
    <3>. QED  BY <1>1, <3>2
  <2>2. ASSUME NEW k \in n + 1 .. m, f[k - 1] \in P[k - 1] PROVE f[k] \in P[k]
    <3>1. k \in n .. m /\ k # n
      BY <1>0
    <3>2. f[k] = PreStep(f[k - 1], amp[k])
      BY <1>8, <3>1, Zenon
    <3>. QED  BY <1>2, <2>2, <3>2
  <2>3. \A k \in n .. m : f[k] \in P[k]
    BY <1>0, <2>1, <2>2, CountedHold
  <2>. QED  BY <1>0, <2>3
<1>. QED  BY <1>5, <1>6, <1>9

(* gsm0610_preprocess makes 160 samples of 16 bits of the microphone's. *)
LEMMA PreparedIs ==
  ASSUME NEW z1 \in Int, NEW L_z2 \in Int, NEW mp \in Int, NEW s,
         s.z1 = z1, s.L_z2 = L_z2, s.mp = mp, NEW amp \in [1 .. 160 -> Int16]
  PROVE  Preprocess(s, amp) \in Prepared(160)
<1> DEFINE s0 == [out |-> <<>>, z1 |-> s.z1, L_z2 |-> s.L_z2, mp |-> s.mp]
           s1 == PreRun(amp, s0)
           s2 == PreRun(amp, s1)
           s3 == PreRun(amp, s2)
           s4 == PreRun(amp, s3)
           blocks == Len(amp) \div SubLen
           body(f) == [b \in 0 .. blocks |-> IF b = 0 THEN s0 ELSE PreRun(amp, f[b - 1])]
           g == [b \in 0 .. 4 |-> IF b = 0 THEN s0 ELSE IF b = 1 THEN s1 ELSE IF b = 2 THEN s2
                                  ELSE IF b = 3 THEN s3 ELSE s4]
           after == CHOOSE f : f = body(f)
<1>1. Preprocess(s, amp) = after[blocks]
  BY Zenon DEF Preprocess, Filter, PreRun, PreRuns, PreStep
<1>2. blocks = 4
  <2>1. Len(amp) = 160
    BY FrameKept
  <2>. QED  BY <2>1 DEF SubLen
<1> HIDE DEF blocks
<1>3. g = body(g)
  <2> HIDE DEF s0, s1, s2, s3, s4
  <2>1. /\ g[0] = s0 /\ g[1] = s1 /\ g[2] = s2 /\ g[3] = s3 /\ g[4] = s4
        /\ g = [b \in 0 .. 4 |-> g[b]]
    OBVIOUS
  <2>2. s1 = PreRun(amp, s0) /\ s2 = PreRun(amp, s1)
        /\ s3 = PreRun(amp, s2) /\ s4 = PreRun(amp, s3)
    BY DEF s1, s2, s3, s4
  <2>3. \A b \in 0 .. 4 : b = 0 \/ b = 1 \/ b = 2 \/ b = 3 \/ b = 4
    OBVIOUS
  <2> HIDE DEF g
  <2>4. \A b \in 0 .. 4 : g[b] = IF b = 0 THEN s0 ELSE PreRun(amp, g[b - 1])
    BY <2>1, <2>2, <2>3
  <2>. QED  BY <1>2, <2>1, <2>4
<1>4. after = body(after)
  <2> HIDE DEF g, body
  <2>. QED  BY <1>3, Zenon
<1> HIDE DEF after, g
<1>5. after[4] = s4
  <2>1. \A b \in 0 .. 4 : after[b] = IF b = 0 THEN s0 ELSE PreRun(amp, after[b - 1])
    BY <1>2, <1>4
  <2>2. 0 \in 0 .. 4 /\ 1 \in 0 .. 4 /\ 2 \in 0 .. 4 /\ 3 \in 0 .. 4 /\ 4 \in 0 .. 4
        /\ 1 - 1 = 0 /\ 2 - 1 = 1 /\ 3 - 1 = 2 /\ 4 - 1 = 3
    OBVIOUS
  <2> HIDE DEF s0
  <2>3. after[0] = s0
    BY <2>1, <2>2
  <2>4. after[1] = s1
    BY <2>1, <2>2, <2>3
  <2> HIDE DEF s1
  <2>5. after[2] = s2
    BY <2>1, <2>2, <2>4
  <2> HIDE DEF s2
  <2>6. after[3] = s3
    BY <2>1, <2>2, <2>5
  <2> HIDE DEF s3
  <2>. QED  BY <2>1, <2>2, <2>6
<1>6. 0 \in 0 .. 120 /\ 40 \in 0 .. 120 /\ 80 \in 0 .. 120 /\ 120 \in 0 .. 120
      /\ 0 + 40 = 40 /\ 40 + 40 = 80 /\ 80 + 40 = 120 /\ 120 + 40 = 160
  OBVIOUS
<1>7. s0 \in Prepared(0)
  <2>1. <<>> \in [1 .. 0 -> Int16]
    BY NothingIs
  <2>. QED  BY <2>1 DEF Prepared
<1> HIDE DEF s0
<1>8. s1 \in Prepared(40)
  BY <1>6, <1>7, PreRunIs
<1> HIDE DEF s1
<1>9. s2 \in Prepared(80)
  BY <1>6, <1>8, PreRunIs
<1> HIDE DEF s2
<1>10. s3 \in Prepared(120)
  BY <1>6, <1>9, PreRunIs
<1> HIDE DEF s3
<1>11. s4 \in Prepared(160)
  BY <1>6, <1>10, PreRunIs
<1>. QED  BY <1>1, <1>2, <1>5, <1>11

-----------------------------------------------------------------------------
(* Decoder and encoder, subframe by subframe. *)

(* The decoder's turn for the k-th subframe. *)
DecoderStep(p, k, f) ==
  DecodedSubframe(p, LongTermSynthesisFiltering(p, f.Nc[k], f.bc[k],
                       RpeDecoding(f.xmaxc[k], f.Mc[k], f.xMc[k])))
DecoderStart(s) == [dp0 |-> s.dp0, nrp |-> s.nrp, wt |-> <<>>]

(* The decoder's loop over the four subframes is these four turns. *)
LEMMA DecodedInSteps ==
  ASSUME NEW s, NEW f
  PROVE  DecodedSubframes(s, f) =
           DecoderStep(DecoderStep(DecoderStep(DecoderStep(DecoderStart(s), 1, f), 2, f), 3, f), 4, f)
<1> DEFINE s0 == DecoderStart(s)
           s1 == DecoderStep(s0, 1, f)
           s2 == DecoderStep(s1, 2, f)
           s3 == DecoderStep(s2, 3, f)
           s4 == DecoderStep(s3, 4, f)
           body(h) == [k \in 0 .. 4 |-> IF k = 0 THEN s0 ELSE DecoderStep(h[k - 1], k, f)]
           g == [k \in 0 .. 4 |-> IF k = 0 THEN s0 ELSE IF k = 1 THEN s1 ELSE IF k = 2 THEN s2
                                  ELSE IF k = 3 THEN s3 ELSE s4]
           sub == CHOOSE h : h = body(h)
<1>1. DecodedSubframes(s, f) = sub[4]
  BY Zenon DEF DecodedSubframes, DecoderStep, DecoderStart
<1>2. g = body(g)
  <2> DEFINE t(k) == DecoderStep(g[k - 1], k, f)
  <2>1. s1 = t(1) /\ s2 = t(2) /\ s3 = t(3) /\ s4 = t(4)
    OBVIOUS
  <2> HIDE DEF s0, s1, s2, s3, s4
  <2>. QED  BY <2>1
<1>3. sub = body(sub)
  BY <1>2
<1>4. sub[0] = s0 /\ sub[1] = DecoderStep(sub[0], 1, f) /\ sub[2] = DecoderStep(sub[1], 2, f)
      /\ sub[3] = DecoderStep(sub[2], 3, f) /\ sub[4] = DecoderStep(sub[3], 4, f)
  <2> HIDE DEF sub, s0
  <2>1. \A k \in 1 .. 4 : sub[k] = DecoderStep(sub[k - 1], k, f)
    BY <1>3
  <2>2. sub[0] = s0
    BY <1>3
  <2>. QED  BY <2>1, <2>2
<1>. QED  BY <1>1, <1>4

(* t is s with e behind it. *)
OneLonger(t, s, e, n) ==
  /\ Len(s) = n
  /\ Len(t) = n + 1
  /\ \A i \in 1 .. n : t[i] = s[i]
  /\ t[n + 1] = e

(* This is what Append makes. *)
LEMMA AppendedIs ==
  ASSUME NEW V, NEW s \in Seq(V), NEW e \in V, NEW t \in Seq(V), NEW n \in Nat,
         OneLonger(t, s, e, n)
  PROVE  Append(s, e) = t
<1>0. /\ Len(s) = n
      /\ Len(t) = n + 1
      /\ \A i \in 1 .. n : t[i] = s[i]
      /\ t[n + 1] = e
  BY DEF OneLonger
<1> DEFINE u == Append(s, e)
<1>1. /\ u \in Seq(V) /\ Len(u) = Len(s) + 1
      /\ \A i \in 1 .. Len(s) : u[i] = s[i]
      /\ u[Len(s) + 1] = e
  BY <1>0, AppendProperties
<1>2. \A i \in 1 .. Len(u) : u[i] = t[i]
  <2>1. Len(s) \in Nat
    OBVIOUS
  <2> HIDE DEF u
  <2>. QED  BY <1>0, <1>1, <2>1
<1> HIDE DEF u
<1>3. Len(u) = Len(t)
  BY <1>0, <1>1
<1>. QED  BY <1>1, <1>2, <1>3, SeqEqual, Zenon DEF u

(* The fields of four subframes. *)
LEMMA FourAppended ==
  ASSUME NEW a, NEW b, NEW c, NEW d
  PROVE  Append(Append(Append(Append(<<>>, a), b), c), d) = <<a, b, c, d>>
<1> DEFINE V == {a, b, c, d}
<1>1. a \in V /\ b \in V /\ c \in V /\ d \in V
  OBVIOUS
<1>. HIDE DEF V
<1>0. <<>> \in Seq(V) /\ <<a>> \in Seq(V) /\ <<a, b>> \in Seq(V) /\ <<a, b, c>> \in Seq(V) /\ <<a, b, c, d>> \in Seq(V)
  BY <1>1
<1>2. Append(<<>>, a) = <<a>>
  OBVIOUS
<1>3. Append(<<a>>, b) = <<a, b>>
  <2>1. 1 \in Nat /\ OneLonger(<<a, b>>, <<a>>, b, 1)
    BY DEF OneLonger
  <2>. QED  BY <1>0, <1>1, <2>1, AppendedIs, Zenon
<1>4. Append(<<a, b>>, c) = <<a, b, c>>
  <2>1. 2 \in Nat /\ OneLonger(<<a, b, c>>, <<a, b>>, c, 2)
    BY DEF OneLonger
  <2>. QED  BY <1>0, <1>1, <2>1, AppendedIs, Zenon
<1>5. Append(<<a, b, c>>, d) = <<a, b, c, d>>
  <2>1. 3 \in Nat /\ OneLonger(<<a, b, c, d>>, <<a, b, c>>, d, 3)
    BY DEF OneLonger
  <2>. QED  BY <1>0, <1>1, <2>1, AppendedIs, Zenon
<1>. QED  BY <1>2, <1>3, <1>4, <1>5, Zenon

FieldsOf(f) == [Nc |-> f.Nc, bc |-> f.bc, Mc |-> f.Mc, xmaxc |-> f.xmaxc, xMc |-> f.xMc]

(* 120 samples are their own history. *)
LEMMA HistoryWhole ==
  ASSUME NEW s, Samples(s, 120)
  PROVE  HistoryOf(s) = s
<1>1. 120 \in Nat
  OBVIOUS
<1>2. Len(s) = 120
  BY <1>1, SamplesSeq, Zenon
<1>3. SubSeq(s, 1, 120) = s
  <2>1. 120 \in Nat \ {0}
    OBVIOUS
  <2>. QED  BY <2>1, Whole, Zenon
<1>4. 120 - 119 = 1
  OBVIOUS
<1>. QED  BY <1>2, <1>3, <1>4 DEF HistoryOf


(* The same of the turns of both loops. *)
LEMMA StepFollows ==
  ASSUME NEW n \in Nat, n >= 120, NEW p, NEW q, InStep(p, q, n),
         NEW k, NEW r, NEW f, Codes(f, k, Ltp(p, k, r), Rpe(p, k, r)), IsLag(f.Nc[k])
  PROVE  InStep(SubframeStep(p, k, r), DecoderStep(q, k, f), n + 40)
<1> DEFINE l == Ltp(p, k, r)
           e == Rpe(p, k, r)
<1>1. SubframeLag(p, k, r) \in 40 .. 120
  BY DEF Codes, SubframeLag, IsLag
<1>2. InStep(SubframeStep(p, k, r), SubframeHeard(q, l, e), n + 40)
  BY <1>1, SubframeFollows, Zenon
<1>3. SubframeHeard(q, l, e) = DecoderStep(q, k, f)
  BY DEF DecoderStep, Codes, SubframeHeard
<1>. QED  BY <1>2, <1>3

(* After a frame the decoder's residual is the end of what the encoder's   *)
(* has become, which the encoder moves to its beginning.                   *)
LEMMA ResidualFollows ==
  ASSUME NEW dp0, Samples(dp0, 120), NEW r, NEW s, s.dp0 = dp0, NEW f,
         FieldsOf(f) = FieldsOf(EncodedSubframes(dp0, r)),
         \A i \in 1 .. 4 : f.Nc[i] \in 40 .. 120
  PROVE  LET x == EncodedSubframes(dp0, r).dp0
         IN  /\ Samples(x, 280)
             /\ DecodedSubframes(s, f).dp0 = HistoryOf(x)
<1> DEFINE p0 == SubframeStart(dp0)
           p1 == SubframeStep(p0, 1, r)
           p2 == SubframeStep(p1, 2, r)
           p3 == SubframeStep(p2, 3, r)
           p4 == SubframeStep(p3, 4, r)
           q0 == DecoderStart(s)
           q1 == DecoderStep(q0, 1, f)
           q2 == DecoderStep(q1, 2, f)
           q3 == DecoderStep(q2, 3, f)
           q4 == DecoderStep(q3, 4, f)
           l1 == Ltp(p0, 1, r)
           l2 == Ltp(p1, 2, r)
           l3 == Ltp(p2, 3, r)
           l4 == Ltp(p3, 4, r)
           e1 == Rpe(p0, 1, r)
           e2 == Rpe(p1, 2, r)
           e3 == Rpe(p2, 3, r)
           e4 == Rpe(p3, 4, r)
<1>1. /\ p1 = EncodedSubframe(p0, l1, e1)
      /\ p2 = EncodedSubframe(p1, l2, e2)
      /\ p3 = EncodedSubframe(p2, l3, e3)
      /\ p4 = EncodedSubframe(p3, l4, e4)
  <2> HIDE DEF p0
  <2>1. p1 = EncodedSubframe(p0, l1, e1)
    BY Zenon DEF SubframeStep, PredictedSubframe, HistoryOf, Ltp, Rpe
  <2> HIDE DEF p1
  <2>2. p2 = EncodedSubframe(p1, l2, e2)
    BY Zenon DEF SubframeStep, PredictedSubframe, HistoryOf, Ltp, Rpe
  <2> HIDE DEF p2
  <2>3. p3 = EncodedSubframe(p2, l3, e3)
    BY Zenon DEF SubframeStep, PredictedSubframe, HistoryOf, Ltp, Rpe
  <2> HIDE DEF p3
  <2>4. p4 = EncodedSubframe(p3, l4, e4)
    BY Zenon DEF SubframeStep, PredictedSubframe, HistoryOf, Ltp, Rpe
  <2>. QED  BY <2>1, <2>2, <2>3, <2>4 DEF p1, p2, p3
<1>2. EncodedSubframes(dp0, r) = p4 /\ DecodedSubframes(s, f) = q4
  BY EncodedInSteps, DecodedInSteps, Zenon
<1>3. p0.dp0 = dp0 /\ q0.dp0 = dp0
  BY DEF SubframeStart, DecoderStart
<1>4. /\ q1 = DecoderStep(q0, 1, f)
      /\ q2 = DecoderStep(q1, 2, f)
      /\ q3 = DecoderStep(q2, 3, f)
      /\ q4 = DecoderStep(q3, 4, f)
  OBVIOUS
<1>5. p0.Nc = <<>> /\ p0.bc = <<>> /\ p0.Mc = <<>> /\ p0.xmaxc = <<>> /\ p0.xMc = <<>>
  BY DEF SubframeStart
<1> HIDE DEF p0, p1, p2, p3, p4, q0, q1, q2, q3, q4, l1, l2, l3, l4, e1, e2, e3, e4
<1>6. /\ p4.Nc = <<l1.Nc, l2.Nc, l3.Nc, l4.Nc>>
      /\ p4.bc = <<l1.bc, l2.bc, l3.bc, l4.bc>>
      /\ p4.Mc = <<e1.Mc, e2.Mc, e3.Mc, e4.Mc>>
      /\ p4.xmaxc = <<e1.xmaxc, e2.xmaxc, e3.xmaxc, e4.xmaxc>>
      /\ p4.xMc = <<e1.xMc, e2.xMc, e3.xMc, e4.xMc>>
  <2>1. p4.Nc = <<l1.Nc, l2.Nc, l3.Nc, l4.Nc>>
    <3>1. p1.Nc = Append(p0.Nc, l1.Nc) /\ p2.Nc = Append(p1.Nc, l2.Nc)
      BY <1>1 DEF EncodedSubframe
    <3>2. p3.Nc = Append(p2.Nc, l3.Nc) /\ p4.Nc = Append(p3.Nc, l4.Nc)
      BY <1>1 DEF EncodedSubframe
    <3>3. p4.Nc = Append(Append(Append(Append(<<>>, l1.Nc), l2.Nc), l3.Nc), l4.Nc)
      BY <1>5, <3>1, <3>2
    <3>. QED  BY <3>3, FourAppended
  <2>2. p4.bc = <<l1.bc, l2.bc, l3.bc, l4.bc>>
    <3>1. p1.bc = Append(p0.bc, l1.bc) /\ p2.bc = Append(p1.bc, l2.bc)
      BY <1>1 DEF EncodedSubframe
    <3>2. p3.bc = Append(p2.bc, l3.bc) /\ p4.bc = Append(p3.bc, l4.bc)
      BY <1>1 DEF EncodedSubframe
    <3>3. p4.bc = Append(Append(Append(Append(<<>>, l1.bc), l2.bc), l3.bc), l4.bc)
      BY <1>5, <3>1, <3>2
    <3>. QED  BY <3>3, FourAppended
  <2>3. p4.Mc = <<e1.Mc, e2.Mc, e3.Mc, e4.Mc>>
    <3>1. p1.Mc = Append(p0.Mc, e1.Mc) /\ p2.Mc = Append(p1.Mc, e2.Mc)
      BY <1>1 DEF EncodedSubframe
    <3>2. p3.Mc = Append(p2.Mc, e3.Mc) /\ p4.Mc = Append(p3.Mc, e4.Mc)
      BY <1>1 DEF EncodedSubframe
    <3>3. p4.Mc = Append(Append(Append(Append(<<>>, e1.Mc), e2.Mc), e3.Mc), e4.Mc)
      BY <1>5, <3>1, <3>2
    <3>. QED  BY <3>3, FourAppended
  <2>4. p4.xmaxc = <<e1.xmaxc, e2.xmaxc, e3.xmaxc, e4.xmaxc>>
    <3>1. p1.xmaxc = Append(p0.xmaxc, e1.xmaxc) /\ p2.xmaxc = Append(p1.xmaxc, e2.xmaxc)
      BY <1>1 DEF EncodedSubframe
    <3>2. p3.xmaxc = Append(p2.xmaxc, e3.xmaxc) /\ p4.xmaxc = Append(p3.xmaxc, e4.xmaxc)
      BY <1>1 DEF EncodedSubframe
    <3>3. p4.xmaxc = Append(Append(Append(Append(<<>>, e1.xmaxc), e2.xmaxc), e3.xmaxc), e4.xmaxc)
      BY <1>5, <3>1, <3>2
    <3>. QED  BY <3>3, FourAppended
  <2>5. p4.xMc = <<e1.xMc, e2.xMc, e3.xMc, e4.xMc>>
    <3>1. p1.xMc = Append(p0.xMc, e1.xMc) /\ p2.xMc = Append(p1.xMc, e2.xMc)
      BY <1>1 DEF EncodedSubframe
    <3>2. p3.xMc = Append(p2.xMc, e3.xMc) /\ p4.xMc = Append(p3.xMc, e4.xMc)
      BY <1>1 DEF EncodedSubframe
    <3>3. p4.xMc = Append(Append(Append(Append(<<>>, e1.xMc), e2.xMc), e3.xMc), e4.xMc)
      BY <1>5, <3>1, <3>2
    <3>. QED  BY <3>3, FourAppended
  <2>. QED  BY <2>1, <2>2, <2>3, <2>4, <2>5
<1>7. /\ f.Nc = p4.Nc /\ f.bc = p4.bc /\ f.Mc = p4.Mc /\ f.xmaxc = p4.xmaxc /\ f.xMc = p4.xMc
  BY <1>2 DEF FieldsOf
<1>8. /\ l1.Nc \in 40 .. 120 /\ l2.Nc \in 40 .. 120 /\ l3.Nc \in 40 .. 120 /\ l4.Nc \in 40 .. 120
  BY <1>6, <1>7
<1>9. /\ Codes(f, 1, l1, e1)
      /\ Codes(f, 2, l2, e2)
      /\ Codes(f, 3, l3, e3)
      /\ Codes(f, 4, l4, e4)
  BY <1>6, <1>7 DEF Codes
<1>10. InStep(p0, q0, 120)
  BY <1>3, HistoryWhole DEF InStep
<1>11. InStep(p1, q1, 160)
  <2>1. PICK n \in Nat, k \in Nat : k = 1 /\ n = 120 /\ n >= 120 /\ n + 40 = 160
    OBVIOUS
  <2>2. Codes(f, k, Ltp(p0, k, r), Rpe(p0, k, r)) /\ IsLag(f.Nc[k])
    BY <1>9, <2>1 DEF l1, e1, IsLag
  <2>3. InStep(p0, q0, n) /\ n >= 120
    BY <1>10, <2>1
  <2>4. InStep(SubframeStep(p0, k, r), DecoderStep(q0, k, f), n + 40)
    BY <2>2, <2>3, StepFollows, Zenon
  <2>. QED  BY <2>1, <2>4 DEF p1, q1
<1>12. InStep(p2, q2, 200)
  <2>1. PICK n \in Nat, k \in Nat : k = 2 /\ n = 160 /\ n >= 120 /\ n + 40 = 200
    OBVIOUS
  <2>2. Codes(f, k, Ltp(p1, k, r), Rpe(p1, k, r)) /\ IsLag(f.Nc[k])
    BY <1>9, <2>1 DEF l2, e2, IsLag
  <2>3. InStep(p1, q1, n) /\ n >= 120
    BY <1>11, <2>1
  <2>4. InStep(SubframeStep(p1, k, r), DecoderStep(q1, k, f), n + 40)
    BY <2>2, <2>3, StepFollows, Zenon
  <2>. QED  BY <2>1, <2>4 DEF p2, q2
<1>13. InStep(p3, q3, 240)
  <2>1. PICK n \in Nat, k \in Nat : k = 3 /\ n = 200 /\ n >= 120 /\ n + 40 = 240
    OBVIOUS
  <2>2. Codes(f, k, Ltp(p2, k, r), Rpe(p2, k, r)) /\ IsLag(f.Nc[k])
    BY <1>9, <2>1 DEF l3, e3, IsLag
  <2>3. InStep(p2, q2, n) /\ n >= 120
    BY <1>12, <2>1
  <2>4. InStep(SubframeStep(p2, k, r), DecoderStep(q2, k, f), n + 40)
    BY <2>2, <2>3, StepFollows, Zenon
  <2>. QED  BY <2>1, <2>4 DEF p3, q3
<1>14. InStep(p4, q4, 280)
  <2>1. PICK n \in Nat, k \in Nat : k = 4 /\ n = 240 /\ n >= 120 /\ n + 40 = 280
    OBVIOUS
  <2>2. Codes(f, k, Ltp(p3, k, r), Rpe(p3, k, r)) /\ IsLag(f.Nc[k])
    BY <1>9, <2>1 DEF l4, e4, IsLag
  <2>3. InStep(p3, q3, n) /\ n >= 120
    BY <1>13, <2>1
  <2>4. InStep(SubframeStep(p3, k, r), DecoderStep(q3, k, f), n + 40)
    BY <2>2, <2>3, StepFollows, Zenon
  <2>. QED  BY <2>1, <2>4 DEF p4, q4
<1>. QED  BY <1>2, <1>14 DEF InStep

-----------------------------------------------------------------------------
(* Decoder and encoder, frame by frame. *)

(* The fields of gsm0610_state_t, and no others. *)
IsState(s) ==
  s = [dp0 |-> s.dp0, z1 |-> s.z1, L_z2 |-> s.L_z2, mp |-> s.mp, u |-> s.u,
       LARpp |-> s.LARpp, j |-> s.j, nrp |-> s.nrp, v |-> s.v, msr |-> s.msr]

(* The decoder predicts from the same past as the encoder. *)
InSync(e, d) == d.dp0 = e.dp0 /\ d.LARpp = e.LARpp /\ d.j = e.j

(* The lags of a frame are lags of the encoder. *)
Lags(f) == \A i \in 1 .. 4 : f.Nc[i] \in 40 .. 120

(* From the same ratios and codes both make the same. *)
LEMMA RatiosFollow ==
  ASSUME NEW e, NEW d, InSync(e, d), NEW c
  PROVE  Ratios(d, c) = Ratios(e, c)
BY DEF Ratios, InSync

(* What the encoder's state and frame are made of. *)
LEMMA FrameOf ==
  ASSUME NEW s, IsState(s), NEW pre, NEW lpc, NEW lar, NEW st, NEW f,
         NEW x, x = EncodedFrame(s, pre, lpc, lar, st, f)
  PROVE  /\ FieldsOf(x.frame) = FieldsOf(f)
         /\ x.frame.LARc = lpc.LARc
         /\ x.state.dp0 = SubSeq(f.dp0, 161, 280)
         /\ x.state.LARpp = lar.LARpp
         /\ x.state.j = lar.j
         /\ IsState(x.state)
<1> DEFINE n == SubSeq(f.dp0, 161, 280)
<1>1. n = SubSeq(f.dp0, FrameLen + 1, FrameLen + History)
  BY DEF FrameLen, History
<1> HIDE DEF n
<1>2. FieldsOf(x.frame) = FieldsOf(f) /\ x.frame.LARc = lpc.LARc
  BY DEF EncodedFrame, FieldsOf
<1>3. x.state = [s EXCEPT !.dp0 = n, !.z1 = pre.z1, !.L_z2 = pre.L_z2, !.mp = pre.mp,
                          !.u = st.u, !.LARpp = lar.LARpp, !.j = lar.j]
  BY <1>1 DEF EncodedFrame
<1>4. x.state = [dp0 |-> n, z1 |-> pre.z1, L_z2 |-> pre.L_z2, mp |-> pre.mp, u |-> st.u,
                 LARpp |-> lar.LARpp, j |-> lar.j, nrp |-> s.nrp, v |-> s.v, msr |-> s.msr]
  BY <1>3 DEF IsState
<1>5. x.state.dp0 = n /\ x.state.LARpp = lar.LARpp /\ x.state.j = lar.j
  BY <1>4
<1>6. IsState(x.state)
  BY <1>4 DEF IsState
<1>. QED  BY <1>2, <1>5, <1>6 DEF n

(* What the decoder's state is made of. *)
LEMMA SoundOf ==
  ASSUME NEW s, IsState(s), NEW lt, NEW lar, NEW st, NEW post
  PROVE  LET x == DecodedFrame(s, lt, lar, st, post)
         IN  /\ x.state.dp0 = lt.dp0
             /\ x.state.LARpp = lar.LARpp
             /\ x.state.j = lar.j
             /\ IsState(x.state)
BY DEF DecodedFrame, IsState

(* A decoder that was in step with the encoder before a frame is so after  *)
(* it, although the two compute the residual by different code             *)
(* (encode_a_frame, decode_a_frame): provided that the lags are the        *)
(* encoder's, which EncodedIs proves.                                      *)
THEOREM FrameFollows ==
  ASSUME NEW e, IsState(e), Samples(e.dp0, 120), NEW d, IsState(d), InSync(e, d), NEW amp,
         Lags(EncodeAFrame(e, amp).frame)
  PROVE  LET x == EncodeAFrame(e, amp)
             y == DecodeAFrame(d, x.frame)
         IN  /\ IsState(x.state) /\ Samples(x.state.dp0, 120)
             /\ IsState(y.state)
             /\ InSync(x.state, y.state)
<1> DEFINE pre == Preprocess(e, amp)
           lpc == LpcAnalysis(pre.out)
           lar == Ratios(e, lpc.LARc)
           st == ShortTermAnalysisFiltering(e.u, lar.rps, lpc.amp)
           sub == EncodedSubframes(e.dp0, st.out)
           x == EncodeAFrame(e, amp)
           lt == DecodedSubframes(d, x.frame)
           lar2 == Ratios(d, x.frame.LARc)
           st2 == ShortTermSynthesisFiltering(d.v, lar2.rps, lt.wt)
           post == Postprocessing(d.msr, st2.out)
           y == DecodeAFrame(d, x.frame)
<1>1. x = EncodedFrame(e, pre, lpc, lar, st, sub)
  BY Zenon DEF EncodeAFrame, EncodeAnalysed
<1>2. y = DecodedFrame(d, lt, lar2, st2, post)
  BY Zenon DEF DecodeAFrame
<1> DEFINE res == st.out
<1>3. sub = EncodedSubframes(e.dp0, res)
  OBVIOUS
<1> HIDE DEF pre, lpc, lar, st, sub, x, lt, lar2, st2, post, y, res
<1>4. /\ FieldsOf(x.frame) = FieldsOf(sub)
      /\ x.frame.LARc = lpc.LARc
      /\ x.state.dp0 = SubSeq(sub.dp0, 161, 280)
      /\ x.state.LARpp = lar.LARpp
      /\ x.state.j = lar.j
      /\ IsState(x.state)
  BY <1>1, FrameOf
<1>5. /\ y.state.dp0 = lt.dp0
      /\ y.state.LARpp = lar2.LARpp
      /\ y.state.j = lar2.j
      /\ IsState(y.state)
  BY <1>2, SoundOf
<1>6. lar2 = lar
  BY <1>4, RatiosFollow DEF lar, lar2
<1>7. Samples(sub.dp0, 280) /\ lt.dp0 = HistoryOf(sub.dp0)
  <2>1. d.dp0 = e.dp0 /\ FieldsOf(x.frame) = FieldsOf(EncodedSubframes(e.dp0, res))
    BY <1>3, <1>4 DEF InSync
  <2>2. \A i \in 1 .. 4 : x.frame.Nc[i] \in 40 .. 120
    BY DEF x, Lags
  <2>3. /\ Samples(EncodedSubframes(e.dp0, res).dp0, 280)
        /\ DecodedSubframes(d, x.frame).dp0 = HistoryOf(EncodedSubframes(e.dp0, res).dp0)
    BY <2>1, <2>2, ResidualFollows
  <2>. QED  BY <1>3, <2>3 DEF lt
<1>8. HistoryOf(sub.dp0) = SubSeq(sub.dp0, 161, 280) /\ Samples(HistoryOf(sub.dp0), 120)
  <2>1. Len(sub.dp0) = 280
    <3>1. PICK n \in Nat : n = 280
      OBVIOUS
    <3>2. Samples(sub.dp0, n)
      BY <1>7, <3>1
    <3>. QED  BY <3>1, <3>2, SamplesSeq
  <2>2. HistoryOf(sub.dp0) = SubSeq(sub.dp0, 161, 280)
    BY <2>1 DEF HistoryOf
  <2>3. SubSeq(sub.dp0, 161, 280) = [i \in 1 .. 280 - 161 + 1 |-> sub.dp0[161 + i - 1]]
    BY PartOf
  <2>4. 280 - 161 + 1 = 120
    OBVIOUS
  <2> DEFINE h == SubSeq(sub.dp0, 161, 280)
  <2> HIDE DEF h
  <2>5. h = [i \in 1 .. 120 |-> h[i]]
    BY <2>3, <2>4 DEF h
  <2>. QED  BY <2>2, <2>5 DEF h, Samples
<1>9. Samples(x.state.dp0, 120)
  BY <1>4, <1>8
<1>10. InSync(x.state, y.state)
  BY <1>4, <1>5, <1>6, <1>7, <1>8 DEF InSync
<1>. QED  BY <1>4, <1>5, <1>9, <1>10 DEF x, y

-----------------------------------------------------------------------------
(* The encoder keeps its state, and all its parameters fit. *)

(* The state of an encoder, as gsm0610_init and every frame leave it. *)
EncoderIs(s) ==
  /\ IsState(s)
  /\ s.dp0 \in [1 .. 120 -> Int]
  /\ s.z1 \in Int
  /\ s.L_z2 \in Int
  /\ s.mp \in Int
  /\ s.u \in [1 .. 8 -> Int]
  /\ RatiosOK(s)

(* gsm0610_init leaves such a state. *)
LEMMA EncoderStarts == EncoderIs(InitState)
<1> DEFINE dp == Zeros(History)
           z8 == Zeros(8)
           z9 == Zeros(9)
<1>1. dp \in [1 .. 120 -> Int]
  <2>1. PICK n \in Nat \ {0} : n = 120
    OBVIOUS
  <2>2. Zeros(n) \in [1 .. n -> {0}]
    BY ZerosAre
  <2>. QED  BY <2>1, <2>2 DEF History
<1>2. z8 \in [1 .. 8 -> Int]
  <2>1. PICK n \in Nat \ {0} : n = 8
    OBVIOUS
  <2>2. Zeros(n) \in [1 .. n -> {0}]
    BY ZerosAre
  <2>. QED  BY <2>1, <2>2
<1>3. InitState = [dp0 |-> dp, z1 |-> 0, L_z2 |-> 0, mp |-> 0, u |-> z8,
                   LARpp |-> <<z8, z8>>, j |-> 0, nrp |-> 40, v |-> z9, msr |-> 0]
  BY DEF InitState
<1> HIDE DEF dp, z8, z9
<1> DEFINE s == InitState
<1> HIDE DEF s
<1>4. s = [dp0 |-> dp, z1 |-> 0, L_z2 |-> 0, mp |-> 0, u |-> z8,
           LARpp |-> <<z8, z8>>, j |-> 0, nrp |-> 40, v |-> z9, msr |-> 0]
  BY <1>3 DEF s
<1>5. /\ s.dp0 = dp /\ s.z1 = 0 /\ s.L_z2 = 0 /\ s.mp = 0 /\ s.u = z8
      /\ s.LARpp = <<z8, z8>> /\ s.j = 0 /\ s.nrp = 40 /\ s.v = z9 /\ s.msr = 0
  BY <1>4
<1>6. IsState(s)
  BY <1>4, <1>5 DEF IsState
<1>7. RatiosOK(s)
  <2>1. <<z8, z8>> \in [1 .. 2 -> [1 .. 8 -> Int]]
    BY <1>2
  <2>. QED  BY <1>5, <2>1 DEF RatiosOK
<1>. QED  BY <1>1, <1>2, <1>5, <1>6, <1>7 DEF EncoderIs, s

(* What else the encoder's state and frame are made of. *)
LEMMA StateOf ==
  ASSUME NEW s, IsState(s), NEW pre, NEW lpc, NEW lar, NEW st, NEW f,
         NEW x, x = EncodedFrame(s, pre, lpc, lar, st, f)
  PROVE  /\ x.state.z1 = pre.z1
         /\ x.state.L_z2 = pre.L_z2
         /\ x.state.mp = pre.mp
         /\ x.state.u = st.u
         /\ x.frame = [LARc |-> lpc.LARc, Nc |-> f.Nc, bc |-> f.bc, Mc |-> f.Mc,
                       xmaxc |-> f.xmaxc, xMc |-> f.xMc]
<1> DEFINE n == SubSeq(f.dp0, FrameLen + 1, FrameLen + History)
<1>1. x.frame = [LARc |-> lpc.LARc, Nc |-> f.Nc, bc |-> f.bc, Mc |-> f.Mc,
                 xmaxc |-> f.xmaxc, xMc |-> f.xMc]
  BY DEF EncodedFrame
<1> HIDE DEF n
<1>2. x.state = [s EXCEPT !.dp0 = n, !.z1 = pre.z1, !.L_z2 = pre.L_z2, !.mp = pre.mp,
                          !.u = st.u, !.LARpp = lar.LARpp, !.j = lar.j]
  BY DEF EncodedFrame, n
<1>3. x.state = [dp0 |-> n, z1 |-> pre.z1, L_z2 |-> pre.L_z2, mp |-> pre.mp, u |-> st.u,
                 LARpp |-> lar.LARpp, j |-> lar.j, nrp |-> s.nrp, v |-> s.v, msr |-> s.msr]
  BY <1>2 DEF IsState
<1>4. x.state.z1 = pre.z1 /\ x.state.L_z2 = pre.L_z2 /\ x.state.mp = pre.mp /\ x.state.u = st.u
  BY <1>3
<1>. QED  BY <1>1, <1>4

(* Codes that fit make a frame. *)
LEMMA FrameIs ==
  ASSUME NEW c \in {l \in [1 .. 8 -> 0 .. 63] : \A i \in 1 .. 8 : l[i] <= LARMax[i]},
         NEW f, SubframesAre(f, 4),
         NEW x, x = [LARc |-> c, Nc |-> f.Nc, bc |-> f.bc, Mc |-> f.Mc,
                     xmaxc |-> f.xmaxc, xMc |-> f.xMc]
  PROVE  x \in Frame /\ Lags(x)
<1>1. /\ f.Nc \in [1 .. 4 -> 40 .. 120]
      /\ f.bc \in [1 .. 4 -> 0 .. 3]
      /\ f.Mc \in [1 .. 4 -> 0 .. 3]
      /\ f.xmaxc \in [1 .. 4 -> 0 .. 63]
      /\ f.xMc \in [1 .. 4 -> [1 .. 13 -> 0 .. 7]]
  BY DEF SubframesAre
<1>2. f.Nc \in [1 .. 4 -> 0 .. 127]
  <2>1. \A i \in 40 .. 120 : i \in 0 .. 127
    OBVIOUS
  <2>. QED  BY <1>1, <2>1
<1>3. x \in Frame
  BY <1>1, <1>2, Zenon DEF Frame
<1>4. Lags(x)
  BY <1>1 DEF Lags
<1>. QED  BY <1>3, <1>4

(* encode_a_frame: whatever 160 samples of 16 bits the microphone records  *)
(* and whatever frames came before, every parameter of the frame fits its  *)
(* field (gsm0610.h:43: "none of the parameters exceed 8 bits"), its lags  *)
(* are 40 .. 120, and the state is good for the next frame.                *)
THEOREM EncodedIs ==
  ASSUME NEW e, EncoderIs(e), NEW amp \in [1 .. 160 -> Int16]
  PROVE  LET x == EncodeAFrame(e, amp)
         IN  EncoderIs(x.state) /\ x.frame \in Frame /\ Lags(x.frame)
<1> DEFINE pre == Preprocess(e, amp)
           lpc == LpcAnalysis(pre.out)
           lar == Ratios(e, lpc.LARc)
           st == ShortTermAnalysisFiltering(e.u, lar.rps, lpc.amp)
           sub == EncodedSubframes(e.dp0, st.out)
           x == EncodeAFrame(e, amp)
           C == {l \in [1 .. 8 -> 0 .. 63] : \A i \in 1 .. 8 : l[i] <= LARMax[i]}
<1>1. x = EncodedFrame(e, pre, lpc, lar, st, sub)
  BY Zenon DEF EncodeAFrame, EncodeAnalysed
<1>2. /\ IsState(e) /\ e.dp0 \in [1 .. 120 -> Int] /\ e.z1 \in Int /\ e.L_z2 \in Int /\ e.mp \in Int
      /\ e.u \in [1 .. 8 -> Int] /\ RatiosOK(e)
  BY DEF EncoderIs
<1> HIDE DEF x
<1>3. pre.out \in [1 .. 160 -> Int16] /\ pre.z1 \in Int /\ pre.L_z2 \in Int /\ pre.mp \in Int
  <2>1. pre \in Prepared(160)
    BY <1>2, PreparedIs
  <2> HIDE DEF pre
  <2>. QED  BY <2>1 DEF Prepared
<1> HIDE DEF pre
<1>4. lpc.LARc \in C /\ lpc.amp \in [1 .. 160 -> Int16]
  BY <1>3, AnalysisIs
<1> HIDE DEF lpc
<1>5. RatiosOK(lar) /\ lar.rps \in [1 .. 4 -> [1 .. 8 -> Int]]
  <2>1. lpc.LARc \in [1 .. 8 -> 0 .. 63]
    BY <1>4
  <2>. QED  BY <1>2, <2>1, RatiosAre
<1> HIDE DEF lar
<1>6. st.out \in [1 .. 160 -> Int] /\ st.u \in [1 .. 8 -> Int]
  <2>1. lpc.amp \in [1 .. 160 -> Int]
    BY <1>4, Int16Is
  <2>2. st \in Analysed(160)
    BY <1>2, <1>5, <2>1, AnalysedIs
  <2> HIDE DEF st
  <2>. QED  BY <2>2 DEF Analysed
<1> HIDE DEF st
<1>7. SubframesAre(sub, 4)
  BY <1>2, <1>6, SubframesEncoded
<1> HIDE DEF sub
<1>8. /\ x.state.dp0 = SubSeq(sub.dp0, 161, 280)
      /\ x.state.LARpp = lar.LARpp
      /\ x.state.j = lar.j
      /\ IsState(x.state)
  <2>1. IsState(e)
    BY <1>2
  <2>2. x.state.dp0 = SubSeq(sub.dp0, 161, 280)
    BY <1>1, <2>1, FrameOf
  <2>3. x.state.LARpp = lar.LARpp
    BY <1>1, <2>1, FrameOf
  <2>4. x.state.j = lar.j
    BY <1>1, <2>1, FrameOf
  <2>5. IsState(x.state)
    BY <1>1, <2>1, FrameOf, Zenon
  <2>. QED  BY <2>2, <2>3, <2>4, <2>5, Zenon
<1>9. /\ x.state.z1 = pre.z1
      /\ x.state.L_z2 = pre.L_z2
      /\ x.state.mp = pre.mp
      /\ x.state.u = st.u
      /\ x.frame = [LARc |-> lpc.LARc, Nc |-> sub.Nc, bc |-> sub.bc, Mc |-> sub.Mc,
                    xmaxc |-> sub.xmaxc, xMc |-> sub.xMc]
  BY <1>1, <1>2, StateOf
<1>10. x.frame \in Frame /\ Lags(x.frame)
  BY <1>4, <1>7, <1>9, FrameIs
<1>11. x.state.dp0 \in [1 .. 120 -> Int]
  <2>1. PICK n \in Nat, a \in Int, b \in Int :
          n = 120 + 40 * 4 /\ a = 161 /\ b = 280 /\ 1 <= a /\ a <= b /\ b <= n /\ b - a + 1 = 120
    OBVIOUS
  <2>2. sub.dp0 \in [1 .. n -> Int]
    BY <1>7, <2>1 DEF SubframesAre
  <2>3. 1 <= a /\ a <= b /\ b <= n
    BY <2>1
  <2>4. SubSeq(sub.dp0, a, b) \in [1 .. b - a + 1 -> Int]
    BY <2>2, <2>3, PieceIs
  <2>. QED  BY <1>8, <2>1, <2>4
<1>12. RatiosOK(x.state)
  BY <1>5, <1>8 DEF RatiosOK
<1>13. EncoderIs(x.state)
  BY <1>3, <1>6, <1>8, <1>9, <1>11, <1>12 DEF EncoderIs
<1>. QED  BY <1>10, <1>13 DEF x

=============================================================================
