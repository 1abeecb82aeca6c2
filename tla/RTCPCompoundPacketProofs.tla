------------------------ MODULE RTCPCompoundPacketProofs ------------------------
(***************************************************************************)
(* Proofs about RTCPCompoundPacket, RTCPPacket and ReportBlock, for bytes   *)
(* of any even range and compound packets of any sizes and contents: what   *)
(* was sent is what is read.                                                *)
(***************************************************************************)
EXTENDS RTCPCompoundPacket, WellFoundedInduction, TLAPS

-----------------------------------------------------------------------------
(* Division leaves a rest smaller than the divisor ...                      *)
LEMMA DivisionProperties ==
  ASSUME NEW n \in Int, NEW f \in Nat \ {0}
  PROVE  /\ n \div f \in Int
         /\ n % f \in 0 .. f - 1
         /\ n = f * (n \div f) + (n % f)
  OBVIOUS

(* Multiples of f differ by at least f.                                     *)
LEMMA MultipleOrder ==
  ASSUME NEW f \in Nat \ {0}, NEW p \in Int, NEW q \in Int, p < q
  PROVE  f * p + f <= f * q
  <1>1. p + 1 <= q
    OBVIOUS
  <1>2. f * (p + 1) <= f * q
    BY <1>1
  <1> QED
    BY <1>2

(* ... and its result is the only one with such a rest.                    *)
LEMMA DivisionUnique ==
  ASSUME NEW n \in Int, NEW f \in Nat \ {0}, NEW q \in Int, NEW r \in 0 .. f - 1,
         n = f * q + r
  PROVE  n \div f = q /\ n % f = r
<1> DEFINE d == n \div f
           m == n % f
<1>1. d \in Int /\ m \in 0 .. f - 1 /\ n = f * d + m
  BY DivisionProperties
<1> HIDE DEF d, m
<1>2. ~(d < q)
  BY <1>1, MultipleOrder
<1>3. ~(q < d)
  BY <1>1, MultipleOrder
<1>4. d = q
  BY <1>1, <1>2, <1>3
<1>5. m = r
  BY <1>1, <1>4
<1> QED
  BY <1>4, <1>5 DEF d, m

-----------------------------------------------------------------------------
(* Every number of lost packets that three bytes can hold, also a negative  *)
(* one, is read as it was written.                                          *)
THEOREM LossesKeepTheirSign ==
  ASSUME NEW n \in Losses
  PROVE  LET b == PacketsLostBytes(n) IN LostPacketCount(b[1], b[2], b[3]) = n
<1> DEFINE B == ByteRange
           S == B * B
           T == B * B * B
           u == n % T
           v == u \div B
           w == v \div B
           b0 == u \div S
           b1 == v % B
           b2 == u % B
<1>1. B \in Nat /\ B >= 2 /\ B = 2 * (B \div 2) /\ B \div 2 \in Int
  BY ByteAssumption
<1>2. PICK h \in Int : B = 2 * h
  BY <1>1
<1>3. /\ S \in Nat \ {0} /\ T \in Nat \ {0} /\ T = S * B
      /\ B * T \in Nat /\ B * T >= 2 * T
  <2>1. S \in Nat \ {0}
    BY <1>1
  <2> HIDE DEF S
  <2>2. S * B \in Nat \ {0}
    BY <1>1, <2>1
  <2>3. T = S * B
    BY <1>1 DEF S
  <2>4. (B - 2) * T >= 0 /\ B * T \in Nat
    BY <1>1, <2>2, <2>3
  <2> QED
    BY <1>1, <2>1, <2>2, <2>3, <2>4
<1>4. /\ PacketsLostBytes(n) = <<b0, b1, b2>>
      /\ Long = B * T
      /\ n \in Int /\ - T <= 2 * n /\ 2 * n < T
      /\ LostPacketCount(b0, b1, b2) =
           LET count == b2 + b1 * B + b0 * B * B
               extended == IF 2 * b0 >= B THEN count + (B - 1) * T ELSE count
           IN  IF 2 * extended >= B * T THEN extended - B * T ELSE extended
  <2>1. Long = B * T
    BY <1>1 DEF Long
  <2> QED
    BY <2>1 DEF PacketsLostBytes, LostPacketCount, Signed, Losses
<1> HIDE DEF B, S, T
<1>5. u \in 0 .. T - 1 /\ n = T * (n \div T) + u /\ n \div T \in Int
  BY <1>3, <1>4, DivisionProperties
<1>6. /\ n >= 0 => u = n
      /\ n < 0 => u = n + T
  <2>1. CASE n >= 0
    <3>1. n = T * 0 + n /\ n \in 0 .. T - 1
      BY <1>3, <1>4, <2>1
    <3> QED
      BY <1>3, <2>1, <3>1, DivisionUnique
  <2>2. CASE n < 0
    <3> DEFINE m == n + T
    <3>1. n = T * (-1) + m /\ m \in 0 .. T - 1
      BY <1>3, <1>4, <2>2
    <3> HIDE DEF m
    <3>2. u = m
      BY <1>3, <3>1, DivisionUnique
    <3> QED
      BY <1>4, <2>2, <3>2 DEF m
  <2> QED
    BY <2>1, <2>2
<1> HIDE DEF u
<1>7. b2 \in 0 .. B - 1 /\ v \in Int /\ u = B * v + b2
  BY <1>1, <1>5, DivisionProperties
<1> HIDE DEF v, b2
<1>8. b1 \in 0 .. B - 1 /\ w \in Int /\ v = B * w + b1
  BY <1>1, <1>7, DivisionProperties
<1> HIDE DEF w, b1
<1>9. u = S * w + (b1 * B + b2) /\ b1 * B + b2 \in 0 .. S - 1
  <2>1. B * v = S * w + b1 * B
    BY <1>1, <1>8 DEF S
  <2>2. B * b1 + B <= B * B
    BY <1>1, <1>8, MultipleOrder
  <2>3. b1 * B = B * b1 /\ b1 * B >= 0 /\ b1 * B \in Int
    BY <1>1, <1>8
  <2>4. S * w \in Int
    BY <1>3, <1>8
  <2> QED
    BY <1>1, <1>3, <1>7, <2>1, <2>2, <2>3, <2>4 DEF S
<1>10. b0 = w
  <2> DEFINE r == b1 * B + b2
  <2>1. u \in Int /\ r \in 0 .. S - 1 /\ u = S * w + r
    BY <1>5, <1>9
  <2> HIDE DEF r
  <2> QED
    BY <1>3, <1>8, <2>1, DivisionUnique
<1> HIDE DEF b0
<1>11. b2 + b1 * B + b0 * B * B = u
  BY <1>1, <1>3, <1>5, <1>7, <1>8, <1>9, <1>10 DEF S
<1>12. 2 * b0 >= B <=> 2 * u >= T
  <2>1. T = 2 * (S * h) /\ S * h \in Int /\ S * w \in Int
    BY <1>1, <1>2, <1>3, <1>8
  <2>2. CASE w >= h
    <3>1. S * (w - h) >= 0 /\ S * (w - h) = S * w - S * h
      BY <1>2, <1>3, <1>8, <2>2
    <3>2. 2 * u >= T
      BY <1>3, <1>5, <1>9, <2>1, <3>1
    <3> QED
      BY <1>1, <1>2, <1>8, <1>10, <2>2, <3>2
  <2>3. CASE w < h
    <3>1. S * w + S <= S * h
      BY <1>2, <1>3, <1>8, <2>3, MultipleOrder
    <3>2. 2 * u < T
      BY <1>3, <1>5, <1>9, <2>1, <3>1
    <3> QED
      BY <1>1, <1>2, <1>3, <1>5, <1>8, <1>10, <2>3, <3>2
  <2> QED
    BY <1>2, <1>8, <2>2, <2>3
<1>13. LostPacketCount(b0, b1, b2) = n
  <2>1. (B - 1) * T = B * T - T
    BY <1>1, <1>3
  <2>2. CASE n < 0
    <3>1. 2 * u >= T
      BY <1>3, <1>4, <1>6, <2>2
    <3> DEFINE extended == u + (B - 1) * T
    <3>2. extended = n + B * T /\ 2 * extended >= B * T
      BY <1>1, <1>3, <1>4, <1>5, <1>6, <2>1, <2>2, <3>1
    <3>3. LostPacketCount(b0, b1, b2) =
            IF 2 * extended >= B * T THEN extended - B * T ELSE extended
      BY <1>4, <1>11, <1>12, <3>1
    <3> HIDE DEF extended
    <3> QED
      BY <1>3, <1>4, <3>2, <3>3
  <2>3. CASE n >= 0
    <3>1. 2 * u < T /\ u = n
      BY <1>4, <1>6, <2>3
    <3>2. ~(2 * u >= T) /\ ~(2 * u >= B * T)
      BY <1>1, <1>3, <1>5, <3>1
    <3> QED
      BY <1>4, <1>11, <1>12, <3>1, <3>2
  <2> QED
    BY <1>4, <2>2, <2>3
<1> QED
  BY <1>4, <1>13

-----------------------------------------------------------------------------
(* Induction over the natural numbers, for a set of them.                   *)
LEMMA SetInduction ==
  ASSUME NEW T, 0 \in T, \A n \in Nat : n \in T => n + 1 \in T
  PROVE  \A n \in Nat : n \in T
<1> DEFINE R == OpToRel(<, Nat)
           Lacking == {n \in Nat : n \notin T}
<1>1. IsWellFoundedOn(R, Nat)
  BY NatLessThanWellFounded
<1>2. SUFFICES ASSUME Lacking # {} PROVE FALSE
  OBVIOUS
<1>3. PICK x \in Lacking : \A y \in Lacking : ~ (<<y, x>> \in R)
  <2>1. Lacking \subseteq Nat
    OBVIOUS
  <2> HIDE DEF R, Lacking
  <2> QED
    BY <1>1, <1>2, <2>1, WFMin
<1>4. x \in Nat /\ x # 0 /\ x - 1 \in Nat
  OBVIOUS
<1>5. <<x - 1, x>> \in R
  BY <1>4 DEF OpToRel
<1>6. x - 1 \in T
  <2> HIDE DEF R
  <2> QED
    BY <1>3, <1>4, <1>5
<1> QED
  BY <1>4, <1>6

(* The first n of a sequence of sequences.                                  *)
First(ss, n) == [l \in 1 .. n |-> ss[l]]

(* They run together, one after the other.                                  *)
Joins(g, ss, m) ==
  /\ g[1] = ss[1]
  /\ \A n \in 2 .. m : g[n] = g[n - 1] \o ss[n]

LEMMA JoinsExist ==
  ASSUME NEW S, NEW ss \in Seq(Seq(S)), ss # <<>>
  PROVE  \E g \in [1 .. Len(ss) -> Seq(S)] : Joins(g, ss, Len(ss))
<1> DEFINE Joined(m) == \E g \in [1 .. m -> Seq(S)] : Joins(g, ss, m)
           T == {m \in Nat : m + 1 \in 1 .. Len(ss) => Joined(m + 1)}
<1>1. Len(ss) \in Nat /\ \A n \in 1 .. Len(ss) : ss[n] \in Seq(S)
  OBVIOUS
<1>2. 0 \in T
  <2> SUFFICES ASSUME 1 \in 1 .. Len(ss) PROVE Joined(1)
    OBVIOUS
  <2>1. Joins([n \in 1 .. 1 |-> ss[1]], ss, 1)
    BY DEF Joins
  <2> QED
    BY <1>1, <2>1
<1>3. ASSUME NEW m \in Nat, m \in T PROVE m + 1 \in T
  <2> SUFFICES ASSUME m + 2 \in 1 .. Len(ss) PROVE Joined(m + 2)
    OBVIOUS
  <2>1. PICK g \in [1 .. m + 1 -> Seq(S)] : Joins(g, ss, m + 1)
    BY <1>1, <1>3
  <2> DEFINE x == g[m + 1] \o ss[m + 2]
             h == [n \in 1 .. m + 2 |-> IF n = m + 2 THEN x ELSE g[n]]
  <2>2. g[m + 1] \in Seq(S) /\ ss[m + 2] \in Seq(S)
    BY <1>1, <2>1
  <2>3. x \in Seq(S)
    BY <2>2
  <2> HIDE DEF x
  <2>4. h \in [1 .. m + 2 -> Seq(S)]
    BY <2>1, <2>3
  <2>5. ASSUME NEW n \in 2 .. m + 2 PROVE h[n] = h[n - 1] \o ss[n]
    <3>1. CASE n = m + 2
      <4>2. m + 2 \in 1 .. m + 2 /\ m + 1 \in 1 .. m + 2 /\ m + 1 # m + 2
        OBVIOUS
      <4>1. h[m + 2] = x
        BY <4>2
      <4>3. h[m + 1] = g[m + 1]
        BY <4>2
      <4>4. n - 1 = m + 1
        BY <3>1
      <4> HIDE DEF h
      <4> QED
        BY <3>1, <4>1, <4>3, <4>4 DEF x
    <3>2. CASE n # m + 2
      <4>1. n \in 2 .. m + 1 /\ h[n] = g[n] /\ h[n - 1] = g[n - 1]
        BY <3>2
      <4> QED
        BY <2>1, <4>1 DEF Joins
    <3> QED
      BY <3>1, <3>2
  <2>6. h[1] = ss[1]
    BY <2>1 DEF Joins
  <2> HIDE DEF h
  <2>7. Joins(h, ss, m + 2)
    BY <2>5, <2>6 DEF Joins
  <2> QED
    BY <2>4, <2>7
<1>4. \A m \in Nat : m \in T
  <2> HIDE DEF T
  <2> QED
    BY <1>2, <1>3, SetInduction
<1>5. Len(ss) - 1 \in Nat
  BY <1>1
<1>6. Len(ss) - 1 \in T
  BY <1>4, <1>5
<1>7. (Len(ss) - 1) + 1 = Len(ss) /\ Len(ss) \in 1 .. Len(ss)
  BY <1>1, <1>5
<1> QED
  BY <1>6, <1>7

(* Two sequences begin with the same m elements.                            *)
SameUpTo(s, t, m) == \A n \in 1 .. m : s[n] = t[n]

(* What runs together from the same parts is the same.                      *)
LEMMA JoinsAgree ==
  ASSUME NEW ss, NEW tt, NEW m \in Nat \ {0}, NEW k \in Nat, m <= k,
         NEW g, NEW h, Joins(g, ss, m), Joins(h, tt, k),
         SameUpTo(ss, tt, m)
  PROVE  g[m] = h[m]
<1> DEFINE T == {n \in Nat : n + 1 \in 1 .. m => g[n + 1] = h[n + 1]}
<1>1. 0 \in T
  BY DEF Joins, SameUpTo
<1>2. ASSUME NEW n \in Nat, n \in T PROVE n + 1 \in T
  <2> SUFFICES ASSUME n + 2 \in 1 .. m PROVE g[n + 2] = h[n + 2]
    OBVIOUS
  <2>1. n + 2 \in 2 .. m /\ n + 2 \in 2 .. k /\ n + 1 \in 1 .. m /\ (n + 2) - 1 = n + 1
    OBVIOUS
  <2>2. g[n + 1] = h[n + 1]
    BY <1>2, <2>1
  <2>3. g[n + 2] = g[n + 1] \o ss[n + 2] /\ h[n + 2] = h[n + 1] \o tt[n + 2]
    BY <2>1 DEF Joins
  <2>4. ss[n + 2] = tt[n + 2]
    BY <2>1 DEF SameUpTo
  <2> QED
    BY <2>2, <2>3, <2>4
<1>3. \A n \in Nat : n \in T
  <2> HIDE DEF T
  <2> QED
    BY <1>1, <1>2, SetInduction
<1>4. PICK n \in Nat : n + 1 = m
  <2>1. m - 1 \in Nat /\ (m - 1) + 1 = m
    OBVIOUS
  <2> QED
    BY <2>1
<1> QED
  BY <1>3, <1>4

(* FlattenSeq is the last of them.                                          *)
LEMMA FlattenJoins ==
  ASSUME NEW S, NEW ss \in Seq(Seq(S)), ss # <<>>
  PROVE  \E g \in [1 .. Len(ss) -> Seq(S)] :
           Joins(g, ss, Len(ss)) /\ FlattenSeq(ss) = g[Len(ss)]
<1> DEFINE Def(g) == [i \in 1 .. Len(ss) |-> IF i = 1 THEN ss[i] ELSE g[i - 1] \o ss[i]]
           flatten == CHOOSE g : g = Def(g)
<1>1. Len(ss) \in Nat \ {0}
  OBVIOUS
<1>2. FlattenSeq(ss) = flatten[Len(ss)]
  BY <1>1 DEF FlattenSeq
<1>3. PICK g \in [1 .. Len(ss) -> Seq(S)] : Joins(g, ss, Len(ss))
  BY JoinsExist
<1>4. g = Def(g)
  <2>1. ASSUME NEW n \in 1 .. Len(ss) PROVE g[n] = Def(g)[n]
    <3>1. CASE n = 1
      BY <1>3, <3>1 DEF Joins
    <3>2. CASE n # 1
      <4>1. n \in 2 .. Len(ss)
        BY <1>1, <3>2
      <4>2. g[n] = g[n - 1] \o ss[n]
        BY <1>3, <4>1 DEF Joins
      <4> QED
        BY <3>2, <4>2
    <3> QED
      BY <3>1, <3>2
  <2>2. g = [n \in 1 .. Len(ss) |-> g[n]]
    OBVIOUS
  <2> QED
    BY <2>1, <2>2
<1>5. flatten = Def(flatten)
  <2> HIDE DEF Def
  <2> QED
    BY <1>4
<1> HIDE DEF flatten
<1>6. flatten[1] = ss[1] /\ \A n \in 2 .. Len(ss) : flatten[n] = flatten[n - 1] \o ss[n]
  <2>1. \A n \in 1 .. Len(ss) : flatten[n] = IF n = 1 THEN ss[n] ELSE flatten[n - 1] \o ss[n]
    <3>1. \A n \in 1 .. Len(ss) : Def(flatten)[n] = IF n = 1 THEN ss[n] ELSE flatten[n - 1] \o ss[n]
      OBVIOUS
    <3> HIDE DEF Def
    <3> QED
      BY <1>5, <3>1
  <2>2. flatten[1] = ss[1]
    BY <1>1, <2>1
  <2>3. ASSUME NEW n \in 2 .. Len(ss) PROVE flatten[n] = flatten[n - 1] \o ss[n]
    <3>1. n \in 1 .. Len(ss) /\ n # 1
      BY <1>1
    <3> QED
      BY <2>1, <3>1
  <2> QED
    BY <2>2, <2>3
<1>7. Joins(flatten, ss, Len(ss))
  BY <1>6 DEF Joins
<1>8. flatten[Len(ss)] = g[Len(ss)]
  <2>1. SameUpTo(ss, ss, Len(ss))
    BY DEF SameUpTo
  <2> QED
    BY <1>1, <1>3, <1>7, <2>1, JoinsAgree
<1> QED
  BY <1>2, <1>3, <1>8

LEMMA FlattenEmpty == FlattenSeq(<<>>) = <<>>
  BY DEF FlattenSeq

LEMMA FlattenType ==
  ASSUME NEW S, NEW ss \in Seq(Seq(S))
  PROVE  FlattenSeq(ss) \in Seq(S)
<1>1. CASE ss = <<>>
  <2>1. <<>> \in Seq(S)
    OBVIOUS
  <2> QED
    BY <1>1, <2>1, FlattenEmpty
<1>2. CASE ss # <<>>
  <2>1. PICK g \in [1 .. Len(ss) -> Seq(S)] : FlattenSeq(ss) = g[Len(ss)]
    BY <1>2, FlattenJoins
  <2>2. Len(ss) \in 1 .. Len(ss)
    BY <1>2
  <2> QED
    BY <2>1, <2>2
<1> QED
  BY <1>1, <1>2

LEMMA FirstType ==
  ASSUME NEW S, NEW ss \in Seq(S), NEW n \in 0 .. Len(ss)
  PROVE  /\ First(ss, n) \in Seq(S)
         /\ Len(First(ss, n)) = n
         /\ \A l \in 1 .. n : First(ss, n)[l] = ss[l]
  BY DEF First

(* One more part is put behind the parts before it.                         *)
LEMMA FlattenStep ==
  ASSUME NEW S, NEW ss \in Seq(Seq(S)), NEW k \in 1 .. Len(ss)
  PROVE  FlattenSeq(First(ss, k)) = FlattenSeq(First(ss, k - 1)) \o ss[k]
<1> DEFINE s == First(ss, k)
           t == First(ss, k - 1)
<1>1. /\ s \in Seq(Seq(S)) /\ Len(s) = k /\ \A l \in 1 .. k : s[l] = ss[l]
      /\ t \in Seq(Seq(S)) /\ Len(t) = k - 1 /\ \A l \in 1 .. k - 1 : t[l] = ss[l]
      /\ k \in Nat \ {0} /\ ss[k] \in Seq(S)
  <2>1. k \in 0 .. Len(ss) /\ k - 1 \in 0 .. Len(ss) /\ k \in Nat \ {0}
    OBVIOUS
  <2>2. ss[k] \in Seq(S)
    OBVIOUS
  <2> QED
    BY <2>1, <2>2, FirstType
<1> HIDE DEF s, t
<1>2. PICK g \in [1 .. k -> Seq(S)] : Joins(g, s, k) /\ FlattenSeq(s) = g[k]
  <2>1. s # <<>>
    BY <1>1
  <2> QED
    BY <1>1, <2>1, FlattenJoins
<1>3. CASE k = 1
  <2>1. t = <<>>
    BY <1>1, <1>3
  <2>2. FlattenSeq(s) = ss[1]
    BY <1>1, <1>2, <1>3 DEF Joins
  <2>3. <<>> \o ss[1] = ss[1]
    BY <1>1, <1>3
  <2> QED
    BY <1>3, <2>1, <2>2, <2>3, FlattenEmpty DEF s, t
<1>4. CASE k # 1
  <2>1. t # <<>> /\ k - 1 \in Nat \ {0} /\ k - 1 <= k /\ k \in 2 .. k
    BY <1>1, <1>4
  <2>2. PICK h : Joins(h, t, k - 1) /\ FlattenSeq(t) = h[k - 1]
    <3>1. t \in Seq(Seq(S)) /\ Len(t) = k - 1 /\ t # <<>>
      BY <1>1, <2>1
    <3>2. PICK h \in [1 .. Len(t) -> Seq(S)] : Joins(h, t, Len(t)) /\ FlattenSeq(t) = h[Len(t)]
      BY <3>1, FlattenJoins
    <3> QED
      BY <3>1, <3>2
  <2>3. SameUpTo(t, s, k - 1)
    <3>1. \A l \in 1 .. k - 1 : l \in 1 .. k
      BY <2>1
    <3>2. (\A l \in 1 .. k : s[l] = ss[l]) /\ (\A l \in 1 .. k - 1 : t[l] = ss[l])
      BY <1>1
    <3> QED
      BY <3>1, <3>2 DEF SameUpTo
  <2>4. h[k - 1] = g[k - 1]
    <3> DEFINE m == k - 1
    <3>1. m \in Nat \ {0} /\ k \in Nat /\ m <= k
      BY <2>1, <1>1
    <3>2. Joins(h, t, m) /\ Joins(g, s, k) /\ SameUpTo(t, s, m)
      BY <1>2, <2>2, <2>3
    <3> HIDE DEF m
    <3>3. h[m] = g[m]
      BY <3>1, <3>2, JoinsAgree
    <3> QED
      BY <3>3 DEF m
  <2>5. g[k] = g[k - 1] \o ss[k]
    <3>1. g[k] = g[k - 1] \o s[k]
      BY <1>2, <2>1 DEF Joins
    <3>2. s[k] = ss[k]
      BY <1>1, <2>1
    <3> QED
      BY <3>1, <3>2
  <2> QED
    BY <1>2, <2>2, <2>4, <2>5 DEF s, t
<1> QED
  BY <1>3, <1>4

(* Where the k-th part starts, counted from 0.                              *)
Start(ss, k) == Len(FlattenSeq(First(ss, k - 1)))

LEMMA StartFacts ==
  ASSUME NEW S, NEW ss \in Seq(Seq(S))
  PROVE  /\ \A k \in 1 .. Len(ss) + 1 : Start(ss, k) \in Nat
         /\ Start(ss, 1) = 0
         /\ \A k \in 1 .. Len(ss) : Start(ss, k + 1) = Start(ss, k) + Len(ss[k])
         /\ Start(ss, Len(ss) + 1) = Len(FlattenSeq(ss))
<1>1. ASSUME NEW k \in 1 .. Len(ss) + 1
      PROVE  FlattenSeq(First(ss, k - 1)) \in Seq(S) /\ Start(ss, k) \in Nat
  <2>1. k - 1 \in 0 .. Len(ss)
    OBVIOUS
  <2>2. First(ss, k - 1) \in Seq(Seq(S))
    BY <2>1, FirstType
  <2>3. FlattenSeq(First(ss, k - 1)) \in Seq(S)
    BY <2>2, FlattenType
  <2> QED
    BY <2>3 DEF Start
<1>2. Start(ss, 1) = 0
  <2>1. First(ss, 1 - 1) = <<>>
    BY DEF First
  <2> QED
    BY <2>1, FlattenEmpty DEF Start
<1>3. ASSUME NEW k \in 1 .. Len(ss)
      PROVE  Start(ss, k + 1) = Start(ss, k) + Len(ss[k])
  <2> DEFINE f == FlattenSeq(First(ss, k - 1))
  <2>1. f \in Seq(S)
    BY <1>1
  <2>2. ss[k] \in Seq(S)
    OBVIOUS
  <2>3. FlattenSeq(First(ss, k)) = f \o ss[k] /\ (k + 1) - 1 = k
    <3>1. (k + 1) - 1 = k
      OBVIOUS
    <3>2. FlattenSeq(First(ss, k)) = FlattenSeq(First(ss, k - 1)) \o ss[k]
      BY FlattenStep
    <3> QED
      BY <3>1, <3>2
  <2> HIDE DEF f
  <2>4. Len(f \o ss[k]) = Len(f) + Len(ss[k])
    BY <2>1, <2>2
  <2> QED
    BY <2>3, <2>4 DEF Start, f
<1>4. First(ss, (Len(ss) + 1) - 1) = ss
  BY DEF First
<1> QED
  BY <1>1, <1>2, <1>3, <1>4 DEF Start

(* There it stands, byte by byte.                                           *)
LEMMA FlattenAt ==
  ASSUME NEW S, NEW ss \in Seq(Seq(S)), NEW k \in 1 .. Len(ss)
  PROVE  /\ Start(ss, k) + Len(ss[k]) <= Len(FlattenSeq(ss))
         /\ \A b \in 1 .. Len(ss[k]) : FlattenSeq(ss)[Start(ss, k) + b] = ss[k][b]
<1> DEFINE o == Start(ss, k)
           p == ss[k]
           Flat(n) == FlattenSeq(First(ss, n))
           Stands(n) == /\ o + Len(p) <= Len(Flat(n))
                        /\ \A b \in 1 .. Len(p) : Flat(n)[o + b] = p[b]
           T == {d \in Nat : k + d <= Len(ss) => Stands(k + d)}
<1>1. p \in Seq(S) /\ k \in Nat /\ Len(ss) \in Nat /\ Len(p) \in Nat
  OBVIOUS
<1>2. \A n \in 0 .. Len(ss) : Flat(n) \in Seq(S)
  BY FirstType, FlattenType
<1>3. \A n \in 1 .. Len(ss) : Flat(n) = Flat(n - 1) \o ss[n]
  BY FlattenStep
<1>4. o \in Nat /\ o = Len(Flat(k - 1))
  BY StartFacts DEF Start
<1> HIDE DEF o, p, Flat
<1>5. 0 \in T
  <2>1. Flat(k) = Flat(k - 1) \o p /\ Flat(k - 1) \in Seq(S)
    <3>1. k \in 1 .. Len(ss) /\ k - 1 \in 0 .. Len(ss)
      OBVIOUS
    <3>2. Flat(k) = Flat(k - 1) \o ss[k]
      BY <1>3, <3>1
    <3>3. Flat(k - 1) \in Seq(S)
      BY <1>2, <3>1
    <3> QED
      BY <3>2, <3>3 DEF p
  <2>2. Len(Flat(k)) = o + Len(p) /\ \A b \in 1 .. Len(p) : Flat(k)[o + b] = p[b]
    BY <1>1, <1>4, <2>1
  <2>3. k + 0 = k /\ o + Len(p) <= o + Len(p)
    BY <1>1, <1>4
  <2> QED
    BY <2>2, <2>3
<1>6. ASSUME NEW d \in Nat, d \in T PROVE d + 1 \in T
  <2> SUFFICES ASSUME k + (d + 1) <= Len(ss) PROVE Stands(k + (d + 1))
    OBVIOUS
  <2> DEFINE n == k + d
  <2>1. n + 1 \in 1 .. Len(ss) /\ n \in 0 .. Len(ss) /\ k + (d + 1) = n + 1 /\ (n + 1) - 1 = n
    BY <1>1
  <2>2. Stands(n)
    BY <1>1, <1>6, <2>1
  <2> HIDE DEF n
  <2>3. Flat(n + 1) = Flat(n) \o ss[n + 1] /\ Flat(n) \in Seq(S) /\ ss[n + 1] \in Seq(S)
    <3>1. Flat(n + 1) = Flat((n + 1) - 1) \o ss[n + 1]
      BY <1>3, <2>1
    <3>2. Flat(n) \in Seq(S)
      BY <1>2, <2>1
    <3>3. ss[n + 1] \in Seq(S)
      BY <2>1
    <3> QED
      BY <2>1, <3>1, <3>2, <3>3
  <2>4. Len(Flat(n + 1)) >= Len(Flat(n))
        /\ \A l \in 1 .. Len(Flat(n)) : Flat(n + 1)[l] = Flat(n)[l]
    <3>1. \A a \in Seq(S), b \in Seq(S) :
            /\ Len(a \o b) >= Len(a)
            /\ \A l \in 1 .. Len(a) : (a \o b)[l] = a[l]
      OBVIOUS
    <3> QED
      BY <2>3, <3>1
  <2>5. Len(Flat(n)) \in Nat /\ Len(Flat(n + 1)) \in Nat
    BY <2>3
  <2>6. Stands(n + 1)
    BY <1>1, <1>4, <2>2, <2>4, <2>5
  <2> QED
    BY <2>1, <2>6
<1>7. \A d \in Nat : d \in T
  <2> HIDE DEF T
  <2> QED
    BY <1>5, <1>6, SetInduction
<1>8. Stands(Len(ss))
  <2>1. Len(ss) - k \in Nat /\ k + (Len(ss) - k) = Len(ss)
    BY <1>1
  <2> QED
    BY <1>1, <1>7, <2>1
<1>9. Flat(Len(ss)) = FlattenSeq(ss)
  BY DEF First, Flat
<1> QED
  BY <1>8, <1>9 DEF o, p

-----------------------------------------------------------------------------
(* The bytes x stand in d from offset o on.                                 *)
Stands(d, o, x) ==
  /\ o + Len(x) <= Len(d)
  /\ \A b \in 1 .. Len(x) : d[o + b] = x[b]

LEMMA ConcatFacts ==
  ASSUME NEW S, NEW x \in Seq(S), NEW y \in Seq(S)
  PROVE  x \o y \in Seq(S) /\ Len(x \o y) = Len(x) + Len(y)
  OBVIOUS

LEMMA StandsConcat ==
  ASSUME NEW S, NEW d \in Seq(S), NEW o \in Nat, NEW x \in Seq(S), NEW y \in Seq(S),
         Stands(d, o, x \o y)
  PROVE  /\ Stands(d, o, x)
         /\ Stands(d, o + Len(x), y)
         /\ o + Len(x) \in Nat
<1>1. /\ Len(x \o y) = Len(x) + Len(y) /\ Len(x) \in Nat /\ Len(y) \in Nat /\ Len(d) \in Nat
      /\ \A b \in 1 .. Len(x) : (x \o y)[b] = x[b]
      /\ \A b \in 1 .. Len(y) : (x \o y)[Len(x) + b] = y[b]
  OBVIOUS
<1>2. Stands(d, o, x)
  BY <1>1 DEF Stands
<1>3. Stands(d, o + Len(x), y)
  <2>1. o + Len(x) + Len(y) <= Len(d)
    BY <1>1 DEF Stands
  <2>2. ASSUME NEW b \in 1 .. Len(y) PROVE d[o + Len(x) + b] = y[b]
    <3>1. Len(x) + b \in 1 .. Len(x \o y) /\ o + (Len(x) + b) = o + Len(x) + b
      BY <1>1
    <3>2. d[o + (Len(x) + b)] = (x \o y)[Len(x) + b]
      BY <3>1 DEF Stands
    <3> QED
      BY <1>1, <3>1, <3>2
  <2> QED
    BY <2>1, <2>2 DEF Stands
<1> QED
  BY <1>1, <1>2, <1>3

LEMMA StandsParts ==
  ASSUME NEW S, NEW d \in Seq(S), NEW o \in Nat, NEW ss \in Seq(Seq(S)),
         Stands(d, o, FlattenSeq(ss)), NEW k \in 1 .. Len(ss)
  PROVE  Stands(d, o + Start(ss, k), ss[k])
<1> DEFINE f == FlattenSeq(ss)
           p == ss[k]
           a == Start(ss, k)
<1>1. f \in Seq(S) /\ p \in Seq(S)
  BY FlattenType
<1>2. a \in Nat
  BY StartFacts
<1>3. a + Len(p) <= Len(f) /\ \A b \in 1 .. Len(p) : f[a + b] = p[b]
  BY FlattenAt
<1>4. Len(d) \in Nat /\ Len(f) \in Nat /\ Len(p) \in Nat
  BY <1>1
<1>5. o + Len(f) <= Len(d) /\ \A b \in 1 .. Len(f) : d[o + b] = f[b]
  BY DEF Stands
<1> HIDE DEF f, p, a
<1>6. ASSUME NEW b \in 1 .. Len(p) PROVE d[o + a + b] = p[b]
  <2>1. a + b \in 1 .. Len(f) /\ o + (a + b) = o + a + b
    BY <1>2, <1>3, <1>4
  <2> QED
    BY <1>3, <1>5, <2>1
<1>7. o + a + Len(p) <= Len(d)
  BY <1>2, <1>3, <1>4, <1>5
<1>8. Stands(d, o + a, p)
  BY <1>6, <1>7 DEF Stands
<1> QED
  BY <1>8 DEF a, p

LEMMA StandsSlice ==
  ASSUME NEW S, NEW d \in Seq(S), NEW o \in Nat, NEW x \in Seq(S), Stands(d, o, x)
  PROVE  SubSeq(d, o + 1, o + Len(x)) = x
<1> DEFINE s == SubSeq(d, o + 1, o + Len(x))
<1>1. Len(x) \in Nat /\ Len(d) \in Nat /\ o + Len(x) <= Len(d)
  BY DEF Stands
<1>2. s \in Seq(S) /\ Len(s) = Len(x)
  BY <1>1
<1>3. ASSUME NEW b \in 1 .. Len(x) PROVE s[b] = x[b]
  <2>1. s[b] = d[o + 1 + b - 1] /\ o + 1 + b - 1 = o + b
    BY <1>1
  <2> QED
    BY <2>1 DEF Stands
<1> HIDE DEF s
<1>4. s = x
  BY <1>2, <1>3
<1> QED
  BY <1>4 DEF s

(* Parts of the same length stand at its multiples.                         *)
LEMMA StartOfEqualParts ==
  ASSUME NEW S, NEW ss \in Seq(Seq(S)), NEW w \in Nat,
         \A k \in 1 .. Len(ss) : Len(ss[k]) = w
  PROVE  \A k \in 1 .. Len(ss) + 1 : Start(ss, k) = w * (k - 1)
<1> DEFINE T == {n \in Nat : n <= Len(ss) => Start(ss, n + 1) = w * n}
<1>1. Len(ss) \in Nat
  OBVIOUS
<1>2. 0 \in T
  BY StartFacts
<1>3. ASSUME NEW n \in Nat, n \in T PROVE n + 1 \in T
  <2> SUFFICES ASSUME n + 1 <= Len(ss) PROVE Start(ss, (n + 1) + 1) = w * (n + 1)
    OBVIOUS
  <2>1. Start(ss, n + 1) = w * n
    BY <1>1, <1>3
  <2>2. n + 1 \in 1 .. Len(ss)
    BY <1>1
  <2>3. Start(ss, (n + 1) + 1) = Start(ss, n + 1) + Len(ss[n + 1])
    BY <2>2, StartFacts
  <2>4. Len(ss[n + 1]) = w
    BY <2>2
  <2>5. w * (n + 1) = w * n + w
    OBVIOUS
  <2> QED
    BY <2>1, <2>3, <2>4, <2>5
<1>4. \A n \in Nat : n \in T
  <2> HIDE DEF T
  <2> QED
    BY <1>2, <1>3, SetInduction
<1>5. ASSUME NEW k \in 1 .. Len(ss) + 1 PROVE Start(ss, k) = w * (k - 1)
  <2>1. k - 1 \in Nat /\ k - 1 <= Len(ss) /\ (k - 1) + 1 = k
    BY <1>1
  <2>2. k - 1 \in T
    BY <1>4, <2>1
  <2> QED
    BY <2>1, <2>2
<1> QED
  BY <1>5

-----------------------------------------------------------------------------
(* Dividing by f and then by g is dividing by their product.                *)
LEMMA DivisionTwice ==
  ASSUME NEW n \in Int, NEW f \in Nat \ {0}, NEW g \in Nat \ {0}
  PROVE  n \div (f * g) = (n \div f) \div g
<1> DEFINE q == n \div f
           r == n % f
           p == q \div g
           t == q % g
           h == f * g
<1>1. q \in Int /\ r \in 0 .. f - 1 /\ n = f * q + r
  BY DivisionProperties
<1>2. p \in Int /\ t \in 0 .. g - 1 /\ q = g * p + t
  BY <1>1, DivisionProperties
<1> HIDE DEF q, r, p, t
<1>3. h \in Nat \ {0}
  OBVIOUS
<1>4. f * t + r \in 0 .. h - 1
  <2>1. f * t + f <= f * g
    BY <1>2, MultipleOrder
  <2>2. f * t \in Nat /\ f * g \in Nat
    BY <1>2
  <2> QED
    BY <1>1, <2>1, <2>2
<1>5. n = h * p + (f * t + r)
  <2>1. f * q = f * (g * p) + f * t
    BY <1>2
  <2>2. f * (g * p) = (f * g) * p
    BY <1>2
  <2>3. f * t \in Int /\ (f * g) * p \in Int
    BY <1>2
  <2> QED
    BY <1>1, <2>1, <2>2, <2>3
<1> HIDE DEF h
<1>6. n \div h = p
  <2> DEFINE u == f * t + r
  <2>1. u \in 0 .. h - 1 /\ n = h * p + u
    BY <1>4, <1>5
  <2> HIDE DEF u
  <2> QED
    BY <1>2, <1>3, <2>1, DivisionUnique
<1> QED
  BY <1>6 DEF h, p, q

LEMMA QuotientBound ==
  ASSUME NEW f \in Nat \ {0}, NEW g \in Nat \ {0}, NEW n \in 0 .. f * g - 1
  PROVE  n \div f \in 0 .. g - 1
<1> DEFINE q == n \div f
           r == n % f
<1>1. f * g \in Nat /\ n \in Int
  OBVIOUS
<1>2. q \in Int /\ r \in 0 .. f - 1 /\ n = f * q + r
  BY <1>1, DivisionProperties
<1> HIDE DEF q, r
<1>3. ~ (q >= g)
  <2> SUFFICES ASSUME q >= g PROVE FALSE
    OBVIOUS
  <2>1. f * (q - g) >= 0 /\ f * (q - g) = f * q - f * g
    BY <1>2
  <2> QED
    BY <1>1, <1>2, <2>1
<1>4. ~ (q < 0)
  <2> SUFFICES ASSUME q < 0 PROVE FALSE
    OBVIOUS
  <2>1. f * q + f <= f * 0
    BY <1>2, MultipleOrder
  <2> QED
    BY <1>1, <1>2, <2>1
<1>5. q \in 0 .. g - 1
  BY <1>2, <1>3, <1>4
<1> QED
  BY <1>5 DEF q

(* The four bytes of a word make up the word.                               *)
LEMMA WordFacts ==
  ASSUME NEW n \in Words32
  PROVE  LET w == Word(n) IN
         /\ w \in Seq(Byte) /\ Len(w) = 4
         /\ ((w[1] * ByteRange + w[2]) * ByteRange + w[3]) * ByteRange + w[4] = n
<1> DEFINE B == ByteRange
           S == B * B
           T == B * B * B
           q1 == n \div B
           q2 == q1 \div B
           q3 == q2 \div B
           r1 == n % B
           r2 == q1 % B
           r3 == q2 % B
<1>1. B \in Nat \ {0}
  BY ByteAssumption
<1>2. S \in Nat \ {0} /\ T \in Nat \ {0} /\ T = B * S /\ T = S * B
  <2>1. S \in Nat \ {0}
    BY <1>1
  <2>2. B * S \in Nat \ {0} /\ S * B \in Nat \ {0} /\ B * S = S * B
    BY <1>1, <2>1
  <2> QED
    BY <2>1, <2>2
<1>3. Long = T * B
  BY DEF Long
<1>4. n \in Int /\ n >= 0 /\ n < Long
  <2>1. T * B \in Nat
    BY <1>1, <1>2
  <2> QED
    BY <1>3, <2>1 DEF Words32
<1>5. q1 \in Int /\ r1 \in 0 .. B - 1 /\ n = B * q1 + r1
  BY <1>1, <1>4, DivisionProperties
<1>6. q2 \in Int /\ r2 \in 0 .. B - 1 /\ q1 = B * q2 + r2
  BY <1>1, <1>5, DivisionProperties
<1>7. q3 \in Int /\ r3 \in 0 .. B - 1 /\ q2 = B * q3 + r3
  BY <1>1, <1>6, DivisionProperties
<1>8. n \div S = q2
  BY <1>1, <1>4, DivisionTwice
<1>9. n \div T = q3
  <2> HIDE DEF B, S, T
  <2>1. n \div (S * B) = (n \div S) \div B
    BY <1>1, <1>2, <1>4, DivisionTwice
  <2> QED
    BY <1>2, <1>8, <2>1
<1>10. q3 \in 0 .. B - 1
  <2>1. n \in 0 .. T * B - 1
    BY <1>3, <1>4
  <2> HIDE DEF B, T, q3
  <2> QED
    BY <1>1, <1>2, <1>9, <2>1, QuotientBound
<1>11. Word(n) = <<q3, r3, r2, r1>>
  BY <1>8, <1>9 DEF Word
<1> HIDE DEF B, S, T, q1, q2, q3, r1, r2, r3
<1>12. Byte = 0 .. B - 1
  BY DEF Byte, B
<1>13. <<q3, r3, r2, r1>> \in Seq(Byte)
  BY <1>5, <1>6, <1>7, <1>10, <1>12
<1>14. ((q3 * B + r3) * B + r2) * B + r1 = n
  <2>1. q3 * B + r3 = q2
    BY <1>1, <1>7
  <2>2. q2 * B + r2 = q1
    BY <1>1, <1>6
  <2>3. q1 * B + r1 = n
    BY <1>1, <1>5
  <2> QED
    BY <2>1, <2>2, <2>3
<1> QED
  BY <1>11, <1>13, <1>14 DEF B

(* ntohl reads it.                                                          *)
LEMMA LongStands ==
  ASSUME NEW q, q.data \in Seq(Byte), NEW o \in Nat, NEW n \in Words32,
         Stands(q.data, o, Word(n))
  PROVE  LongAt(q, o) = n
<1> DEFINE w == Word(n)
<1>1. /\ Len(w) = 4
      /\ ((w[1] * ByteRange + w[2]) * ByteRange + w[3]) * ByteRange + w[4] = n
  BY WordFacts
<1> HIDE DEF w
<1>2. \A b \in 1 .. 4 : q.data[o + b] = w[b]
  BY <1>1 DEF Stands, w
<1>3. /\ ByteAt(q, o) = w[1] /\ ByteAt(q, o + 1) = w[2]
      /\ ByteAt(q, o + 2) = w[3] /\ ByteAt(q, o + 3) = w[4]
  <2>1. o + 1 + 1 = o + 2 /\ o + 2 + 1 = o + 3 /\ o + 3 + 1 = o + 4
    OBVIOUS
  <2>2. q.data[o + 1] = w[1] /\ q.data[o + 2] = w[2] /\ q.data[o + 3] = w[3] /\ q.data[o + 4] = w[4]
    BY <1>2
  <2> QED
    BY <2>1, <2>2 DEF ByteAt
<1> QED
  BY <1>1, <1>3 DEF LongAt

LEMMA WordPartsFacts ==
  ASSUME NEW ns \in Seq(Words32)
  PROVE  \E ws \in Seq(Seq(Byte)) :
           /\ Words(ns) = FlattenSeq(ws) /\ Len(ws) = Len(ns)
           /\ \A k \in 1 .. Len(ns) : ws[k] = Word(ns[k])
           /\ \A k \in 1 .. Len(ns) + 1 : Start(ws, k) = 4 * (k - 1)
<1> DEFINE ws == [i \in DOMAIN ns |-> Word(ns[i])]
<1>1. \A k \in 1 .. Len(ns) : ns[k] \in Words32
  OBVIOUS
<1>2. /\ ws \in Seq(Seq(Byte)) /\ Len(ws) = Len(ns)
      /\ \A k \in 1 .. Len(ns) : ws[k] = Word(ns[k]) /\ Len(ws[k]) = 4
  <2>1. DOMAIN ns = 1 .. Len(ns) /\ Len(ns) \in Nat
    OBVIOUS
  <2>2. \A k \in 1 .. Len(ns) : Word(ns[k]) \in Seq(Byte) /\ Len(Word(ns[k])) = 4
    BY <1>1, WordFacts
  <2> QED
    BY <2>1, <2>2
<1>3. Words(ns) = FlattenSeq(ws)
  BY DEF Words
<1> HIDE DEF ws
<1>4. \A k \in 1 .. Len(ns) + 1 : Start(ws, k) = 4 * (k - 1)
  <2>1. \A k \in 1 .. Len(ws) : Len(ws[k]) = 4
    BY <1>2
  <2>2. \A k \in 1 .. Len(ws) + 1 : Start(ws, k) = 4 * (k - 1)
    BY <1>2, <2>1, StartOfEqualParts
  <2> QED
    BY <1>2, <2>2
<1> QED
  BY <1>2, <1>3, <1>4

LEMMA WordsType ==
  ASSUME NEW ns \in Seq(Words32)
  PROVE  Words(ns) \in Seq(Byte) /\ Len(Words(ns)) = 4 * Len(ns)
<1>1. PICK ws \in Seq(Seq(Byte)) :
           /\ Words(ns) = FlattenSeq(ws) /\ Len(ws) = Len(ns)
           /\ \A k \in 1 .. Len(ns) + 1 : Start(ws, k) = 4 * (k - 1)
  BY WordPartsFacts
<1>2. FlattenSeq(ws) \in Seq(Byte)
  BY FlattenType
<1>3. Start(ws, Len(ns) + 1) = Len(FlattenSeq(ws))
  BY <1>1, StartFacts
<1>4. Len(ns) + 1 \in 1 .. Len(ns) + 1 /\ (Len(ns) + 1) - 1 = Len(ns)
  OBVIOUS
<1> QED
  BY <1>1, <1>2, <1>3, <1>4

LEMMA WordsStand ==
  ASSUME NEW ns \in Seq(Words32), NEW q, q.data \in Seq(Byte), NEW o \in Nat,
         Stands(q.data, o, Words(ns)), NEW k \in 1 .. Len(ns)
  PROVE  LongAt(q, o + 4 * (k - 1)) = ns[k]
<1>1. PICK ws \in Seq(Seq(Byte)) :
           /\ Words(ns) = FlattenSeq(ws) /\ Len(ws) = Len(ns)
           /\ \A l \in 1 .. Len(ns) : ws[l] = Word(ns[l])
           /\ \A l \in 1 .. Len(ns) + 1 : Start(ws, l) = 4 * (l - 1)
  BY WordPartsFacts
<1>2. Stands(q.data, o + Start(ws, k), ws[k])
  BY <1>1, StandsParts
<1>3. k \in 1 .. Len(ns) + 1 /\ ns[k] \in Words32 /\ o + 4 * (k - 1) \in Nat
  OBVIOUS
<1>4. Start(ws, k) = 4 * (k - 1) /\ ws[k] = Word(ns[k])
  BY <1>1, <1>3
<1> QED
  BY <1>2, <1>3, <1>4, LongStands

(* The three bytes of a number of losses.                                   *)
LEMMA LossBytesFacts ==
  ASSUME NEW n \in Losses
  PROVE  LET b == PacketsLostBytes(n) IN
         /\ b \in Seq(Byte) /\ Len(b) = 3
         /\ LostPacketCount(b[1], b[2], b[3]) = n
<1> DEFINE B == ByteRange
           S == B * B
           T == B * B * B
           u == n % T
           v == u \div B
<1>1. B \in Nat \ {0}
  BY ByteAssumption
<1>2. S \in Nat \ {0} /\ T \in Nat \ {0} /\ T = S * B
  <2>1. S \in Nat \ {0}
    BY <1>1
  <2>2. S * B \in Nat \ {0}
    BY <1>1, <2>1
  <2> QED
    BY <2>1, <2>2
<1>3. n \in Int
  BY DEF Losses
<1>4. u \in 0 .. T - 1 /\ u \in Int
  <2>1. u \in 0 .. T - 1
    BY <1>2, <1>3, DivisionProperties
  <2> QED
    BY <1>2, <2>1
<1>5. u % B \in 0 .. B - 1 /\ v \in Int /\ v % B \in 0 .. B - 1
  BY <1>1, <1>4, DivisionProperties
<1>6. u \div S \in 0 .. B - 1
  <2>1. u \in 0 .. S * B - 1
    BY <1>2, <1>4
  <2> HIDE DEF B, S, u
  <2> QED
    BY <1>1, <1>2, <2>1, QuotientBound
<1>7. PacketsLostBytes(n) = <<u \div S, v % B, u % B>>
  BY DEF PacketsLostBytes
<1>8. PacketsLostBytes(n) \in Seq(Byte) /\ Len(PacketsLostBytes(n)) = 3
  <2>1. Byte = 0 .. B - 1
    BY DEF Byte
  <2> HIDE DEF B, S, u, v
  <2> QED
    BY <1>5, <1>6, <1>7, <2>1
<1>9. LET b == PacketsLostBytes(n) IN LostPacketCount(b[1], b[2], b[3]) = n
  BY LossesKeepTheirSign
<1> QED
  BY <1>8, <1>9

-----------------------------------------------------------------------------
(* The byte at an offset.                                                   *)
LEMMA ByteStands ==
  ASSUME NEW q, q.data \in Seq(Byte), NEW o \in Nat, NEW x \in Seq(Byte),
         Stands(q.data, o, x), NEW b \in 0 .. Len(x) - 1
  PROVE  ByteAt(q, o + b) = x[b + 1]
<1>1. b + 1 \in 1 .. Len(x) /\ o + b + 1 = o + (b + 1)
  OBVIOUS
<1>2. q.data[o + (b + 1)] = x[b + 1]
  BY <1>1 DEF Stands
<1> QED
  BY <1>1, <1>2 DEF ByteAt

(* A reception report takes 24 bytes, from which its fields are read.       *)
LEMMA ReportBytesParts ==
  ASSUME NEW r \in Reports
  PROVE  \E w \in Seq(Byte), f \in Seq(Byte), l \in Seq(Byte), ns \in Seq(Words32) :
           /\ ReportBytes(r) = ((w \o f) \o l) \o Words(ns)
           /\ w = Word(r.ssrc) /\ r.ssrc \in Words32 /\ Len(w) = 4
           /\ f[1] = r.fractionlost /\ Len(f) = 1
           /\ LostPacketCount(l[1], l[2], l[3]) = r.packetslost /\ Len(l) = 3
           /\ Len(ns) = 4
           /\ r = [ssrc |-> r.ssrc, fractionlost |-> r.fractionlost,
                   packetslost |-> r.packetslost, exthighseqnr |-> ns[1],
                   jitter |-> ns[2], lsr |-> ns[3], dlsr |-> ns[4]]
<1> DEFINE w == Word(r.ssrc)
           f == <<r.fractionlost>>
           l == PacketsLostBytes(r.packetslost)
           ns == <<r.exthighseqnr, r.jitter, r.lsr, r.dlsr>>
<1>1. /\ r.ssrc \in Words32 /\ r.fractionlost \in Byte /\ r.packetslost \in Losses
      /\ r.exthighseqnr \in Words32 /\ r.jitter \in Words32
      /\ r.lsr \in Words32 /\ r.dlsr \in Words32
  BY DEF Reports
<1>2. r = [ssrc |-> r.ssrc, fractionlost |-> r.fractionlost,
           packetslost |-> r.packetslost, exthighseqnr |-> r.exthighseqnr,
           jitter |-> r.jitter, lsr |-> r.lsr, dlsr |-> r.dlsr]
  BY DEF Reports
<1>3. w \in Seq(Byte) /\ Len(w) = 4
  BY <1>1, WordFacts
<1>4. f \in Seq(Byte) /\ Len(f) = 1 /\ f[1] = r.fractionlost
  BY <1>1
<1>5. l \in Seq(Byte) /\ Len(l) = 3 /\ LostPacketCount(l[1], l[2], l[3]) = r.packetslost
  BY <1>1, LossBytesFacts
<1>6. /\ ns \in Seq(Words32) /\ Len(ns) = 4
      /\ ns[1] = r.exthighseqnr /\ ns[2] = r.jitter /\ ns[3] = r.lsr /\ ns[4] = r.dlsr
  BY <1>1
<1>7. ReportBytes(r) = ((w \o f) \o l) \o Words(ns)
  BY DEF ReportBytes
<1>8. w = Word(r.ssrc)
  OBVIOUS
<1> HIDE DEF w, f, l, ns
<1> w \in Seq(Byte) /\ f \in Seq(Byte) /\ l \in Seq(Byte) /\ ns \in Seq(Words32)
  BY <1>3, <1>4, <1>5, <1>6
<1> WITNESS w \in Seq(Byte), f \in Seq(Byte), l \in Seq(Byte), ns \in Seq(Words32)
<1> QED
  BY <1>1, <1>2, <1>3, <1>4, <1>5, <1>6, <1>7, <1>8

LEMMA ReportType ==
  ASSUME NEW r \in Reports
  PROVE  ReportBytes(r) \in Seq(Byte) /\ Len(ReportBytes(r)) = 24
<1>1. PICK w \in Seq(Byte), f \in Seq(Byte), l \in Seq(Byte), ns \in Seq(Words32) :
        /\ ReportBytes(r) = ((w \o f) \o l) \o Words(ns)
        /\ Len(w) = 4 /\ Len(f) = 1 /\ Len(l) = 3 /\ Len(ns) = 4
  BY ReportBytesParts
<1> DEFINE x == w \o f
           y == x \o l
           z == Words(ns)
<1>2. z \in Seq(Byte) /\ Len(z) = 16
  <2>1. Len(ns) = 4
    BY <1>1
  <2>2. z \in Seq(Byte) /\ Len(z) = 4 * Len(ns)
    BY WordsType
  <2> HIDE DEF z
  <2> QED
    BY <2>1, <2>2
<1>3. x \in Seq(Byte) /\ Len(x) = 5
  <2>1. Len(w) = 4 /\ Len(f) = 1
    BY <1>1
  <2>2. x \in Seq(Byte) /\ Len(x) = Len(w) + Len(f)
    BY ConcatFacts
  <2> HIDE DEF x
  <2> QED
    BY <2>1, <2>2
<1> HIDE DEF x, z
<1>4. y \in Seq(Byte) /\ Len(y) = 8
  <2>1. Len(l) = 3
    BY <1>1
  <2>2. y \in Seq(Byte) /\ Len(y) = Len(x) + Len(l)
    BY <1>3, ConcatFacts
  <2> HIDE DEF y
  <2> QED
    BY <1>3, <2>1, <2>2
<1> HIDE DEF y
<1>5. y \o z \in Seq(Byte) /\ Len(y \o z) = Len(y) + Len(z)
  BY <1>2, <1>4, ConcatFacts
<1>6. ReportBytes(r) = y \o z
  BY <1>1 DEF x, y, z
<1> QED
  BY <1>2, <1>4, <1>5, <1>6

LEMMA ReportStands ==
  ASSUME NEW r \in Reports, NEW q, q.data \in Seq(Byte), NEW o \in Nat,
         Stands(q.data, o, ReportBytes(r))
  PROVE  ReportAt(q, o) = r
<1>1. PICK w \in Seq(Byte), f \in Seq(Byte), l \in Seq(Byte), ns \in Seq(Words32) :
           /\ ReportBytes(r) = ((w \o f) \o l) \o Words(ns)
           /\ w = Word(r.ssrc) /\ r.ssrc \in Words32 /\ Len(w) = 4
           /\ f[1] = r.fractionlost /\ Len(f) = 1
           /\ LostPacketCount(l[1], l[2], l[3]) = r.packetslost /\ Len(l) = 3
           /\ Len(ns) = 4
           /\ r = [ssrc |-> r.ssrc, fractionlost |-> r.fractionlost,
                   packetslost |-> r.packetslost, exthighseqnr |-> ns[1],
                   jitter |-> ns[2], lsr |-> ns[3], dlsr |-> ns[4]]
  BY ReportBytesParts
<1> DEFINE x == w \o f
           y == x \o l
           z == Words(ns)
<1>2. z \in Seq(Byte) /\ Len(z) = 16
  <2>1. Len(ns) = 4
    BY <1>1
  <2>2. z \in Seq(Byte) /\ Len(z) = 4 * Len(ns)
    BY WordsType
  <2> HIDE DEF z
  <2> QED
    BY <2>1, <2>2
<1>3. x \in Seq(Byte) /\ Len(x) = 5
  <2>1. Len(w) = 4 /\ Len(f) = 1
    BY <1>1
  <2>2. x \in Seq(Byte) /\ Len(x) = Len(w) + Len(f)
    BY ConcatFacts
  <2> HIDE DEF x
  <2> QED
    BY <2>1, <2>2
<1> HIDE DEF x, z
<1>4. y \in Seq(Byte) /\ Len(y) = 8
  <2>1. Len(l) = 3
    BY <1>1
  <2>2. y \in Seq(Byte) /\ Len(y) = Len(x) + Len(l)
    BY <1>3, ConcatFacts
  <2> HIDE DEF y
  <2> QED
    BY <1>3, <2>1, <2>2
<1> HIDE DEF y
<1>5. Stands(q.data, o, y) /\ Stands(q.data, o + 8, z)
  <2>1. Stands(q.data, o, y \o z)
    BY <1>1 DEF x, y, z
  <2>2. Stands(q.data, o, y) /\ Stands(q.data, o + Len(y), z)
    BY <1>2, <1>4, <2>1, StandsConcat
  <2> QED
    BY <1>4, <2>2
<1>6. Stands(q.data, o, x) /\ Stands(q.data, o + 5, l)
  <2>1. Stands(q.data, o, x) /\ Stands(q.data, o + Len(x), l)
    BY <1>3, <1>5, StandsConcat DEF y
  <2> QED
    BY <1>3, <2>1
<1>7. Stands(q.data, o, w) /\ Stands(q.data, o + 4, f)
  <2>1. Stands(q.data, o, w) /\ Stands(q.data, o + Len(w), f)
    BY <1>6, StandsConcat DEF x
  <2>2. Len(w) = 4
    BY <1>1
  <2> QED
    BY <2>1, <2>2
<1>8. LongAt(q, o) = r.ssrc
  <2>1. Stands(q.data, o, Word(r.ssrc)) /\ r.ssrc \in Words32
    BY <1>1, <1>7
  <2> QED
    BY <2>1, LongStands
<1>9. ByteAt(q, o + 4) = r.fractionlost
  <2>1. Len(f) = 1 /\ f[1] = r.fractionlost
    BY <1>1
  <2>2. o + 4 \in Nat /\ o + 4 + 0 = o + 4 /\ 0 \in 0 .. Len(f) - 1
    BY <2>1
  <2>3. ByteAt(q, o + 4 + 0) = f[0 + 1]
    BY <1>7, <2>2, ByteStands
  <2> QED
    BY <2>1, <2>2, <2>3
<1>10. LostPacketCount(ByteAt(q, o + 5), ByteAt(q, o + 6), ByteAt(q, o + 7)) = r.packetslost
  <2>1. Len(l) = 3
    BY <1>1
  <2>2. o + 5 \in Nat /\ o + 5 + 0 = o + 5 /\ o + 5 + 1 = o + 6 /\ o + 5 + 2 = o + 7
    OBVIOUS
  <2>3. \A b \in 0 .. Len(l) - 1 : ByteAt(q, o + 5 + b) = l[b + 1]
    BY <1>6, <2>2, ByteStands
  <2>4. ByteAt(q, o + 5) = l[1] /\ ByteAt(q, o + 6) = l[2] /\ ByteAt(q, o + 7) = l[3]
    BY <2>1, <2>2, <2>3
  <2> QED
    BY <1>1, <2>4
<1>11. /\ LongAt(q, o + 8) = ns[1] /\ LongAt(q, o + 12) = ns[2]
       /\ LongAt(q, o + 16) = ns[3] /\ LongAt(q, o + 20) = ns[4]
  <2>1. o + 8 \in Nat /\ Len(ns) = 4
    BY <1>1
  <2>2. \A k \in 1 .. Len(ns) : LongAt(q, o + 8 + 4 * (k - 1)) = ns[k]
    BY <1>5, <2>1, WordsStand DEF z
  <2>3. /\ o + 8 + 4 * (1 - 1) = o + 8 /\ o + 8 + 4 * (2 - 1) = o + 12
        /\ o + 8 + 4 * (3 - 1) = o + 16 /\ o + 8 + 4 * (4 - 1) = o + 20
    OBVIOUS
  <2> QED
    BY <2>1, <2>2, <2>3
<1> QED
  BY <1>1, <1>8, <1>9, <1>10, <1>11 DEF ReportAt

LEMMA ReportPartsFacts ==
  ASSUME NEW rs \in Seq(Reports)
  PROVE  /\ ReportParts(rs) \in Seq(Seq(Byte))
         /\ Len(ReportParts(rs)) = Len(rs)
         /\ \A k \in 1 .. Len(rs) : ReportParts(rs)[k] = ReportBytes(rs[k])
         /\ \A k \in 1 .. Len(rs) + 1 : Start(ReportParts(rs), k) = 24 * (k - 1)
<1> DEFINE ps == ReportParts(rs)
<1>1. \A k \in 1 .. Len(rs) : rs[k] \in Reports
  OBVIOUS
<1>2. /\ ps \in Seq(Seq(Byte)) /\ Len(ps) = Len(rs)
      /\ \A k \in 1 .. Len(rs) : ps[k] = ReportBytes(rs[k]) /\ Len(ps[k]) = 24
  <2>1. DOMAIN rs = 1 .. Len(rs) /\ Len(rs) \in Nat
    OBVIOUS
  <2>2. \A k \in 1 .. Len(rs) :
          ReportBytes(rs[k]) \in Seq(Byte) /\ Len(ReportBytes(rs[k])) = 24
    BY <1>1, ReportType
  <2> QED
    BY <2>1, <2>2 DEF ReportParts
<1> HIDE DEF ps
<1>3. \A k \in 1 .. Len(rs) + 1 : Start(ps, k) = 24 * (k - 1)
  <2>1. 24 \in Nat /\ \A k \in 1 .. Len(ps) : Len(ps[k]) = 24
    BY <1>2
  <2>2. \A k \in 1 .. Len(ps) + 1 : Start(ps, k) = 24 * (k - 1)
    BY <1>2, <2>1, StartOfEqualParts
  <2> QED
    BY <1>2, <2>2
<1> QED
  BY <1>2, <1>3 DEF ps

LEMMA ReportsStand ==
  ASSUME NEW rs \in Seq(Reports), NEW q, q.data \in Seq(Byte), NEW o \in Nat,
         Stands(q.data, o, FlattenSeq(ReportParts(rs))), NEW k \in 1 .. Len(rs)
  PROVE  ReportAt(q, o + 24 * (k - 1)) = rs[k]
<1> DEFINE ps == ReportParts(rs)
<1>1. ps \in Seq(Seq(Byte)) /\ Len(ps) = Len(rs) /\ Stands(q.data, o, FlattenSeq(ps))
  BY ReportPartsFacts
<1>2. Start(ps, k) = 24 * (k - 1) /\ ps[k] = ReportBytes(rs[k])
  <2>1. k \in 1 .. Len(rs) + 1
    OBVIOUS
  <2> QED
    BY <2>1, ReportPartsFacts
<1> HIDE DEF ps
<1>3. Stands(q.data, o + Start(ps, k), ps[k])
  BY <1>1, StandsParts
<1>4. o + 24 * (k - 1) \in Nat /\ rs[k] \in Reports
  OBVIOUS
<1> QED
  BY <1>2, <1>3, <1>4, ReportStands

-----------------------------------------------------------------------------
(* Parts that are not empty start one behind the other.                     *)
LEMMA StartsGrow ==
  ASSUME NEW S, NEW ss \in Seq(Seq(S)), \A k \in 1 .. Len(ss) : Len(ss[k]) > 0,
         NEW j \in 1 .. Len(ss) + 1, NEW k \in 1 .. Len(ss) + 1, j < k
  PROVE  Start(ss, j) < Start(ss, k)
<1> DEFINE T == {n \in Nat : j + n + 1 <= Len(ss) + 1 => Start(ss, j) < Start(ss, j + n + 1)}
<1>1. \A l \in 1 .. Len(ss) + 1 : Start(ss, l) \in Nat
  BY StartFacts
<1>2. \A l \in 1 .. Len(ss) : Start(ss, l + 1) = Start(ss, l) + Len(ss[l])
  BY StartFacts
<1>3. \A l \in 1 .. Len(ss) : Len(ss[l]) \in Nat
  OBVIOUS
<1>4. \A l \in 1 .. Len(ss) : l + 1 \in 1 .. Len(ss) + 1 /\ l \in 1 .. Len(ss) + 1
  OBVIOUS
<1>5. ASSUME NEW l \in 1 .. Len(ss) PROVE Start(ss, l) < Start(ss, l + 1)
  <2>1. Start(ss, l) \in Nat /\ Start(ss, l + 1) \in Nat
    BY <1>1, <1>4
  <2>2. Len(ss[l]) \in Nat /\ Len(ss[l]) > 0
    BY <1>3
  <2>3. Start(ss, l + 1) = Start(ss, l) + Len(ss[l])
    BY <1>2
  <2> QED
    BY <2>1, <2>2, <2>3
<1>6. 0 \in T
  <2> SUFFICES ASSUME j + 0 + 1 <= Len(ss) + 1 PROVE Start(ss, j) < Start(ss, j + 0 + 1)
    OBVIOUS
  <2>1. j \in 1 .. Len(ss) /\ j + 0 + 1 = j + 1
    OBVIOUS
  <2> QED
    BY <1>5, <2>1
<1>7. ASSUME NEW n \in Nat, n \in T PROVE n + 1 \in T
  <2> SUFFICES ASSUME j + (n + 1) + 1 <= Len(ss) + 1
               PROVE  Start(ss, j) < Start(ss, j + (n + 1) + 1)
    OBVIOUS
  <2>1. /\ j + n + 1 \in 1 .. Len(ss) /\ j + (n + 1) + 1 = (j + n + 1) + 1
        /\ j + n + 1 <= Len(ss) + 1
    OBVIOUS
  <2>2. Start(ss, j) < Start(ss, j + n + 1)
    BY <1>7, <2>1
  <2>3. Start(ss, j + n + 1) < Start(ss, (j + n + 1) + 1)
    BY <1>5, <2>1
  <2>4. /\ Start(ss, j) \in Nat /\ Start(ss, j + n + 1) \in Nat
        /\ Start(ss, (j + n + 1) + 1) \in Nat
    BY <1>1, <1>4, <2>1
  <2> QED
    BY <2>1, <2>2, <2>3, <2>4
<1>8. \A n \in Nat : n \in T
  <2> HIDE DEF T
  <2> QED
    BY <1>6, <1>7, SetInduction
<1>9. k - j - 1 \in Nat /\ j + (k - j - 1) + 1 = k
  OBVIOUS
<1>10. k - j - 1 \in T
  BY <1>8, <1>9
<1> QED
  BY <1>9, <1>10

(* An item: its type, the length of its text, its text.                     *)
LEMMA ItemType ==
  ASSUME NEW it \in Items
  PROVE  /\ it.sdesid \in Byte \ {0} /\ it.text \in Seq(Byte) /\ Len(it.text) \in Byte
         /\ ItemBytes(it) \in Seq(Byte)
         /\ Len(ItemBytes(it)) = 2 + Len(it.text)
<1> DEFINE h == <<it.sdesid, Len(it.text)>>
<1>1. it.sdesid \in Byte \ {0} /\ it.text \in Counted(Byte)
  BY DEF Items
<1>2. it.text \in Seq(Byte) /\ Len(it.text) < ByteRange
  BY <1>1 DEF Counted
<1>3. Len(it.text) \in Byte
  <2>1. Len(it.text) \in Nat /\ ByteRange \in Nat
    BY <1>2, ByteAssumption
  <2> QED
    BY <1>2, <2>1 DEF Byte
<1>4. h \in Seq(Byte) /\ Len(h) = 2
  BY <1>1, <1>3
<1>5. ItemBytes(it) = h \o it.text
  BY DEF ItemBytes
<1> HIDE DEF h
<1>6. h \o it.text \in Seq(Byte) /\ Len(h \o it.text) = Len(h) + Len(it.text)
  BY <1>2, <1>4, ConcatFacts
<1> QED
  BY <1>1, <1>2, <1>3, <1>4, <1>5, <1>6

LEMMA ItemStands ==
  ASSUME NEW it \in Items, NEW q, q.data \in Seq(Byte), NEW o \in Nat,
         Stands(q.data, o, ItemBytes(it))
  PROVE  /\ ByteAt(q, o) = it.sdesid
         /\ ByteAt(q, o + 1) = Len(it.text)
         /\ Stands(q.data, o + 2, it.text)
<1> DEFINE h == <<it.sdesid, Len(it.text)>>
<1>1. it.sdesid \in Byte /\ it.text \in Seq(Byte) /\ Len(it.text) \in Byte
  BY ItemType
<1>2. h \in Seq(Byte) /\ Len(h) = 2 /\ h[1] = it.sdesid /\ h[2] = Len(it.text)
  BY <1>1
<1>3. ItemBytes(it) = h \o it.text
  BY DEF ItemBytes
<1> HIDE DEF h
<1>4. Stands(q.data, o, h) /\ Stands(q.data, o + Len(h), it.text)
  <2> DEFINE t == it.text
  <2>1. Stands(q.data, o, h \o t) /\ h \in Seq(Byte) /\ t \in Seq(Byte)
    BY <1>1, <1>2, <1>3
  <2> HIDE DEF t
  <2>2. Stands(q.data, o, h) /\ Stands(q.data, o + Len(h), t)
    BY <2>1, StandsConcat
  <2> QED
    BY <2>2 DEF t
<1>5. 0 \in 0 .. Len(h) - 1 /\ 1 \in 0 .. Len(h) - 1
  BY <1>2
<1>6. ByteAt(q, o + 0) = h[0 + 1] /\ ByteAt(q, o + 1) = h[1 + 1]
  BY <1>2, <1>4, <1>5, ByteStands
<1>7. o + 0 = o
  OBVIOUS
<1> QED
  BY <1>2, <1>4, <1>6, <1>7

LEMMA ItemPartsFacts ==
  ASSUME NEW items \in Seq(Items)
  PROVE  /\ ItemParts(items) \in Seq(Seq(Byte))
         /\ Len(ItemParts(items)) = Len(items)
         /\ \A j \in 1 .. Len(items) :
              /\ ItemParts(items)[j] = ItemBytes(items[j])
              /\ Len(ItemParts(items)[j]) = 2 + Len(items[j].text)
              /\ Len(items[j].text) \in Nat
<1>1. \A j \in 1 .. Len(items) : items[j] \in Items
  OBVIOUS
<1>2. \A j \in 1 .. Len(items) :
        /\ ItemBytes(items[j]) \in Seq(Byte)
        /\ Len(ItemBytes(items[j])) = 2 + Len(items[j].text)
        /\ Len(items[j].text) \in Nat
  <2> SUFFICES ASSUME NEW j \in 1 .. Len(items)
               PROVE  /\ ItemBytes(items[j]) \in Seq(Byte)
                      /\ Len(ItemBytes(items[j])) = 2 + Len(items[j].text)
                      /\ Len(items[j].text) \in Nat
    OBVIOUS
  <2>1. items[j].text \in Seq(Byte)
    BY <1>1, ItemType
  <2> QED
    BY <1>1, <2>1, ItemType
<1>3. DOMAIN items = 1 .. Len(items) /\ Len(items) \in Nat
  OBVIOUS
<1>4. ItemParts(items) = [j \in 1 .. Len(items) |-> ItemBytes(items[j])]
  BY <1>3 DEF ItemParts
<1>5. ItemParts(items) \in Seq(Seq(Byte)) /\ Len(ItemParts(items)) = Len(items)
  BY <1>2, <1>3, <1>4
<1>6. \A j \in 1 .. Len(items) : ItemParts(items)[j] = ItemBytes(items[j])
  BY <1>4
<1> QED
  BY <1>2, <1>5, <1>6

(* A chunk: its source, its items from offset 4 on, and behind them zeros   *)
(* up to the next multiple of four.                                         *)
ItemStart(c, j) == 4 + Start(ItemParts(c.items), j)
ItemsEnd(c) == ItemStart(c, Len(c.items) + 1)

LEMMA ItemStartFacts ==
  ASSUME NEW c \in Chunks
  PROVE  /\ \A j \in 1 .. Len(c.items) + 1 : ItemStart(c, j) \in Nat /\ ItemStart(c, j) >= 4
         /\ ItemStart(c, 1) = 4
         /\ \A j \in 1 .. Len(c.items) :
              ItemStart(c, j + 1) = ItemStart(c, j) + 2 + Len(c.items[j].text)
         /\ \A j \in 1 .. Len(c.items) + 1, k \in 1 .. Len(c.items) + 1 :
              j < k => ItemStart(c, j) < ItemStart(c, k)
         /\ ItemsEnd(c) = 4 + Len(FlattenSeq(ItemParts(c.items)))
<1> DEFINE ip == ItemParts(c.items)
<1>1. c.items \in Seq(Items)
  BY DEF Chunks
<1>2. /\ ip \in Seq(Seq(Byte)) /\ Len(ip) = Len(c.items)
      /\ \A j \in 1 .. Len(c.items) :
           Len(ip[j]) = 2 + Len(c.items[j].text) /\ Len(c.items[j].text) \in Nat
  BY <1>1, ItemPartsFacts
<1> HIDE DEF ip
<1>3. /\ \A j \in 1 .. Len(ip) + 1 : Start(ip, j) \in Nat
      /\ Start(ip, 1) = 0
      /\ \A j \in 1 .. Len(ip) : Start(ip, j + 1) = Start(ip, j) + Len(ip[j])
      /\ Start(ip, Len(ip) + 1) = Len(FlattenSeq(ip))
  BY <1>2, StartFacts
<1>4. ASSUME NEW j \in 1 .. Len(ip) + 1, NEW k \in 1 .. Len(ip) + 1, j < k
      PROVE  Start(ip, j) < Start(ip, k)
  <2>1. \A l \in 1 .. Len(ip) : Len(ip[l]) > 0
    <3> SUFFICES ASSUME NEW l \in 1 .. Len(ip) PROVE Len(ip[l]) > 0
      OBVIOUS
    <3>1. Len(ip[l]) = 2 + Len(c.items[l].text) /\ Len(c.items[l].text) \in Nat
      BY <1>2
    <3> QED
      BY <3>1
  <2> QED
    BY <1>2, <1>4, <2>1, StartsGrow
<1>5. \A j \in 1 .. Len(c.items) + 1 : ItemStart(c, j) = 4 + Start(ip, j)
  BY DEF ItemStart, ip
<1>6. ASSUME NEW j \in 1 .. Len(c.items) + 1 PROVE ItemStart(c, j) \in Nat /\ ItemStart(c, j) >= 4
  <2>1. Start(ip, j) \in Nat
    BY <1>2, <1>3
  <2> QED
    BY <1>5, <2>1
<1>7. Len(c.items) \in Nat
  BY <1>1
<1>8. ItemStart(c, 1) = 4
  <2>1. 1 \in 1 .. Len(c.items) + 1
    BY <1>7
  <2>2. ItemStart(c, 1) = 4 + Start(ip, 1)
    BY <1>5, <2>1
  <2> QED
    BY <1>3, <2>2
<1>9. ASSUME NEW j \in 1 .. Len(c.items)
      PROVE  ItemStart(c, j + 1) = ItemStart(c, j) + 2 + Len(c.items[j].text)
  <2>1. j \in 1 .. Len(c.items) + 1 /\ j + 1 \in 1 .. Len(c.items) + 1 /\ j \in 1 .. Len(ip)
    BY <1>2, <1>7
  <2>2. ItemStart(c, j) = 4 + Start(ip, j) /\ ItemStart(c, j + 1) = 4 + Start(ip, j + 1)
    BY <1>5, <2>1
  <2>3. Start(ip, j + 1) = Start(ip, j) + Len(ip[j])
    BY <1>3, <2>1
  <2>4. Len(ip[j]) = 2 + Len(c.items[j].text) /\ Len(c.items[j].text) \in Nat
    BY <1>2
  <2>5. Start(ip, j) \in Nat
    BY <1>2, <1>3, <2>1
  <2> DEFINE l == Len(c.items[j].text)
  <2>6. Start(ip, j + 1) = Start(ip, j) + (2 + l) /\ l \in Nat
    BY <2>3, <2>4
  <2> HIDE DEF l
  <2>7. 4 + Start(ip, j + 1) = 4 + Start(ip, j) + 2 + l
    BY <2>5, <2>6
  <2> QED
    BY <2>2, <2>7 DEF l
<1>10. ASSUME NEW j \in 1 .. Len(c.items) + 1, NEW k \in 1 .. Len(c.items) + 1, j < k
       PROVE  ItemStart(c, j) < ItemStart(c, k)
  <2>1. Start(ip, j) < Start(ip, k) /\ Start(ip, j) \in Nat /\ Start(ip, k) \in Nat
    BY <1>2, <1>3, <1>4, <1>10
  <2> QED
    BY <1>5, <2>1
<1>11. ItemsEnd(c) = 4 + Len(FlattenSeq(ip))
  BY <1>2, <1>3 DEF ItemsEnd, ItemStart, ip
<1> QED
  BY <1>6, <1>8, <1>9, <1>10, <1>11 DEF ip

LEMMA ChunkBytesParts ==
  ASSUME NEW c \in Chunks
  PROVE  \E w \in Seq(Byte), f \in Seq(Byte), p \in Seq(Byte) :
           /\ ChunkBytes(c) = (w \o f) \o p
           /\ w = Word(c.ssrc) /\ c.ssrc \in Words32 /\ Len(w) = 4
           /\ f = FlattenSeq(ItemParts(c.items)) /\ 4 + Len(f) = ItemsEnd(c)
           /\ Len(p) = 4 - (ItemsEnd(c) % 4) /\ p[1] = 0
<1> DEFINE w == Word(c.ssrc)
           f == FlattenSeq(ItemParts(c.items))
           b == w \o f
           p == [k \in 1 .. 4 - (Len(b) % 4) |-> 0]
<1>1. c.ssrc \in Words32 /\ c.items \in Seq(Items)
  BY DEF Chunks
<1>2. w \in Seq(Byte) /\ Len(w) = 4
  BY <1>1, WordFacts
<1>3. f \in Seq(Byte)
  BY <1>1, ItemPartsFacts, FlattenType
<1>4. 4 + Len(f) = ItemsEnd(c)
  BY ItemStartFacts
<1>5. ChunkBytes(c) = b \o p
  BY DEF ChunkBytes
<1>6. w = Word(c.ssrc) /\ f = FlattenSeq(ItemParts(c.items))
  OBVIOUS
<1> HIDE DEF w, f
<1>7. Len(b) = ItemsEnd(c) /\ ItemsEnd(c) \in Nat
  <2>1. Len(b) = Len(w) + Len(f)
    BY <1>2, <1>3, ConcatFacts
  <2>2. Len(f) \in Nat
    BY <1>3
  <2> HIDE DEF b
  <2> QED
    BY <1>2, <1>4, <2>1, <2>2
<1>8. p \in Seq(Byte) /\ Len(p) = 4 - (ItemsEnd(c) % 4) /\ p[1] = 0
  <2> DEFINE m == 4 - (Len(b) % 4)
  <2>1. m \in 1 .. 4 /\ m = 4 - (ItemsEnd(c) % 4)
    BY <1>7
  <2>2. 0 \in Byte
    BY ByteAssumption DEF Byte
  <2>3. p = [k \in 1 .. m |-> 0]
    OBVIOUS
  <2> HIDE DEF m, p
  <2> QED
    BY <2>1, <2>2, <2>3
<1>9. ChunkBytes(c) = (w \o f) \o p
  BY <1>5
<1> HIDE DEF b, p
<1> w \in Seq(Byte) /\ f \in Seq(Byte) /\ p \in Seq(Byte)
  BY <1>2, <1>3, <1>8
<1> WITNESS w \in Seq(Byte), f \in Seq(Byte), p \in Seq(Byte)
<1> QED
  BY <1>1, <1>2, <1>4, <1>6, <1>8, <1>9

LEMMA ChunkType ==
  ASSUME NEW c \in Chunks
  PROVE  /\ ChunkBytes(c) \in Seq(Byte)
         /\ Len(ChunkBytes(c)) = ItemsEnd(c) + (4 - (ItemsEnd(c) % 4))
         /\ Len(ChunkBytes(c)) > 0 /\ Len(ChunkBytes(c)) % 4 = 0
         /\ ItemsEnd(c) \in Nat
<1>1. PICK w \in Seq(Byte), f \in Seq(Byte), p \in Seq(Byte) :
        /\ ChunkBytes(c) = (w \o f) \o p
        /\ Len(w) = 4 /\ 4 + Len(f) = ItemsEnd(c) /\ Len(p) = 4 - (ItemsEnd(c) % 4)
  BY ChunkBytesParts
<1> DEFINE x == w \o f
           e == ItemsEnd(c)
<1>2. x \in Seq(Byte) /\ Len(x) = Len(w) + Len(f)
  BY ConcatFacts
<1> HIDE DEF x
<1>3. x \o p \in Seq(Byte) /\ Len(x \o p) = Len(x) + Len(p)
  BY <1>2, ConcatFacts
<1>4. e \in Nat /\ Len(w) + Len(f) = e
  <2>1. Len(f) \in Nat
    OBVIOUS
  <2> QED
    BY <1>1, <2>1
<1>5. ChunkBytes(c) = x \o p /\ Len(p) = 4 - (e % 4)
  BY <1>1 DEF x
<1> HIDE DEF e
<1>6. Len(ChunkBytes(c)) = e + (4 - (e % 4))
  BY <1>2, <1>3, <1>4, <1>5
<1>7. e + (4 - (e % 4)) > 0 /\ (e + (4 - (e % 4))) % 4 = 0
  BY <1>4
<1> QED
  BY <1>3, <1>4, <1>5, <1>6, <1>7 DEF e

LEMMA ChunkStands ==
  ASSUME NEW c \in Chunks, NEW q, q.data \in Seq(Byte), NEW o \in Nat,
         Stands(q.data, o, ChunkBytes(c))
  PROVE  /\ LongAt(q, o) = c.ssrc
         /\ \A j \in 1 .. Len(c.items) :
              Stands(q.data, o + ItemStart(c, j), ItemBytes(c.items[j]))
         /\ ByteAt(q, o + ItemsEnd(c)) = 0
         /\ ItemsEnd(c) < Len(q.data)
<1>1. PICK w \in Seq(Byte), f \in Seq(Byte), p \in Seq(Byte) :
        /\ ChunkBytes(c) = (w \o f) \o p
        /\ w = Word(c.ssrc) /\ c.ssrc \in Words32 /\ Len(w) = 4
        /\ f = FlattenSeq(ItemParts(c.items)) /\ 4 + Len(f) = ItemsEnd(c)
        /\ Len(p) = 4 - (ItemsEnd(c) % 4) /\ p[1] = 0
  BY ChunkBytesParts
<1> DEFINE x == w \o f
           e == ItemsEnd(c)
           ip == ItemParts(c.items)
<1>2. x \in Seq(Byte) /\ Len(x) = e
  <2>1. x \in Seq(Byte) /\ Len(x) = Len(w) + Len(f)
    BY ConcatFacts
  <2> HIDE DEF x
  <2> QED
    BY <1>1, <2>1
<1>3. Stands(q.data, o, x \o p)
  BY <1>1
<1> HIDE DEF x
<1>4. Stands(q.data, o, x) /\ Stands(q.data, o + e, p) /\ o + e \in Nat
  BY <1>2, <1>3, StandsConcat
<1>5. Stands(q.data, o, w) /\ Stands(q.data, o + 4, f)
  <2>1. Stands(q.data, o, w) /\ Stands(q.data, o + Len(w), f)
    BY <1>4, StandsConcat DEF x
  <2> QED
    BY <1>1, <2>1
<1>6. LongAt(q, o) = c.ssrc
  BY <1>1, <1>5, LongStands
<1>7. c.items \in Seq(Items)
  BY DEF Chunks
<1>8. /\ ip \in Seq(Seq(Byte)) /\ Len(ip) = Len(c.items) /\ f = FlattenSeq(ip)
      /\ \A j \in 1 .. Len(c.items) : ip[j] = ItemBytes(c.items[j])
  BY <1>1, <1>7, ItemPartsFacts
<1>9. \A j \in 1 .. Len(c.items) : ItemStart(c, j) = 4 + Start(ip, j)
  BY DEF ItemStart
<1> HIDE DEF ip
<1>10. ASSUME NEW j \in 1 .. Len(c.items)
       PROVE  Stands(q.data, o + ItemStart(c, j), ItemBytes(c.items[j]))
  <2>1. Stands(q.data, (o + 4) + Start(ip, j), ip[j])
    <3>1. o + 4 \in Nat /\ j \in 1 .. Len(ip) /\ Stands(q.data, o + 4, FlattenSeq(ip))
      BY <1>5, <1>8
    <3> QED
      BY <1>8, <3>1, StandsParts
  <2>2. Start(ip, j) \in Nat
    <3>1. j \in 1 .. Len(ip) + 1
      BY <1>7, <1>8
    <3> QED
      BY <1>8, <3>1, StartFacts
  <2>3. (o + 4) + Start(ip, j) = o + ItemStart(c, j)
    BY <1>9, <2>2
  <2> QED
    BY <1>8, <2>1, <2>3
<1>11. Len(p) \in 1 .. 4
  <2>1. e \in Nat /\ Len(p) = 4 - (e % 4)
    BY <1>1, ChunkType
  <2> HIDE DEF e
  <2> QED
    BY <2>1
<1>12. ByteAt(q, o + e) = 0
  <2>1. 0 \in 0 .. Len(p) - 1 /\ o + e + 0 = o + e
    <3>1. \A m \in 1 .. 4 : 0 \in 0 .. m - 1
      OBVIOUS
    <3>2. \A m \in Nat : m + 0 = m
      OBVIOUS
    <3> QED
      BY <1>4, <1>11, <3>1, <3>2
  <2>2. ByteAt(q, o + e + 0) = p[0 + 1]
    BY <1>4, <2>1, ByteStands
  <2> QED
    BY <1>1, <2>1, <2>2
<1>13. e < Len(q.data)
  <2>1. o + e + Len(p) <= Len(q.data)
    BY <1>4 DEF Stands
  <2>2. e \in Nat /\ Len(q.data) \in Nat
    BY ChunkType
  <2>3. \A m \in 1 .. 4, d \in Nat, n \in Nat : o + n + m <= d => n < d
    OBVIOUS
  <2> HIDE DEF e
  <2> QED
    BY <1>11, <2>1, <2>2, <2>3
<1> QED
  BY <1>6, <1>10, <1>12, <1>13

(* There are no more items than bytes.                                      *)
LEMMA ItemsAreFew ==
  ASSUME NEW c \in Chunks
  PROVE  Len(c.items) <= ItemsEnd(c)
<1> DEFINE T == {n \in Nat : n <= Len(c.items) => n <= ItemStart(c, n + 1)}
<1>1. Len(c.items) \in Nat
  BY DEF Chunks
<1>2. 0 \in T
  BY ItemStartFacts
<1>3. ASSUME NEW n \in Nat, n \in T PROVE n + 1 \in T
  <2> SUFFICES ASSUME n + 1 <= Len(c.items) PROVE n + 1 <= ItemStart(c, (n + 1) + 1)
    OBVIOUS
  <2>1. n <= ItemStart(c, n + 1)
    BY <1>1, <1>3
  <2>2. n + 1 \in 1 .. Len(c.items) + 1 /\ (n + 1) + 1 \in 1 .. Len(c.items) + 1
    BY <1>1
  <2>3. ItemStart(c, n + 1) < ItemStart(c, (n + 1) + 1)
    BY <2>2, ItemStartFacts
  <2>4. ItemStart(c, n + 1) \in Nat /\ ItemStart(c, (n + 1) + 1) \in Nat
    BY <2>2, ItemStartFacts
  <2> QED
    BY <2>1, <2>3, <2>4
<1>4. \A n \in Nat : n \in T
  <2> HIDE DEF T
  <2> QED
    BY <1>2, <1>3, SetInduction
<1> QED
  BY <1>1, <1>4 DEF ItemsEnd

-----------------------------------------------------------------------------
(* The chunks of an SDES packet, from offset 4 on.                          *)
ChunkStart(cs, c) == 4 + Start(ChunkParts(cs), c)

LEMMA ChunkPartsFacts ==
  ASSUME NEW cs \in Seq(Chunks)
  PROVE  /\ ChunkParts(cs) \in Seq(Seq(Byte))
         /\ Len(ChunkParts(cs)) = Len(cs)
         /\ \A c \in 1 .. Len(cs) :
              /\ ChunkParts(cs)[c] = ChunkBytes(cs[c])
              /\ Len(ChunkParts(cs)[c]) \in Nat
              /\ Len(ChunkParts(cs)[c]) > 0
              /\ Len(ChunkParts(cs)[c]) % 4 = 0
<1>1. \A c \in 1 .. Len(cs) : cs[c] \in Chunks
  OBVIOUS
<1>2. \A c \in 1 .. Len(cs) :
        /\ ChunkBytes(cs[c]) \in Seq(Byte)
        /\ Len(ChunkBytes(cs[c])) > 0 /\ Len(ChunkBytes(cs[c])) % 4 = 0
  BY <1>1, ChunkType
<1>3. DOMAIN cs = 1 .. Len(cs) /\ Len(cs) \in Nat
  OBVIOUS
<1>4. ChunkParts(cs) = [c \in 1 .. Len(cs) |-> ChunkBytes(cs[c])]
  BY <1>3 DEF ChunkParts
<1>5. ChunkParts(cs) \in Seq(Seq(Byte)) /\ Len(ChunkParts(cs)) = Len(cs)
  BY <1>2, <1>3, <1>4
<1>6. \A c \in 1 .. Len(cs) : ChunkParts(cs)[c] = ChunkBytes(cs[c])
  BY <1>4
<1>7. \A c \in 1 .. Len(cs) : Len(ChunkBytes(cs[c])) \in Nat
  BY <1>2
<1> QED
  BY <1>2, <1>5, <1>6, <1>7

LEMMA ChunkStartFacts ==
  ASSUME NEW cs \in Seq(Chunks)
  PROVE  /\ \A c \in 1 .. Len(cs) + 1 :
              ChunkStart(cs, c) \in Nat \ {0} /\ ChunkStart(cs, c) % 4 = 0
         /\ ChunkStart(cs, 1) = 4
         /\ \A c \in 1 .. Len(cs) :
              ChunkStart(cs, c + 1) = ChunkStart(cs, c) + Len(ChunkBytes(cs[c]))
         /\ \A b \in 1 .. Len(cs) + 1, c \in 1 .. Len(cs) + 1 :
              b < c => ChunkStart(cs, b) < ChunkStart(cs, c)
<1> DEFINE cp == ChunkParts(cs)
           T == {n \in Nat : n <= Len(cs) => ChunkStart(cs, n + 1) % 4 = 0}
<1>1. /\ cp \in Seq(Seq(Byte)) /\ Len(cp) = Len(cs)
      /\ \A c \in 1 .. Len(cs) :
              /\ cp[c] = ChunkBytes(cs[c]) /\ Len(cp[c]) \in Nat
              /\ Len(cp[c]) > 0 /\ Len(cp[c]) % 4 = 0
  BY ChunkPartsFacts
<1>2. \A c \in 1 .. Len(cs) + 1 : ChunkStart(cs, c) = 4 + Start(cp, c)
  BY DEF ChunkStart
<1>3. Len(cs) \in Nat
  OBVIOUS
<1> HIDE DEF cp
<1>4. /\ \A c \in 1 .. Len(cp) + 1 : Start(cp, c) \in Nat
      /\ Start(cp, 1) = 0
      /\ \A c \in 1 .. Len(cp) : Start(cp, c + 1) = Start(cp, c) + Len(cp[c])
  BY <1>1, StartFacts
<1>5. ASSUME NEW c \in 1 .. Len(cs) + 1 PROVE ChunkStart(cs, c) \in Nat \ {0}
  <2>1. Start(cp, c) \in Nat
    BY <1>1, <1>4
  <2> QED
    BY <1>2, <2>1
<1>6. ChunkStart(cs, 1) = 4
  <2>1. 1 \in 1 .. Len(cs) + 1
    BY <1>3
  <2>2. ChunkStart(cs, 1) = 4 + Start(cp, 1)
    BY <1>2, <2>1
  <2> QED
    BY <1>4, <2>2
<1>7. ASSUME NEW c \in 1 .. Len(cs)
      PROVE  /\ ChunkStart(cs, c + 1) = ChunkStart(cs, c) + Len(cp[c])
             /\ Len(cp[c]) = Len(ChunkBytes(cs[c]))
             /\ Len(cp[c]) \in Nat /\ Len(cp[c]) % 4 = 0
  <2>1. c \in 1 .. Len(cs) + 1 /\ c + 1 \in 1 .. Len(cs) + 1 /\ c \in 1 .. Len(cp)
    BY <1>1, <1>3
  <2>2. ChunkStart(cs, c) = 4 + Start(cp, c) /\ ChunkStart(cs, c + 1) = 4 + Start(cp, c + 1)
    BY <1>2, <2>1
  <2>3. Start(cp, c + 1) = Start(cp, c) + Len(cp[c]) /\ Start(cp, c) \in Nat
    BY <1>1, <1>4, <2>1
  <2>4. Len(cp[c]) \in Nat /\ Len(cp[c]) % 4 = 0 /\ cp[c] = ChunkBytes(cs[c])
    BY <1>1
  <2>5. 4 + (Start(cp, c) + Len(cp[c])) = (4 + Start(cp, c)) + Len(cp[c])
    BY <2>3, <2>4
  <2> QED
    BY <2>2, <2>3, <2>4, <2>5
<1>8. 0 \in T
  BY <1>6
<1>9. ASSUME NEW n \in Nat, n \in T PROVE n + 1 \in T
  <2> SUFFICES ASSUME n + 1 <= Len(cs) PROVE ChunkStart(cs, (n + 1) + 1) % 4 = 0
    OBVIOUS
  <2>1. ChunkStart(cs, n + 1) % 4 = 0
    BY <1>3, <1>9
  <2>2. n + 1 \in 1 .. Len(cs) /\ n + 1 \in 1 .. Len(cs) + 1
    BY <1>3
  <2>3. PICK l \in Nat : ChunkStart(cs, (n + 1) + 1) = ChunkStart(cs, n + 1) + l /\ l % 4 = 0
    BY <1>7, <2>2
  <2>4. PICK s \in Nat : ChunkStart(cs, n + 1) = s /\ s % 4 = 0
    BY <1>5, <2>1, <2>2
  <2>5. (s + l) % 4 = 0
    BY <2>3, <2>4
  <2> QED
    BY <2>3, <2>4, <2>5
<1>10. \A n \in Nat : n \in T
  <2> HIDE DEF T
  <2> QED
    BY <1>8, <1>9, SetInduction
<1>11. ASSUME NEW c \in 1 .. Len(cs) + 1 PROVE ChunkStart(cs, c) % 4 = 0
  <2>1. c - 1 \in Nat /\ c - 1 <= Len(cs) /\ (c - 1) + 1 = c
    BY <1>3
  <2>2. c - 1 \in T
    BY <1>10, <2>1
  <2> QED
    BY <2>1, <2>2
<1>12. ASSUME NEW b \in 1 .. Len(cs) + 1, NEW c \in 1 .. Len(cs) + 1, b < c
       PROVE  ChunkStart(cs, b) < ChunkStart(cs, c)
  <2>1. Start(cp, b) < Start(cp, c)
    BY <1>1, <1>12, StartsGrow
  <2>2. Start(cp, b) \in Nat /\ Start(cp, c) \in Nat
    BY <1>1, <1>4
  <2> QED
    BY <1>2, <2>1, <2>2
<1> QED
  BY <1>5, <1>6, <1>7, <1>11, <1>12

-----------------------------------------------------------------------------
(* The packets that can be received, and where their parts stand.           *)
IsPacket(q) ==
  /\ q.sent \in Sendable /\ q.knownformat \in BOOLEAN
  /\ q = Packet(q.sent, q.knownformat)

LEMMA HeaderFacts ==
  ASSUME NEW n \in Byte
  PROVE  /\ Header(n) \in Seq(Byte) /\ Len(Header(n)) = 4
         /\ Header(n)[1] = n
<1>1. 0 \in Byte
  BY ByteAssumption DEF Byte
<1> QED
  BY <1>1 DEF Header

LEMMA StandsAll ==
  ASSUME NEW S, NEW x \in Seq(S)
  PROVE  Stands(x, 0, x)
<1>1. \A b \in 1 .. Len(x) : 0 + b = b
  OBVIOUS
<1>2. 0 + Len(x) = Len(x)
  OBVIOUS
<1> QED
  BY <1>1, <1>2 DEF Stands

(* A header and what follows it.                                            *)
LEMMA HeaderStands ==
  ASSUME NEW n \in Byte, NEW x \in Seq(Byte), NEW q, q.data = Header(n) \o x
  PROVE  /\ q.data \in Seq(Byte) /\ Len(q.data) = 4 + Len(x)
         /\ Stands(q.data, 4, x)
         /\ ByteAt(q, 0) = n
<1> DEFINE h == Header(n)
<1>1. h \in Seq(Byte) /\ Len(h) = 4 /\ h[1] = n
  BY HeaderFacts
<1>2. q.data = h \o x
  OBVIOUS
<1> HIDE DEF h
<1>3. q.data \in Seq(Byte) /\ Len(q.data) = 4 + Len(x)
  BY <1>1, <1>2, ConcatFacts
<1>4. Stands(q.data, 0, h \o x)
  BY <1>2, <1>3, StandsAll
<1>5. Stands(q.data, 0, h) /\ Stands(q.data, 0 + 4, x)
  <2>1. Stands(q.data, 0, h) /\ Stands(q.data, 0 + Len(h), x)
    BY <1>1, <1>3, <1>4, StandsConcat
  <2> QED
    BY <1>1, <2>1
<1>6. ByteAt(q, 0) = n
  <2> 0 \in Nat /\ 0 \in 0 .. Len(h) - 1
    BY <1>1
  <2>1. ByteAt(q, 0 + 0) = h[0 + 1]
    BY <1>1, <1>3, <1>5, ByteStands
  <2> QED
    BY <1>1, <2>1
<1> QED
  BY <1>3, <1>5, <1>6

LEMMA PacketFields ==
  ASSUME NEW q, IsPacket(q)
  PROVE  /\ q.data = PacketBytes(q.sent)
         /\ q.datalen = Len(q.data)
         /\ q.sent.type = "SDES" =>
              /\ q.chunkstarts = Starts(CommonHeaderSize, ChunkParts(q.sent.chunks))
              /\ q.itemstarts = [c \in DOMAIN q.sent.chunks |->
                                   Starts(WordSize, ItemParts(q.sent.chunks[c].items))]
<1> DEFINE s == q.sent
           k == q.knownformat
<1>1. q = Packet(s, k)
  BY DEF IsPacket
<1> HIDE DEF s, k
<1>2. q.data = PacketBytes(s) /\ q.datalen = Len(PacketBytes(s))
  BY <1>1 DEF Packet
<1>3. s.type = "SDES" =>
        /\ q.chunkstarts = Starts(CommonHeaderSize, ChunkParts(s.chunks))
        /\ q.itemstarts = [c \in DOMAIN s.chunks |-> Starts(WordSize, ItemParts(s.chunks[c].items))]
  BY <1>1 DEF Packet
<1> QED
  BY <1>2, <1>3 DEF s

LEMMA ConcatAssociates ==
  ASSUME NEW S, NEW x \in Seq(S), NEW y \in Seq(S), NEW z \in Seq(S)
  PROVE  (x \o y) \o z = x \o (y \o z)
OBVIOUS

LEMMA WordBefore ==
  ASSUME NEW S, NEW x \in S, NEW y \in Seq(S)
  PROVE  /\ <<x>> \o y \in Seq(S) /\ Len(<<x>> \o y) = 1 + Len(y)
         /\ (<<x>> \o y)[1] = x
         /\ \A k \in 1 .. Len(y) : (<<x>> \o y)[k + 1] = y[k]
<1>1. <<x>> \in Seq(S) /\ Len(<<x>>) = 1 /\ <<x>>[1] = x
  OBVIOUS
<1> DEFINE a == <<x>>
<1>2. Len(a) = 1 /\ a[1] = x
  BY <1>1
<1> a \in Seq(S)
  BY <1>1
<1> HIDE DEF a
<1>3. a \o y \in Seq(S) /\ Len(a \o y) = Len(a) + Len(y)
  BY ConcatFacts
<1>4. /\ \A k \in 1 .. Len(a) : (a \o y)[k] = a[k]
      /\ \A k \in 1 .. Len(y) : (a \o y)[Len(a) + k] = y[k]
  OBVIOUS
<1>5. (a \o y)[1] = x
  BY <1>2, <1>4
<1>6. \A k \in 1 .. Len(y) : k + 1 = 1 + k
  OBVIOUS
<1> QED
  BY <1>2, <1>3, <1>4, <1>5, <1>6 DEF a

LEMMA FiveWords ==
  ASSUME NEW S, NEW f \in [1 .. 5 -> S]
  PROVE  f \in Seq(S) /\ Len(f) = 5
<1> DEFINE g == [k \in 1 .. 5 |-> f[k]]
<1>1. f = g
  OBVIOUS
<1>2. \A k \in 1 .. 5 : f[k] \in S
  OBVIOUS
<1>3. g \in Seq(S) /\ Len(g) = 5
  BY <1>2
<1> QED
  BY <1>1, <1>3

LEMMA CountedFacts ==
  ASSUME NEW S, NEW x \in Counted(S)
  PROVE  x \in Seq(S) /\ Len(x) \in Byte
BY ByteAssumption DEF Counted, Byte

(* The reports of a sender's report and of a receiver's report.             *)
LEMMA SRPacket ==
  ASSUME NEW q, IsPacket(q), q.sent.type = "SR"
  PROVE  /\ q.data \in Seq(Byte) /\ ByteAt(q, 0) = Len(q.sent.reports)
         /\ LongAt(q, 4) = q.sent.ssrc
         /\ [k \in 1 .. 5 |-> LongAt(q, 8 + (k - 1) * 4)] = q.sent.info
         /\ \A k \in 1 .. Len(q.sent.reports) : ReportAt(q, 28 + 24 * (k - 1)) = q.sent.reports[k]
<1> DEFINE s == q.sent
           rs == s.reports
           ns == <<s.ssrc>> \o s.info
           w == Words(ns)
           f == FlattenSeq(ReportParts(rs))
<1>1. s \in [type : {"SR"}, ssrc : Words32, info : [1 .. 5 -> Words32], reports : Counted(Reports)]
  BY DEF IsPacket, Sendable
<1>2. rs \in Seq(Reports) /\ Len(rs) \in Byte
  BY <1>1, CountedFacts
<1>3. ns \in Seq(Words32) /\ Len(ns) = 6 /\ ns[1] = s.ssrc /\ \A k \in 1 .. 5 : ns[k + 1] = s.info[k]
  <2>1. s.ssrc \in Words32 /\ s.info \in Seq(Words32) /\ Len(s.info) = 5
    BY <1>1, FiveWords
  <2> DEFINE x == s.ssrc
             y == s.info
  <2>2. ns = <<x>> \o y /\ x \in Words32 /\ y \in Seq(Words32) /\ Len(y) = 5
    BY <2>1
  <2>3. x = s.ssrc /\ y = s.info
    OBVIOUS
  <2> HIDE DEF s, ns, x, y
  <2>4. /\ <<x>> \o y \in Seq(Words32) /\ Len(<<x>> \o y) = 1 + Len(y)
        /\ (<<x>> \o y)[1] = x
        /\ \A k \in 1 .. Len(y) : (<<x>> \o y)[k + 1] = y[k]
    BY <2>2, WordBefore
  <2> QED
    BY <2>2, <2>3, <2>4
<1>4. q.data = (Header(Len(rs)) \o w) \o f
  BY PacketFields DEF PacketBytes
<1>5. s.info = [k \in 1 .. 5 |-> s.info[k]]
  BY <1>1
<1> HIDE DEF ns
<1>6. w \in Seq(Byte) /\ Len(w) = 24
  <2>1. Words(ns) \in Seq(Byte) /\ Len(Words(ns)) = 4 * Len(ns)
    BY <1>3, WordsType
  <2> QED
    BY <1>3, <2>1
<1>7. f \in Seq(Byte)
  BY <1>2, ReportPartsFacts, FlattenType
<1>8. f = FlattenSeq(ReportParts(rs)) /\ w = Words(ns)
  OBVIOUS
<1> HIDE DEF w, f, rs
<1>9. q.data = Header(Len(rs)) \o (w \o f)
  <2>1. Header(Len(rs)) \in Seq(Byte)
    BY <1>2, HeaderFacts
  <2>2. (Header(Len(rs)) \o w) \o f = Header(Len(rs)) \o (w \o f)
    BY <1>6, <1>7, <2>1, ConcatAssociates
  <2> HIDE DEF s
  <2> QED
    BY <1>4, <2>2
<1>10. w \o f \in Seq(Byte)
  BY <1>6, <1>7, ConcatFacts
<1>11. q.data \in Seq(Byte) /\ Stands(q.data, 4, w \o f) /\ ByteAt(q, 0) = Len(rs)
  BY <1>2, <1>9, <1>10, HeaderStands
<1>12. Stands(q.data, 4, w) /\ Stands(q.data, 28, f)
  <2>1. Stands(q.data, 4, w) /\ Stands(q.data, 4 + Len(w), f)
    BY <1>6, <1>7, <1>11, StandsConcat
  <2> QED
    BY <1>6, <2>1
<1>13. ASSUME NEW k \in 1 .. 6 PROVE LongAt(q, 4 + 4 * (k - 1)) = ns[k]
  <2>1. k \in 1 .. Len(ns) /\ Stands(q.data, 4, Words(ns)) /\ 4 \in Nat
    BY <1>3, <1>8, <1>12
  <2> QED
    BY <1>3, <1>11, <2>1, WordsStand
<1>14. LongAt(q, 4) = s.ssrc
  <2>1. LongAt(q, 4 + 4 * (1 - 1)) = ns[1]
    BY <1>13
  <2> QED
    BY <1>3, <2>1
<1>15. ASSUME NEW k \in 1 .. 5 PROVE LongAt(q, 8 + (k - 1) * 4) = s.info[k]
  <2>1. LongAt(q, 4 + 4 * ((k + 1) - 1)) = ns[k + 1]
    BY <1>13
  <2>2. 4 + 4 * ((k + 1) - 1) = 8 + (k - 1) * 4
    OBVIOUS
  <2> QED
    BY <1>3, <2>1, <2>2
<1>16. [k \in 1 .. 5 |-> LongAt(q, 8 + (k - 1) * 4)] = s.info
  <2> HIDE DEF s
  <2> QED
    BY <1>5, <1>15
<1>17. \A k \in 1 .. Len(rs) : ReportAt(q, 28 + 24 * (k - 1)) = rs[k]
  BY <1>2, <1>8, <1>11, <1>12, ReportsStand
<1> QED
  BY <1>11, <1>14, <1>16, <1>17 DEF rs

LEMMA RRPacket ==
  ASSUME NEW q, IsPacket(q), q.sent.type = "RR"
  PROVE  /\ q.data \in Seq(Byte) /\ ByteAt(q, 0) = Len(q.sent.reports)
         /\ LongAt(q, 4) = q.sent.ssrc
         /\ \A k \in 1 .. Len(q.sent.reports) : ReportAt(q, 8 + 24 * (k - 1)) = q.sent.reports[k]
<1> DEFINE s == q.sent
           rs == s.reports
           ns == <<s.ssrc>>
           w == Words(ns)
           f == FlattenSeq(ReportParts(rs))
<1>1. s \in [type : {"RR"}, ssrc : Words32, reports : Counted(Reports)]
  BY DEF IsPacket, Sendable
<1>2. rs \in Seq(Reports) /\ Len(rs) \in Byte
  BY <1>1, CountedFacts
<1>3. ns \in Seq(Words32) /\ Len(ns) = 1 /\ ns[1] = s.ssrc
  BY <1>1
<1>4. q.data = (Header(Len(rs)) \o w) \o f
  BY PacketFields DEF PacketBytes
<1> HIDE DEF ns
<1>6. w \in Seq(Byte) /\ Len(w) = 4
  <2>1. Words(ns) \in Seq(Byte) /\ Len(Words(ns)) = 4 * Len(ns)
    BY <1>3, WordsType
  <2> QED
    BY <1>3, <2>1
<1>7. f \in Seq(Byte)
  BY <1>2, ReportPartsFacts, FlattenType
<1>8. f = FlattenSeq(ReportParts(rs)) /\ w = Words(ns)
  OBVIOUS
<1> HIDE DEF w, f, rs
<1>9. q.data = Header(Len(rs)) \o (w \o f)
  <2>1. Header(Len(rs)) \in Seq(Byte)
    BY <1>2, HeaderFacts
  <2> QED
    BY <1>4, <1>6, <1>7, <2>1, ConcatAssociates DEF rs
<1>10. w \o f \in Seq(Byte)
  BY <1>6, <1>7, ConcatFacts
<1>11. q.data \in Seq(Byte) /\ Stands(q.data, 4, w \o f) /\ ByteAt(q, 0) = Len(rs)
  BY <1>2, <1>9, <1>10, HeaderStands
<1>12. Stands(q.data, 4, w) /\ Stands(q.data, 8, f)
  <2>1. Stands(q.data, 4, w) /\ Stands(q.data, 4 + Len(w), f)
    BY <1>6, <1>7, <1>11, StandsConcat
  <2> QED
    BY <1>6, <2>1
<1>14. LongAt(q, 4) = s.ssrc
  <2> 1 \in 1 .. Len(ns) /\ Stands(q.data, 4, Words(ns)) /\ 4 \in Nat
    BY <1>3, <1>8, <1>12
  <2>1. LongAt(q, 4 + 4 * (1 - 1)) = ns[1]
    BY <1>3, <1>11, WordsStand
  <2> QED
    BY <1>3, <2>1
<1>17. \A k \in 1 .. Len(rs) : ReportAt(q, 8 + 24 * (k - 1)) = rs[k]
  BY <1>2, <1>8, <1>11, <1>12, ReportsStand
<1> QED
  BY <1>11, <1>14, <1>17 DEF rs

LEMMA BYEPacket ==
  ASSUME NEW q, IsPacket(q), q.sent.type = "BYE"
  PROVE  /\ q.data \in Seq(Byte) /\ ByteAt(q, 0) = Len(q.sent.ssrcs)
         /\ q.sent.ssrcs \in Seq(Words32) /\ q.sent.reason \in Reasons
         /\ \A k \in 1 .. Len(q.sent.ssrcs) : LongAt(q, 4 + 4 * (k - 1)) = q.sent.ssrcs[k]
         /\ Stands(q.data, 4 + 4 * Len(q.sent.ssrcs), q.sent.reason)
         /\ q.datalen = 4 + 4 * Len(q.sent.ssrcs) + Len(q.sent.reason)
<1> DEFINE s == q.sent
           ns == s.ssrcs
           r == s.reason
           w == Words(ns)
<1>1. s \in [type : {"BYE"}, ssrcs : Counted(Words32), reason : Reasons]
  BY DEF IsPacket, Sendable
<1>2. ns \in Seq(Words32) /\ Len(ns) \in Byte
  BY <1>1, CountedFacts
<1>3. r \in Reasons /\ r \in Seq(Byte)
  BY <1>1 DEF Reasons
<1>4. q.data = (Header(Len(ns)) \o w) \o r /\ q.datalen = Len(q.data)
  BY PacketFields DEF PacketBytes
<1> HIDE DEF ns, r
<1>5. w \in Seq(Byte) /\ Len(w) = 4 * Len(ns) /\ w = Words(ns)
  BY <1>2, WordsType
<1> HIDE DEF w
<1>6. q.data = Header(Len(ns)) \o (w \o r)
  <2>1. Header(Len(ns)) \in Seq(Byte)
    BY <1>2, HeaderFacts
  <2>2. (Header(Len(ns)) \o w) \o r = Header(Len(ns)) \o (w \o r)
    BY <1>3, <1>5, <2>1, ConcatAssociates
  <2> HIDE DEF s
  <2> QED
    BY <1>4, <2>2
<1>7. w \o r \in Seq(Byte) /\ Len(w \o r) = Len(w) + Len(r)
  BY <1>3, <1>5, ConcatFacts
<1>8. /\ q.data \in Seq(Byte) /\ Len(q.data) = 4 + Len(w \o r)
      /\ Stands(q.data, 4, w \o r) /\ ByteAt(q, 0) = Len(ns)
  <2> DEFINE x == w \o r
             n == Len(ns)
  <2>1. n \in Byte /\ x \in Seq(Byte) /\ q.data = Header(n) \o x
    BY <1>2, <1>6, <1>7
  <2> HIDE DEF x, n
  <2>2. /\ q.data \in Seq(Byte) /\ Len(q.data) = 4 + Len(x)
        /\ Stands(q.data, 4, x) /\ ByteAt(q, 0) = n
    BY <2>1, HeaderStands
  <2> QED
    BY <2>2 DEF x, n
<1>9. Stands(q.data, 4, w) /\ Stands(q.data, 4 + 4 * Len(ns), r)
  <2>1. Stands(q.data, 4, w) /\ Stands(q.data, 4 + Len(w), r)
    BY <1>3, <1>5, <1>8, StandsConcat
  <2> QED
    BY <1>5, <2>1
<1>10. ASSUME NEW k \in 1 .. Len(ns) PROVE LongAt(q, 4 + 4 * (k - 1)) = ns[k]
  <2>1. Stands(q.data, 4, Words(ns)) /\ 4 \in Nat
    BY <1>5, <1>9
  <2> QED
    BY <1>2, <1>8, <2>1, WordsStand
<1>11. q.datalen = 4 + 4 * Len(ns) + Len(r)
  <2>1. Len(ns) \in Nat /\ Len(r) \in Nat
    BY <1>2, <1>3
  <2>2. q.datalen = 4 + (4 * Len(ns) + Len(r))
    BY <1>4, <1>5, <1>7, <1>8
  <2> QED
    BY <2>1, <2>2
<1> QED
  BY <1>2, <1>3, <1>8, <1>9, <1>10, <1>11 DEF ns, r

LEMMA APPPacket ==
  ASSUME NEW q, IsPacket(q), q.sent.type = "APP"
  PROVE  /\ q.data \in Seq(Byte) /\ ByteAt(q, 0) = q.sent.subtype
         /\ q.sent.appdata \in Seq(Byte)
         /\ LongAt(q, 4) = q.sent.ssrc
         /\ SubSeq(q.data, 8 + 1, 8 + 4) = Word(q.sent.name)
         /\ Stands(q.data, 12, q.sent.appdata)
         /\ q.datalen = 12 + Len(q.sent.appdata)
<1> DEFINE s == q.sent
           ns == <<s.ssrc, s.name>>
           r == s.appdata
           w == Words(ns)
<1>1. /\ s.subtype \in Byte /\ s.ssrc \in Words32 /\ s.name \in Words32
      /\ s.appdata \in Seq(Byte)
  BY DEF IsPacket, Sendable
<1>2. ns \in Seq(Words32) /\ Len(ns) = 2 /\ ns[1] = s.ssrc /\ ns[2] = s.name
  BY <1>1
<1>3. r \in Seq(Byte)
  BY <1>1
<1>4. q.data = (Header(s.subtype) \o w) \o r /\ q.datalen = Len(q.data)
  BY PacketFields DEF PacketBytes
<1> HIDE DEF ns, r, s
<1>5. w \in Seq(Byte) /\ Len(w) = 8 /\ w = Words(ns)
  <2>1. Words(ns) \in Seq(Byte) /\ Len(Words(ns)) = 4 * Len(ns)
    BY <1>2, WordsType
  <2> QED
    BY <1>2, <2>1
<1> HIDE DEF w
<1>6. q.data = Header(s.subtype) \o (w \o r)
  <2>1. Header(s.subtype) \in Seq(Byte)
    BY <1>1, HeaderFacts
  <2> QED
    BY <1>3, <1>4, <1>5, <2>1, ConcatAssociates
<1>7. w \o r \in Seq(Byte) /\ Len(w \o r) = Len(w) + Len(r)
  BY <1>3, <1>5, ConcatFacts
<1>8. /\ q.data \in Seq(Byte) /\ Len(q.data) = 4 + Len(w \o r)
      /\ Stands(q.data, 4, w \o r) /\ ByteAt(q, 0) = s.subtype
  BY <1>1, <1>6, <1>7, HeaderStands
<1>9. Stands(q.data, 4, Words(ns)) /\ Stands(q.data, 12, r) /\ 4 \in Nat
  <2>1. Stands(q.data, 4, w) /\ Stands(q.data, 4 + Len(w), r)
    BY <1>3, <1>5, <1>8, StandsConcat
  <2> QED
    BY <1>5, <2>1
<1>10. LongAt(q, 4) = s.ssrc
  <2> 1 \in 1 .. Len(ns)
    BY <1>2
  <2>1. LongAt(q, 4 + 4 * (1 - 1)) = ns[1]
    BY <1>2, <1>8, <1>9, WordsStand
  <2> QED
    BY <1>2, <2>1
<1>11. SubSeq(q.data, 8 + 1, 8 + 4) = Word(s.name)
  <2>1. PICK ws \in Seq(Seq(Byte)) :
          /\ Words(ns) = FlattenSeq(ws) /\ Len(ws) = Len(ns)
          /\ \A k \in 1 .. Len(ns) : ws[k] = Word(ns[k])
          /\ \A k \in 1 .. Len(ns) + 1 : Start(ws, k) = 4 * (k - 1)
    BY <1>2, WordPartsFacts
  <2>2. 2 \in 1 .. Len(ns) /\ 2 \in 1 .. Len(ns) + 1 /\ 2 \in 1 .. Len(ws)
    BY <1>2, <2>1
  <2>3. Stands(q.data, 4 + Start(ws, 2), ws[2])
    <3>1. Stands(q.data, 4, FlattenSeq(ws))
      BY <1>9, <2>1
    <3> QED
      BY <1>8, <1>9, <2>2, <3>1, StandsParts
  <2>4. ws[2] = Word(s.name) /\ Start(ws, 2) = 4
    BY <1>2, <2>1, <2>2
  <2>5. Stands(q.data, 8, Word(s.name)) /\ 8 \in Nat
    BY <2>3, <2>4
  <2>6. Word(s.name) \in Seq(Byte) /\ Len(Word(s.name)) = 4
    BY <1>1, WordFacts
  <2>7. SubSeq(q.data, 8 + 1, 8 + Len(Word(s.name))) = Word(s.name)
    BY <1>8, <2>5, <2>6, StandsSlice
  <2> QED
    BY <2>6, <2>7
<1>12. q.datalen = 12 + Len(r)
  <2>1. Len(r) \in Nat
    BY <1>3
  <2> QED
    BY <1>4, <1>5, <1>7, <1>8, <2>1
<1> QED
  BY <1>3, <1>8, <1>9, <1>10, <1>11, <1>12 DEF r, s

(* An SDES packet: where its chunks stand, and what is remembered of it.    *)
SDESPacket(q) ==
  LET cs == q.sent.chunks IN
  /\ q.data \in Seq(Byte) /\ ByteAt(q, 0) = Len(cs) /\ q.datalen = Len(q.data)
  /\ cs \in Seq(Chunks)
  /\ \A c \in 1 .. Len(cs) : Stands(q.data, ChunkStart(cs, c), ChunkBytes(cs[c]))
  /\ q.chunkstarts = [c \in 1 .. Len(cs) + 1 |-> ChunkStart(cs, c)]
  /\ q.itemstarts = [c \in 1 .. Len(cs) |->
                       [j \in 1 .. Len(cs[c].items) + 1 |-> ItemStart(cs[c], j)]]

LEMMA StartsAre ==
  ASSUME NEW parts
  PROVE  Starts(4, parts) = [k \in 1 .. Len(parts) + 1 |-> 4 + Start(parts, k)]
BY DEF Starts, Start, First

LEMMA SDESPackets ==
  ASSUME NEW q, IsPacket(q), q.sent.type = "SDES"
  PROVE  SDESPacket(q)
<1> DEFINE s == q.sent
           cs == s.chunks
           cp == ChunkParts(cs)
           f == FlattenSeq(cp)
<1>1. s \in [type : {"SDES"}, chunks : Counted(Chunks)]
  BY DEF IsPacket, Sendable
<1>2. cs \in Seq(Chunks) /\ Len(cs) \in Byte
  BY <1>1, CountedFacts
<1>3. q.data = Header(Len(cs)) \o f /\ q.datalen = Len(q.data)
  BY PacketFields DEF PacketBytes
<1>4. /\ q.chunkstarts = Starts(4, cp)
      /\ q.itemstarts = [c \in DOMAIN cs |-> Starts(4, ItemParts(cs[c].items))]
  BY PacketFields DEF CommonHeaderSize, WordSize
<1>5. cs = q.sent.chunks
  OBVIOUS
<1> HIDE DEF cs
<1>6. /\ cp \in Seq(Seq(Byte)) /\ Len(cp) = Len(cs)
      /\ \A c \in 1 .. Len(cs) : cp[c] = ChunkBytes(cs[c])
  BY <1>2, ChunkPartsFacts
<1>7. \A c : ChunkStart(cs, c) = 4 + Start(cp, c)
  BY DEF ChunkStart
<1> HIDE DEF cp
<1>8. f \in Seq(Byte)
  BY <1>6, FlattenType
<1>9. q.data \in Seq(Byte) /\ Stands(q.data, 4, FlattenSeq(cp)) /\ ByteAt(q, 0) = Len(cs)
  BY <1>2, <1>3, <1>8, HeaderStands
<1>10. ASSUME NEW c \in 1 .. Len(cs)
       PROVE  Stands(q.data, ChunkStart(cs, c), ChunkBytes(cs[c]))
  <2>1. c \in 1 .. Len(cp) /\ 4 \in Nat
    BY <1>6
  <2>2. Stands(q.data, 4 + Start(cp, c), cp[c])
    BY <1>6, <1>9, <2>1, StandsParts
  <2> QED
    BY <1>6, <1>7, <2>2
<1>11. q.chunkstarts = [c \in 1 .. Len(cs) + 1 |-> ChunkStart(cs, c)]
  <2>1. q.chunkstarts = [c \in 1 .. Len(cp) + 1 |-> 4 + Start(cp, c)]
    BY <1>4, StartsAre
  <2> QED
    BY <1>6, <1>7, <2>1
<1>12. q.itemstarts = [c \in 1 .. Len(cs) |->
                        [j \in 1 .. Len(cs[c].items) + 1 |-> ItemStart(cs[c], j)]]
  <2>1. ASSUME NEW c \in 1 .. Len(cs)
        PROVE  Starts(4, ItemParts(cs[c].items))
                 = [j \in 1 .. Len(cs[c].items) + 1 |-> ItemStart(cs[c], j)]
    <3> DEFINE ip == ItemParts(cs[c].items)
    <3>1. cs[c].items \in Seq(Items)
      <4>1. cs[c] \in Chunks
        BY <1>2
      <4> QED
        BY <4>1 DEF Chunks
    <3>2. Len(ip) = Len(cs[c].items)
      BY <3>1, ItemPartsFacts
    <3>3. \A j : ItemStart(cs[c], j) = 4 + Start(ip, j)
      BY DEF ItemStart
    <3> HIDE DEF ip
    <3>4. Starts(4, ip) = [j \in 1 .. Len(ip) + 1 |-> 4 + Start(ip, j)]
      BY StartsAre
    <3>5. Starts(4, ip) = [j \in 1 .. Len(cs[c].items) + 1 |-> ItemStart(cs[c], j)]
      BY <3>2, <3>3, <3>4
    <3> QED
      BY <3>5 DEF ip
  <2>2. DOMAIN cs = 1 .. Len(cs)
    BY <1>2
  <2> QED
    BY <1>4, <2>1, <2>2
<1> QED
  BY <1>2, <1>3, <1>5, <1>9, <1>10, <1>11, <1>12 DEF SDESPacket

-----------------------------------------------------------------------------
(* What the calls read of the current chunk and item.                       *)
IsSDES(i) == rtcppacklist[i].sent.type = "SDES" /\ rtcppacklist[i].knownformat

Chunk(i, c) == rtcppacklist[i].sent.chunks[c]

(* The iterations of packet i are in chunk c, and there at item j, or at    *)
(* the zero behind the last.                                                *)
InChunk(i, c) ==
  /\ IsSDES(i)
  /\ c \in 1 .. Len(rtcppacklist[i].sent.chunks)
  /\ currentchunk[i] = ChunkStart(rtcppacklist[i].sent.chunks, c)
  /\ curchunknum[i] = c

At(i, c, j) ==
  /\ InChunk(i, c)
  /\ j \in 1 .. Len(Chunk(i, c).items) + 1
  /\ itemoffset[i] = ItemStart(Chunk(i, c), j)

LEMMA InChunkFacts ==
  ASSUME NEW i, IsPacket(rtcppacklist[i]), NEW c, InChunk(i, c)
  PROVE  /\ Iterating(i)
         /\ Chunk(i, c) \in Chunks
         /\ currentchunk[i] \in Nat
         /\ GetChunkSSRC(i) = Chunk(i, c).ssrc
         /\ Stands(rtcppacklist[i].data, currentchunk[i], ChunkBytes(Chunk(i, c)))
         /\ rtcppacklist[i].data \in Seq(Byte)
         /\ ItemsEnd(Chunk(i, c)) < rtcppacklist[i].datalen
         /\ HeaderCount(rtcppacklist[i]) = Len(rtcppacklist[i].sent.chunks)
<1> DEFINE q == rtcppacklist[i]
           cs == q.sent.chunks
           ch == cs[c]
           o == currentchunk[i]
<1>1. SDESPacket(q)
  BY SDESPackets DEF InChunk, IsSDES
<1>2. /\ q.data \in Seq(Byte) /\ ByteAt(q, 0) = Len(cs) /\ q.datalen = Len(q.data)
      /\ cs \in Seq(Chunks)
      /\ \A b \in 1 .. Len(cs) : Stands(q.data, ChunkStart(cs, b), ChunkBytes(cs[b]))
  BY <1>1 DEF SDESPacket
<1>3. c \in 1 .. Len(cs) /\ o = ChunkStart(cs, c) /\ q.knownformat
  BY DEF InChunk, IsSDES
<1>4. ch = Chunk(i, c) /\ cs = q.sent.chunks
  BY DEF Chunk
<1> HIDE DEF cs
<1>5. ch \in Chunks
  BY <1>2, <1>3
<1>6. o \in Nat /\ o # 0
  <2>1. c \in 1 .. Len(cs) + 1
    BY <1>2, <1>3
  <2>2. ChunkStart(cs, c) \in Nat \ {0}
    BY <1>2, <2>1, ChunkStartFacts
  <2> QED
    BY <1>3, <2>2
<1>7. Iterating(i)
  BY <1>3, <1>6 DEF Iterating, NullPointer
<1>8. Stands(q.data, o, ChunkBytes(ch))
  BY <1>2, <1>3
<1> HIDE DEF ch
<1>9. LongAt(q, o) = ch.ssrc /\ ItemsEnd(ch) < Len(q.data)
  BY <1>2, <1>5, <1>6, <1>8, ChunkStands
<1>10. GetChunkSSRC(i) = ch.ssrc
  BY <1>7, <1>9 DEF GetChunkSSRC
<1>11. HeaderCount(q) = Len(cs)
  BY <1>2, <1>3 DEF HeaderCount
<1> QED
  BY <1>2, <1>4, <1>5, <1>6, <1>7, <1>8, <1>9, <1>10, <1>11

LEMMA ItemRead ==
  ASSUME NEW i, IsPacket(rtcppacklist[i]), NEW c, InChunk(i, c),
         NEW j \in 1 .. Len(Chunk(i, c).items)
  PROVE  /\ Chunk(i, c).items[j] \in Items
         /\ SdesId(i, ItemStart(Chunk(i, c), j)) = Chunk(i, c).items[j].sdesid
         /\ SdesId(i, ItemStart(Chunk(i, c), j)) # 0
         /\ SdesLength(i, ItemStart(Chunk(i, c), j)) = Len(Chunk(i, c).items[j].text)
         /\ Stands(rtcppacklist[i].data, currentchunk[i] + ItemStart(Chunk(i, c), j) + 2,
                   Chunk(i, c).items[j].text)
         /\ After(i, ItemStart(Chunk(i, c), j)) = ItemStart(Chunk(i, c), j + 1)
<1> DEFINE q == rtcppacklist[i]
           ch == Chunk(i, c)
           it == ch.items[j]
           o == currentchunk[i]
           s == ItemStart(ch, j)
<1>1. ch \in Chunks /\ o \in Nat /\ q.data \in Seq(Byte) /\ Stands(q.data, o, ChunkBytes(ch))
  BY InChunkFacts
<1>2. it \in Items
  <2>1. ch.items \in Seq(Items)
    BY <1>1 DEF Chunks
  <2> QED
    BY <2>1
<1>3. s \in Nat /\ ItemStart(ch, j + 1) = s + 2 + Len(it.text)
  <2>1. j \in 1 .. Len(ch.items) + 1
    BY <1>1 DEF Chunks
  <2> QED
    BY <1>1, <2>1, ItemStartFacts
<1>4. j \in 1 .. Len(ch.items)
  OBVIOUS
<1>5. it = ch.items[j] /\ s = ItemStart(ch, j)
  OBVIOUS
<1> HIDE DEF ch
<1>6. Stands(q.data, o + s, ItemBytes(it))
  BY <1>1, <1>4, ChunkStands
<1> HIDE DEF it, s
<1>7. /\ ByteAt(q, o + s) = it.sdesid /\ ByteAt(q, (o + s) + 1) = Len(it.text)
      /\ Stands(q.data, (o + s) + 2, it.text)
  <2>1. o + s \in Nat
    BY <1>1, <1>3
  <2> QED
    BY <1>1, <1>2, <1>6, <2>1, ItemStands
<1>8. SdesId(i, s) = it.sdesid /\ SdesLength(i, s) = Len(it.text)
  BY <1>7 DEF SdesId, SdesLength
<1>9. it.sdesid # 0
  BY <1>2, ItemType
<1>10. After(i, s) = s + 2 + Len(it.text)
  BY <1>8 DEF After, SDESHeaderSize
<1> QED
  BY <1>2, <1>3, <1>5, <1>7, <1>8, <1>9, <1>10 DEF ch

LEMMA EndRead ==
  ASSUME NEW i, IsPacket(rtcppacklist[i]), NEW c, InChunk(i, c)
  PROVE  SdesId(i, ItemsEnd(Chunk(i, c))) = 0
<1> DEFINE ch == Chunk(i, c)
<1>1. /\ ch \in Chunks /\ currentchunk[i] \in Nat /\ rtcppacklist[i].data \in Seq(Byte)
      /\ Stands(rtcppacklist[i].data, currentchunk[i], ChunkBytes(ch))
  BY InChunkFacts
<1> HIDE DEF ch
<1>2. ByteAt(rtcppacklist[i], currentchunk[i] + ItemsEnd(ch)) = 0
  BY <1>1, ChunkStands
<1>3. SdesId(i, ItemsEnd(ch)) = 0
  BY <1>2 DEF SdesId
<1> QED
  BY <1>3 DEF ch

(* The loop over the items stops at the zero, and what follows the padding  *)
(* is the next chunk.                                                       *)
LEMMA NextChunkIsNext ==
  ASSUME NEW i, IsPacket(rtcppacklist[i]), NEW c, InChunk(i, c)
  PROVE  NextChunk(i) = ChunkStart(rtcppacklist[i].sent.chunks, c + 1)
<1> DEFINE q == rtcppacklist[i]
           cs == q.sent.chunks
           ch == Chunk(i, c)
           D == q.datalen
           L == Len(ch.items)
           e == ItemsEnd(ch)
           Pass(o) == IF SdesId(i, o) = 0 THEN o ELSE After(i, o)
           Def(g) == [n \in 0 .. D |-> IF n = 0 THEN 4 ELSE Pass(g[n - 1])]
           at == CHOOSE g : g = Def(g)
           start(n) == ItemStart(ch, IF n < L THEN n + 1 ELSE L + 1)
           passes == [n \in 0 .. D |-> start(n)]
<1>1. /\ ch \in Chunks /\ e < D /\ currentchunk[i] \in Nat
      /\ currentchunk[i] = ChunkStart(cs, c) /\ c \in 1 .. Len(cs)
  BY InChunkFacts DEF InChunk
<1>2. D \in Nat /\ cs \in Seq(Chunks) /\ ch = cs[c]
  <2>1. SDESPacket(q)
    BY SDESPackets DEF InChunk, IsSDES
  <2>2. q.data \in Seq(Byte) /\ D = Len(q.data) /\ cs \in Seq(Chunks)
    BY <2>1 DEF SDESPacket
  <2> QED
    BY <2>2 DEF Chunk
<1>3. L \in Nat /\ e = ItemStart(ch, L + 1) /\ L <= e /\ e \in Nat
  <2>1. L \in Nat
    BY <1>1 DEF Chunks
  <2>2. L <= e /\ e \in Nat
    BY <1>1, ItemsAreFew, ChunkType
  <2> QED
    BY <2>1, <2>2 DEF ItemsEnd
<1>5. ASSUME NEW j \in 1 .. L PROVE Pass(ItemStart(ch, j)) = ItemStart(ch, j + 1)
  BY ItemRead
<1>6. Pass(e) = e
  BY EndRead
<1>7. ItemStart(ch, 1) = 4
  BY <1>1, ItemStartFacts
<1>8. NextChunk(i) = currentchunk[i] + (at[D] + 1) + ((4 - ((at[D] + 1) % 4)) % 4)
  BY DEF NextChunk, WordSize
<1> HIDE DEF e, ch, Pass, L, D
<1>4. L \in 0 .. D /\ D \in 0 .. D /\ ~ (D < L)
  BY <1>1, <1>2, <1>3
<1>9. start(0) = 4
  BY <1>3, <1>7
<1>10. ASSUME NEW n \in Nat \ {0} PROVE start(n) = Pass(start(n - 1))
  <2>1. CASE n <= L
    <3>1. n \in 1 .. L /\ n - 1 < L /\ (n - 1) + 1 = n
      BY <1>3, <2>1
    <3>2. start(n - 1) = ItemStart(ch, n)
      BY <3>1
    <3>3. start(n) = ItemStart(ch, n + 1)
      <4>1. n < L \/ n = L
        BY <1>3, <2>1
      <4> QED
        BY <4>1
    <3> QED
      BY <1>5, <3>1, <3>2, <3>3
  <2>2. CASE ~ (n <= L)
    <3>1. ~ (n < L) /\ ~ (n - 1 < L)
      BY <1>3, <2>2
    <3> QED
      BY <1>3, <1>6, <3>1
  <2> QED
    BY <2>1, <2>2
<1> HIDE DEF start
<1>11. passes = Def(passes)
  <2>1. ASSUME NEW n \in 0 .. D PROVE passes[n] = Def(passes)[n]
    <3>1. CASE n = 0
      BY <1>2, <1>9, <3>1
    <3>2. CASE n # 0
      <4>1. n - 1 \in 0 .. D /\ n \in Nat \ {0}
        BY <1>2, <3>2
      <4>2. passes[n - 1] = start(n - 1) /\ passes[n] = start(n)
        BY <4>1
      <4>3. Def(passes)[n] = Pass(passes[n - 1])
        BY <3>2
      <4> QED
        BY <1>10, <4>1, <4>2, <4>3
    <3> QED
      BY <3>1, <3>2
  <2>2. passes = [n \in 0 .. D |-> passes[n]] /\ Def(passes) = [n \in 0 .. D |-> Def(passes)[n]]
    OBVIOUS
  <2> QED
    BY <2>1, <2>2
<1>12. at = Def(at)
  <2> HIDE DEF Def, passes
  <2> QED
    BY <1>11
<1> HIDE DEF at, passes
<1>13. at[0] = 4 /\ \A n \in 1 .. D : at[n] = Pass(at[n - 1])
  <2>1. Def(at)[0] = 4 /\ \A n \in 1 .. D : Def(at)[n] = Pass(at[n - 1])
    BY <1>2
  <2> HIDE DEF Def
  <2> QED
    BY <1>12, <2>1
<1> DEFINE T == {n \in Nat : n <= D => at[n] = start(n)}
<1>14. 0 \in T
  BY <1>9, <1>13
<1>15. ASSUME NEW n \in Nat, n \in T PROVE n + 1 \in T
  <2> SUFFICES ASSUME n + 1 <= D PROVE at[n + 1] = start(n + 1)
    OBVIOUS
  <2>1. n + 1 \in 1 .. D /\ (n + 1) - 1 = n /\ n <= D /\ n + 1 \in Nat \ {0}
    BY <1>2
  <2>2. at[n] = start(n)
    BY <1>15, <2>1
  <2>3. at[n + 1] = Pass(at[n])
    BY <1>13, <2>1
  <2>4. start(n + 1) = Pass(start(n))
    BY <1>10, <2>1
  <2> QED
    BY <2>2, <2>3, <2>4
<1>16. \A n \in Nat : n \in T
  <2> HIDE DEF T
  <2> QED
    BY <1>14, <1>15, SetInduction
<1>17. at[D] = e
  <2>1. at[D] = start(D)
    BY <1>2, <1>16
  <2>2. start(D) = ItemStart(ch, L + 1)
    BY <1>4 DEF start
  <2> QED
    BY <1>3, <2>1, <2>2
<1>18. Len(ChunkBytes(ch)) = e + (4 - (e % 4))
  BY <1>1, ChunkType DEF e
<1>19. ChunkStart(cs, c + 1) = currentchunk[i] + Len(ChunkBytes(ch))
  <2>1. ChunkStart(cs, c + 1) = ChunkStart(cs, c) + Len(ChunkBytes(cs[c]))
    BY <1>1, <1>2, ChunkStartFacts
  <2> QED
    BY <1>1, <1>2, <2>1
<1>20. \A o \in Nat, n \in Nat :
         o + (n + 1) + ((4 - ((n + 1) % 4)) % 4) = o + (n + (4 - (n % 4)))
  OBVIOUS
<1> QED
  BY <1>1, <1>3, <1>8, <1>17, <1>18, <1>19, <1>20

-----------------------------------------------------------------------------
(* Every iteration is nowhere, or stands on a chunk and an item of it.      *)
ListInv ==
  /\ rtcppacklist \in CompoundPackets
  /\ rtcppackit \in 1 .. Len(rtcppacklist) + 1
  /\ current \in 0 .. Len(rtcppacklist)

IterationTypes ==
  /\ currentchunk \in [Indices -> Nat]
  /\ curchunknum \in [Indices -> Nat]
  /\ itemoffset \in [Indices -> Nat]
  /\ ret \in BOOLEAN

Placed(i) == currentchunk[i] = 0 \/ \E c \in Nat, j \in Nat : At(i, c, j)

IInv == ListInv /\ IterationTypes /\ \A i \in Indices : Placed(i)

LEMMA ListFacts ==
  ASSUME rtcppacklist \in CompoundPackets
  PROVE  /\ Len(rtcppacklist) \in Nat /\ Indices = 1 .. Len(rtcppacklist)
         /\ \A i \in Indices : IsPacket(rtcppacklist[i])
<1>1. /\ Len(rtcppacklist) \in Nat
      /\ rtcppacklist = [i \in 1 .. Len(rtcppacklist) |-> rtcppacklist[i]]
      /\ \A i \in DOMAIN rtcppacklist :
           /\ rtcppacklist[i].sent \in Sendable /\ rtcppacklist[i].knownformat \in BOOLEAN
           /\ rtcppacklist[i] = Packet(rtcppacklist[i].sent, rtcppacklist[i].knownformat)
  BY CompoundAssumption
<1>2. DOMAIN rtcppacklist = 1 .. Len(rtcppacklist)
  BY <1>1
<1> QED
  BY <1>1, <1>2 DEF Indices, IsPacket

(* The calls on the iterations of packet i, by what they do: leave them     *)
(* nowhere, or put them at an item.                                         *)
Leaves(i) ==
  /\ currentchunk' = [currentchunk EXCEPT ![i] = 0]
  /\ UNCHANGED <<curchunknum, itemoffset>>

Goes(i, c, j) ==
  /\ IsSDES(i)
  /\ c \in 1 .. Len(rtcppacklist[i].sent.chunks)
  /\ j \in 1 .. Len(Chunk(i, c).items) + 1
  /\ currentchunk' = [currentchunk EXCEPT ![i] = ChunkStart(rtcppacklist[i].sent.chunks, c)]
  /\ curchunknum' = [curchunknum EXCEPT ![i] = c]
  /\ itemoffset' = [itemoffset EXCEPT ![i] = ItemStart(Chunk(i, c), j)]

Stays == ret' = FALSE /\ UNCHANGED <<currentchunk, curchunknum, itemoffset>>

Has(i, c, j) == j <= Len(Chunk(i, c).items)

LEMMA PlaceFacts ==
  ASSUME NEW i, IsPacket(rtcppacklist[i]), IsSDES(i),
         NEW c \in 1 .. Len(rtcppacklist[i].sent.chunks)
  PROVE  /\ Chunk(i, c) \in Chunks
         /\ Len(Chunk(i, c).items) \in Nat
         /\ ItemStart(Chunk(i, c), 1) = 4
         /\ ChunkStart(rtcppacklist[i].sent.chunks, 1) = 4
         /\ ChunkStart(rtcppacklist[i].sent.chunks, c) \in Nat \ {0}
         /\ \A j \in 1 .. Len(Chunk(i, c).items) + 1 : ItemStart(Chunk(i, c), j) \in Nat
         /\ Len(rtcppacklist[i].sent.chunks) \in Nat
         /\ HeaderCount(rtcppacklist[i]) = Len(rtcppacklist[i].sent.chunks)
<1> DEFINE q == rtcppacklist[i]
           cs == q.sent.chunks
           ch == cs[c]
<1>1. SDESPacket(q)
  BY SDESPackets DEF IsSDES
<1>2. ByteAt(q, 0) = Len(cs) /\ cs \in Seq(Chunks)
  BY <1>1 DEF SDESPacket
<1>3. HeaderCount(q) = Len(cs)
  BY <1>2 DEF HeaderCount, IsSDES
<1>4. ch = Chunk(i, c) /\ cs = rtcppacklist[i].sent.chunks /\ c \in 1 .. Len(cs)
  BY DEF Chunk
<1> HIDE DEF cs
<1>5. ch \in Chunks /\ Len(cs) \in Nat /\ c \in 1 .. Len(cs) + 1
  BY <1>2, <1>4
<1>6. ChunkStart(cs, 1) = 4 /\ ChunkStart(cs, c) \in Nat \ {0}
  BY <1>2, <1>5, ChunkStartFacts
<1> HIDE DEF ch
<1>7. ItemStart(ch, 1) = 4 /\ \A j \in 1 .. Len(ch.items) + 1 : ItemStart(ch, j) \in Nat
  BY <1>5, ItemStartFacts
<1>8. Len(ch.items) \in Nat
  BY <1>5 DEF Chunks
<1> QED
  BY <1>3, <1>4, <1>5, <1>6, <1>7, <1>8

LEMMA FirstChunkGoes ==
  ASSUME NEW i \in Indices, IsPacket(rtcppacklist[i]), IterationTypes,
         rtcppacklist[i].sent.type = "SDES", GotoFirstChunk(i)
  PROVE  \/ /\ ~ rtcppacklist[i].knownformat \/ rtcppacklist[i].sent.chunks = <<>>
            /\ ret' = FALSE /\ Leaves(i)
         \/ rtcppacklist[i].sent.chunks # <<>> /\ ret' = TRUE /\ Goes(i, 1, 1)
<1> DEFINE q == rtcppacklist[i]
           cs == q.sent.chunks
<1>1. ByteAt(q, 0) = Len(cs) /\ cs \in Seq(Chunks)
  BY SDESPackets DEF SDESPacket
<1>2. CASE HeaderCount(q) = 0
  <2>1. ~ q.knownformat \/ cs = <<>>
    BY <1>1, <1>2 DEF HeaderCount
  <2>2. ret' = FALSE /\ Leaves(i)
    BY <1>2 DEF GotoFirstChunk, Leaves, NullPointer
  <2> QED
    BY <2>1, <2>2
<1>3. CASE HeaderCount(q) # 0
  <2>1. q.knownformat /\ cs # <<>> /\ 1 \in 1 .. Len(cs)
    BY <1>1, <1>3 DEF HeaderCount
  <2>2. IsSDES(i)
    BY <2>1 DEF IsSDES
  <2>3. /\ Len(Chunk(i, 1).items) \in Nat /\ ItemStart(Chunk(i, 1), 1) = 4
        /\ ChunkStart(cs, 1) = 4
    BY <2>1, <2>2, PlaceFacts
  <2>4. 1 \in 1 .. Len(Chunk(i, 1).items) + 1
    BY <2>3
  <2>5. /\ currentchunk' = [currentchunk EXCEPT ![i] = 4]
        /\ curchunknum' = [curchunknum EXCEPT ![i] = 1]
        /\ itemoffset' = [itemoffset EXCEPT ![i] = 4]
        /\ ret' = TRUE
    BY <1>3 DEF GotoFirstChunk, CommonHeaderSize, WordSize
  <2>6. Goes(i, 1, 1)
    BY <2>1, <2>2, <2>3, <2>4, <2>5 DEF Goes
  <2> QED
    BY <2>1, <2>5, <2>6
<1> QED
  BY <1>2, <1>3

LEMMA NotIterating ==
  ASSUME NEW i, currentchunk[i] = 0
  PROVE  ~ Iterating(i)
BY DEF Iterating, NullPointer

LEMMA NextChunkGoes ==
  ASSUME NEW i \in Indices, IsPacket(rtcppacklist[i]), NEW c \in Nat, NEW j \in Nat,
         At(i, c, j), GotoNextChunk(i)
  PROVE  \/ c < Len(rtcppacklist[i].sent.chunks) /\ ret' = TRUE /\ Goes(i, c + 1, 1)
         \/ c = Len(rtcppacklist[i].sent.chunks) /\ Stays
<1> DEFINE cs == rtcppacklist[i].sent.chunks
<1>1. InChunk(i, c) /\ IsSDES(i) /\ c \in 1 .. Len(cs) /\ curchunknum[i] = c
  BY DEF At, InChunk
<1>2. Iterating(i) /\ HeaderCount(rtcppacklist[i]) = Len(cs) /\ Len(cs) \in Nat
  BY <1>1, InChunkFacts, PlaceFacts
<1>3. CASE c # Len(cs)
  <2>1. c < Len(cs) /\ c + 1 \in 1 .. Len(cs)
    BY <1>1, <1>2, <1>3
  <2>2. NextChunk(i) = ChunkStart(cs, c + 1)
    BY <1>1, NextChunkIsNext
  <2>3. Len(Chunk(i, c + 1).items) \in Nat /\ ItemStart(Chunk(i, c + 1), 1) = 4
    BY <1>1, <2>1, PlaceFacts
  <2>4. 1 \in 1 .. Len(Chunk(i, c + 1).items) + 1
    BY <2>3
  <2>5. /\ currentchunk' = [currentchunk EXCEPT ![i] = NextChunk(i)]
        /\ curchunknum' = [curchunknum EXCEPT ![i] = c + 1]
        /\ itemoffset' = [itemoffset EXCEPT ![i] = 4]
        /\ ret' = TRUE
    BY <1>1, <1>2, <1>3 DEF GotoNextChunk, WordSize
  <2>6. Goes(i, c + 1, 1)
    BY <1>1, <2>1, <2>2, <2>3, <2>4, <2>5 DEF Goes
  <2> QED
    BY <2>1, <2>5, <2>6
<1>4. CASE c = Len(cs)
  BY <1>1, <1>2, <1>4 DEF GotoNextChunk, Fail, Stays
<1> QED
  BY <1>3, <1>4

LEMMA FirstItemGoes ==
  ASSUME NEW i \in Indices, IsPacket(rtcppacklist[i]), IterationTypes,
         NEW c \in Nat, NEW j \in Nat, At(i, c, j), GotoFirstItem(i)
  PROVE  ret' = Has(i, c, 1) /\ Goes(i, c, 1)
<1> DEFINE cs == rtcppacklist[i].sent.chunks
           L == Len(Chunk(i, c).items)
<1>1. /\ InChunk(i, c) /\ IsSDES(i) /\ c \in 1 .. Len(cs) /\ curchunknum[i] = c
      /\ currentchunk[i] = ChunkStart(cs, c)
  BY DEF At, InChunk
<1>2. Iterating(i) /\ L \in Nat /\ ItemStart(Chunk(i, c), 1) = 4
  BY <1>1, InChunkFacts, PlaceFacts
<1>3. /\ itemoffset' = [itemoffset EXCEPT ![i] = 4] /\ ret' = (SdesId(i, 4) # 0)
      /\ UNCHANGED <<currentchunk, curchunknum>>
  BY <1>2 DEF GotoFirstItem, WordSize
<1>4. /\ currentchunk' = [currentchunk EXCEPT ![i] = ChunkStart(cs, c)]
      /\ curchunknum' = [curchunknum EXCEPT ![i] = c]
  BY <1>1, <1>3 DEF IterationTypes
<1>5. Goes(i, c, 1)
  <2>1. 1 \in 1 .. L + 1
    BY <1>2
  <2> QED
    BY <1>1, <1>2, <1>3, <1>4, <2>1 DEF Goes
<1>6. CASE 1 <= L
  <2>1. SdesId(i, 4) # 0
    <3>1. 1 \in 1 .. L
      BY <1>2, <1>6
    <3> QED
      BY <1>1, <1>2, <3>1, ItemRead
  <2> QED
    BY <1>3, <1>5, <1>6, <2>1 DEF Has
<1>7. CASE ~ (1 <= L)
  <2>1. SdesId(i, 4) = 0
    <3>1. L + 1 = 1
      BY <1>2, <1>7
    <3>2. ItemsEnd(Chunk(i, c)) = 4
      BY <1>2, <3>1 DEF ItemsEnd
    <3> QED
      BY <1>1, <3>2, EndRead
  <2> QED
    BY <1>3, <1>5, <1>7, <2>1 DEF Has
<1> QED
  BY <1>6, <1>7

LEMMA NextItemGoes ==
  ASSUME NEW i \in Indices, IsPacket(rtcppacklist[i]), IterationTypes,
         NEW c \in Nat, NEW j \in Nat, At(i, c, j), GotoNextItem(i)
  PROVE  \/ j < Len(Chunk(i, c).items) /\ ret' = TRUE /\ Goes(i, c, j + 1)
         \/ j >= Len(Chunk(i, c).items) /\ Stays
<1> DEFINE cs == rtcppacklist[i].sent.chunks
           L == Len(Chunk(i, c).items)
           s(k) == ItemStart(Chunk(i, c), k)
<1>1. /\ InChunk(i, c) /\ IsSDES(i) /\ c \in 1 .. Len(cs) /\ curchunknum[i] = c
      /\ currentchunk[i] = ChunkStart(cs, c)
      /\ j \in 1 .. L + 1 /\ itemoffset[i] = s(j)
  BY DEF At, InChunk
<1>2. Iterating(i) /\ L \in Nat
  BY <1>1, InChunkFacts, PlaceFacts
<1>3. \A k \in 1 .. L : SdesId(i, s(k)) # 0 /\ After(i, s(k)) = s(k + 1)
  BY <1>1, ItemRead
<1>4. SdesId(i, s(L + 1)) = 0
  BY <1>1, EndRead DEF ItemsEnd
<1> HIDE DEF s, L
<1>5. CASE j < L
  <2>1. j \in 1 .. L /\ j + 1 \in 1 .. L /\ j + 1 \in 1 .. L + 1
    BY <1>1, <1>2, <1>5
  <2>2. HasNextItem(i) /\ After(i, itemoffset[i]) = s(j + 1)
    BY <1>1, <1>2, <1>3, <2>1 DEF HasNextItem
  <2>3. /\ itemoffset' = [itemoffset EXCEPT ![i] = s(j + 1)] /\ ret' = TRUE
        /\ UNCHANGED <<currentchunk, curchunknum>>
    BY <2>2 DEF GotoNextItem
  <2>4. /\ currentchunk' = [currentchunk EXCEPT ![i] = ChunkStart(cs, c)]
        /\ curchunknum' = [curchunknum EXCEPT ![i] = c]
    BY <1>1, <2>3 DEF IterationTypes
  <2>5. Goes(i, c, j + 1)
    BY <1>1, <2>1, <2>3, <2>4 DEF Goes, s, L
  <2> QED
    BY <1>5, <2>3, <2>5 DEF L
<1>6. CASE j >= L
  <2>1. ~ HasNextItem(i)
    <3>1. CASE j = L
      <4>1. j \in 1 .. L
        BY <1>1, <1>2, <3>1
      <4>2. After(i, itemoffset[i]) = s(L + 1)
        BY <1>1, <1>3, <3>1, <4>1
      <4> QED
        BY <1>4, <4>2 DEF HasNextItem
    <3>2. CASE j = L + 1
      BY <1>1, <1>4, <3>2 DEF HasNextItem
    <3> QED
      BY <1>1, <1>2, <1>6, <3>1, <3>2
  <2> QED
    BY <1>6, <2>1 DEF GotoNextItem, Fail, Stays, L
<1>7. j < L \/ j >= L
  BY <1>1, <1>2
<1> QED
  BY <1>5, <1>6, <1>7

LEMMA SamePlace ==
  ASSUME NEW k, rtcppacklist' = rtcppacklist, currentchunk'[k] = currentchunk[k],
         curchunknum'[k] = curchunknum[k], itemoffset'[k] = itemoffset[k],
         NEW c, NEW j
  PROVE  At(k, c, j)' <=> At(k, c, j)
BY DEF At, InChunk, IsSDES, Chunk

LEMMA SamePlaced ==
  ASSUME NEW k, rtcppacklist' = rtcppacklist, currentchunk'[k] = currentchunk[k],
         curchunknum'[k] = curchunknum[k], itemoffset'[k] = itemoffset[k],
         Placed(k)
  PROVE  Placed(k)'
<1>1. CASE currentchunk[k] = 0
  BY <1>1 DEF Placed
<1>2. CASE \E c \in Nat, j \in Nat : At(k, c, j)
  <2>1. PICK c \in Nat, j \in Nat : At(k, c, j)
    BY <1>2
  <2>2. At(k, c, j)'
    BY <2>1, SamePlace
  <2> QED
    BY <2>2 DEF Placed
<1> QED
  BY <1>1, <1>2 DEF Placed

LEMMA GoesPlaces ==
  ASSUME IInv, NEW i \in Indices, NEW c \in Nat, NEW j \in Nat, Goes(i, c, j),
         UNCHANGED <<rtcppacklist, listVars>>, ret' \in BOOLEAN
  PROVE  IInv' /\ At(i, c, j)' /\ currentchunk'[i] # 0
<1> DEFINE x == ChunkStart(rtcppacklist[i].sent.chunks, c)
           y == ItemStart(Chunk(i, c), j)
<1>1. /\ currentchunk' = [currentchunk EXCEPT ![i] = x]
      /\ curchunknum' = [curchunknum EXCEPT ![i] = c]
      /\ itemoffset' = [itemoffset EXCEPT ![i] = y]
      /\ rtcppacklist' = rtcppacklist /\ rtcppackit' = rtcppackit /\ current' = current
  BY DEF Goes, listVars
<1>2. x \in Nat /\ x # 0 /\ y \in Nat
  <2>1. IsPacket(rtcppacklist[i])
    BY ListFacts DEF IInv, ListInv
  <2> QED
    BY <2>1, PlaceFacts DEF Goes
<1>3. x = ChunkStart(rtcppacklist[i].sent.chunks, c) /\ y = ItemStart(Chunk(i, c), j)
  OBVIOUS
<1> HIDE DEF x, y
<1>4. /\ currentchunk'[i] = x /\ curchunknum'[i] = c /\ itemoffset'[i] = y
      /\ IterationTypes'
  BY <1>1, <1>2 DEF IInv, IterationTypes, Indices
<1>5. ListInv'
  BY <1>1 DEF IInv, ListInv
<1>6. At(i, c, j)'
  <2>1. /\ IsSDES(i)' /\ c \in 1 .. Len(rtcppacklist'[i].sent.chunks)
        /\ currentchunk'[i] = ChunkStart(rtcppacklist'[i].sent.chunks, c)
    BY <1>1, <1>3, <1>4 DEF Goes, IsSDES
  <2>2. j \in 1 .. Len(Chunk(i, c)'.items) + 1 /\ itemoffset'[i] = ItemStart(Chunk(i, c)', j)
    BY <1>1, <1>3, <1>4 DEF Goes, Chunk
  <2> QED
    BY <1>4, <2>1, <2>2 DEF At, InChunk
<1>7. ASSUME NEW k \in Indices PROVE Placed(k)'
  <2>1. CASE k = i
    BY <1>6, <2>1 DEF Placed
  <2>2. CASE k # i
    <3>1. /\ currentchunk'[k] = currentchunk[k] /\ curchunknum'[k] = curchunknum[k]
          /\ itemoffset'[k] = itemoffset[k]
      BY <1>1, <2>2 DEF IInv, IterationTypes
    <3> QED
      BY <1>1, <3>1, SamePlaced DEF IInv
  <2> QED
    BY <2>1, <2>2
<1>8. Indices' = Indices
  BY <1>1 DEF Indices
<1> QED
  BY <1>2, <1>4, <1>5, <1>6, <1>7, <1>8 DEF IInv

LEMMA LeavesPlaces ==
  ASSUME IInv, NEW i \in Indices, Leaves(i),
         UNCHANGED <<rtcppacklist, listVars>>, ret' \in BOOLEAN
  PROVE  IInv' /\ currentchunk'[i] = 0
<1>1. /\ currentchunk' = [currentchunk EXCEPT ![i] = 0]
      /\ curchunknum' = curchunknum /\ itemoffset' = itemoffset
      /\ rtcppacklist' = rtcppacklist /\ rtcppackit' = rtcppackit /\ current' = current
  BY DEF Leaves, listVars
<1>2. currentchunk'[i] = 0 /\ IterationTypes'
  BY <1>1 DEF IInv, IterationTypes, Indices
<1>3. ListInv'
  BY <1>1 DEF IInv, ListInv
<1>4. ASSUME NEW k \in Indices PROVE Placed(k)'
  <2>1. CASE k = i
    BY <1>2, <2>1 DEF Placed
  <2>2. CASE k # i
    <3>1. currentchunk'[k] = currentchunk[k]
      BY <1>1, <2>2 DEF IInv, IterationTypes
    <3> QED
      BY <1>1, <3>1, SamePlaced DEF IInv
  <2> QED
    BY <2>1, <2>2
<1>5. Indices' = Indices
  BY <1>1 DEF Indices
<1> QED
  BY <1>2, <1>3, <1>4, <1>5 DEF IInv

LEMMA StaysPlaces ==
  ASSUME IInv, UNCHANGED <<rtcppacklist, currentchunk, curchunknum, itemoffset>>,
         ret' \in BOOLEAN,
         rtcppackit' \in 1 .. Len(rtcppacklist) + 1, current' \in 0 .. Len(rtcppacklist)
  PROVE  IInv'
<1>1. \A k \in Indices : Placed(k)'
  BY SamePlaced DEF IInv
<1>2. Indices' = Indices
  BY DEF Indices
<1> QED
  BY <1>1, <1>2 DEF IInv, IterationTypes, ListInv

(* What a call on the iterations of an SDES packet may do.                  *)
Call(i) ==
  \/ /\ ~ rtcppacklist[i].knownformat \/ rtcppacklist[i].sent.chunks = <<>>
     /\ ret' = FALSE /\ Leaves(i)
  \/ /\ rtcppacklist[i].sent.chunks # <<>> /\ ret' = TRUE /\ Goes(i, 1, 1)
  \/ /\ currentchunk[i] = 0 /\ Stays
  \/ \E c \in Nat, j \in Nat :
       /\ At(i, c, j)
       /\ \/ c < Len(rtcppacklist[i].sent.chunks) /\ ret' = TRUE /\ Goes(i, c + 1, 1)
          \/ c = Len(rtcppacklist[i].sent.chunks) /\ Stays
          \/ ret' = Has(i, c, 1) /\ Goes(i, c, 1)
          \/ j < Len(Chunk(i, c).items) /\ ret' = TRUE /\ Goes(i, c, j + 1)
          \/ j >= Len(Chunk(i, c).items) /\ Stays

LEMMA SDESCalls ==
  ASSUME IInv, NEW i \in Indices, SDESCall(i)
  PROVE  Call(i) /\ UNCHANGED <<rtcppacklist, listVars>>
<1>1. IsPacket(rtcppacklist[i]) /\ IterationTypes /\ Placed(i)
  BY ListFacts DEF IInv, ListInv
<1>2. CASE GotoFirstChunk(i)
  BY <1>1, <1>2, FirstChunkGoes DEF SDESCall, Call
<1>3. CASE currentchunk[i] = 0 /\ ~ GotoFirstChunk(i)
  <2>1. Fail
    BY <1>3, NotIterating DEF SDESCall, GotoNextChunk, GotoFirstItem, GotoNextItem, HasNextItem
  <2> QED
    BY <1>3, <2>1 DEF Fail, Stays, Call, SDESCall
<1>4. CASE currentchunk[i] # 0 /\ ~ GotoFirstChunk(i)
  <2>1. PICK c \in Nat, j \in Nat : At(i, c, j)
    BY <1>1, <1>4 DEF Placed
  <2>2. CASE GotoNextChunk(i)
    <3>1. \/ c < Len(rtcppacklist[i].sent.chunks) /\ ret' = TRUE /\ Goes(i, c + 1, 1)
          \/ c = Len(rtcppacklist[i].sent.chunks) /\ Stays
      BY <1>1, <2>1, <2>2, NextChunkGoes
    <3> QED
      BY <2>1, <3>1 DEF SDESCall, Call
  <2>3. CASE GotoFirstItem(i)
    <3>1. ret' = Has(i, c, 1) /\ Goes(i, c, 1)
      BY <1>1, <2>1, <2>3, FirstItemGoes
    <3> QED
      BY <2>1, <3>1 DEF SDESCall, Call
  <2>4. CASE GotoNextItem(i)
    <3>1. \/ j < Len(Chunk(i, c).items) /\ ret' = TRUE /\ Goes(i, c, j + 1)
          \/ j >= Len(Chunk(i, c).items) /\ Stays
      BY <1>1, <2>1, <2>4, NextItemGoes
    <3> QED
      BY <2>1, <3>1 DEF SDESCall, Call
  <2> QED
    BY <1>4, <2>2, <2>3, <2>4 DEF SDESCall
<1> QED
  BY <1>2, <1>3, <1>4

LEMMA CallPlaces ==
  ASSUME IInv, NEW i \in Indices, Call(i), UNCHANGED <<rtcppacklist, listVars>>
  PROVE  IInv'
<1>1. ASSUME NEW c \in Nat, NEW j \in Nat, Goes(i, c, j), ret' \in BOOLEAN PROVE IInv'
  BY <1>1, GoesPlaces
<1>2. ASSUME Leaves(i), ret' = FALSE PROVE IInv'
  BY <1>2, LeavesPlaces
<1>3. ASSUME Stays PROVE IInv'
  BY <1>3, StaysPlaces DEF Stays, IInv, ListInv, listVars
<1>4. ASSUME NEW c \in Nat, NEW j \in Nat, At(i, c, j),
             \/ c < Len(rtcppacklist[i].sent.chunks) /\ ret' = TRUE /\ Goes(i, c + 1, 1)
             \/ c = Len(rtcppacklist[i].sent.chunks) /\ Stays
             \/ ret' = Has(i, c, 1) /\ Goes(i, c, 1)
             \/ j < Len(Chunk(i, c).items) /\ ret' = TRUE /\ Goes(i, c, j + 1)
             \/ j >= Len(Chunk(i, c).items) /\ Stays
      PROVE  IInv'
  <2>1. c + 1 \in Nat /\ j + 1 \in Nat /\ 1 \in Nat
    OBVIOUS
  <2>2. Has(i, c, 1) \in BOOLEAN
    BY DEF Has
  <2> QED
    BY <1>1, <1>3, <1>4, <2>1, <2>2
<1>5. CASE ret' = FALSE /\ Leaves(i)
  BY <1>2, <1>5
<1>6. CASE ret' = TRUE /\ Goes(i, 1, 1)
  BY <1>1, <1>6
<1> QED
  BY <1>3, <1>4, <1>5, <1>6 DEF Call

LEMMA InitPlaces == Init => IInv
<1> SUFFICES ASSUME Init PROVE IInv
  OBVIOUS
<1>1. Len(rtcppacklist) \in Nat
  BY ListFacts DEF Init
<1>2. ListInv
  BY <1>1 DEF Init, ListInv
<1>3. IterationTypes
  BY DEF Init, IterationTypes, NullPointer
<1>4. \A i \in Indices : Placed(i)
  BY DEF Init, Placed, NullPointer
<1> QED
  BY <1>2, <1>3, <1>4 DEF IInv

LEMMA StepPlaces == IInv /\ [Next]_vars => IInv'
<1> SUFFICES ASSUME IInv, [Next]_vars PROVE IInv'
  OBVIOUS
<1>1. /\ Len(rtcppacklist) \in Nat /\ Indices = 1 .. Len(rtcppacklist)
      /\ rtcppackit \in 1 .. Len(rtcppacklist) + 1 /\ current \in 0 .. Len(rtcppacklist)
      /\ ret \in BOOLEAN
  BY ListFacts DEF IInv, ListInv, IterationTypes
<1>2. CASE GotoFirstPacket
  BY <1>1, <1>2, StaysPlaces DEF GotoFirstPacket, sdesVars
<1>3. CASE GetNextPacket
  <2>1. rtcppackit' \in 1 .. Len(rtcppacklist) + 1 /\ current' \in 0 .. Len(rtcppacklist)
    BY <1>1, <1>3 DEF GetNextPacket
  <2> QED
    BY <1>1, <1>3, <2>1, StaysPlaces DEF GetNextPacket, sdesVars
<1>4. CASE current # 0 /\ SDESCall(current)
  <2>1. current \in Indices
    BY <1>1, <1>4
  <2> QED
    BY <1>4, <2>1, SDESCalls, CallPlaces
<1>5. CASE UNCHANGED vars
  BY <1>1, <1>5, StaysPlaces DEF vars, listVars, sdesVars
<1> QED
  BY <1>2, <1>3, <1>4, <1>5 DEF Next

LEMMA Invariance == Spec => []IInv
<1> QED
  BY InitPlaces, StepPlaces, PTL DEF Spec

-----------------------------------------------------------------------------
LEMMA AnyPacket ==
  ASSUME NEW q, IsPacket(q)
  PROVE  /\ q.sent.type \in {"SR", "RR", "SDES", "BYE", "APP"}
         /\ q.data \in Seq(Byte)
         /\ q.knownformat \in BOOLEAN
<1>1. q.sent.type \in {"SR", "RR", "SDES", "BYE", "APP"} /\ q.knownformat \in BOOLEAN
  BY DEF IsPacket, Sendable
<1>2. q.sent.type = "SDES" => q.data \in Seq(Byte)
  BY SDESPackets DEF SDESPacket
<1> QED
  BY <1>1, <1>2, SRPacket, RRPacket, BYEPacket, APPPacket

(* Whatever is called in whatever order (rtcpcompoundpacket.h and           *)
(* rtcpsdespacket.h), the offsets are numbers, a chunk starts on a word,    *)
(* and its number is one that the header counts.                            *)
THEOREM TypeCorrect == Spec => []TypeOK
<1>1. IInv => TypeOK
  <2> SUFFICES ASSUME IInv PROVE TypeOK
    OBVIOUS
  <2>1. \A i \in Indices : IsPacket(rtcppacklist[i])
    BY ListFacts DEF IInv, ListInv
  <2>2. \A i \in Indices : rtcppacklist[i].data \in Seq(Byte)
    BY <2>1, AnyPacket
  <2>3. ASSUME NEW i \in Indices
        PROVE  /\ currentchunk[i] % 4 = 0
               /\ currentchunk[i] # 0 => curchunknum[i] \in 1 .. HeaderCount(rtcppacklist[i])
    <3>1. CASE currentchunk[i] = 0
      BY <3>1
    <3>2. CASE currentchunk[i] # 0
      <4>1. PICK c \in Nat, j \in Nat : At(i, c, j)
        BY <3>2 DEF IInv, Placed
      <4> DEFINE cs == rtcppacklist[i].sent.chunks
      <4>2. /\ c \in 1 .. Len(cs) /\ currentchunk[i] = ChunkStart(cs, c)
            /\ curchunknum[i] = c /\ InChunk(i, c) /\ IsSDES(i)
        BY <4>1 DEF At, InChunk
      <4>3. HeaderCount(rtcppacklist[i]) = Len(cs)
        BY <2>1, <4>2, InChunkFacts
      <4>4. ChunkStart(cs, c) % 4 = 0
        <5>1. cs \in Seq(Chunks)
          BY <2>1, <4>2, SDESPackets DEF SDESPacket, IsSDES
        <5> HIDE DEF cs
        <5>2. c \in 1 .. Len(cs) + 1
          BY <4>2, <5>1
        <5> QED
          BY <5>1, <5>2, ChunkStartFacts
      <4> QED
        BY <4>2, <4>3, <4>4
    <3> QED
      BY <3>1, <3>2
  <2> QED
    BY <2>2, <2>3 DEF IInv, ListInv, IterationTypes, TypeOK, WordSize, NullPointer
<1> QED
  BY <1>1, Invariance, PTL

-----------------------------------------------------------------------------
(* The accessors of reports, BYE and APP packets depend on the bytes only.  *)
LEMMA EmptySlice ==
  ASSUME NEW q, q.data \in Seq(Byte)
  PROVE  Slice(q, 0, 0) = <<>>
<1>1. SubSeq(q.data, 0 + 1, 0 + 0) = <<>>
  OBVIOUS
<1> QED
  BY <1>1 DEF Slice

(* A part of what stands somewhere.                                         *)
LEMMA SliceStands ==
  ASSUME NEW q, q.data \in Seq(Byte), NEW o \in Nat, NEW x \in Seq(Byte),
         Stands(q.data, o, x), NEW a \in Nat, NEW n \in Nat, a + n <= Len(x)
  PROVE  Slice(q, o + a, n) = SubSeq(x, a + 1, a + n)
<1> DEFINE d == q.data
           u == SubSeq(d, (o + a) + 1, (o + a) + n)
           v == SubSeq(x, a + 1, a + n)
<1>1. d \in Seq(Byte) /\ o + Len(x) <= Len(d) /\ Len(d) \in Nat /\ Len(x) \in Nat
  BY DEF Stands
<1>2. \A b \in 1 .. Len(x) : d[o + b] = x[b]
  BY DEF Stands
<1> HIDE DEF d
<1>3. u \in Seq(Byte) /\ Len(u) = n
  BY <1>1
<1>4. v \in Seq(Byte) /\ Len(v) = n
  BY <1>1
<1>5. ASSUME NEW k \in 1 .. n PROVE u[k] = v[k]
  <2>1. a + k \in 1 .. Len(x) /\ (o + a) + k = o + (a + k) /\ (o + a) + k \in 1 .. Len(d)
    BY <1>1
  <2>2. u[k] = d[(o + a) + k]
    <3>1. (o + a) + 1 \in 1 .. Len(d) + 1 /\ (o + a) + n <= Len(d)
      BY <1>1
    <3>2. k + ((o + a) + 1) - 1 = (o + a) + k
      OBVIOUS
    <3> QED
      BY <1>1, <1>3, <3>1, <3>2
  <2>3. v[k] = x[a + k]
    BY <1>1, <1>4
  <2> QED
    BY <1>2, <2>1, <2>2, <2>3
<1>6. u = v
  <2> HIDE DEF u, v
  <2> QED
    BY <1>3, <1>4, <1>5
<1> QED
  BY <1>6 DEF Slice, d

LEMMA SRRead ==
  ASSUME NEW q, IsPacket(q), q.sent.type = "SR", q.knownformat
  PROVE  ReportsAreRead(q)
<1> DEFINE n == HeaderCount(q)
           rs == q.sent.reports
<1>1. n = Len(rs)
  BY SRPacket DEF HeaderCount
<1>2. SenderSSRC(q) = q.sent.ssrc
  BY SRPacket DEF SenderSSRC, CommonHeaderSize
<1>3. SenderInfo(q) = q.sent.info
  <2>1. SenderInfo(q) = [k \in 1 .. 5 |-> LongAt(q, 8 + (k - 1) * 4)]
    BY DEF SenderInfo, CommonHeaderSize, WordSize
  <2> QED
    BY <2>1, SRPacket
<1>4. ASSUME NEW k \in 1 .. n PROVE ReportSR(q, k - 1) = rs[k]
  <2>1. GotoReportSR(k - 1) = 28 + (k - 1) * 24
    BY DEF GotoReportSR, CommonHeaderSize, WordSize, SenderReportSize, ReceiverReportSize
  <2>2. n \in Nat
    <3>1. ByteAt(q, 0) = Len(rs) /\ rs \in Counted(Reports)
      BY SRPacket DEF IsPacket, Sendable
    <3> QED
      BY <1>1, <3>1, CountedFacts
  <2>3. 28 + (k - 1) * 24 = 28 + 24 * (k - 1)
    BY <2>2
  <2>4. ReportAt(q, 28 + 24 * (k - 1)) = rs[k]
    BY <1>1, SRPacket
  <2> QED
    BY <2>1, <2>3, <2>4 DEF ReportSR
<1> QED
  BY <1>1, <1>2, <1>3, <1>4 DEF ReportsAreRead

LEMMA RRRead ==
  ASSUME NEW q, IsPacket(q), q.sent.type = "RR", q.knownformat
  PROVE  ReportsAreRead(q)
<1> DEFINE n == HeaderCount(q)
           rs == q.sent.reports
<1>1. n = Len(rs)
  BY RRPacket DEF HeaderCount
<1>2. SenderSSRC(q) = q.sent.ssrc
  BY RRPacket DEF SenderSSRC, CommonHeaderSize
<1>4. ASSUME NEW k \in 1 .. n PROVE ReportRR(q, k - 1) = rs[k]
  <2>1. GotoReportRR(k - 1) = 8 + (k - 1) * 24
    BY DEF GotoReportRR, CommonHeaderSize, WordSize, ReceiverReportSize
  <2>2. n \in Nat
    <3>1. ByteAt(q, 0) = Len(rs) /\ rs \in Counted(Reports)
      BY RRPacket DEF IsPacket, Sendable
    <3> QED
      BY <1>1, <3>1, CountedFacts
  <2>3. 8 + (k - 1) * 24 = 8 + 24 * (k - 1)
    BY <2>2
  <2>4. ReportAt(q, 8 + 24 * (k - 1)) = rs[k]
    BY <1>1, RRPacket
  <2> QED
    BY <2>1, <2>3, <2>4 DEF ReportRR
<1> QED
  BY <1>1, <1>2, <1>4 DEF ReportsAreRead

LEMMA BYERead ==
  ASSUME NEW q, IsPacket(q), q.sent.type = "BYE", q.knownformat
  PROVE  ReportsAreRead(q)
<1> DEFINE n == HeaderCount(q)
           ns == q.sent.ssrcs
           r == q.sent.reason
           o == 4 + 4 * Len(ns)
<1>1. /\ q.data \in Seq(Byte) /\ ByteAt(q, 0) = Len(ns)
      /\ ns \in Seq(Words32) /\ r \in Seq(Byte) /\ (r # <<>> => Head(r) < Len(r))
      /\ \A k \in 1 .. Len(ns) : LongAt(q, 4 + 4 * (k - 1)) = ns[k]
      /\ Stands(q.data, 4 + 4 * Len(ns), r)
      /\ q.datalen = 4 + 4 * Len(ns) + Len(r)
  BY BYEPacket DEF Reasons
<1>2. n = Len(ns)
  BY <1>1 DEF HeaderCount
<1>3. ASSUME NEW k \in 1 .. n PROVE BYESSRC(q, k - 1) = ns[k]
  BY <1>1, <1>2 DEF BYESSRC, CommonHeaderSize, WordSize
<1>4. q.sent.type = "BYE" /\ r = q.sent.reason /\ ns = q.sent.ssrcs
  OBVIOUS
<1> HIDE DEF ns, r
<1>5. Len(ns) \in Nat /\ Len(r) \in Nat
  BY <1>1
<1>6. o \in Nat /\ o > 0 /\ q.datalen = o + Len(r) /\ Stands(q.data, o, r)
  BY <1>1, <1>5
<1>7. ReasonOffset(q) = IF q.datalen > o THEN o ELSE 0
  BY <1>1 DEF ReasonOffset, CommonHeaderSize, WordSize
<1> HIDE DEF o
<1>8. r = <<>> <=> Len(r) = 0
  BY <1>1
<1>9. HasReasonForLeaving(q) <=> r # <<>>
  BY <1>5, <1>6, <1>7, <1>8 DEF HasReasonForLeaving
<1>10. ASSUME r # <<>>
       PROVE  /\ ReasonLength(q) = Head(r)
              /\ Slice(q, ReasonData(q), ReasonLength(q)) = SubSeq(r, 2, 1 + Head(r))
  <2>1. Head(r) = r[1] /\ Head(r) \in Byte /\ Head(r) < Len(r) /\ Len(r) > 0
    <3>1. Head(r) = r[1] /\ r[1] \in Byte /\ Len(r) > 0
      BY <1>1, <1>10
    <3> QED
      BY <1>1, <1>10, <3>1
  <2>2. ReasonOffset(q) = o
    BY <1>5, <1>6, <1>7, <2>1
  <2>3. ByteAt(q, o) = r[1]
    <3>1. 0 \in 0 .. Len(r) - 1 /\ o + 0 = o
      BY <1>5, <1>6, <2>1
    <3>2. ByteAt(q, o + 0) = r[0 + 1]
      BY <1>1, <1>6, <3>1, ByteStands
    <3> QED
      BY <3>1, <3>2
  <2>4. ReasonLength(q) = Head(r)
    BY <1>9, <1>10, <2>1, <2>2, <2>3 DEF ReasonLength
  <2>5. Head(r) \in Nat
    BY <2>1, ByteAssumption DEF Byte
  <2>6. CASE Head(r) = 0
    <3>1. ReasonData(q) = 0
      BY <2>4, <2>6 DEF ReasonData, NullPointer
    <3>2. Slice(q, 0, 0) = <<>>
      BY <1>1, EmptySlice
    <3>3. SubSeq(r, 2, 1 + 0) = <<>>
      BY <1>1
    <3> QED
      BY <2>4, <2>6, <3>1, <3>2, <3>3
  <2>7. CASE Head(r) # 0
    <3>1. ReasonData(q) = o + 1
      BY <2>2, <2>4, <2>7 DEF ReasonData
    <3>2. 1 + Head(r) <= Len(r)
      BY <1>5, <2>1, <2>5
    <3>3. Slice(q, o + 1, Head(r)) = SubSeq(r, 1 + 1, 1 + Head(r))
      BY <1>1, <1>6, <2>5, <3>2, SliceStands
    <3> QED
      BY <2>4, <3>1, <3>3
  <2> QED
    BY <2>6, <2>7
<1> QED
  BY <1>2, <1>3, <1>4, <1>9, <1>10 DEF ReportsAreRead

LEMMA APPRead ==
  ASSUME NEW q, IsPacket(q), q.sent.type = "APP", q.knownformat
  PROVE  ReportsAreRead(q)
<1> DEFINE s == q.sent
           r == s.appdata
<1>1. /\ q.data \in Seq(Byte) /\ ByteAt(q, 0) = s.subtype
      /\ r \in Seq(Byte) /\ LongAt(q, 4) = s.ssrc
      /\ SubSeq(q.data, 8 + 1, 8 + 4) = Word(s.name)
      /\ Stands(q.data, 12, r)
      /\ q.datalen = 12 + Len(r)
  BY APPPacket
<1>2. HeaderCount(q) = s.subtype /\ SenderSSRC(q) = s.ssrc
  BY <1>1 DEF HeaderCount, SenderSSRC, CommonHeaderSize
<1>3. Slice(q, APPName(q), WordSize) = Word(s.name)
  BY <1>1 DEF Slice, APPName, WordSize, CommonHeaderSize
<1>4. APPDataLength(q) = Len(r)
  <2>1. Len(r) \in Nat
    BY <1>1
  <2>2. (12 + Len(r)) - 12 = Len(r)
    BY <2>1
  <2> QED
    BY <1>1, <2>2 DEF APPDataLength, WordSize
<1>5. Slice(q, APPData(q), APPDataLength(q)) = r
  <2>1. CASE Len(r) = 0
    <3>1. APPData(q) = 0
      BY <1>4, <2>1 DEF APPData, NullPointer
    <3>2. r = <<>>
      BY <1>1, <2>1
    <3>3. Slice(q, 0, 0) = <<>>
      BY <1>1, EmptySlice
    <3> QED
      BY <1>4, <2>1, <3>1, <3>2, <3>3
  <2>2. CASE Len(r) # 0
    <3>1. APPData(q) = 12
      BY <1>4, <2>2 DEF APPData, CommonHeaderSize, WordSize
    <3>2. SubSeq(q.data, 12 + 1, 12 + Len(r)) = r
      BY <1>1, StandsSlice
    <3> QED
      BY <1>4, <3>1, <3>2 DEF Slice
  <2> QED
    BY <2>1, <2>2
<1> QED
  BY <1>2, <1>3, <1>5 DEF ReportsAreRead

LEMMA PacketsAreRead ==
  ASSUME NEW q, IsPacket(q)
  PROVE  ReportsAreRead(q)
<1>1. CASE ~ q.knownformat
  BY <1>1 DEF ReportsAreRead, HeaderCount, SenderSSRC, ReportSR
<1>2. CASE q.knownformat /\ q.sent.type = "SDES"
  BY <1>2 DEF ReportsAreRead
<1> QED
  BY <1>1, <1>2, AnyPacket, SRRead, RRRead, BYERead, APPRead

(* GetReceptionReport*, GetSSRC, GetReasonData and GetAPPData of the views  *)
(* (rtcpsrpacket.h, rtcprrpacket.h, rtcpbyepacket.h and rtcpapppacket.h)    *)
(* return what was sent, for every range of a byte and whatever is sent.    *)
THEOREM ReportsCorrect == Spec => []ReportsAreWhatWasSent
<1>1. IInv => ReportsAreWhatWasSent
  <2> SUFFICES ASSUME IInv, NEW i \in Indices PROVE ReportsAreRead(rtcppacklist[i])
    BY DEF ReportsAreWhatWasSent, ReportsAreRead
  <2> QED
    BY ListFacts, PacketsAreRead DEF IInv, ListInv
<1> QED
  BY <1>1, Invariance, PTL

-----------------------------------------------------------------------------
(* Chunk and item are found again from their offsets, as no two start at    *)
(* the same.                                                                *)
ChosenChunk(q, x) == CHOOSE b \in DOMAIN q.sent.chunks : q.chunkstarts[b] = x

ChosenItem(q, c, y) == CHOOSE k \in DOMAIN q.itemstarts[c] : q.itemstarts[c][k] = y

LEMMA ChosenPlace ==
  ASSUME NEW q, SDESPacket(q), NEW c \in 1 .. Len(q.sent.chunks),
         NEW j \in 1 .. Len(q.sent.chunks[c].items) + 1,
         NEW x, x = ChunkStart(q.sent.chunks, c),
         NEW y, y = ItemStart(q.sent.chunks[c], j)
  PROVE  ChosenChunk(q, x) = c /\ ChosenItem(q, c, y) = j
<1> DEFINE cs == q.sent.chunks
           ch == cs[c]
           qc == q.chunkstarts
           qi == q.itemstarts[c]
<1>1. /\ cs \in Seq(Chunks)
      /\ qc = [b \in 1 .. Len(cs) + 1 |-> ChunkStart(cs, b)]
      /\ qi = [k \in 1 .. Len(ch.items) + 1 |-> ItemStart(ch, k)]
  BY DEF SDESPacket
<1>2. /\ DOMAIN cs = 1 .. Len(cs) /\ Len(cs) \in Nat /\ ch \in Chunks
      /\ c \in 1 .. Len(cs) /\ j \in 1 .. Len(ch.items) + 1
      /\ x = ChunkStart(cs, c) /\ y = ItemStart(ch, j)
  BY <1>1
<1>3. DOMAIN qi = 1 .. Len(ch.items) + 1
  BY <1>1
<1> HIDE DEF cs, ch, qc, qi
<1>4. /\ \A b \in 1 .. Len(cs) + 1 : ChunkStart(cs, b) \in Nat
      /\ \A a \in 1 .. Len(cs) + 1, b \in 1 .. Len(cs) + 1 :
              a < b => ChunkStart(cs, a) < ChunkStart(cs, b)
  BY <1>1, ChunkStartFacts
<1>5. /\ \A k \in 1 .. Len(ch.items) + 1 : ItemStart(ch, k) \in Nat
      /\ \A a \in 1 .. Len(ch.items) + 1, b \in 1 .. Len(ch.items) + 1 :
              a < b => ItemStart(ch, a) < ItemStart(ch, b)
  BY <1>2, ItemStartFacts
<1>6. ASSUME NEW b \in 1 .. Len(cs) PROVE qc[b] = x <=> b = c
  <2>1. b \in 1 .. Len(cs) + 1 /\ c \in 1 .. Len(cs) + 1
    BY <1>2
  <2>2. qc[b] = ChunkStart(cs, b)
    BY <1>1, <2>1
  <2>3. b < c \/ b = c \/ c < b
    BY <1>2
  <2>4. ChunkStart(cs, b) \in Nat /\ ChunkStart(cs, c) \in Nat
    BY <1>4, <2>1
  <2>5. b < c => ChunkStart(cs, b) # ChunkStart(cs, c)
    BY <1>4, <2>1, <2>4
  <2>6. c < b => ChunkStart(cs, b) # ChunkStart(cs, c)
    BY <1>4, <2>1, <2>4
  <2> QED
    BY <1>2, <2>2, <2>3, <2>5, <2>6
<1>7. Len(ch.items) \in Nat
  BY <1>2 DEF Chunks
<1>8. ASSUME NEW k \in 1 .. Len(ch.items) + 1 PROVE qi[k] = y <=> k = j
  <2>1. qi[k] = ItemStart(ch, k)
    BY <1>1
  <2>2. k < j \/ k = j \/ j < k
    BY <1>2, <1>7
  <2>3. ItemStart(ch, k) \in Nat /\ ItemStart(ch, j) \in Nat
    BY <1>2, <1>5
  <2>4. k < j => ItemStart(ch, k) # ItemStart(ch, j)
    BY <1>2, <1>5, <2>3
  <2>5. j < k => ItemStart(ch, k) # ItemStart(ch, j)
    BY <1>2, <1>5, <2>3
  <2> QED
    BY <1>2, <2>1, <2>2, <2>4, <2>5
<1>9. (CHOOSE b \in DOMAIN cs : qc[b] = x) = c
  BY <1>2, <1>6
<1>10. (CHOOSE k \in DOMAIN qi : qi[k] = y) = j
  BY <1>2, <1>3, <1>8
<1> QED
  BY <1>9, <1>10 DEF cs, qc, qi, ChosenChunk, ChosenItem

LEMMA PlaceNow ==
  ASSUME NEW i, IsPacket(rtcppacklist[i]), NEW c, NEW j, At(i, c, j)
  PROVE  ChunkOf(i) = c /\ ItemOf(i) = j
<1> DEFINE q == rtcppacklist[i]
           x == currentchunk[i]
           y == itemoffset[i]
<1>1. /\ IsSDES(i) /\ c \in 1 .. Len(q.sent.chunks)
      /\ j \in 1 .. Len(q.sent.chunks[c].items) + 1
      /\ x = ChunkStart(q.sent.chunks, c)
      /\ y = ItemStart(q.sent.chunks[c], j)
  BY DEF At, InChunk, Chunk
<1>2. SDESPacket(q)
  BY <1>1, SDESPackets DEF IsSDES
<1>3. x # NullPointer
  BY <1>1, PlaceFacts DEF NullPointer
<1>4. ChunkOf(i) = ChosenChunk(q, x)
  BY <1>3 DEF ChunkOf, ChosenChunk
<1>5. ItemOf(i) = ChosenItem(q, ChunkOf(i), y)
  BY <1>3 DEF ItemOf, ChosenItem
<1> HIDE DEF q, x, y
<1>6. ChosenChunk(q, x) = c /\ ChosenItem(q, c, y) = j
  BY <1>1, <1>2, ChosenPlace
<1> QED
  BY <1>4, <1>5, <1>6

LEMMA PlaceNext ==
  ASSUME NEW i, IsPacket(rtcppacklist[i]), NEW c, NEW j, At(i, c, j)',
         rtcppacklist' = rtcppacklist, currentchunk'[i] # 0
  PROVE  ChunkOf(i)' = c /\ ItemOf(i)' = j
<1> DEFINE q == rtcppacklist[i]
           x == currentchunk'[i]
           y == itemoffset'[i]
<1>1. /\ IsSDES(i) /\ c \in 1 .. Len(q.sent.chunks)
      /\ j \in 1 .. Len(q.sent.chunks[c].items) + 1
      /\ x = ChunkStart(q.sent.chunks, c)
      /\ y = ItemStart(q.sent.chunks[c], j)
  BY DEF At, InChunk, Chunk, IsSDES
<1>2. SDESPacket(q)
  BY <1>1, SDESPackets DEF IsSDES
<1>3. x # NullPointer
  BY DEF NullPointer
<1>4. ChunkOf(i)' = ChosenChunk(q, x)
  BY <1>3 DEF ChunkOf, ChosenChunk
<1>5. ItemOf(i)' = ChosenItem(q, ChunkOf(i)', y)
  BY <1>3 DEF ItemOf, ChosenItem
<1> HIDE DEF q, x, y
<1>6. ChosenChunk(q, x) = c /\ ChosenItem(q, c, y) = j
  BY <1>1, <1>2, ChosenPlace
<1> QED
  BY <1>4, <1>5, <1>6

LEMMA NoPlace ==
  ASSUME NEW i, currentchunk[i] = 0
  PROVE  /\ ChunkOf(i) = 0 /\ ItemOf(i) = 0
         /\ GetChunkSSRC(i) = 0 /\ GetItemType(i) = 0 /\ GetItemLength(i) = 0
         /\ GetItemData(i) = 0
<1>1. ~ Iterating(i)
  BY NotIterating
<1> QED
  BY <1>1 DEF ChunkOf, ItemOf, GetChunkSSRC, GetItemType, GetItemLength, GetItemData, NullPointer

(* What the accessors return of a current item, and behind the last.        *)
LEMMA ItemAccessed ==
  ASSUME NEW i, IsPacket(rtcppacklist[i]), NEW c, NEW j, At(i, c, j),
         j <= Len(Chunk(i, c).items)
  PROVE  LET it == Chunk(i, c).items[j] IN
         /\ it \in Items
         /\ GetItemType(i) = it.sdesid /\ it.sdesid # 0
         /\ GetItemLength(i) = Len(it.text)
         /\ GetItemData(i) \in Nat
         /\ Stands(rtcppacklist[i].data, GetItemData(i), it.text)
         /\ it.text \in Seq(Byte)
<1> DEFINE it == Chunk(i, c).items[j]
           L == Len(Chunk(i, c).items)
<1>1. /\ InChunk(i, c) /\ j \in 1 .. L + 1 /\ j <= L
      /\ itemoffset[i] = ItemStart(Chunk(i, c), j)
  BY DEF At
<1>2. Chunk(i, c) \in Chunks /\ Iterating(i) /\ currentchunk[i] \in Nat
  BY <1>1, InChunkFacts
<1>3. j \in 1 .. L
  <2>1. L \in Nat
    BY <1>2 DEF Chunks
  <2> QED
    BY <1>1, <2>1
<1>4. /\ it \in Items /\ SdesId(i, itemoffset[i]) = it.sdesid /\ SdesId(i, itemoffset[i]) # 0
      /\ SdesLength(i, itemoffset[i]) = Len(it.text)
      /\ Stands(rtcppacklist[i].data, currentchunk[i] + itemoffset[i] + 2, it.text)
  BY <1>1, <1>3, ItemRead
<1>5. itemoffset[i] \in Nat
  BY <1>1, <1>2, ItemStartFacts
<1>6. it.text \in Seq(Byte)
  BY <1>4, ItemType
<1> HIDE DEF it
<1>7. GetItemType(i) = it.sdesid /\ it.sdesid # 0
  BY <1>2, <1>4 DEF GetItemType
<1>8. GetItemLength(i) = Len(it.text)
  BY <1>4, <1>7 DEF GetItemLength
<1>9. GetItemData(i) = currentchunk[i] + itemoffset[i] + 2
  BY <1>7 DEF GetItemData, SDESHeaderSize
<1>10. GetItemData(i) \in Nat
  BY <1>2, <1>5, <1>9
<1> QED
  BY <1>4, <1>6, <1>7, <1>8, <1>9, <1>10 DEF it

LEMMA EndAccessed ==
  ASSUME NEW i, IsPacket(rtcppacklist[i]), NEW c, NEW j, At(i, c, j),
         ~ (j <= Len(Chunk(i, c).items))
  PROVE  GetItemType(i) = 0 /\ GetItemLength(i) = 0 /\ GetItemData(i) = 0
<1> DEFINE L == Len(Chunk(i, c).items)
<1>1. /\ InChunk(i, c) /\ j \in 1 .. L + 1 /\ ~ (j <= L)
      /\ itemoffset[i] = ItemStart(Chunk(i, c), j)
  BY DEF At
<1>2. L \in Nat
  BY <1>1, InChunkFacts DEF Chunks
<1>3. j = L + 1
  BY <1>1, <1>2
<1>4. SdesId(i, itemoffset[i]) = 0
  BY <1>1, <1>3, EndRead DEF ItemsEnd
<1>5. GetItemType(i) = 0
  BY <1>4 DEF GetItemType
<1> QED
  BY <1>5 DEF GetItemLength, GetItemData, NullPointer

(* GetChunkSSRC, GetItemType, GetItemLength and GetItemData                 *)
(* (rtcpsdespacket.h) return what was sent of the chunk and the item that   *)
(* the iterations have come to, whatever the texts hold.                    *)
THEOREM ItemCorrect == Spec => []ItemIsWhatWasSent
<1>1. IInv => ItemIsWhatWasSent
  <2> SUFFICES ASSUME IInv, NEW i \in Indices
               PROVE  ItemIsRead(i)
    BY DEF ItemIsWhatWasSent
  <2>1. IsPacket(rtcppacklist[i]) /\ Placed(i)
    BY ListFacts DEF IInv, ListInv
  <2>2. CASE currentchunk[i] = 0
    BY <2>2, NoPlace DEF ItemIsRead, NoItemReturned, NullPointer
  <2>3. CASE currentchunk[i] # 0
    <3>1. PICK c \in Nat, j \in Nat : At(i, c, j)
      BY <2>1, <2>3 DEF Placed
    <3>2. ChunkOf(i) = c /\ ItemOf(i) = j
      BY <2>1, <3>1, PlaceNow
    <3> DEFINE ch == Chunk(i, c)
    <3>3. /\ c # 0 /\ GetChunkSSRC(i) = ch.ssrc /\ Len(ch.items) \in Nat
          /\ ch = rtcppacklist[i].sent.chunks[c] /\ rtcppacklist[i].data \in Seq(Byte)
      <4>1. InChunk(i, c) /\ c # 0
        BY <3>1 DEF At, InChunk
      <4>2. ch \in Chunks
        BY <2>1, <4>1, InChunkFacts
      <4>3. Len(ch.items) \in Nat
        BY <4>2 DEF Chunks
      <4> QED
        BY <2>1, <4>1, <4>3, InChunkFacts DEF Chunk
    <3>4. ASSUME j <= Len(ch.items) PROVE ItemReturned(i, ch.items[j])
      <4>1. /\ GetItemType(i) = ch.items[j].sdesid
            /\ GetItemLength(i) = Len(ch.items[j].text)
            /\ GetItemData(i) \in Nat /\ ch.items[j].text \in Seq(Byte)
            /\ Stands(rtcppacklist[i].data, GetItemData(i), ch.items[j].text)
        BY <2>1, <3>1, <3>4, ItemAccessed
      <4>2. Slice(rtcppacklist[i], GetItemData(i), GetItemLength(i)) = ch.items[j].text
        <5> DEFINE d == rtcppacklist[i].data
                   o == GetItemData(i)
                   x == ch.items[j].text
        <5>1. d \in Seq(Byte) /\ o \in Nat /\ x \in Seq(Byte) /\ Stands(d, o, x)
          BY <3>3, <4>1, Zenon
        <5> HIDE DEF ch, d, o, x
        <5>2. SubSeq(d, o + 1, o + Len(x)) = x
          BY <5>1, StandsSlice
        <5>3. GetItemLength(i) = Len(x)
          BY <4>1 DEF x
        <5>4. Slice(rtcppacklist[i], o, Len(x)) = SubSeq(d, o + 1, o + Len(x))
          BY DEF Slice, d
        <5>5. Slice(rtcppacklist[i], GetItemData(i), GetItemLength(i)) = x
          BY <5>2, <5>3, <5>4 DEF o
        <5> QED
          BY <5>5, Zenon DEF x
      <4> QED
        BY <4>1, <4>2 DEF ItemReturned
    <3>5. ASSUME ~ (j <= Len(ch.items)) PROVE NoItemReturned(i)
      BY <2>1, <3>1, <3>5, EndAccessed DEF NoItemReturned, NullPointer
    <3>6. j > Len(ch.items) => ~ (j <= Len(ch.items))
      BY <3>3
    <3> HIDE DEF ch
    <3> QED
      BY <3>2, <3>3, <3>4, <3>5, <3>6 DEF ItemIsRead
  <2> QED
    BY <2>2, <2>3
<1> QED
  BY <1>1, Invariance, PTL

LEMMA SubSeqFacts ==
  ASSUME NEW S, NEW t \in Seq(S), NEW a \in Nat, NEW m \in Nat, a + m <= Len(t)
  PROVE  /\ SubSeq(t, a + 1, a + m) \in Seq(S)
         /\ Len(SubSeq(t, a + 1, a + m)) = m
         /\ \A k \in 1 .. m : SubSeq(t, a + 1, a + m)[k] = t[a + k]
<1> DEFINE u == SubSeq(t, a + 1, a + m)
<1>1. u \in Seq(S) /\ Len(u) = m
  OBVIOUS
<1>2. ASSUME NEW k \in 1 .. m PROVE u[k] = t[a + k]
  <2>1. a + k \in 1 .. Len(t) /\ k + (a + 1) - 1 = a + k
    OBVIOUS
  <2> QED
    BY <1>1, <2>1
<1> QED
  BY <1>1, <1>2

(* A text is its first byte, as many as that byte says, and the rest.       *)
LEMMA TextSharedOut ==
  ASSUME NEW t \in Seq(Byte), NEW p \in Byte, p < Len(t), SameUpTo(<<p>>, t, 1)
  PROVE  /\ Len(SubSeq(t, 2, 1 + p)) = p
         /\ (<<p>> \o SubSeq(t, 2, 1 + p)) \o SubSeq(t, 2 + p, Len(t)) = t
<1> DEFINE n == Len(t)
           m == n - 1 - p
           o == 1 + p
           x == SubSeq(t, 1 + 1, 1 + p)
           y == SubSeq(t, o + 1, o + m)
           z == <<p>> \o x
<1>0. n \in Nat /\ m \in Nat /\ o \in Nat /\ p \in Nat
  BY ByteAssumption DEF Byte
<1>1. n = o + m /\ 2 + p = o + 1 /\ o = 1 + p
  BY <1>0
<1>2. n = Len(t)
  OBVIOUS
<1> HIDE DEF m, n, o
<1>3. x = SubSeq(t, 2, 1 + p) /\ y = SubSeq(t, 2 + p, n)
  <2>1. 1 + 1 = 2
    OBVIOUS
  <2> QED
    BY <1>0, <1>1, <2>1
<1>4. x \in Seq(Byte) /\ Len(x) = p /\ \A k \in 1 .. p : x[k] = t[1 + k]
  <2>1. 1 \in Nat /\ 1 + p <= Len(t)
    BY <1>0, <1>1, <1>2
  <2> QED
    BY <1>0, <2>1, SubSeqFacts
<1>5. y \in Seq(Byte) /\ Len(y) = m /\ \A k \in 1 .. m : y[k] = t[o + k]
  <2>1. o + m <= Len(t)
    BY <1>0, <1>1, <1>2
  <2> QED
    BY <1>0, <2>1, SubSeqFacts
<1> HIDE DEF x, y
<1>6. /\ <<p>> \o x \in Seq(Byte) /\ Len(<<p>> \o x) = 1 + Len(x)
      /\ (<<p>> \o x)[1] = p
      /\ \A k \in 1 .. Len(x) : (<<p>> \o x)[k + 1] = x[k]
  BY <1>4, WordBefore
<1>7. /\ z \in Seq(Byte) /\ Len(z) = 1 + p /\ z[1] = p
      /\ \A k \in 1 .. p : z[k + 1] = x[k]
  BY <1>4, <1>6
<1> HIDE DEF z
<1>8. z \o y \in Seq(Byte) /\ Len(z \o y) = n
  <2>1. z \o y \in Seq(Byte) /\ Len(z \o y) = Len(z) + Len(y)
    BY <1>5, <1>7, ConcatFacts
  <2> QED
    BY <1>0, <1>1, <1>5, <1>7, <2>1
<1>9. z \in Seq(Byte) /\ y \in Seq(Byte)
  BY <1>5, <1>7
<1>10. /\ \A k \in 1 .. Len(z) : (z \o y)[k] = z[k]
       /\ \A k \in 1 .. Len(y) : (z \o y)[Len(z) + k] = y[k]
  BY <1>9
<1>11. ASSUME NEW k \in 1 .. n PROVE (z \o y)[k] = t[k]
  <2>1. CASE k = 1
    <3>1. 1 \in 1 .. Len(z)
      BY <1>0, <1>7
    <3> QED
      BY <1>7, <1>10, <2>1, <3>1 DEF SameUpTo
  <2>2. CASE k # 1 /\ k <= 1 + p
    <3>1. k \in 1 .. Len(z) /\ k - 1 \in 1 .. p /\ (k - 1) + 1 = k /\ 1 + (k - 1) = k
      <4>1. \A a \in Nat, l \in Nat : l # 1 /\ 1 <= l /\ l <= 1 + a =>
              l \in 1 .. 1 + a /\ l - 1 \in 1 .. a /\ (l - 1) + 1 = l /\ 1 + (l - 1) = l
        OBVIOUS
      <4>2. k \in Nat /\ 1 <= k
        BY <1>0
      <4>3. 1 .. Len(z) = 1 .. 1 + p
        BY <1>7
      <4> QED
        BY <1>0, <2>2, <4>1, <4>2, <4>3
    <3>2. z[(k - 1) + 1] = x[k - 1] /\ x[k - 1] = t[1 + (k - 1)]
      BY <1>4, <1>7, <3>1
    <3> QED
      BY <1>10, <3>1, <3>2
  <2>3. CASE ~ (k <= 1 + p)
    <3>1. k - o \in 1 .. m /\ o + (k - o) = k
      <4>1. \A b \in Nat, c \in Nat, l \in Nat : l <= b + c /\ ~ (l <= b) =>
              l - b \in 1 .. c /\ b + (l - b) = l
        OBVIOUS
      <4>2. k \in Nat /\ k <= o + m /\ ~ (k <= o)
        BY <1>0, <1>1, <2>3
      <4> QED
        BY <1>0, <4>1, <4>2
    <3>2. (z \o y)[o + (k - o)] = y[k - o]
      BY <1>0, <1>1, <1>5, <1>7, <1>10, <3>1
    <3>3. y[k - o] = t[o + (k - o)]
      BY <1>5, <3>1
    <3> QED
      BY <3>1, <3>2, <3>3
  <2> QED
    BY <2>1, <2>2, <2>3
<1>12. z \o y = t
  <2> DEFINE u == z \o y
  <2>1. u \in Seq(Byte) /\ Len(u) = n /\ \A k \in 1 .. n : u[k] = t[k]
    BY <1>8, <1>11
  <2> HIDE DEF u
  <2>2. u = t
    BY <1>2, <2>1
  <2> QED
    BY <2>2 DEF u
<1> QED
  <2>1. (<<p>> \o SubSeq(t, 2, 1 + p)) \o SubSeq(t, 2 + p, n) = t
    BY <1>3, <1>12 DEF z
  <2> QED
    BY <1>2, <1>3, <1>4, <2>1

LEMMA NotPRIV ==
  ASSUME NEW i, rtcppacklist[i].data \in Seq(Byte), ~ IsPRIV(i)
  PROVE  /\ Slice(rtcppacklist[i], GetPRIVPrefixData(i), GetPRIVPrefixLength(i)) = <<>>
         /\ Slice(rtcppacklist[i], GetPRIVValueData(i), GetPRIVValueLength(i)) = <<>>
<1>1. GetPRIVPrefixLength(i) = 0 /\ GetPRIVValueLength(i) = 0
  BY DEF GetPRIVPrefixLength, GetPRIVValueLength
<1>2. GetPRIVPrefixData(i) = 0 /\ GetPRIVValueData(i) = 0
  BY <1>1 DEF GetPRIVPrefixData, GetPRIVValueData, NullPointer
<1> QED
  BY <1>1, <1>2, EmptySlice

LEMMA PRIVItemShared ==
  ASSUME NEW i, IsPacket(rtcppacklist[i]), NEW c, NEW j, At(i, c, j),
         j <= Len(Chunk(i, c).items), GetItemType(i) = PRIV
  PROVE  PRIVIsShared(i)
<1> DEFINE q == rtcppacklist[i]
           t == Chunk(i, c).items[j].text
           d == GetItemData(i)
           p == PrefixByte(i)
<1>1. /\ GetItemLength(i) = Len(t) /\ d \in Nat /\ t \in Seq(Byte)
      /\ Stands(q.data, d, t)
  BY ItemAccessed
<1>2. q.data \in Seq(Byte)
  BY AnyPacket
<1>3. q = rtcppacklist[i] /\ d = GetItemData(i) /\ p = PrefixByte(i)
  OBVIOUS
<1> HIDE DEF t
<1>4. Slice(q, d, GetItemLength(i)) = t
  BY <1>1, <1>2, StandsSlice DEF Slice
<1>5. Len(t) \in Nat /\ (t = <<>> <=> Len(t) = 0)
  BY <1>1
<1>6. t # <<>> => p = t[1] /\ p \in Nat /\ Head(t) = p
  <2> SUFFICES ASSUME t # <<>> PROVE p = t[1] /\ p \in Nat /\ Head(t) = p
    OBVIOUS
  <2>1. 0 \in 0 .. Len(t) - 1 /\ d + 0 = d
    BY <1>1, <1>5
  <2>2. ByteAt(q, d + 0) = t[0 + 1]
    BY <1>1, <1>2, <2>1, ByteStands
  <2>3. p = t[1]
    BY <2>1, <2>2 DEF PrefixByte
  <2>4. t[1] \in Byte /\ Head(t) = t[1]
    BY <1>1, <1>5
  <2>5. t[1] \in Nat
    BY <2>4, ByteAssumption DEF Byte
  <2> QED
    BY <2>3, <2>4, <2>5
<1> HIDE DEF d, p, q
<1>7. IsPRIV(i) <=> t # <<>> /\ Head(t) < Len(t)
  <2>1. IsPRIV(i) <=> Len(t) # 0 /\ p <= Len(t) - 1
    BY <1>1, <1>3 DEF IsPRIV
  <2>2. t # <<>> => (p <= Len(t) - 1 <=> Head(t) < Len(t))
    BY <1>5, <1>6
  <2> QED
    BY <1>5, <2>1, <2>2
<1>8. CASE IsPRIV(i)
  <2> DEFINE x == Slice(q, GetPRIVPrefixData(i), GetPRIVPrefixLength(i))
             y == Slice(q, GetPRIVValueData(i), GetPRIVValueLength(i))
  <2>1. t # <<>> /\ Head(t) < Len(t) /\ p = t[1] /\ p \in Nat /\ p < Len(t) /\ Len(t) \in Nat
    BY <1>5, <1>6, <1>7, <1>8
  <2>9. p \in Nat /\ Len(t) \in Nat /\ p < Len(t)
    BY <2>1
  <2>10. d \in Nat /\ t \in Seq(Byte) /\ Stands(q.data, d, t) /\ q.data \in Seq(Byte) /\ 1 \in Nat
    BY <1>1, <1>2
  <2>11. p \in Byte /\ SameUpTo(<<p>>, t, 1)
    <3>1. t[1] \in Byte
      BY <1>1, <2>1
    <3> QED
      BY <2>1, <3>1 DEF SameUpTo
  <2>2. GetPRIVPrefixLength(i) = p /\ GetPRIVValueLength(i) = Len(t) - p - 1
    BY <1>1, <1>3, <1>8 DEF GetPRIVPrefixLength, GetPRIVValueLength
  <2>3. x = SubSeq(t, 2, 1 + p)
    <3>1. CASE p = 0
      <4>1. GetPRIVPrefixData(i) = 0
        BY <2>2, <3>1 DEF GetPRIVPrefixData, NullPointer
      <4>2. Slice(q, 0, 0) = <<>> /\ SubSeq(t, 2, 1 + 0) = <<>>
        BY <1>1, <1>2, EmptySlice
      <4> QED
        BY <2>2, <3>1, <4>1, <4>2
    <3>2. CASE p # 0
      <4>1. GetPRIVPrefixData(i) = d + 1
        BY <1>3, <2>2, <3>2 DEF GetPRIVPrefixData
      <4>2. 1 + p <= Len(t)
        BY <2>9
      <4>3. Slice(q, d + 1, p) = SubSeq(t, 1 + 1, 1 + p)
        BY <2>9, <2>10, <4>2, SliceStands
      <4> QED
        BY <2>2, <4>1, <4>3
    <3> QED
      BY <3>1, <3>2
  <2>4. y = SubSeq(t, 2 + p, Len(t))
    <3>1. CASE Len(t) - p - 1 = 0
      <4>1. GetPRIVValueData(i) = 0
        BY <2>2, <3>1 DEF GetPRIVValueData, NullPointer
      <4>2. Slice(q, 0, 0) = <<>>
        BY <1>2, EmptySlice
      <4>3. SubSeq(t, 2 + p, Len(t)) = <<>>
        BY <1>1, <2>1, <3>1
      <4> QED
        BY <2>2, <3>1, <4>1, <4>2, <4>3
    <3>2. CASE Len(t) - p - 1 # 0
      <4>1. GetPRIVValueData(i) = d + 1 + p
        BY <1>3, <2>2, <3>2 DEF GetPRIVValueData
      <4>2. /\ d + 1 + p = d + (1 + p) /\ 1 + p \in Nat /\ Len(t) - p - 1 \in Nat
            /\ (1 + p) + (Len(t) - p - 1) = Len(t) /\ (1 + p) + 1 = 2 + p
        <5> HIDE DEF x, y
        <5>1. d \in Nat /\ p \in Nat /\ Len(t) \in Nat /\ p < Len(t)
          BY <1>1, <2>1
        <5>2. \A a \in Nat, b \in Nat, n \in Nat : b < n =>
                /\ a + 1 + b = a + (1 + b) /\ 1 + b \in Nat /\ n - b - 1 \in Nat
                /\ (1 + b) + (n - b - 1) = n /\ (1 + b) + 1 = 2 + b
          OBVIOUS
        <5> QED
          BY <5>1, <5>2
      <4>3. (1 + p) + (Len(t) - p - 1) <= Len(t)
        <5> HIDE DEF x, y
        <5>1. \A b \in Nat, n \in Nat : b < n => (1 + b) + (n - b - 1) <= n
          OBVIOUS
        <5> QED
          BY <2>9, <5>1
      <4>4. Slice(q, d + (1 + p), Len(t) - p - 1)
              = SubSeq(t, (1 + p) + 1, (1 + p) + (Len(t) - p - 1))
        <5> DEFINE o == 1 + p
                   m == Len(t) - p - 1
        <5>1. o \in Nat /\ m \in Nat /\ o + m <= Len(t)
          BY <4>2, <4>3
        <5> HIDE DEF o, m, x, y
        <5>2. \A a \in Nat, n \in Nat : a + n <= Len(t) =>
                Slice(q, d + a, n) = SubSeq(t, a + 1, a + n)
          BY <2>10, SliceStands
        <5>3. Slice(q, d + o, m) = SubSeq(t, o + 1, o + m)
          BY <5>1, <5>2
        <5> QED
          BY <5>3 DEF o, m
      <4> QED
        BY <2>2, <4>1, <4>2, <4>4
    <3> QED
      BY <3>1, <3>2
  <2>5. Len(x) = p /\ (<<p>> \o x) \o y = t
    BY <2>9, <2>10, <2>11, <2>3, <2>4, TextSharedOut
  <2> HIDE DEF x, y
  <2>6. (<<Len(x)>> \o x) \o y = t
    BY <2>5
  <2> QED
    BY <1>3, <1>4, <2>1, <2>6 DEF PRIVIsShared, x, y
<1>9. CASE ~ IsPRIV(i)
  BY <1>2, <1>3, <1>4, <1>7, <1>9, NotPRIV DEF PRIVIsShared
<1> QED
  BY <1>8, <1>9

(* GetPRIVPrefix* and GetPRIVValue* (rtcpsdespacket.h) share out the text   *)
(* of a private item, whatever its first byte says, and have nothing of     *)
(* another item.                                                            *)
THEOREM PRIVCorrect == Spec => []PRIVSharesOutItem
<1>1. IInv => PRIVSharesOutItem
  <2> SUFFICES ASSUME IInv, NEW i \in Indices PROVE PRIVIsShared(i)
    BY DEF PRIVSharesOutItem, PRIVIsShared
  <2>1. IsPacket(rtcppacklist[i]) /\ Placed(i)
    BY ListFacts DEF IInv, ListInv
  <2>2. CASE GetItemType(i) # PRIV
    <3>1. ~ IsPRIV(i)
      BY <2>2 DEF IsPRIV
    <3>2. rtcppacklist[i].data \in Seq(Byte)
      BY <2>1, AnyPacket
    <3> QED
      BY <2>2, <3>1, <3>2, NotPRIV DEF PRIVIsShared
  <2>3. CASE GetItemType(i) = PRIV
    <3>1. currentchunk[i] # 0
      BY <2>3, NoPlace DEF PRIV
    <3>2. PICK c \in Nat, j \in Nat : At(i, c, j)
      BY <2>1, <3>1 DEF Placed
    <3>3. j <= Len(Chunk(i, c).items)
      BY <2>1, <2>3, <3>2, EndAccessed DEF PRIV
    <3> QED
      BY <2>1, <2>3, <3>2, <3>3, PRIVItemShared
  <2> QED
    BY <2>2, <2>3
<1> QED
  BY <1>1, Invariance, PTL

-----------------------------------------------------------------------------
(* The positions that the abstract iterations have.                         *)
LEMMA SizesFacts ==
  ASSUME NEW i, IsPacket(rtcppacklist[i]), IsSDES(i)
  PROVE  LET cs == rtcppacklist[i].sent.chunks
             sizes == Sizes(rtcppacklist[i])
         IN  /\ Len(cs) \in Nat /\ DOMAIN cs = 1 .. Len(cs)
             /\ Len(sizes) = Len(cs) /\ sizes \in Seq(Nat)
             /\ \A c \in 1 .. Len(cs) : sizes[c] = Len(Chunk(i, c).items)
<1> DEFINE cs == rtcppacklist[i].sent.chunks
           sizes == Sizes(rtcppacklist[i])
<1>1. cs \in Seq(Chunks)
  BY SDESPackets DEF IsSDES, SDESPacket
<1>2. Len(cs) \in Nat /\ DOMAIN cs = 1 .. Len(cs)
  BY <1>1
<1>3. sizes = [c \in DOMAIN cs |-> Len(cs[c].items)]
  BY DEF Sizes, IsSDES
<1>4. \A c \in 1 .. Len(cs) : cs[c] = Chunk(i, c)
  BY DEF Chunk
<1>5. \A c \in 1 .. Len(cs) : Len(cs[c].items) \in Nat
  <2>1. \A ch \in Chunks : Len(ch.items) \in Nat
    BY DEF Chunks
  <2> QED
    BY <1>1, <2>1
<1> HIDE DEF cs, sizes
<1>6. sizes = [c \in 1 .. Len(cs) |-> Len(cs[c].items)]
  BY <1>2, <1>3
<1>7. sizes \in Seq(Nat) /\ Len(sizes) = Len(cs)
  BY <1>2, <1>5, <1>6
<1>8. \A c \in 1 .. Len(cs) : sizes[c] = Len(Chunk(i, c).items)
  BY <1>4, <1>6
<1> QED
  BY <1>2, <1>7, <1>8 DEF cs, sizes

LEMMA NoSizes ==
  ASSUME NEW i, IsPacket(rtcppacklist[i]),
         ~ rtcppacklist[i].knownformat \/ rtcppacklist[i].sent.chunks = <<>>
  PROVE  Sizes(rtcppacklist[i]) = <<>>
BY DEF Sizes

LEMMA SizesType ==
  ASSUME NEW i, IsPacket(rtcppacklist[i])
  PROVE  Sizes(rtcppacklist[i]) \in Seq(Nat)
<1>1. CASE IsSDES(i)
  BY <1>1, SizesFacts
<1>2. CASE ~ IsSDES(i)
  BY <1>2 DEF Sizes, IsSDES
<1> QED
  BY <1>1, <1>2

LEMMA SameIteration ==
  ASSUME rtcppacklist' = rtcppacklist, currentchunk' = currentchunk, itemoffset' = itemoffset
  PROVE  /\ [i \in Indices |-> Sizes(rtcppacklist[i])]' = [i \in Indices |-> Sizes(rtcppacklist[i])]
         /\ [i \in Indices |-> ChunkOf(i)]' = [i \in Indices |-> ChunkOf(i)]
         /\ [i \in Indices |-> ItemOf(i)]' = [i \in Indices |-> ItemOf(i)]
BY DEF Indices, ChunkOf, ItemOf

LEMMA SamePosition ==
  ASSUME NEW k, rtcppacklist' = rtcppacklist, currentchunk'[k] = currentchunk[k],
         itemoffset'[k] = itemoffset[k]
  PROVE  ChunkOf(k)' = ChunkOf(k) /\ ItemOf(k)' = ItemOf(k)
<1>1. ChunkOf(k)' = ChunkOf(k)
  BY DEF ChunkOf
<1> QED
  BY <1>1 DEF ItemOf

LEMMA MovesTo ==
  ASSUME NEW i \in Indices, rtcppacklist' = rtcppacklist,
         NEW c, NEW j, ChunkOf(i)' = c, ItemOf(i)' = j,
         \A k \in Indices : k # i =>
           currentchunk'[k] = currentchunk[k] /\ itemoffset'[k] = itemoffset[k]
  PROVE  Iteration!MoveTo(i, c, j)
<1>1. Indices' = Indices
  BY DEF Indices
<1>2. ASSUME NEW k \in Indices, k # i
      PROVE  ChunkOf(k)' = ChunkOf(k) /\ ItemOf(k)' = ItemOf(k)
  <2>1. currentchunk'[k] = currentchunk[k] /\ itemoffset'[k] = itemoffset[k]
    BY <1>2
  <2> QED
    BY <2>1, SamePosition
<1>3. [k \in Indices |-> ChunkOf(k)]' = [[k \in Indices |-> ChunkOf(k)] EXCEPT ![i] = c]
  BY <1>1, <1>2
<1>4. [k \in Indices |-> ItemOf(k)]' = [[k \in Indices |-> ItemOf(k)] EXCEPT ![i] = j]
  BY <1>1, <1>2
<1>5. [k \in Indices |-> Sizes(rtcppacklist[k])]' = [k \in Indices |-> Sizes(rtcppacklist[k])]
  BY <1>1
<1> QED
  BY <1>3, <1>4, <1>5 DEF Iteration!MoveTo

LEMMA GoesMoves ==
  ASSUME IInv, NEW i \in Indices, NEW c \in Nat, NEW j \in Nat, Goes(i, c, j),
         UNCHANGED <<rtcppacklist, listVars>>, ret' \in BOOLEAN
  PROVE  Iteration!MoveTo(i, c, j)
<1>1. At(i, c, j)' /\ currentchunk'[i] # 0
  BY GoesPlaces
<1>2. IsPacket(rtcppacklist[i])
  BY ListFacts DEF IInv, ListInv
<1>3. ChunkOf(i)' = c /\ ItemOf(i)' = j
  BY <1>1, <1>2, PlaceNext
<1>4. \A k \in Indices : k # i =>
        currentchunk'[k] = currentchunk[k] /\ itemoffset'[k] = itemoffset[k]
  BY DEF Goes, IInv, IterationTypes
<1> QED
  BY <1>3, <1>4, MovesTo

LEMMA LeavesMoves ==
  ASSUME IInv, NEW i \in Indices, Leaves(i), UNCHANGED <<rtcppacklist, listVars>>
  PROVE  Iteration!MoveTo(i, 0, 0)
<1>1. currentchunk'[i] = 0
  BY DEF Leaves, IInv, IterationTypes
<1>2. ChunkOf(i)' = 0 /\ ItemOf(i)' = 0
  BY <1>1 DEF ChunkOf, ItemOf, NullPointer
<1>3. \A k \in Indices : k # i =>
        currentchunk'[k] = currentchunk[k] /\ itemoffset'[k] = itemoffset[k]
  BY DEF Leaves, IInv, IterationTypes
<1> QED
  BY <1>2, <1>3, MovesTo

LEMMA StaysMoves ==
  ASSUME Stays, UNCHANGED <<rtcppacklist, listVars>>
  PROVE  Iteration!Stay
BY SameIteration DEF Stays, Iteration!Stay

(* Each call on the iterations is a move of the abstract ones.              *)
LEMMA CallMoves ==
  ASSUME IInv, NEW i \in Indices, Call(i), UNCHANGED <<rtcppacklist, listVars>>
  PROVE  \/ Iteration!FirstChunk(i) \/ Iteration!NextChunk(i)
         \/ Iteration!FirstItem(i) \/ Iteration!NextItem(i)
<1> DEFINE q == rtcppacklist[i]
           cs == q.sent.chunks
<1>1. IsPacket(q)
  BY ListFacts DEF IInv, ListInv
<1>2. CASE (~ q.knownformat \/ cs = <<>>) /\ ret' = FALSE /\ Leaves(i)
  <2>1. Sizes(q) = <<>>
    BY <1>1, <1>2, NoSizes
  <2>2. Iteration!MoveTo(i, 0, 0)
    BY <1>2, LeavesMoves
  <2> QED
    BY <1>2, <2>1, <2>2 DEF Iteration!FirstChunk
<1>3. CASE cs # <<>> /\ ret' = TRUE /\ Goes(i, 1, 1)
  <2>1. IsSDES(i) /\ 1 \in 1 .. Len(cs)
    BY <1>3 DEF Goes
  <2>2. Sizes(q) # <<>>
    <3>1. Len(Sizes(q)) = Len(cs) /\ Len(cs) \in Nat
      BY <1>1, <2>1, SizesFacts
    <3>2. Len(<<>>) = 0
      OBVIOUS
    <3> HIDE DEF q, cs
    <3> QED
      BY <2>1, <3>1, <3>2
  <2>3. Iteration!MoveTo(i, 1, 1)
    BY <1>3, GoesMoves
  <2> QED
    BY <1>3, <2>2, <2>3 DEF Iteration!FirstChunk
<1>4. CASE currentchunk[i] = 0 /\ Stays
  <2>1. ChunkOf(i) = 0
    BY <1>4, NoPlace
  <2>2. Iteration!Stay
    BY <1>4, StaysMoves
  <2> QED
    BY <2>1, <2>2 DEF Iteration!FirstItem
<1>5. ASSUME NEW c \in Nat, NEW j \in Nat, At(i, c, j),
             \/ c < Len(cs) /\ ret' = TRUE /\ Goes(i, c + 1, 1)
             \/ c = Len(cs) /\ Stays
             \/ ret' = Has(i, c, 1) /\ Goes(i, c, 1)
             \/ j < Len(Chunk(i, c).items) /\ ret' = TRUE /\ Goes(i, c, j + 1)
             \/ j >= Len(Chunk(i, c).items) /\ Stays
      PROVE  \/ Iteration!FirstChunk(i) \/ Iteration!NextChunk(i)
             \/ Iteration!FirstItem(i) \/ Iteration!NextItem(i)
  <2> DEFINE L == Len(Chunk(i, c).items)
  <2>1. ChunkOf(i) = c /\ ItemOf(i) = j
    BY <1>1, <1>5, PlaceNow
  <2>2. IsSDES(i) /\ c \in 1 .. Len(cs) /\ j \in 1 .. L + 1
    BY <1>5 DEF At, InChunk
  <2>3. Len(Sizes(q)) = Len(cs) /\ Sizes(q)[c] = L /\ Len(cs) \in Nat /\ L \in Nat
    BY <1>1, <2>2, SizesFacts, PlaceFacts
  <2>4. c # 0 /\ c + 1 \in Nat /\ j + 1 \in Nat /\ 1 \in Nat
    BY <2>2
  <2> HIDE DEF L
  <2>5. CASE c < Len(cs) /\ ret' = TRUE /\ Goes(i, c + 1, 1)
    <3>1. Iteration!MoveTo(i, c + 1, 1)
      BY <2>4, <2>5, GoesMoves
    <3>2. c \in 1 .. Len(Sizes(q)) - 1
      BY <2>2, <2>3, <2>5
    <3> QED
      BY <2>1, <2>5, <3>1, <3>2 DEF Iteration!NextChunk
  <2>6. CASE c = Len(cs) /\ Stays
    <3>1. Iteration!Stay
      BY <2>6, StaysMoves
    <3>2. c \notin 1 .. Len(Sizes(q)) - 1
      BY <2>2, <2>3, <2>6
    <3> QED
      BY <2>1, <3>1, <3>2 DEF Iteration!NextChunk
  <2>7. CASE ret' = Has(i, c, 1) /\ Goes(i, c, 1)
    <3>1. Has(i, c, 1) \in BOOLEAN /\ (Has(i, c, 1) <=> L > 0)
      BY <2>3 DEF Has, L
    <3>2. Iteration!MoveTo(i, c, 1)
      BY <2>4, <2>7, <3>1, GoesMoves
    <3>3. ret' = (L > 0)
      BY <2>7, <3>1
    <3> QED
      BY <2>1, <2>3, <2>4, <3>2, <3>3 DEF Iteration!FirstItem
  <2>8. CASE j < L /\ ret' = TRUE /\ Goes(i, c, j + 1)
    <3>1. Iteration!MoveTo(i, c, j + 1)
      BY <2>4, <2>8, GoesMoves
    <3> QED
      BY <2>1, <2>3, <2>4, <2>8, <3>1 DEF Iteration!NextItem
  <2>9. CASE j >= L /\ Stays
    <3>1. Iteration!Stay
      BY <2>9, StaysMoves
    <3> QED
      BY <2>1, <2>3, <2>9, <3>1 DEF Iteration!NextItem
  <2> QED
    BY <1>5, <2>5, <2>6, <2>7, <2>8, <2>9 DEF L
<1> QED
  BY <1>2, <1>3, <1>4, <1>5 DEF Call

(* GotoFirstChunk, GotoNextChunk, GotoFirstItem and GotoNextItem            *)
(* (rtcpsdespacket.h), on any packets and in any order of calls, visit the  *)
(* chunks and the items that were sent one after the other, and say when    *)
(* there is none left.                                                      *)
THEOREM IterationCorrect == Spec => IteratesOverWhatWasSent
<1>1. Init => Iteration!Init
  <2> SUFFICES ASSUME Init PROVE Iteration!Init
    OBVIOUS
  <2>1. Len(rtcppacklist) \in Nat /\ Indices = 1 .. Len(rtcppacklist)
    BY ListFacts DEF Init
  <2>2. \A i \in Indices : Sizes(rtcppacklist[i]) \in Seq(Nat)
    BY ListFacts, SizesType DEF Init
  <2>3. [i \in Indices |-> Sizes(rtcppacklist[i])] \in Seq(Seq(Nat))
    BY <2>1, <2>2
  <2>4. \A i \in Indices : ChunkOf(i) = 0 /\ ItemOf(i) = 0
    BY NoPlace DEF Init, NullPointer
  <2>5. ret = FALSE
    BY DEF Init
  <2> QED
    BY <2>3, <2>4, <2>5 DEF Iteration!Init
<1>2. IInv /\ [Next]_vars => [Iteration!Next]_(Iteration!vars)
  <2> SUFFICES ASSUME IInv, [Next]_vars PROVE [Iteration!Next]_(Iteration!vars)
    OBVIOUS
  <2>1. CASE GotoFirstPacket
    BY <2>1, SameIteration DEF GotoFirstPacket, sdesVars, Iteration!vars
  <2>2. CASE GetNextPacket
    BY <2>2, SameIteration DEF GetNextPacket, sdesVars, Iteration!vars
  <2>3. CASE current # 0 /\ SDESCall(current)
    <3>1. current \in Indices
      BY <2>3, ListFacts DEF IInv, ListInv
    <3>2. \/ Iteration!FirstChunk(current) \/ Iteration!NextChunk(current)
          \/ Iteration!FirstItem(current) \/ Iteration!NextItem(current)
      BY <2>3, <3>1, SDESCalls, CallMoves
    <3>3. DOMAIN [i \in Indices |-> Sizes(rtcppacklist[i])] = Indices
      OBVIOUS
    <3> QED
      BY <3>1, <3>2, <3>3 DEF Iteration!Next
  <2>4. CASE UNCHANGED vars
    BY <2>4, SameIteration DEF vars, sdesVars, Iteration!vars
  <2> QED
    BY <2>1, <2>2, <2>3, <2>4 DEF Next
<1> QED
  BY <1>1, <1>2, Invariance, PTL DEF Spec, IteratesOverWhatWasSent, Iteration!Spec
=============================================================================
