---------------------- MODULE CompoundPacketBuilderProofs ----------------------
(***************************************************************************)
(* Proofs about CompoundPacketBuilder, for headers that count any number of *)
(* entries, any limits, any items and any other packets.                    *)
(***************************************************************************)
EXTENDS CompoundPacketBuilder, WellFoundedInduction, TLAPS

-----------------------------------------------------------------------------
(* Every set of natural numbers has a least element.                        *)
LEMMA LeastNatural ==
  ASSUME NEW T, T \subseteq Nat, T # {}
  PROVE  \E x \in T : \A y \in T : x <= y
<1> DEFINE R == OpToRel(<, Nat)
<1>1. IsWellFoundedOn(R, Nat)
  BY NatLessThanWellFounded
<1>2. PICK x \in T : \A y \in T : ~ (<<y, x>> \in R)
  <2> HIDE DEF R
  <2> QED
    BY <1>1, WFMin
<1>3. \A y \in T : x <= y
  <2> SUFFICES ASSUME NEW y \in T PROVE x <= y
    OBVIOUS
  <2>1. <<y, x>> \in Nat \X Nat /\ x \in Nat /\ y \in Nat
    OBVIOUS
  <2>2. y < x => <<y, x>> \in R
    BY <2>1 DEF OpToRel
  <2> HIDE DEF R
  <2> QED
    BY <1>2, <2>1, <2>2
<1> QED
  BY <1>3

(* The partial sums of the first m numbers of s.                            *)
PartialSums(g, s, m) ==
  /\ g[0] = 0
  /\ \A n \in 1 .. m : g[n] = g[n - 1] + s[n]

LEMMA PartialSumsExist ==
  ASSUME NEW s \in Seq(Nat)
  PROVE  \E g \in [0 .. Len(s) -> Nat] : PartialSums(g, s, Len(s))
<1> DEFINE Summed(m) == \E g \in [0 .. m -> Nat] : PartialSums(g, s, m)
           Lacking   == {m \in 0 .. Len(s) : ~ Summed(m)}
<1>1. Lacking = {}
  <2> SUFFICES ASSUME Lacking # {} PROVE FALSE
    OBVIOUS
  <2>1. PICK m \in Lacking : \A k \in Lacking : m <= k
    <3>1. Lacking \subseteq Nat
      OBVIOUS
    <3> HIDE DEF Lacking
    <3> QED
      BY <3>1, LeastNatural
  <2>2. m \in 0 .. Len(s) /\ Len(s) \in Nat
    OBVIOUS
  <2>3. CASE m = 0
    <3>1. PartialSums([n \in 0 .. 0 |-> 0], s, 0)
      BY DEF PartialSums
    <3> QED
      BY <2>3, <3>1
  <2>4. CASE m # 0
    <3>1. m - 1 \in 0 .. Len(s) /\ m - 1 \notin Lacking
      <4>1. m - 1 \in 0 .. Len(s) /\ ~ (m <= m - 1)
        BY <2>2, <2>4
      <4> HIDE DEF Lacking
      <4> QED
        BY <2>1, <4>1
    <3>2. PICK g \in [0 .. m - 1 -> Nat] : PartialSums(g, s, m - 1)
      BY <3>1
    <3> DEFINE h == [n \in 0 .. m |-> IF n = m THEN g[m - 1] + s[m] ELSE g[n]]
    <3>3. s[m] \in Nat /\ g[m - 1] \in Nat /\ \A n \in 0 .. m - 1 : g[n] \in Nat
      BY <2>2, <2>4, <3>2 DEF PartialSums
    <3>4. h \in [0 .. m -> Nat] /\ h[0] = 0
      BY <2>2, <2>4, <3>2, <3>3 DEF PartialSums
    <3>5. ASSUME NEW n \in 1 .. m PROVE h[n] = h[n - 1] + s[n]
      BY <2>2, <2>4, <3>2 DEF PartialSums
    <3>6. PartialSums(h, s, m)
      BY <3>4, <3>5 DEF PartialSums
    <3>7. Summed(m)
      BY <3>4, <3>6
    <3> QED
      BY <3>7
  <2> QED
    BY <2>3, <2>4
<1>2. Len(s) \in 0 .. Len(s)
  OBVIOUS
<1> QED
  BY <1>1, <1>2

(* The partial sums of a longer list begin with those of a shorter one.     *)
LEMMA PartialSumsAgree ==
  ASSUME NEW s, NEW t, NEW m \in Nat, NEW k \in Nat, m <= k,
         NEW g, NEW h, PartialSums(g, s, m), PartialSums(h, t, k),
         \A n \in 1 .. m : s[n] = t[n]
  PROVE  g[m] = h[m]
<1> DEFINE Wrong == {n \in 0 .. m : g[n] # h[n]}
<1>1. Wrong = {}
  <2> SUFFICES ASSUME Wrong # {} PROVE FALSE
    OBVIOUS
  <2>1. PICK n \in Wrong : \A j \in Wrong : n <= j
    <3>1. Wrong \subseteq Nat
      OBVIOUS
    <3> HIDE DEF Wrong
    <3> QED
      BY <3>1, LeastNatural
  <2>2. n \in 1 .. m
    BY DEF PartialSums
  <2>3. n - 1 \in 0 .. m /\ n - 1 \notin Wrong
    BY <2>1, <2>2
  <2> QED
    BY <2>2, <2>3 DEF PartialSums
<1> QED
  BY <1>1

(* Total is the last of the partial sums.                                   *)
LEMMA TotalIsSum ==
  ASSUME NEW s \in Seq(Nat)
  PROVE  \E g \in [0 .. Len(s) -> Nat] :
           PartialSums(g, s, Len(s)) /\ Total(s) = g[Len(s)]
<1> DEFINE Def(g) == [n \in 0 .. Len(s) |-> IF n = 0 THEN 0 ELSE g[n - 1] + s[n]]
           upto == CHOOSE g : g = Def(g)
<1>1. Total(s) = upto[Len(s)]
  BY DEF Total
<1>2. PICK g \in [0 .. Len(s) -> Nat] : PartialSums(g, s, Len(s))
  BY PartialSumsExist
<1>3. g = Def(g)
  BY <1>2 DEF PartialSums
<1>4. upto = Def(upto)
  <2> HIDE DEF Def
  <2> QED
    BY <1>3
<1> HIDE DEF upto
<1>5. PartialSums(upto, s, Len(s))
  <2>1. upto = [n \in 0 .. Len(s) |-> IF n = 0 THEN 0 ELSE upto[n - 1] + s[n]]
    BY <1>4
  <2>2. Len(s) \in Nat
    OBVIOUS
  <2>3. upto[0] = 0
    BY <2>1, <2>2
  <2>4. ASSUME NEW n \in 1 .. Len(s) PROVE upto[n] = upto[n - 1] + s[n]
    <3>1. n \in 0 .. Len(s) /\ n # 0
      BY <2>2
    <3>2. upto[n] = IF n = 0 THEN 0 ELSE upto[n - 1] + s[n]
      BY <2>1, <3>1
    <3> QED
      BY <3>1, <3>2
  <2> QED
    BY <2>3, <2>4 DEF PartialSums
<1>6. Len(s) \in Nat
  OBVIOUS
<1>7. upto[Len(s)] = g[Len(s)]
  BY <1>2, <1>5, <1>6, PartialSumsAgree
<1> QED
  BY <1>1, <1>2, <1>7

(* The total of no sizes, and of one size more.                             *)
LEMMA TotalFacts ==
  /\ Total(<<>>) = 0
  /\ \A s \in Seq(Nat) : Total(s) \in Nat
  /\ \A s \in Seq(Nat), x \in Nat : Total(Append(s, x)) = Total(s) + x
<1>1. Total(<<>>) = 0
  <2>1. <<>> \in Seq(Nat) /\ Len(<<>>) = 0
    OBVIOUS
  <2> QED
    BY <2>1, TotalIsSum DEF PartialSums
<1>2. ASSUME NEW s \in Seq(Nat) PROVE Total(s) \in Nat
  <2>1. Len(s) \in 0 .. Len(s)
    OBVIOUS
  <2> QED
    BY <2>1, TotalIsSum
<1>3. ASSUME NEW s \in Seq(Nat), NEW x \in Nat
      PROVE  Total(Append(s, x)) = Total(s) + x
  <2> DEFINE t == Append(s, x)
             m == Len(s)
  <2>1. t \in Seq(Nat) /\ Len(t) = m + 1 /\ m \in Nat /\ t[m + 1] = x
        /\ \A n \in 1 .. m : s[n] = t[n]
    OBVIOUS
  <2> HIDE DEF t
  <2>2. PICK g : PartialSums(g, s, m) /\ Total(s) = g[m]
    BY TotalIsSum
  <2>3. PICK h : PartialSums(h, t, m + 1) /\ Total(t) = h[m + 1]
    BY <2>1, TotalIsSum
  <2> HIDE DEF m
  <2>4. g[m] = h[m]
    BY <2>1, <2>2, <2>3, PartialSumsAgree
  <2>5. h[m + 1] = h[m] + x
    BY <2>1, <2>3 DEF PartialSums
  <2> QED
    BY <2>2, <2>3, <2>4, <2>5 DEF t
<1> QED
  BY <1>1, <1>2, <1>3

-----------------------------------------------------------------------------
LEMMA DivisionProperties ==
  ASSUME NEW n \in Int, NEW f \in Nat \ {0}
  PROVE  /\ n \div f \in Int
         /\ n % f \in 0 .. f - 1
         /\ n = f * (n \div f) + (n % f)
  OBVIOUS

(* Multiples of f differ by at least f.                                     *)
LEMMA MultipleOrder ==
  ASSUME NEW f \in Nat \ {0}, NEW p \in Int, NEW q \in Int, p < q
  PROVE  f * p + f <= f * q
<1>1. p + 1 <= q
  OBVIOUS
<1>2. f * (p + 1) <= f * q
  BY <1>1
<1> QED
  BY <1>2

(* Headers(n) is n / MaxCount rounded up, and nothing else is.              *)
LEMMA HeadersFacts ==
  ASSUME NEW n \in Nat
  PROVE  /\ Headers(n) \in 0 .. n
         /\ (Headers(n) - 1) * MaxCount < n
         /\ n <= Headers(n) * MaxCount
         /\ \A d \in Int : (d - 1) * MaxCount < n /\ n <= d * MaxCount => d = Headers(n)
<1> DEFINE q == n \div MaxCount
           r == n % MaxCount
           h == Headers(n)
<1>1. MaxCount \in Nat \ {0}
  BY BuilderAssumption
<1>2. q \in Int /\ r \in 0 .. MaxCount - 1 /\ n = MaxCount * q + r
  BY <1>1, DivisionProperties
<1>3. h = IF r # 0 THEN q + 1 ELSE q
  BY <1>2 DEF Headers
<1> HIDE DEF q, r, h
<1>4. h \in Int /\ (h - 1) * MaxCount = MaxCount * h - MaxCount
      /\ h * MaxCount = MaxCount * h
  BY <1>1, <1>2, <1>3
<1>5. MaxCount * h = IF r # 0 THEN MaxCount * q + MaxCount ELSE MaxCount * q
  BY <1>1, <1>2, <1>3
<1>6. MaxCount * h - MaxCount < n /\ n <= MaxCount * h
  BY <1>1, <1>2, <1>5
<1>7. h >= 0
  <2>1. ~ (h < 0)
    <3>1. h < 0 => MaxCount * h + MaxCount <= MaxCount * 0
      BY <1>1, <1>4, MultipleOrder
    <3> QED
      BY <1>1, <1>4, <1>6, <3>1
  <2> QED
    BY <1>4, <2>1
<1>8. h <= n
  <2>1. CASE h = 0
    BY <2>1
  <2>2. CASE h > 0
    <3>1. h - 1 \in Nat /\ MaxCount - 1 \in Nat
      BY <1>1, <1>4, <2>2
    <3>2. (MaxCount - 1) * (h - 1) >= 0
      BY <3>1
    <3>3. (MaxCount - 1) * (h - 1) = (MaxCount * h - MaxCount) - (h - 1)
      BY <1>1, <1>4
    <3> QED
      BY <1>1, <1>4, <1>6, <3>2, <3>3
  <2> QED
    BY <1>4, <1>7, <2>1, <2>2
<1>9. ASSUME NEW d \in Int, (d - 1) * MaxCount < n, n <= d * MaxCount
      PROVE  d = h
  <2>1. MaxCount * d - MaxCount < n /\ n <= MaxCount * d
    BY <1>1, <1>9
  <2>2. ~ (d < h)
    BY <1>1, <1>4, <1>6, <2>1, MultipleOrder
  <2>3. ~ (h < d)
    BY <1>1, <1>4, <1>6, <2>1, MultipleOrder
  <2> QED
    BY <1>4, <2>2, <2>3
<1> QED
  BY <1>4, <1>6, <1>7, <1>8, <1>9 DEF h

(* Padded(x) is the least multiple of a word that is not below x.           *)
LEMMA PaddedFacts ==
  ASSUME NEW x \in Nat
  PROVE  \E w \in Nat : /\ Padded(x) = 4 * w
                        /\ 4 * w >= x
                        /\ 4 * (w - 1) < x
                        /\ w <= x
<1> DEFINE q == x \div 4
           r == x % 4
<1>1. q \in Int /\ r \in 0 .. 3 /\ x = 4 * q + r
  BY DivisionProperties
<1>2. Padded(x) = IF r # 0 THEN x + (4 - r) ELSE x
  BY DEF Padded, WordSize
<1> HIDE DEF q, r
<1>3. CASE r = 0
  <2>1. q \in Nat /\ Padded(x) = 4 * q /\ 4 * q >= x /\ 4 * (q - 1) < x /\ q <= x
    BY <1>1, <1>2, <1>3
  <2> QED
    BY <2>1
<1>4. CASE r # 0
  <2>1. /\ q + 1 \in Nat /\ Padded(x) = 4 * (q + 1) /\ 4 * (q + 1) >= x
        /\ 4 * ((q + 1) - 1) < x /\ q + 1 <= x
    BY <1>1, <1>2, <1>4
  <2> QED
    BY <2>1
<1> QED
  BY <1>3, <1>4

LEMMA SourceNeedsFacts ==
  ASSUME NEW t \in Nat
  PROVE  \E w \in 0 .. t + 1 :
           /\ Padded(t + 1) = 4 * w
           /\ 4 * w > t /\ 4 * (w - 1) <= t
           /\ w = CHOOSE v \in 0 .. t + 1 : WordSize * v > t /\ WordSize * (v - 1) <= t
<1>1. PICK w \in Nat : Padded(t + 1) = 4 * w /\ 4 * w >= t + 1 /\ 4 * (w - 1) < t + 1
                       /\ w <= t + 1
  BY PaddedFacts
<1>2. w \in 0 .. t + 1 /\ 4 * w > t /\ 4 * (w - 1) <= t
  BY <1>1
<1>3. \A v \in 0 .. t + 1 : WordSize * v > t /\ WordSize * (v - 1) <= t => v = w
  BY <1>2 DEF WordSize
<1> QED
  BY <1>1, <1>2, <1>3 DEF WordSize

-----------------------------------------------------------------------------
(* The sizes of the sources, one by one and together.                       *)
Sizes(sources) == [s \in DOMAIN sources |-> SourceNeeds(sources[s])]

LEMMA SourceNeedsType ==
  ASSUME NEW items \in Seq(Nat)
  PROVE  /\ SourceNeeds(items) \in Nat
         /\ SourceNeeds(items) % 4 = 0
         /\ \A length \in Nat :
              SourceNeeds(Append(items, SDESHeaderSize + length))
                = SourceNeedsWithItem(items, length)
<1>1. Total(items) \in Nat /\ Total(items) + 1 \in Nat
  BY TotalFacts
<1>2. PICK w \in Nat : Padded(Total(items) + 1) = 4 * w
  BY <1>1, PaddedFacts
<1>3. SourceNeeds(items) = 4 * (w + 1)
  BY <1>2 DEF SourceNeeds, WordSize
<1>4. ASSUME NEW length \in Nat
      PROVE  SourceNeeds(Append(items, SDESHeaderSize + length))
               = SourceNeedsWithItem(items, length)
  <2>1. SDESHeaderSize + length \in Nat
    BY DEF SDESHeaderSize
  <2>2. Total(Append(items, SDESHeaderSize + length)) + 1
          = Total(items) + SDESHeaderSize + length + 1
    BY <1>1, <2>1, TotalFacts DEF SDESHeaderSize
  <2> QED
    BY <2>2 DEF SourceNeeds, SourceNeedsWithItem
<1> QED
  BY <1>2, <1>3, <1>4

LEMMA SourcesNeedFacts ==
  /\ SourcesNeed(<<>>) = 0
  /\ \A sources \in Seq(Seq(Nat)) : SourcesNeed(sources) \in Nat
  /\ \A sources \in Seq(Seq(Nat)), items \in Seq(Nat) :
       SourcesNeed(Append(sources, items)) = SourcesNeed(sources) + SourceNeeds(items)
<1>1. SourcesNeed(<<>>) = 0
  <2>1. Sizes(<<>>) = <<>>
    BY DEF Sizes
  <2> QED
    BY <2>1, TotalFacts DEF SourcesNeed, Sizes
<1>2. ASSUME NEW sources \in Seq(Seq(Nat)) PROVE Sizes(sources) \in Seq(Nat)
  <2>1. ASSUME NEW s \in 1 .. Len(sources) PROVE SourceNeeds(sources[s]) \in Nat
    <3>1. sources[s] \in Seq(Nat)
      OBVIOUS
    <3> QED
      BY <3>1, SourceNeedsType
  <2>2. Len(sources) \in Nat /\ DOMAIN sources = 1 .. Len(sources)
    OBVIOUS
  <2>3. Sizes(sources) = [s \in 1 .. Len(sources) |-> SourceNeeds(sources[s])]
    BY <2>2 DEF Sizes
  <2> QED
    BY <2>1, <2>2, <2>3
<1>3. ASSUME NEW sources \in Seq(Seq(Nat)), NEW items \in Seq(Nat)
      PROVE  SourcesNeed(Append(sources, items)) = SourcesNeed(sources) + SourceNeeds(items)
  <2>1. Sizes(Append(sources, items)) = Append(Sizes(sources), SourceNeeds(items))
    BY DEF Sizes
  <2>2. Sizes(sources) \in Seq(Nat) /\ SourceNeeds(items) \in Nat
    BY <1>2, SourceNeedsType
  <2> QED
    BY <2>1, <2>2, TotalFacts DEF SourcesNeed, Sizes
<1> QED
  BY <1>1, <1>2, <1>3, TotalFacts DEF SourcesNeed, Sizes

(* A list of sources is all but its last one and that.                      *)
LEMMA FrontAndLast ==
  ASSUME NEW sources \in Seq(Seq(Nat)), sources # <<>>
  PROVE  /\ Front(sources) \in Seq(Seq(Nat))
         /\ Last(sources) \in Seq(Nat)
         /\ sources = Append(Front(sources), Last(sources))
         /\ \A items \in Seq(Nat) :
              [sources EXCEPT ![Len(sources)] = items] = Append(Front(sources), items)
<1> DEFINE n == Len(sources)
<1>1. n \in Nat \ {0} /\ DOMAIN sources = 1 .. n
  OBVIOUS
<1>2. Front(sources) = [j \in 1 .. n - 1 |-> sources[j]]
  BY <1>1 DEF Front
<1>3. Front(sources) \in Seq(Seq(Nat)) /\ Len(Front(sources)) = n - 1
  BY <1>1, <1>2
<1>4. Last(sources) = sources[n] /\ sources[n] \in Seq(Nat)
  BY <1>1 DEF Last
<1>5. ASSUME NEW items \in Seq(Nat)
      PROVE  [sources EXCEPT ![n] = items] = Append(Front(sources), items)
  BY <1>1, <1>2, <1>3
<1>6. sources = Append(Front(sources), Last(sources))
  BY <1>1, <1>2, <1>3, <1>4
<1> QED
  BY <1>3, <1>4, <1>5, <1>6

-----------------------------------------------------------------------------
(* What the parts' estimates are made of.                                   *)
LEMMA BlocksNeedFacts ==
  ASSUME NEW n \in Nat
  PROVE  /\ Headers(n) \in Nat
         /\ BlocksNeed(n) = 24 * n + 8 * Headers(n) + (IF isSR THEN 20 ELSE 0)
BY HeadersFacts
   DEF BlocksNeed, ReceiverReportSize, CommonHeaderSize, WordSize, SenderReportSize

LEMMA SmallHeaders == Headers(0) = 0 /\ Headers(1) = 1
<1>1. MaxCount \in Nat \ {0}
  BY BuilderAssumption
<1>2. Headers(0) = 0
  BY HeadersFacts
<1>3. Headers(1) = 1
  <2>1. (1 - 1) * MaxCount < 1 /\ 1 <= 1 * MaxCount
    BY <1>1
  <2> QED
    BY <2>1, HeadersFacts
<1> QED
  BY <1>2, <1>3

(* SDESNeeds without the distinction of the empty list.                     *)
LEMMA SDESNeedsIs ==
  ASSUME sdessources \in Seq(Seq(Nat))
  PROVE  /\ SDESNeeds = SourcesNeed(sdessources) + Headers(Len(sdessources)) * 4
         /\ SDESNeeds \in Nat
         /\ SourcesNeed(sdessources) \in Nat
         /\ Headers(Len(sdessources)) \in Nat
<1>1. SourcesNeed(sdessources) \in Nat
  BY SourcesNeedFacts
<1>2. Len(sdessources) \in Nat
  OBVIOUS
<1>3. Headers(Len(sdessources)) \in Nat
  BY <1>2, HeadersFacts
<1>4. CASE sdessources = <<>>
  <2>1. SourcesNeed(sdessources) = 0 /\ Headers(Len(sdessources)) = 0
    BY <1>4, SourcesNeedFacts, SmallHeaders
  <2> QED
    BY <1>4, <2>1 DEF SDESNeeds
<1>5. CASE sdessources # <<>>
  BY <1>1, <1>3, <1>5 DEF SDESNeeds, CommonHeaderSize
<1> QED
  BY <1>1, <1>3, <1>4, <1>5

LEMMA ReportNeedsIs ==
  ASSUME TypeOK
  PROVE  /\ ReportNeeds \in Nat
         /\ reportblocks # 0 => ReportNeeds = BlocksNeed(reportblocks)
         /\ reportblocks = 0 /\ headerlength # 0 => ReportNeeds = 4 + headerlength
         /\ headerlength = 0 => ReportNeeds = 0
         /\ ReportNeedsWithBlock \in Nat
<1>1. \A n \in Nat : BlocksNeed(n) \in Nat
  BY BlocksNeedFacts
<1>2. /\ reportblocks \in Nat /\ reportblocks + 1 \in Nat
      /\ headerlength \in Nat
      /\ headerlength = 0 => reportblocks = 0
  BY DEF TypeOK, WordSize, SenderReportSize
<1>3. ReportNeedsWithBlock \in Nat
  BY <1>1, <1>2 DEF ReportNeedsWithBlock
<1>4. ReportNeeds = IF reportblocks # 0 THEN BlocksNeed(reportblocks)
                    ELSE IF headerlength = 0 THEN 0 ELSE 4 + headerlength
  BY DEF ReportNeeds, CommonHeaderSize
<1> QED
  BY <1>1, <1>2, <1>3, <1>4

-----------------------------------------------------------------------------
LEMMA OtherSizeType ==
  ASSUME NEW size \in OtherSizes
  PROVE  size \in Nat /\ size % 4 = 0
BY BuilderAssumption

LEMMA StepType == TypeOK /\ [Next]_vars => TypeOK'
<1> SUFFICES ASSUME TypeOK, [Next]_vars PROVE TypeOK'
  OBVIOUS
<1> USE DEF TypeOK
<1>1. ASSUME NEW sender \in BOOLEAN, StartReport(sender) PROVE TypeOK'
  BY <1>1 DEF StartReport, WordSize, SenderReportSize
<1>2. CASE AddReportBlock
  BY <1>2 DEF AddReportBlock
<1>3. CASE AddSDESSource
  <2>1. sdessources' \in Seq(Seq(Nat))
    BY <1>3 DEF AddSDESSource
  <2> QED
    BY <1>3, <2>1 DEF AddSDESSource
<1>4. ASSUME NEW length \in ItemLengths, AddSDESItem(length) PROVE TypeOK'
  <2>1. SDESHeaderSize + length \in Nat
    BY BuilderAssumption DEF SDESHeaderSize
  <2>2. sdessources # <<>> /\ Len(sdessources) \in DOMAIN sdessources
    BY <1>4 DEF AddSDESItem
  <2>3. Append(sdessources[Len(sdessources)], SDESHeaderSize + length) \in Seq(Nat)
    BY <2>1, <2>2
  <2>4. sdessources' \in Seq(Seq(Nat))
    BY <1>4, <2>2, <2>3 DEF AddSDESItem
  <2> QED
    BY <1>4, <2>4 DEF AddSDESItem
<1>5. ASSUME NEW size \in OtherSizes, AddOther(size) PROVE TypeOK'
  <2>1. size \in Nat
    BY OtherSizeType
  <2>2. othersize' \in Nat
    BY <1>5, <2>1 DEF AddOther
  <2> QED
    BY <1>5, <2>2 DEF AddOther
<1>6. CASE EndBuild
  <2>1. <<>> \in Seq(Seq(Nat))
    OBVIOUS
  <2> QED
    BY <1>6, <2>1 DEF EndBuild, ClearReport, ClearSDES, WordSize, SenderReportSize
<1>7. CASE UNCHANGED vars
  BY <1>7 DEF vars
<1> QED
  BY <1>1, <1>2, <1>3, <1>4, <1>5, <1>6, <1>7 DEF Next

(* The sizes the builder keeps are sizes.                                   *)
THEOREM TypeCorrect == Spec => []TypeOK
<1>1. <<>> \in Seq(Seq(Nat))
  OBVIOUS
<1>2. Init => TypeOK
  <2> SUFFICES ASSUME Init PROVE TypeOK
    OBVIOUS
  <2>1. sdessources \in Seq(Seq(Nat))
    BY <1>1 DEF Init
  <2>2. /\ arebuilding \in BOOLEAN /\ maximumpacketsize \in PacketSizes
        /\ isSR = FALSE /\ headerlength = 0 /\ reportblocks = 0 /\ othersize = 0
    BY DEF Init
  <2> QED
    BY <2>1, <2>2 DEF TypeOK
<1> QED
  BY <1>2, StepType, PTL DEF Spec

-----------------------------------------------------------------------------
(* The estimates.  A block: the header of the report is counted with the    *)
(* first block.                                                             *)
LEMMA BlockEstimate ==
  ASSUME TypeOK, AddReportBlock
  PROVE  ReportNeeds' = ReportNeedsWithBlock
<1>1. reportblocks' = reportblocks + 1 /\ reportblocks' # 0 /\ isSR' = isSR
  BY DEF AddReportBlock, TypeOK
<1> QED
  BY <1>1 DEF ReportNeeds, ReportNeedsWithBlock, BlocksNeed

LEMMA ItemEstimate ==
  ASSUME TypeOK, NEW length \in ItemLengths, AddSDESItem(length)
  PROVE  SDESNeeds' = SDESNeedsWithItem(length)
<1> DEFINE front == Front(sdessources)
           items == Append(Last(sdessources), SDESHeaderSize + length)
<1>1. sdessources \in Seq(Seq(Nat)) /\ sdessources # <<>>
      /\ sdessources' \in Seq(Seq(Nat))
  <2>1. TypeOK'
    BY StepType DEF Next
  <2> QED
    BY <2>1 DEF TypeOK, AddSDESItem
<1>2. length \in Nat /\ SDESHeaderSize + length \in Nat
  BY BuilderAssumption DEF SDESHeaderSize
<1>3. front \in Seq(Seq(Nat)) /\ Last(sdessources) \in Seq(Nat)
  BY <1>1, FrontAndLast
<1>4. items \in Seq(Nat)
  BY <1>2, <1>3
<1>5. sdessources' = [sdessources EXCEPT ![Len(sdessources)] = items]
  BY DEF AddSDESItem, Last
<1> HIDE DEF front, items
<1>6. sdessources' = Append(front, items)
  BY <1>1, <1>4, <1>5, FrontAndLast DEF front
<1>7. Len(sdessources') = Len(sdessources)
  BY <1>1, <1>5
<1>8. SourcesNeed(sdessources') = SourcesNeed(front) + SourceNeeds(items)
  BY <1>3, <1>4, <1>6, SourcesNeedFacts
<1>9. SourceNeeds(items) = SourceNeedsWithItem(Last(sdessources), length)
  BY <1>2, <1>3, SourceNeedsType DEF items
<1>10. sdessources' # <<>>
  BY <1>1, <1>7
<1> QED
  BY <1>7, <1>8, <1>9, <1>10 DEF SDESNeeds, SDESNeedsWithItem, front

(* A source without items: the zero byte, padded, and the SSRC.             *)
LEMMA EmptySource == SourceNeeds(<<>>) = 8 /\ <<>> \in Seq(Nat)
BY TotalFacts DEF SourceNeeds, Padded, WordSize

LEMMA SourceEstimate ==
  ASSUME TypeOK, AddSDESSource
  PROVE  /\ sdessources # <<>> => SDESNeeds' = SDESNeedsWithSource
         /\ sdessources = <<>> => SDESNeeds' = 12 /\ SDESNeedsWithSource = 0
                                  /\ sdessources' = <<<<>>>>
<1>1. sdessources \in Seq(Seq(Nat)) /\ sdessources' = Append(sdessources, <<>>)
  BY DEF TypeOK, AddSDESSource
<1>2. /\ SourcesNeed(sdessources') = SourcesNeed(sdessources) + 8
      /\ SourcesNeed(sdessources) \in Nat
  BY <1>1, EmptySource, SourcesNeedFacts
<1>3. sdessources' # <<>> /\ Len(sdessources') = Len(sdessources) + 1
  BY <1>1
<1>4. SDESNeeds' = SourcesNeed(sdessources') + Headers(Len(sdessources) + 1) * 4
  BY <1>3 DEF SDESNeeds, CommonHeaderSize
<1>5. CASE sdessources = <<>>
  <2>1. Len(sdessources) + 1 = 1 /\ SourcesNeed(sdessources) = 0
    BY <1>5, SourcesNeedFacts
  <2>2. sdessources' = <<<<>>>>
    BY <1>1, <1>5
  <2> QED
    BY <1>2, <1>4, <1>5, <2>1, <2>2, SmallHeaders DEF SDESNeedsWithSource
<1>6. CASE sdessources # <<>>
  BY <1>2, <1>4, <1>6 DEF SDESNeedsWithSource, WordSize, CommonHeaderSize
<1> QED
  BY <1>5, <1>6

(* Whatever an addition is estimated to need, the parts need after it.      *)
THEOREM EstimatesCorrect == Spec => EstimatesAreExact
<1>1. TypeOK /\ [Next]_vars =>
        [/\ AddReportBlock => ReportNeeds' = ReportNeedsWithBlock
         /\ \A length \in ItemLengths :
              AddSDESItem(length) => SDESNeeds' = SDESNeedsWithItem(length)
         /\ AddSDESSource /\ sdessources # <<>> => SDESNeeds' = SDESNeedsWithSource
        ]_vars
  BY BlockEstimate, ItemEstimate, SourceEstimate
<1> QED
  BY <1>1, TypeCorrect, PTL DEF Spec, EstimatesAreExact

-----------------------------------------------------------------------------
(* The limit.                                                               *)
LEMMA SizeType == TypeOK => Size \in Nat
<1> SUFFICES ASSUME TypeOK PROVE Size \in Nat
  OBVIOUS
<1>1. ReportNeeds \in Nat /\ SDESNeeds \in Nat /\ othersize \in Nat
  BY ReportNeedsIs, SDESNeedsIs DEF TypeOK
<1> QED
  BY <1>1 DEF Size

LEMMA StepOvershoot ==
  ASSUME TypeOK, OvershootIsFirstSource, [Next]_vars
  PROVE  OvershootIsFirstSource'
<1>1. /\ maximumpacketsize \in Nat /\ maximumpacketsize' = maximumpacketsize
      /\ othersize \in Nat /\ ReportNeeds \in Nat /\ SDESNeeds \in Nat
  BY BuilderAssumption, ReportNeedsIs, SDESNeedsIs
     DEF TypeOK, Next, StartReport, AddReportBlock, AddSDESSource, AddSDESItem,
         AddOther, EndBuild, ClearReport, ClearSDES, vars
<1>2. ASSUME Size' <= maximumpacketsize, Size' \in Nat PROVE OvershootIsFirstSource'
  BY <1>1, <1>2 DEF OvershootIsFirstSource
<1>3. TypeOK'
  BY StepType
<1>4. Size' \in Nat
  <2>1. (TypeOK => Size \in Nat)'
    BY SizeType, PTL
  <2> QED
    BY <1>3, <2>1
<1>5. ASSUME NEW sender \in BOOLEAN, StartReport(sender) PROVE OvershootIsFirstSource'
  <2>1. /\ reportblocks' = 0
        /\ headerlength' = IF sender THEN WordSize + SenderReportSize ELSE WordSize
    BY <1>5 DEF StartReport, TypeOK
  <2>2. ReportNeeds' = CommonHeaderSize + headerlength'
    BY <2>1 DEF ReportNeeds, WordSize, SenderReportSize
  <2>3. SDESNeeds' = SDESNeeds /\ othersize' = othersize
    BY <1>5 DEF StartReport, SDESNeeds
  <2>4. Size' <= maximumpacketsize
    BY <1>5, <2>1, <2>2, <2>3 DEF StartReport, Size
  <2> QED
    BY <1>2, <1>4, <2>4
<1>6. CASE AddReportBlock
  <2>1. ReportNeeds' = ReportNeedsWithBlock
    BY <1>6, BlockEstimate
  <2>2. SDESNeeds' = SDESNeeds /\ othersize' = othersize
    BY <1>6 DEF AddReportBlock, SDESNeeds
  <2>3. Size' <= maximumpacketsize
    BY <1>6, <2>1, <2>2 DEF AddReportBlock, Size
  <2> QED
    BY <1>2, <1>4, <2>3
<1>7. CASE AddSDESSource
  <2>1. ReportNeeds' = ReportNeeds /\ othersize' = othersize
    BY <1>7 DEF AddSDESSource, ReportNeeds, BlocksNeed
  <2>2. CASE sdessources = <<>>
    <3>1. SDESNeeds' = 12 /\ SDESNeedsWithSource = 0 /\ sdessources' = <<<<>>>>
      BY <1>7, <2>2, SourceEstimate
    <3>2. Size' = ReportNeeds + 12 + othersize
      BY <2>1, <3>1 DEF Size
    <3>3. ReportNeeds + othersize <= maximumpacketsize
      BY <1>1, <1>7, <3>1 DEF AddSDESSource
    <3> QED
      BY <1>1, <3>1, <3>2, <3>3 DEF OvershootIsFirstSource
  <2>3. CASE sdessources # <<>>
    <3>1. SDESNeeds' = SDESNeedsWithSource
      BY <1>7, <2>3, SourceEstimate
    <3>2. Size' <= maximumpacketsize
      BY <1>7, <2>1, <3>1 DEF AddSDESSource, Size
    <3> QED
      BY <1>2, <1>4, <3>2
  <2> QED
    BY <2>2, <2>3
<1>8. ASSUME NEW length \in ItemLengths, AddSDESItem(length)
      PROVE  OvershootIsFirstSource'
  <2>1. SDESNeeds' = SDESNeedsWithItem(length)
    BY <1>8, ItemEstimate
  <2>2. ReportNeeds' = ReportNeeds /\ othersize' = othersize
    BY <1>8 DEF AddSDESItem, ReportNeeds, BlocksNeed
  <2>3. Size' <= maximumpacketsize
    BY <1>8, <2>1, <2>2 DEF AddSDESItem, Size
  <2> QED
    BY <1>2, <1>4, <2>3
<1>9. ASSUME NEW size \in OtherSizes, AddOther(size) PROVE OvershootIsFirstSource'
  <2>1. ReportNeeds' = ReportNeeds /\ SDESNeeds' = SDESNeeds /\ othersize' = othersize + size
    BY <1>9 DEF AddOther, ReportNeeds, BlocksNeed, SDESNeeds
  <2>2. size \in Nat
    BY OtherSizeType
  <2>3. Size' = Size + size
    BY <1>1, <2>1, <2>2 DEF Size
  <2>4. Size' <= maximumpacketsize
    BY <1>9, <2>3 DEF AddOther
  <2> QED
    BY <1>2, <1>4, <2>4
<1>10. CASE EndBuild
  <2>1. ReportNeeds' = 0 /\ SDESNeeds' = 0 /\ othersize' = 0
    BY <1>10 DEF EndBuild, ClearReport, ClearSDES, ReportNeeds, SDESNeeds
  <2>2. Size' <= maximumpacketsize
    BY <1>1, <2>1 DEF Size
  <2> QED
    BY <1>2, <1>4, <2>2
<1>11. CASE UNCHANGED vars
  BY <1>11 DEF vars, OvershootIsFirstSource, Size, ReportNeeds, SDESNeeds, BlocksNeed
<1> QED
  BY <1>5, <1>6, <1>7, <1>8, <1>9, <1>10, <1>11 DEF Next

(* Nothing but a first source without items exceeds the maximum, and that   *)
(* by twelve bytes at most.                                                 *)
THEOREM OvershootBounded == Spec => []OvershootIsFirstSource
<1>1. Init => OvershootIsFirstSource
  <2> SUFFICES ASSUME Init PROVE OvershootIsFirstSource
    OBVIOUS
  <2>1. Size = 0 /\ maximumpacketsize \in Nat
    BY BuilderAssumption DEF Init, Size, ReportNeeds, SDESNeeds
  <2> QED
    BY <2>1 DEF OvershootIsFirstSource
<1> QED
  BY <1>1, StepOvershoot, TypeCorrect, PTL DEF Spec

-----------------------------------------------------------------------------
(* What is written.                                                         *)

(* Only a sender report has the long header, and every chunk and packet     *)
(* ends on a word boundary.                                                 *)
Aligned ==
  /\ headerlength = WordSize + SenderReportSize => isSR
  /\ SourcesNeed(sdessources) % 4 = 0
  /\ othersize % 4 = 0

LEMMA ItemKeepsAlignment ==
  ASSUME TypeOK, Aligned, NEW length \in ItemLengths, AddSDESItem(length)
  PROVE  SourcesNeed(sdessources') % 4 = 0
<1> DEFINE front == Front(sdessources)
           items == Append(Last(sdessources), SDESHeaderSize + length)
<1>1. sdessources \in Seq(Seq(Nat)) /\ sdessources # <<>>
  BY DEF TypeOK, AddSDESItem
<1>2. SDESHeaderSize + length \in Nat
  BY BuilderAssumption DEF SDESHeaderSize
<1>3. /\ front \in Seq(Seq(Nat)) /\ Last(sdessources) \in Seq(Nat)
      /\ sdessources = Append(front, Last(sdessources))
  BY <1>1, FrontAndLast
<1>4. items \in Seq(Nat)
  BY <1>2, <1>3
<1>5. sdessources' = [sdessources EXCEPT ![Len(sdessources)] = items]
  BY DEF AddSDESItem, Last
<1> HIDE DEF items
<1>6. sdessources' = Append(front, items)
  BY <1>1, <1>4, <1>5, FrontAndLast
<1> HIDE DEF front
<1>7. SourcesNeed(sdessources') = SourcesNeed(front) + SourceNeeds(items)
  BY <1>3, <1>4, <1>6, SourcesNeedFacts
<1>8. SourcesNeed(sdessources) = SourcesNeed(front) + SourceNeeds(Last(sdessources))
  BY <1>3, SourcesNeedFacts
<1>9. /\ SourcesNeed(front) \in Nat
      /\ SourceNeeds(items) \in Nat /\ SourceNeeds(items) % 4 = 0
      /\ SourceNeeds(Last(sdessources)) \in Nat /\ SourceNeeds(Last(sdessources)) % 4 = 0
  BY <1>3, <1>4, SourcesNeedFacts, SourceNeedsType
<1> QED
  BY <1>7, <1>8, <1>9 DEF Aligned

LEMMA StepAligned ==
  ASSUME TypeOK, Aligned, [Next]_vars
  PROVE  Aligned'
<1>1. ASSUME NEW sender \in BOOLEAN, StartReport(sender) PROVE Aligned'
  BY <1>1 DEF StartReport, Aligned, WordSize, SenderReportSize
<1>2. CASE AddReportBlock
  BY <1>2 DEF AddReportBlock, Aligned
<1>3. CASE AddSDESSource
  <2>1. SourcesNeed(sdessources') = SourcesNeed(sdessources) + 8
        /\ SourcesNeed(sdessources) \in Nat
    BY <1>3, EmptySource, SourcesNeedFacts DEF AddSDESSource, TypeOK
  <2>2. SourcesNeed(sdessources') % 4 = 0
    BY <2>1 DEF Aligned
  <2> QED
    BY <1>3, <2>2 DEF AddSDESSource, Aligned
<1>4. ASSUME NEW length \in ItemLengths, AddSDESItem(length) PROVE Aligned'
  BY <1>4, ItemKeepsAlignment DEF AddSDESItem, Aligned
<1>5. ASSUME NEW size \in OtherSizes, AddOther(size) PROVE Aligned'
  <2>1. othersize' = othersize + size /\ size \in Nat /\ size % 4 = 0
        /\ othersize \in Nat /\ othersize % 4 = 0
    BY <1>5, OtherSizeType DEF AddOther, TypeOK, Aligned
  <2>2. othersize' % 4 = 0
    BY <2>1
  <2> QED
    BY <1>5, <2>2 DEF AddOther, Aligned
<1>6. CASE EndBuild
  <2>1. SourcesNeed(sdessources') = 0 /\ othersize' = 0 /\ headerlength' = 0
    BY <1>6, SourcesNeedFacts DEF EndBuild, ClearReport, ClearSDES
  <2> QED
    BY <2>1 DEF Aligned, WordSize, SenderReportSize
<1>7. CASE UNCHANGED vars
  BY <1>7 DEF vars, Aligned
<1> QED
  BY <1>1, <1>2, <1>3, <1>4, <1>5, <1>6, <1>7 DEF Next

(* The headers BytesOnTheWire counts, and the words of the chunks.          *)
LEMMA WirePackets ==
  ASSUME NEW n \in Nat
  PROVE  Headers(n) = CHOOSE d \in 0 .. n : (d - 1) * MaxCount < n /\ n <= d * MaxCount
<1>1. Headers(n) \in 0 .. n /\ (Headers(n) - 1) * MaxCount < n /\ n <= Headers(n) * MaxCount
  BY HeadersFacts
<1>2. \A d \in 0 .. n : (d - 1) * MaxCount < n /\ n <= d * MaxCount => d = Headers(n)
  BY HeadersFacts
<1> HIDE DEF Headers
<1> QED
  BY <1>1, <1>2

LEMMA WireChunk ==
  ASSUME NEW items \in Seq(Nat)
  PROVE  SourceNeeds(items) =
           4 + 4 * (CHOOSE w \in 0 .. Total(items) + 1 :
                      WordSize * w > Total(items) /\ WordSize * (w - 1) <= Total(items))
<1>1. Total(items) \in Nat
  BY TotalFacts
<1>2. PICK w \in 0 .. Total(items) + 1 :
        /\ Padded(Total(items) + 1) = 4 * w
        /\ w = CHOOSE v \in 0 .. Total(items) + 1 :
                 WordSize * v > Total(items) /\ WordSize * (v - 1) <= Total(items)
  BY <1>1, SourceNeedsFacts
<1>3. SourceNeeds(items) = 4 * w + 4
  BY <1>2 DEF SourceNeeds, WordSize
<1> QED
  BY <1>1, <1>2, <1>3

LEMMA WireIsSize ==
  ASSUME TypeOK, Aligned
  PROVE  SizeIsWhatIsWritten
<1> DEFINE packets(n) == CHOOSE d \in 0 .. n :
                           (d - 1) * MaxCount < n /\ n <= d * MaxCount
           words(items) == CHOOSE w \in 0 .. Total(items) + 1 :
                             WordSize * w > Total(items) /\ WordSize * (w - 1) <= Total(items)
           reports == IF headerlength = 0 THEN 0
                      ELSE IF reportblocks = 0 THEN 1 ELSE packets(reportblocks)
           chunks == [s \in DOMAIN sdessources |-> 4 + 4 * words(sdessources[s])]
<1>1. BytesOnTheWire = reports * 8 + (IF isSR THEN 20 ELSE 0) + reportblocks * 24
                         + packets(Len(sdessources)) * 4 + Total(chunks) + othersize
  BY DEF BytesOnTheWire
<1>2. \A n \in Nat : packets(n) = Headers(n)
  BY WirePackets
<1>3. chunks = Sizes(sdessources)
  <2>1. ASSUME NEW s \in DOMAIN sdessources
        PROVE  4 + 4 * words(sdessources[s]) = SourceNeeds(sdessources[s])
    <3>1. sdessources[s] \in Seq(Nat)
      BY DEF TypeOK
    <3> QED
      BY <3>1, WireChunk
  <2> HIDE DEF words
  <2> QED
    BY <2>1 DEF Sizes
<1>4. Total(chunks) = SourcesNeed(sdessources)
  BY <1>3 DEF SourcesNeed, Sizes
<1> HIDE DEF packets, words, chunks
<1>5. /\ Len(sdessources) \in Nat /\ reportblocks \in Nat /\ othersize \in Nat
      /\ isSR \in BOOLEAN
  BY DEF TypeOK
<1>6. reports * 8 + (IF isSR THEN 20 ELSE 0) + reportblocks * 24 = ReportNeeds
      /\ ReportNeeds % 4 = 0 /\ ReportNeeds \in Nat
  <2>1. CASE headerlength = 0
    <3>1. reports = 0 /\ reportblocks = 0 /\ isSR = FALSE /\ ReportNeeds = 0
      BY <1>5, <2>1, ReportNeedsIs DEF TypeOK, WordSize, SenderReportSize
    <3> QED
      BY <3>1
  <2>2. CASE headerlength # 0 /\ reportblocks = 0
    <3>1. reports = 1 /\ ReportNeeds = 4 + headerlength
      BY <2>2, ReportNeedsIs
    <3>2. headerlength = IF isSR THEN 24 ELSE 4
      BY <2>2 DEF TypeOK, Aligned, WordSize, SenderReportSize
    <3> QED
      BY <2>2, <3>1, <3>2
  <2>3. CASE headerlength # 0 /\ reportblocks # 0
    <3>1. reports = Headers(reportblocks) /\ ReportNeeds = BlocksNeed(reportblocks)
      BY <1>2, <1>5, <2>3, ReportNeedsIs
    <3>2. /\ Headers(reportblocks) \in Nat
          /\ BlocksNeed(reportblocks) = 24 * reportblocks + 8 * Headers(reportblocks)
                                          + (IF isSR THEN 20 ELSE 0)
      BY <1>5, BlocksNeedFacts
    <3> HIDE DEF reports
    <3>3. reports * 8 + (IF isSR THEN 20 ELSE 0) + reportblocks * 24 = ReportNeeds
      BY <1>5, <3>1, <3>2
    <3>4. ReportNeeds % 4 = 0 /\ ReportNeeds \in Nat
      BY <1>5, <3>1, <3>2
    <3> QED
      BY <3>3, <3>4
  <2> QED
    BY <2>1, <2>2, <2>3
<1>7. packets(Len(sdessources)) * 4 + Total(chunks) = SDESNeeds
      /\ SDESNeeds % 4 = 0 /\ SDESNeeds \in Nat
  <2>1. /\ SDESNeeds = SourcesNeed(sdessources) + Headers(Len(sdessources)) * 4
        /\ SourcesNeed(sdessources) \in Nat
        /\ Headers(Len(sdessources)) \in Nat
    BY SDESNeedsIs DEF TypeOK
  <2> QED
    BY <1>2, <1>4, <1>5, <2>1 DEF Aligned
<1> HIDE DEF reports
<1>8. Size % 4 = 0
  BY <1>5, <1>6, <1>7 DEF Size, Aligned
<1>9. Size = BytesOnTheWire
  <2>1. Size = ReportNeeds + SDESNeeds + othersize
    BY DEF Size
  <2>2. packets(Len(sdessources)) \in Nat /\ Total(chunks) \in Nat /\ reports \in Nat
    <3>1. Headers(Len(sdessources)) \in Nat /\ SourcesNeed(sdessources) \in Nat
      BY SDESNeedsIs DEF TypeOK
    <3>2. Headers(reportblocks) \in Nat
      BY <1>5, BlocksNeedFacts
    <3> QED
      BY <1>2, <1>4, <1>5, <3>1, <3>2 DEF reports
  <2> QED
    BY <1>1, <1>5, <1>6, <1>7, <2>1, <2>2
<1> QED
  BY <1>8, <1>9 DEF SizeIsWhatIsWritten

(* The accounting is what will be written, byte for byte.                   *)
THEOREM SizeCorrect == Spec => []SizeIsWhatIsWritten
<1>1. Init => Aligned
  <2> SUFFICES ASSUME Init PROVE Aligned
    OBVIOUS
  <2>1. SourcesNeed(sdessources) = 0 /\ othersize = 0 /\ headerlength = 0
    BY SourcesNeedFacts DEF Init
  <2> QED
    BY <2>1 DEF Aligned, WordSize, SenderReportSize
<1> QED
  BY <1>1, StepAligned, WireIsSize, TypeCorrect, PTL DEF Spec
=============================================================================
