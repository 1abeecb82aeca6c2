--------------------------- MODULE CurrentTimeProofs ---------------------------
(***************************************************************************)
(* Proofs about RTPTime and CurrentTime: the arithmetic for words and       *)
(* seconds of any size, the clock for any threads, any frequency and any    *)
(* system times.                                                            *)
(***************************************************************************)
EXTENDS CurrentTime, TLAPS

-----------------------------------------------------------------------------
(* Division leaves a rest smaller than the divisor ...                      *)
LEMMA DivisionProperties ==
  ASSUME NEW n \in Int, NEW f \in Nat \ {0}
  PROVE  /\ n \div f \in Int
         /\ n % f \in 0 .. f - 1
         /\ n = f * (n \div f) + (n % f)
  OBVIOUS

(* Multiples of f differ by at least f.                                     *)
LEMMA MultipleOrder ==
  ASSUME NEW f \in Nat \ {0}, NEW p \in Int, NEW q \in Int, p < q
  PROVE  f * p + f <= f * q
  <1>1. p + 1 <= q
    OBVIOUS
  <1>2. f * (p + 1) <= f * q
    BY <1>1
  <1> QED
    BY <1>2

(* ... and its result is the only one with such a rest.                    *)
LEMMA DivisionUnique ==
  ASSUME NEW n \in Int, NEW f \in Nat \ {0}, NEW q \in Int, NEW r \in 0 .. f - 1,
         n = f * q + r
  PROVE  n \div f = q /\ n % f = r
<1> DEFINE d == n \div f
           m == n % f
<1>1. d \in Int /\ m \in 0 .. f - 1 /\ n = f * d + m
  BY DivisionProperties
<1> HIDE DEF d, m
<1>2. ~(d < q)
  BY <1>1, MultipleOrder
<1>3. ~(q < d)
  BY <1>1, MultipleOrder
<1>4. d = q
  BY <1>1, <1>2, <1>3
<1>5. m = r
  BY <1>1, <1>4
<1> QED
  BY <1>4, <1>5 DEF d, m

(* Dividing keeps the order.                                                *)
LEMMA DivisionMonotone ==
  ASSUME NEW a \in Int, NEW b \in Int, NEW f \in Nat \ {0}, a <= b
  PROVE  a \div f <= b \div f
<1> DEFINE p == a \div f
           q == b \div f
           r == a % f
           s == b % f
<1>1. /\ p \in Int /\ r \in 0 .. f - 1 /\ a = f * p + r
      /\ q \in Int /\ s \in 0 .. f - 1 /\ b = f * q + s
  BY DivisionProperties
<1> HIDE DEF p, q, r, s
<1>2. ~(q < p)
  BY <1>1, MultipleOrder
<1>3. p <= q
  BY <1>1, <1>2
<1> QED
  BY <1>3 DEF p, q

-----------------------------------------------------------------------------
(* CalculateMicroseconds, which never forms a * Million, is the number of   *)
(* whole microseconds in a ticks all the same.                              *)
THEOREM MicrosecondsAreWhole ==
  ASSUME NEW a \in Nat, NEW f \in Nat \ {0}
  PROVE  CalculateMicroseconds(a, f) = (a * Million) \div f
<1> DEFINE b == a \div f
           c == a % f
           q == (c * Million) \div f
           r == (c * Million) % f
<1>1. Million \in Nat
  BY RTPTimeAssumption
<1>2. b \in Int /\ c \in Int /\ a = f * b + c
  BY DivisionProperties
<1>3. c * Million \in Int
  BY <1>1, <1>2
<1>4. q \in Int /\ r \in 0 .. f - 1 /\ c * Million = f * q + r
  BY <1>3, DivisionProperties
<1> HIDE DEF b, c, q, r
<1>5. a * Million = f * (b * Million + q) + r
  <2>1. a * Million = (f * b) * Million + c * Million
    BY <1>1, <1>2
  <2>2. (f * b) * Million = f * (b * Million)
    BY <1>1, <1>2
  <2>3. f * (b * Million + q) = f * (b * Million) + f * q
    BY <1>1, <1>2, <1>4
  <2> QED
    BY <1>1, <1>2, <1>4, <2>1, <2>2, <2>3
<1>6. a * Million \in Int /\ b * Million + q \in Int
  BY <1>1, <1>2, <1>4
<1>7. (a * Million) \div f = b * Million + q
  BY <1>4, <1>5, <1>6, DivisionUnique
<1> QED
  BY <1>7 DEF CalculateMicroseconds, b, c, q

-----------------------------------------------------------------------------
LEMMA WordFacts ==
  /\ Million \in Nat \ {0}
  /\ WordRange \in Nat \ {0}
  /\ Million < WordRange
  /\ WordRange * Million \in Nat \ {0}
<1>1. Million \in Nat \ {0} /\ WordRange \in Nat \ {0} /\ Million < WordRange
  BY RTPTimeAssumption
<1>2. WordRange * Million \in Nat \ {0}
  BY <1>1
<1> QED
  BY <1>1, <1>2

LEMMA TimeFacts ==
  ASSUME NEW t \in Times
  PROVE  /\ t.sec \in 0 .. WordRange - 1
         /\ t.microsec \in 0 .. Million - 1
         /\ t.sec * Million \in Nat
         /\ Value(t) \in Nat
         /\ Value(t) = t.sec * Million + t.microsec
<1>1. t.sec \in 0 .. WordRange - 1 /\ t.microsec \in 0 .. Million - 1
  BY DEF Times, Word
<1>2. t.sec * Million \in Nat
  BY <1>1, WordFacts
<1> QED
  BY <1>1, <1>2, WordFacts DEF Value

(* The comparisons of RTPTime order times as their numbers are ordered.     *)
THEOREM OrderIsExact ==
  ASSUME NEW s \in Times, NEW t \in Times
  PROVE  ExactOrder(s, t)
<1>1. /\ s.sec \in Int /\ t.sec \in Int
      /\ s.microsec \in 0 .. Million - 1 /\ t.microsec \in 0 .. Million - 1
      /\ Value(s) = Million * s.sec + s.microsec
      /\ Value(t) = Million * t.sec + t.microsec
      /\ Million \in Nat \ {0}
  BY TimeFacts, WordFacts
<1>2. CASE s.sec < t.sec
  <2>1. Million * s.sec + Million <= Million * t.sec
    BY <1>1, <1>2, MultipleOrder
  <2>2. Value(s) < Value(t)
    BY <1>1, <2>1
  <2> QED
    BY <1>1, <1>2, <2>2 DEF ExactOrder, Less, Greater, LessEqual, GreaterEqual
<1>3. CASE t.sec < s.sec
  <2>1. Million * t.sec + Million <= Million * s.sec
    BY <1>1, <1>3, MultipleOrder
  <2>2. Value(t) < Value(s)
    BY <1>1, <2>1
  <2> QED
    BY <1>1, <1>3, <2>2 DEF ExactOrder, Less, Greater, LessEqual, GreaterEqual
<1>4. CASE s.sec = t.sec
  BY <1>1, <1>4 DEF ExactOrder, Less, Greater, LessEqual, GreaterEqual
<1> QED
  BY <1>1, <1>2, <1>3, <1>4

(* A number of seconds that wraps in its word stands for the number of      *)
(* microseconds that wraps in a word of seconds.                            *)
LEMMA WrappedValue ==
  ASSUME NEW x \in Int, NEW m \in 0 .. Million - 1
  PROVE  LET t == [sec |-> x % WordRange, microsec |-> m]
         IN  /\ t \in Times
             /\ Value(t) = (x * Million + m) % (WordRange * Million)
<1> DEFINE k == x \div WordRange
           y == x % WordRange
           t == [sec |-> y, microsec |-> m]
<1>1. k \in Int /\ y \in 0 .. WordRange - 1 /\ x = WordRange * k + y
  BY WordFacts, DivisionProperties
<1> HIDE DEF k, y
<1>2. t \in Times /\ Value(t) = y * Million + m
  BY <1>1 DEF Times, Word, Value
<1>3. x * Million + m = (WordRange * Million) * k + (y * Million + m)
  <2>1. x * Million = (WordRange * k) * Million + y * Million
    BY <1>1, WordFacts
  <2>2. (WordRange * k) * Million = (WordRange * Million) * k
    BY <1>1, WordFacts
  <2> QED
    BY <1>1, <2>1, <2>2, WordFacts
<1>4. y * Million + m \in 0 .. WordRange * Million - 1
  <2>1. Million * y + Million <= Million * WordRange
    BY <1>1, WordFacts, MultipleOrder
  <2>2. y * Million \in Nat /\ y * Million = Million * y
        /\ Million * WordRange = WordRange * Million
    BY <1>1, WordFacts
  <2> QED
    BY <2>1, <2>2, WordFacts
<1>5. x * Million + m \in Int
  BY WordFacts
<1>6. (x * Million + m) % (WordRange * Million) = y * Million + m
  BY <1>1, <1>3, <1>4, <1>5, WordFacts, DivisionUnique
<1> QED
  BY <1>2, <1>6 DEF y, t

(* operator+= adds the numbers, wrapping with the seconds.                  *)
THEOREM PlusIsExact ==
  ASSUME NEW s \in Times, NEW t \in Times
  PROVE  ExactPlus(s, t)
<1> DEFINE carry == s.microsec + t.microsec >= Million
           x == s.sec + t.sec + (IF carry THEN 1 ELSE 0)
           m == s.microsec + t.microsec - (IF carry THEN Million ELSE 0)
<1>1. x \in Int /\ m \in 0 .. Million - 1
  BY TimeFacts, WordFacts
<1>2. x * Million + m = Value(s) + Value(t)
  <2>1. x * Million = s.sec * Million + t.sec * Million
                      + (IF carry THEN Million ELSE 0)
    BY TimeFacts, WordFacts
  <2> QED
    BY <2>1, TimeFacts, WordFacts
<1>3. Plus(s, t) = [sec |-> x % WordRange, microsec |-> m]
  BY DEF Plus
<1> HIDE DEF x, m
<1> QED
  BY <1>1, <1>2, <1>3, WrappedValue DEF ExactPlus

(* operator-= subtracts the numbers, wrapping with the seconds.             *)
THEOREM MinusIsExact ==
  ASSUME NEW s \in Times, NEW t \in Times
  PROVE  ExactMinus(s, t)
<1> DEFINE borrow == t.microsec > s.microsec
           x == s.sec - t.sec - (IF borrow THEN 1 ELSE 0)
           m == s.microsec - t.microsec + (IF borrow THEN Million ELSE 0)
<1>1. x \in Int /\ m \in 0 .. Million - 1
  BY TimeFacts, WordFacts
<1>2. x * Million + m = Value(s) - Value(t)
  <2>1. x * Million = s.sec * Million - t.sec * Million
                      - (IF borrow THEN Million ELSE 0)
    BY TimeFacts, WordFacts
  <2> QED
    BY <2>1, TimeFacts, WordFacts
<1>3. Minus(s, t) = [sec |-> x % WordRange, microsec |-> m]
  BY DEF Minus
<1> HIDE DEF x, m
<1> QED
  BY <1>1, <1>2, <1>3, WrappedValue DEF ExactMinus

(* The conversion to NTP and back loses at most a microsecond until the     *)
(* NTP seconds wrap, and everything afterwards.                             *)
THEOREM NTPRoundTripIsClose ==
  ASSUME NEW t \in Times
  PROVE  NTPRoundTrip(t)
<1> DEFINE W == WordRange
           m == t.microsec
           n == m * W
           x == t.sec + NTPOffset
           l == n \div Million
           r == n % Million
           u == (l * Million) \div W
<1>1. /\ t.sec \in 0 .. W - 1 /\ m \in 0 .. Million - 1
      /\ NTPOffset \in 0 .. W - 1
      /\ Million \in Nat \ {0} /\ W \in Nat \ {0} /\ Million < W
  BY TimeFacts, WordFacts, RTPTimeAssumption
<1>2. n \in Nat /\ x \in Nat
  BY <1>1
<1> HIDE DEF W, m, n, x
<1>3. l \in Int /\ r \in 0 .. Million - 1 /\ m * W = Million * l + r
  <2>1. n = Million * l + r
    BY <1>1, <1>2, DivisionProperties
  <2> QED
    BY <1>1, <1>2, <2>1, DivisionProperties DEF n
<1> HIDE DEF l, r
<1>4. l * Million = W * m - r /\ l * Million \in Int
  BY <1>1, <1>3
<1>5. u = m \/ (m > 0 /\ u = m - 1)
  <2>1. CASE r = 0
    <3>1. l * Million = W * m + 0 /\ 0 \in 0 .. W - 1
      BY <1>1, <1>4, <2>1
    <3> QED
      BY <1>1, <1>4, <3>1, DivisionUnique
  <2>2. CASE r # 0
    <3>1. W * (m - 1) = W * m - W
      BY <1>1
    <3>2. l * Million = W * (m - 1) + (W - r)
      BY <1>1, <1>3, <1>4, <3>1
    <3>3. W - r \in 0 .. W - 1 /\ m - 1 \in Int
      BY <1>1, <1>3, <2>2
    <3>4. u = m - 1
      BY <1>1, <1>4, <3>2, <3>3, DivisionUnique
    <3>5. m # 0
      <4>1. SUFFICES ASSUME m = 0 PROVE FALSE
        OBVIOUS
      <4>2. r = - (Million * l) /\ r > 0 /\ r < Million
        BY <1>1, <1>3, <2>2, <4>1
      <4>3. ~(l < 0)
        <5>1. SUFFICES ASSUME l < 0 PROVE FALSE
          OBVIOUS
        <5>2. Million * l + Million <= Million * 0
          BY <1>1, <1>3, <5>1, MultipleOrder
        <5> QED
          BY <1>1, <1>3, <4>2, <5>2
      <4>4. Million * l >= 0
        BY <1>1, <1>3, <4>3
      <4> QED
        BY <1>1, <1>3, <4>2, <4>4
    <3> QED
      BY <1>1, <3>4, <3>5
  <2> QED
    BY <2>1, <2>2
<1> HIDE DEF u
<1>6. CASE x < W
  <2>1. x % W = x
    <3>1. x = W * 0 + x /\ x \in 0 .. W - 1
      BY <1>1, <1>2, <1>6
    <3> QED
      BY <1>1, <1>2, <3>1, DivisionUnique
  <2>2. FromNTPTime(GetNTPTime(t)) = [sec |-> t.sec, microsec |-> u]
    BY <1>1, <2>1 DEF FromNTPTime, GetNTPTime, W, m, n, x, l, u
  <2>3. [sec |-> t.sec, microsec |-> u] \in Times
    BY <1>1, <1>5 DEF Times, Word, W
  <2>4. Value(t) - Value([sec |-> t.sec, microsec |-> u]) \in {0, 1}
    BY <1>1, <1>5, TimeFacts DEF Value, m
  <2> QED
    BY <1>6, <2>2, <2>3, <2>4 DEF NTPRoundTrip, W, x
<1>7. CASE ~(x < W)
  <2>1. x % W = x - W
    <3> DEFINE y == x - W
    <3>1. y \in 0 .. W - 1 /\ x = W * 1 + y
      BY <1>1, <1>2, <1>7 DEF x
    <3> HIDE DEF y
    <3>2. x % W = y
      BY <1>1, <1>2, <3>1, DivisionUnique
    <3> QED
      BY <3>2 DEF y
  <2>2. FromNTPTime(GetNTPTime(t)) = Zero
    BY <1>1, <2>1 DEF FromNTPTime, GetNTPTime, W, m, n, x, l, u
  <2> QED
    BY <1>7, <2>2 DEF NTPRoundTrip, W, x
<1> QED
  BY <1>6, <1>7

-----------------------------------------------------------------------------
(* The microseconds of a count, and what CurrentTime makes of it.           *)
Micros(a) == CalculateMicroseconds(a, Frequency)

At(a) == microseconds + Micros(a) - initmicroseconds

(* Before main only the initializer runs, through the first call.           *)
FirstCall ==
  /\ \A th \in Threads \ {Initializer} : pc[th] = "idle"
  /\ latest = 0 /\ starttime = NoTime /\ elapsed = Zero
  /\ \A th \in Threads : floor[th] = 0
  /\ pc[Initializer] \in {"idle", "test", "mark"} => ~inited
  /\ pc[Initializer] \in {"frequency", "systemtime", "initmicroseconds", "calculate"}
       => inited
  /\ pc[Initializer] \in {"systemtime", "initmicroseconds", "calculate"}
       => performancefrequency = Frequency
  /\ pc[Initializer] \in {"initmicroseconds", "calculate"}
       => microseconds \in WallTimes
  /\ pc[Initializer] = "calculate"
       => initmicroseconds = Micros(performancecount[Initializer])

(* Afterwards the statics are set and stay.                                 *)
ClockRuns ==
  /\ inited
  /\ performancefrequency = Frequency
  /\ microseconds \in WallTimes
  /\ initmicroseconds <= Micros(count)
  /\ latest <= At(count)
  /\ pc[Initializer] = "idle"
  /\ \A th \in Threads :
       /\ pc[th] \in {"idle", "test", "calculate"}
       /\ pc[th] # "idle" =>
            /\ initmicroseconds <= Micros(performancecount[th])
            /\ floor[th] <= At(performancecount[th])
  /\ starttime # NoTime =>
       /\ starttime \in Times
       /\ initmicroseconds <= Micros(startcount)
       /\ Value(starttime) = At(startcount)
       /\ startcount <= count
       /\ pc[Receiver] # "idle" => startcount <= performancecount[Receiver]

ClockInv ==
  /\ TypeOK
  /\ \A th \in Threads : performancecount[th] <= count
  /\ IF constructed THEN ClockRuns ELSE FirstCall

-----------------------------------------------------------------------------
(* A count is its microseconds and a rest of less than one.                 *)
LEMMA MicrosRest ==
  ASSUME NEW a \in Counts
  PROVE  \E r \in 0 .. Frequency - 1 : a * Million = Frequency * Micros(a) + r
<1> DEFINE n == a * Million
<1>1. a \in Nat /\ Frequency \in Nat \ {0} /\ n \in Int
  BY CurrentTimeAssumption, WordFacts DEF Counts
<1>2. Micros(a) = n \div Frequency
  BY <1>1, MicrosecondsAreWhole DEF Micros
<1> HIDE DEF n
<1>3. n % Frequency \in 0 .. Frequency - 1
      /\ n = Frequency * (n \div Frequency) + (n % Frequency)
  BY <1>1, DivisionProperties
<1> QED
  BY <1>2, <1>3 DEF n

LEMMA MicrosMonotone ==
  ASSUME NEW a \in Counts, NEW b \in Counts, a <= b
  PROVE  Micros(a) <= Micros(b)
<1>1. a \in Nat /\ b \in Nat /\ Frequency \in Nat \ {0} /\ Million \in Nat \ {0}
  BY CurrentTimeAssumption, WordFacts DEF Counts
<1>2. a * Million \in Int /\ b * Million \in Int /\ a * Million <= b * Million
  <2>1. (b - a) * Million >= 0
    BY <1>1
  <2> QED
    BY <1>1, <2>1
<1>3. (a * Million) \div Frequency <= (b * Million) \div Frequency
  BY <1>1, <1>2, DivisionMonotone
<1> QED
  BY <1>1, <1>3, MicrosecondsAreWhole DEF Micros

(* The counter never has more microseconds than at its end.                 *)
LEMMA MicrosType ==
  ASSUME NEW a \in Counts
  PROVE  Micros(a) \in 0 .. MaxMicroseconds
<1>1. /\ a \in Nat /\ MaxCount \in Nat /\ a <= MaxCount
      /\ 0 \in Counts /\ MaxCount \in Counts
      /\ Frequency \in Nat \ {0} /\ Million \in Nat \ {0}
  BY CurrentTimeAssumption, WordFacts DEF Counts
<1>2. Micros(0) <= Micros(a) /\ Micros(a) <= Micros(MaxCount)
  BY <1>1, MicrosMonotone
<1>3. Micros(MaxCount) = MaxMicroseconds
  BY <1>1, MicrosecondsAreWhole DEF Micros, MaxMicroseconds
<1>4. Micros(0) = 0
  <2>1. 0 * Million = Frequency * 0 + 0 /\ 0 \in 0 .. Frequency - 1
    BY <1>1
  <2>2. (0 * Million) \div Frequency = 0
    BY <1>1, <2>1, DivisionUnique
  <2> QED
    BY <1>1, <2>2, MicrosecondsAreWhole DEF Micros
<1>5. Micros(a) \in Int /\ Micros(MaxCount) \in Int
  <2>1. a * Million \in Int /\ MaxCount * Million \in Int
    BY <1>1
  <2> QED
    BY <1>1, <2>1, DivisionProperties, MicrosecondsAreWhole DEF Micros
<1> QED
  BY <1>2, <1>3, <1>4, <1>5

LEMMA MaxMicrosecondsType == MaxMicroseconds \in Nat
<1>1. 0 \in Counts
  BY CurrentTimeAssumption DEF Counts
<1>2. \E m \in 0 .. MaxMicroseconds : TRUE
  BY <1>1, MicrosType
<1>3. MaxMicroseconds \in Int
  <2>1. MaxCount * Million \in Int /\ Frequency \in Nat \ {0}
    BY CurrentTimeAssumption, WordFacts
  <2> QED
    BY <2>1, DivisionProperties DEF MaxMicroseconds
<1> QED
  BY <1>2, <1>3

(* Once the statics are set, a call returns the system time of the first    *)
(* call and the microseconds since.                                         *)
LEMMA TimeAtValue ==
  ASSUME performancefrequency = Frequency,
         microseconds \in WallTimes,
         NEW a \in Counts,
         initmicroseconds \in 0 .. MaxMicroseconds,
         initmicroseconds <= Micros(a)
  PROVE  /\ At(a) \in 0 .. WordRange * Million - 1
         /\ TimeAt(a) \in Times
         /\ Value(TimeAt(a)) = At(a)
<1> DEFINE d == Micros(a) - initmicroseconds
           now == microseconds + d
<1>1. Micros(a) \in 0 .. MaxMicroseconds
  BY MicrosType
<1>2. /\ microseconds \in Nat
      /\ microseconds + MaxMicroseconds < WordRange * Million
      /\ MaxMicroseconds \in Nat
      /\ WordRange * Million \in Nat
      /\ LongRange \in Nat /\ WordRange * Million <= LongRange
  BY CurrentTimeAssumption, WordFacts, MaxMicrosecondsType
<1>3. /\ d \in 0 .. LongRange - 1
      /\ now \in 0 .. LongRange - 1
      /\ now \in 0 .. WordRange * Million - 1
      /\ LongRange \in Nat \ {0}
  BY <1>1, <1>2
<1>4. now = At(a)
  BY <1>1, <1>2 DEF At
<1> HIDE DEF d, now
<1>5. d % LongRange = d /\ now % LongRange = now
  <2>1. d = LongRange * 0 + d /\ now = LongRange * 0 + now
    BY <1>3
  <2> QED
    BY <1>3, <2>1, DivisionUnique
<1> DEFINE s == now \div Million
           m == now % Million
<1>6. s \in Int /\ m \in 0 .. Million - 1 /\ now = Million * s + m
  <2>1. now \in Int /\ Million \in Nat \ {0}
    BY <1>3, WordFacts
  <2> QED
    BY <2>1, DivisionProperties
<1>7. TimeAt(a) = [sec |-> s % WordRange, microsec |-> m]
  BY <1>5 DEF TimeAt, d, now, Micros
<1> HIDE DEF s, m
<1>8. /\ TimeAt(a) \in Times
      /\ Value(TimeAt(a)) = (s * Million + m) % (WordRange * Million)
  BY <1>6, <1>7, WrappedValue
<1>9. s * Million + m = now
  BY <1>6, WordFacts
<1>10. now % (WordRange * Million) = now
  <2>1. now = (WordRange * Million) * 0 + now
    BY <1>3, WordFacts
  <2> QED
    BY <1>3, <2>1, WordFacts, DivisionUnique
<1> QED
  BY <1>3, <1>4, <1>8, <1>9, <1>10

-----------------------------------------------------------------------------
USE DEF statics, history

LEMMA ClockInitial == Init => ClockInv
<1> SUFFICES ASSUME Init PROVE ClockInv
  OBVIOUS
<1>1. 0 \in Counts /\ 0 \in 0 .. MaxMicroseconds
  <2>1. MaxCount \in Nat /\ MaxMicroseconds \in Nat
    BY CurrentTimeAssumption, MaxMicrosecondsType
  <2> QED
    BY <2>1 DEF Counts
<1>2. Zero \in Times
  BY WordFacts DEF Zero, Times, Word
<1>3. TypeOK
  BY <1>1, <1>2 DEF Init, TypeOK
<1>4. FirstCall
  BY CurrentTimeAssumption DEF Init, FirstCall
<1> QED
  BY <1>3, <1>4 DEF ClockInv, Init

(* What is written to initmicroseconds is what the first call has read.     *)
LEMMA InitMicrosecondsType ==
  ASSUME ClockInv, NEW th \in Threads, pc[th] = "initmicroseconds"
  PROVE  /\ th = Initializer /\ ~constructed
         /\ performancefrequency = Frequency
         /\ CalculateMicroseconds(performancecount[th], performancefrequency)
              = Micros(performancecount[th])
         /\ Micros(performancecount[th]) \in 0 .. MaxMicroseconds
<1>1. th = Initializer /\ ~constructed /\ performancefrequency = Frequency
  BY CurrentTimeAssumption DEF ClockInv, FirstCall, ClockRuns
<1>2. Micros(performancecount[th]) \in 0 .. MaxMicroseconds
  BY MicrosType DEF ClockInv, TypeOK
<1> QED
  BY <1>1, <1>2 DEF Micros

(* A call that is about to return has what TimeAtValue asks for.            *)
LEMMA ReturnedTime ==
  ASSUME ClockInv, NEW th \in Threads, pc[th] = "calculate"
  PROVE  LET p == performancecount[th] IN
         /\ p \in Counts /\ p <= count
         /\ performancefrequency = Frequency
         /\ microseconds \in WallTimes
         /\ initmicroseconds \in 0 .. MaxMicroseconds
         /\ initmicroseconds <= Micros(p)
         /\ At(p) \in 0 .. WordRange * Million - 1
         /\ TimeAt(p) \in Times
         /\ Value(TimeAt(p)) = At(p)
         /\ floor[th] <= At(p)
<1> DEFINE p == performancecount[th]
<1>1. p \in Counts /\ p <= count /\ initmicroseconds \in 0 .. MaxMicroseconds
  BY DEF ClockInv, TypeOK
<1>2. Micros(p) \in 0 .. MaxMicroseconds /\ MaxMicroseconds \in Nat
  BY <1>1, MicrosType, MaxMicrosecondsType
<1>3. /\ performancefrequency = Frequency
      /\ microseconds \in WallTimes
      /\ initmicroseconds <= Micros(p)
  <2>1. CASE constructed
    BY <2>1 DEF ClockInv, ClockRuns
  <2>2. CASE ~constructed
    <3>1. th = Initializer
      BY <2>2 DEF ClockInv, FirstCall
    <3>2. initmicroseconds = Micros(p)
      BY <2>2, <3>1 DEF ClockInv, FirstCall
    <3> QED
      BY <1>1, <1>2, <2>2, <3>1, <3>2 DEF ClockInv, FirstCall
  <2> QED
    BY <2>1, <2>2
<1>4. /\ At(p) \in 0 .. WordRange * Million - 1
      /\ TimeAt(p) \in Times
      /\ Value(TimeAt(p)) = At(p)
  BY <1>1, <1>3, TimeAtValue
<1>5. floor[th] <= At(p)
  <2>1. CASE constructed
    BY <2>1 DEF ClockInv, ClockRuns
  <2>2. CASE ~constructed
    BY <1>4, <2>2, WordFacts DEF ClockInv, FirstCall
  <2> QED
    BY <2>1, <2>2
<1> QED
  BY <1>1, <1>3, <1>4, <1>5

(* Every step keeps the types.                                              *)
LEMMA TypeStep ==
  ASSUME ClockInv, [Next]_vars
  PROVE  TypeOK'
<1> USE DEF Goto
<1>1. TypeOK
  BY DEF ClockInv
<1>2. CASE Tick
  <2>1. count' \in Counts
    BY <1>1, <1>2, CurrentTimeAssumption DEF TypeOK, Tick, Counts
  <2> QED
    BY <1>1, <1>2, <2>1 DEF TypeOK, Tick
<1>3. ASSUME NEW th \in Threads, QueryPerformanceCounter(th)
      PROVE  TypeOK'
  BY <1>1, <1>3 DEF TypeOK, QueryPerformanceCounter
<1>4. ASSUME NEW th \in Threads, TestInited(th)
      PROVE  TypeOK'
  BY <1>1, <1>4 DEF TypeOK, TestInited
<1>5. ASSUME NEW th \in Threads, MarkInited(th)
      PROVE  TypeOK'
  BY <1>1, <1>5 DEF TypeOK, MarkInited
<1>6. ASSUME NEW th \in Threads, QueryPerformanceFrequency(th)
      PROVE  TypeOK'
  BY <1>1, <1>6 DEF TypeOK, QueryPerformanceFrequency
<1>7. ASSUME NEW th \in Threads, GetSystemTime(th)
      PROVE  TypeOK'
  BY <1>1, <1>7 DEF TypeOK, GetSystemTime
<1>8. ASSUME NEW th \in Threads, SetInitMicroseconds(th)
      PROVE  TypeOK'
  <2>1. initmicroseconds' \in 0 .. MaxMicroseconds
    BY <1>8, InitMicrosecondsType DEF SetInitMicroseconds
  <2> QED
    BY <1>1, <1>8, <2>1 DEF TypeOK, SetInitMicroseconds
<1>9. ASSUME NEW th \in Threads, Calculate(th)
      PROVE  TypeOK'
  <2> DEFINE now == TimeAt(performancecount[th])
  <2>1. now \in Times /\ Value(now) \in Nat
    <3>1. pc[th] = "calculate"
      BY <1>9 DEF Calculate
    <3>2. now \in Times
      BY <3>1, ReturnedTime
    <3> QED
      BY <3>2, TimeFacts
  <2>2. starttime \in Times => Minus(now, starttime) \in Times
    BY <2>1, MinusIsExact DEF ExactMinus
  <2>3. latest' \in Nat
    BY <1>1, <1>9, <2>1 DEF TypeOK, Calculate
  <2>4. 0 \in Counts
    BY CurrentTimeAssumption DEF Counts
  <2>5. starttime' \in Times \union {NoTime} /\ startcount' \in Counts
    BY <1>1, <1>9, <2>1 DEF TypeOK, Calculate
  <2>6. elapsed' \in Times
    BY <1>1, <1>9, <2>2 DEF TypeOK, Calculate
  <2>7. /\ constructed' \in BOOLEAN
        /\ pc' = [pc EXCEPT ![th] = "idle"]
        /\ performancecount' = [performancecount EXCEPT ![th] = 0]
        /\ floor' = [floor EXCEPT ![th] = 0]
        /\ UNCHANGED <<count, statics>>
    BY <1>1, <1>9 DEF TypeOK, Calculate
  <2> QED
    BY <1>1, <2>3, <2>4, <2>5, <2>6, <2>7 DEF TypeOK
<1>10. CASE UNCHANGED vars
  BY <1>1, <1>10 DEF TypeOK, vars
<1> QED
  BY <1>2, <1>3, <1>4, <1>5, <1>6, <1>7, <1>8, <1>9, <1>10 DEF Next

(* ... and lets no thread have read the counter of the future.              *)
LEMMA CountStep ==
  ASSUME ClockInv, [Next]_vars
  PROVE  \A u \in Threads : performancecount'[u] <= count'
<1> USE DEF Goto
<1>1. /\ \A u \in Threads : performancecount[u] <= count
      /\ count \in Nat
      /\ performancecount \in [Threads -> Counts]
      /\ \A u \in Threads : performancecount[u] \in Nat
  BY CurrentTimeAssumption DEF ClockInv, TypeOK, Counts
<1>2. CASE Tick
  BY <1>1, <1>2 DEF Tick
<1>3. ASSUME NEW th \in Threads, QueryPerformanceCounter(th)
      PROVE  \A u \in Threads : performancecount'[u] <= count'
  BY <1>1, <1>3 DEF QueryPerformanceCounter
<1>4. ASSUME NEW th \in Threads, Calculate(th)
      PROVE  \A u \in Threads : performancecount'[u] <= count'
  BY <1>1, <1>4 DEF Calculate
<1>5. ASSUME UNCHANGED <<count, performancecount>>
      PROVE  \A u \in Threads : performancecount'[u] <= count'
  BY <1>1, <1>5
<1> QED
  BY <1>2, <1>3, <1>4, <1>5
  DEF Next, vars, TestInited, MarkInited, QueryPerformanceFrequency,
      GetSystemTime, SetInitMicroseconds

(* The first call sets the statics one by one; when it is over, the clock   *)
(* runs.                                                                    *)
LEMMA FirstCallStep ==
  ASSUME ClockInv, [Next]_vars, ~constructed
  PROVE  IF constructed' THEN ClockRuns' ELSE FirstCall'
<1> USE DEF Goto
<1>1. TypeOK /\ FirstCall /\ Initializer \in Threads
  BY CurrentTimeAssumption DEF ClockInv
<1>2. ASSUME NEW th \in Threads, pc[th] # "idle"
      PROVE  th = Initializer
  BY <1>1, <1>2 DEF FirstCall
<1>3. CASE Tick
  BY <1>1, <1>3 DEF Tick, FirstCall
<1>4. ASSUME NEW th \in Threads, QueryPerformanceCounter(th)
      PROVE  ~constructed' /\ FirstCall'
  <2>1. th = Initializer
    BY <1>4 DEF QueryPerformanceCounter, MayCall
  <2> QED
    BY <1>1, <1>4, <2>1 DEF QueryPerformanceCounter, FirstCall, TypeOK
<1>5. ASSUME NEW th \in Threads, TestInited(th)
      PROVE  ~constructed' /\ FirstCall'
  <2>1. th = Initializer
    BY <1>2, <1>5 DEF TestInited
  <2> QED
    BY <1>1, <1>5, <2>1 DEF TestInited, FirstCall, TypeOK
<1>6. ASSUME NEW th \in Threads, MarkInited(th)
      PROVE  ~constructed' /\ FirstCall'
  <2>1. th = Initializer
    BY <1>2, <1>6 DEF MarkInited
  <2> QED
    BY <1>1, <1>6, <2>1 DEF MarkInited, FirstCall, TypeOK
<1>7. ASSUME NEW th \in Threads, QueryPerformanceFrequency(th)
      PROVE  ~constructed' /\ FirstCall'
  <2>1. th = Initializer
    BY <1>2, <1>7 DEF QueryPerformanceFrequency
  <2> QED
    BY <1>1, <1>7, <2>1 DEF QueryPerformanceFrequency, FirstCall, TypeOK
<1>8. ASSUME NEW th \in Threads, GetSystemTime(th)
      PROVE  ~constructed' /\ FirstCall'
  <2>1. th = Initializer
    BY <1>2, <1>8 DEF GetSystemTime
  <2> QED
    BY <1>1, <1>8, <2>1 DEF GetSystemTime, FirstCall, TypeOK
<1>9. ASSUME NEW th \in Threads, SetInitMicroseconds(th)
      PROVE  ~constructed' /\ FirstCall'
  <2>1. /\ th = Initializer
        /\ initmicroseconds' = Micros(performancecount[th])
    BY <1>9, InitMicrosecondsType DEF SetInitMicroseconds
  <2>2. UNCHANGED performancecount
    BY <1>9 DEF SetInitMicroseconds
  <2> QED
    BY <1>1, <1>9, <2>1, <2>2 DEF SetInitMicroseconds, FirstCall, TypeOK, Micros
<1>10. ASSUME NEW th \in Threads, Calculate(th)
       PROVE  constructed' /\ ClockRuns'
  <2> DEFINE p == performancecount[th]
  <2>1. th = Initializer /\ th # Receiver /\ pc[th] = "calculate"
    BY <1>2, <1>10, CurrentTimeAssumption DEF Calculate
  <2>2. /\ p \in Counts /\ p <= count /\ count \in Counts
        /\ microseconds \in WallTimes /\ microseconds \in Nat
        /\ performancefrequency = Frequency
        /\ initmicroseconds <= Micros(p)
        /\ Value(TimeAt(p)) = At(p) /\ At(p) \in Nat
    BY <1>1, <2>1, ReturnedTime, CurrentTimeAssumption, WordFacts DEF TypeOK
  <2>3. /\ Micros(p) \in Int /\ Micros(count) \in Int
        /\ Micros(p) <= Micros(count)
        /\ initmicroseconds \in Int
    BY <1>1, <2>2, MicrosType, MicrosMonotone, CurrentTimeAssumption, WordFacts
    DEF TypeOK
  <2>4. /\ UNCHANGED <<count, statics, starttime>>
        /\ constructed' = TRUE
        /\ pc' = [pc EXCEPT ![th] = "idle"]
        /\ latest' = IF Value(TimeAt(p)) > latest THEN Value(TimeAt(p)) ELSE latest
    BY <1>1, <1>10, <2>1 DEF Calculate, FirstCall, TypeOK
  <2>5. inited /\ starttime = NoTime /\ latest = 0
    BY <1>1, <2>1 DEF FirstCall
  <2>6. \A u \in Threads : pc'[u] = "idle"
    BY <1>1, <2>1, <2>4 DEF FirstCall, TypeOK
  <2>7. latest' <= At(count) /\ At(count)' = At(count)
    BY <2>2, <2>3, <2>4, <2>5 DEF At, Micros
  <2>8. initmicroseconds' <= Micros(count)'
    BY <2>2, <2>3, <2>4 DEF Micros
  <2> QED
    BY <1>1, <2>1, <2>2, <2>4, <2>5, <2>6, <2>7, <2>8 DEF ClockRuns
<1>11. CASE UNCHANGED vars
  BY <1>1, <1>11 DEF vars, FirstCall, Micros
<1> QED
  BY <1>1, <1>3, <1>4, <1>5, <1>6, <1>7, <1>8, <1>9, <1>10, <1>11 DEF Next, Tick

(* While the clock runs, no later count gives an earlier time.              *)
LEMMA AtMonotone ==
  ASSUME ClockInv, constructed, NEW a \in Counts, NEW b \in Counts, a <= b
  PROVE  At(a) \in Int /\ At(b) \in Int /\ At(a) <= At(b)
<1>1. microseconds \in Nat /\ initmicroseconds \in Int
  BY CurrentTimeAssumption, WordFacts DEF ClockInv, ClockRuns, TypeOK
<1>2. Micros(a) \in Int /\ Micros(b) \in Int /\ Micros(a) <= Micros(b)
  BY MicrosType, MicrosMonotone, CurrentTimeAssumption, WordFacts
<1> QED
  BY <1>1, <1>2 DEF At

(* Once the clock runs it keeps running.                                    *)
LEMMA ClockRunsStep ==
  ASSUME ClockInv, [Next]_vars, constructed
  PROVE  constructed' /\ ClockRuns'
<1> USE DEF Goto
<1>1. /\ TypeOK /\ ClockRuns /\ Initializer \in Threads
      /\ \A u \in Threads : performancecount[u] <= count
  BY CurrentTimeAssumption DEF ClockInv
<1>2. /\ count \in Counts /\ count \in Nat /\ MaxCount \in Nat
      /\ startcount \in Counts /\ startcount \in Nat
      /\ \A u \in Threads : performancecount[u] \in Counts
      /\ \A u \in Threads : performancecount[u] \in Nat
      /\ latest \in Nat
  BY <1>1, CurrentTimeAssumption DEF TypeOK, Counts
<1>3. CASE Tick
  <2>1. /\ count' = count + 1 /\ count' \in Counts
        /\ UNCHANGED <<statics, constructed, pc, performancecount, starttime,
                       elapsed, history>>
    BY <1>2, <1>3 DEF Tick, Counts
  <2>2. At(count) <= At(count') /\ At(count) \in Int /\ At(count') \in Int
    BY <1>1, <1>2, <2>1, AtMonotone
  <2>3. /\ Micros(count) <= Micros(count') /\ Micros(count) \in Int
        /\ Micros(count') \in Int /\ initmicroseconds \in Int
    BY <1>1, <1>2, <2>1, MicrosMonotone, MicrosType, CurrentTimeAssumption,
       WordFacts DEF TypeOK
  <2>4. initmicroseconds' <= Micros(count') /\ latest' <= At(count)
    BY <1>1, <2>1, <2>3 DEF ClockRuns
  <2>5. latest' <= At(count')
    BY <1>2, <2>1, <2>2, <2>4
  <2>6. At(count') = At(count)' /\ Micros(count') = Micros(count)'
    BY <2>1 DEF At, Micros
  <2>7. \A u \in Threads :
          /\ pc'[u] \in {"idle", "test", "calculate"}
          /\ pc'[u] # "idle" =>
               /\ initmicroseconds' <= Micros(performancecount[u])'
               /\ floor'[u] <= At(performancecount[u])'
    BY <1>1, <2>1 DEF ClockRuns, At, Micros
  <2>8. starttime' # NoTime =>
          /\ starttime' \in Times
          /\ initmicroseconds' <= Micros(startcount)'
          /\ Value(starttime)' = At(startcount)'
          /\ startcount' <= count'
          /\ pc'[Receiver] # "idle" => startcount' <= performancecount'[Receiver]
    BY <1>1, <1>2, <2>1 DEF ClockRuns, At, Micros, Value
  <2> QED
    BY <1>1, <2>1, <2>4, <2>5, <2>6, <2>7, <2>8 DEF ClockRuns
<1>4. ASSUME NEW th \in Threads, QueryPerformanceCounter(th)
      PROVE  constructed' /\ ClockRuns'
  <2>1. /\ UNCHANGED <<count, statics, constructed, starttime, elapsed, latest,
                       startcount>>
        /\ performancecount' = [performancecount EXCEPT ![th] = count]
        /\ floor' = [floor EXCEPT ![th] = latest]
        /\ pc' = [pc EXCEPT ![th] = "test"]
        /\ th # Initializer
    BY <1>4 DEF QueryPerformanceCounter, MayCall
  <2>2. \A u \in Threads :
          /\ pc'[u] \in {"idle", "test", "calculate"}
          /\ pc'[u] # "idle" =>
               /\ initmicroseconds <= Micros(performancecount'[u])
               /\ floor'[u] <= At(performancecount'[u])
    BY <1>1, <2>1 DEF ClockRuns, TypeOK
  <2>3. pc'[Receiver] # "idle" /\ starttime # NoTime =>
          startcount <= performancecount'[Receiver]
    BY <1>1, <1>2, <2>1, CurrentTimeAssumption DEF ClockRuns, TypeOK
  <2> QED
    BY <1>1, <2>1, <2>2, <2>3 DEF ClockRuns, TypeOK, At, Micros, Value
<1>5. ASSUME NEW th \in Threads, TestInited(th)
      PROVE  constructed' /\ ClockRuns'
  BY <1>1, <1>5 DEF TestInited, ClockRuns, TypeOK, At, Micros, Value
<1>6. ASSUME NEW th \in Threads, Calculate(th)
      PROVE  constructed' /\ ClockRuns'
  <2> DEFINE p == performancecount[th]
  <2>1. pc[th] = "calculate"
    BY <1>6 DEF Calculate
  <2>2. /\ p \in Counts /\ p <= count
        /\ initmicroseconds <= Micros(p)
        /\ TimeAt(p) \in Times
        /\ Value(TimeAt(p)) = At(p)
    BY <2>1, ReturnedTime
  <2>3. At(p) <= At(count) /\ At(p) \in Int /\ At(count) \in Int
    BY <1>1, <1>2, <2>2, AtMonotone
  <2>4. /\ UNCHANGED <<count, statics>>
        /\ constructed'
        /\ pc' = [pc EXCEPT ![th] = "idle"]
        /\ performancecount' = [performancecount EXCEPT ![th] = 0]
        /\ floor' = [floor EXCEPT ![th] = 0]
        /\ latest' = IF Value(TimeAt(p)) > latest THEN Value(TimeAt(p)) ELSE latest
    BY <1>6 DEF Calculate
  <2>5. latest' <= At(count)
    BY <1>1, <1>2, <2>2, <2>3, <2>4 DEF ClockRuns
  <2>6. \A u \in Threads :
          /\ pc'[u] \in {"idle", "test", "calculate"}
          /\ pc'[u] # "idle" =>
               /\ initmicroseconds <= Micros(performancecount'[u])
               /\ floor'[u] <= At(performancecount'[u])
    BY <1>1, <2>4 DEF ClockRuns, TypeOK
  <2>7. starttime' # NoTime =>
          /\ starttime' \in Times
          /\ initmicroseconds <= Micros(startcount')
          /\ Value(starttime') = At(startcount')
          /\ startcount' <= count
          /\ pc'[Receiver] # "idle" => startcount' <= performancecount'[Receiver]
    <3>1. CASE th = Receiver /\ starttime = NoTime
      <4>1. starttime' = TimeAt(p) /\ startcount' = p /\ pc'[Receiver] = "idle"
        BY <1>1, <1>6, <3>1 DEF Calculate, TypeOK
      <4> QED
        BY <2>2, <4>1
    <3>2. CASE ~(th = Receiver /\ starttime = NoTime)
      <4>1. UNCHANGED <<starttime, startcount>>
        BY <1>6, <3>2 DEF Calculate
      <4>2. pc'[Receiver] # "idle" => th # Receiver
        BY <1>1, <2>4 DEF TypeOK
      <4> QED
        BY <1>1, <2>4, <4>1, <4>2, CurrentTimeAssumption DEF ClockRuns, TypeOK
    <3> QED
      BY <3>1, <3>2
  <2> QED
    BY <1>1, <2>4, <2>5, <2>6, <2>7 DEF ClockRuns, TypeOK, At, Micros, Value
<1>7. CASE UNCHANGED vars
  BY <1>1, <1>7 DEF vars, ClockRuns, At, Micros, Value
<1>8. ASSUME NEW th \in Threads,
             \/ MarkInited(th)
             \/ QueryPerformanceFrequency(th)
             \/ GetSystemTime(th)
             \/ SetInitMicroseconds(th)
      PROVE  FALSE
  BY <1>1, <1>8 DEF ClockRuns, MarkInited, QueryPerformanceFrequency,
                    GetSystemTime, SetInitMicroseconds
<1> QED
  BY <1>1, <1>3, <1>4, <1>5, <1>6, <1>7, <1>8 DEF Next, Tick

-----------------------------------------------------------------------------
LEMMA ClockStep == ClockInv /\ [Next]_vars => ClockInv'
<1> SUFFICES ASSUME ClockInv, [Next]_vars PROVE ClockInv'
  OBVIOUS
<1>1. TypeOK' /\ \A u \in Threads : performancecount'[u] <= count'
  BY TypeStep, CountStep
<1>2. CASE constructed
  BY <1>1, <1>2, ClockRunsStep DEF ClockInv
<1>3. CASE ~constructed
  BY <1>1, <1>3, FirstCallStep DEF ClockInv
<1> QED
  BY <1>2, <1>3

(* The inductive invariant: who may run before main, what the statics hold  *)
(* at each point of the first call, and which counts bound which times.     *)
THEOREM ClockInvariance == Spec => []ClockInv
<1>1. Init => ClockInv
  BY ClockInitial
<1>2. ClockInv /\ [Next]_vars => ClockInv'
  BY ClockStep
<1> QED
  BY <1>1, <1>2, PTL DEF Spec

(* The state keeps its types; no time exceeds a word of seconds.            *)
THEOREM ClockTypes == Spec => []TypeOK
<1>1. ClockInv => TypeOK
  BY DEF ClockInv
<1> QED
  BY <1>1, ClockInvariance, PTL

(* With the initializer constructed before main, no thread ever divides by  *)
(* a frequency that another has not set yet.                                *)
THEOREM NeverDividesByZero == Spec => []NoDivisionByZero
<1>1. ClockInv => NoDivisionByZero
  <2> SUFFICES ASSUME ClockInv, NEW th \in Threads,
                      pc[th] \in {"initmicroseconds", "calculate"}
               PROVE  performancefrequency # 0
    BY DEF NoDivisionByZero
  <2>1. performancefrequency = Frequency
    <3>1. CASE constructed
      BY <3>1 DEF ClockInv, ClockRuns
    <3>2. CASE ~constructed
      BY <3>2 DEF ClockInv, FirstCall
    <3> QED
      BY <3>1, <3>2
  <2> QED
    BY <2>1, CurrentTimeAssumption
<1> QED
  BY <1>1, ClockInvariance, PTL

(* The clock of the client never goes back, whatever happens to that of the *)
(* system.                                                                  *)
THEOREM ClockNeverGoesBack == Spec => NeverGoesBack
<1> DEFINE Kept ==
      \A th \in Threads :
        pc[th] = "calculate" /\ pc'[th] = "idle" =>
          floor[th] <= Value(TimeAt(performancecount[th]))
<1>1. ClockInv => Kept
  BY ReturnedTime
<1> QED
  BY <1>1, ClockInvariance, PTL DEF NeverGoesBack

(* Only the return of the receiver's own call ends it.                      *)
LEMMA ReceiverReturns ==
  ASSUME ClockInv, [Next]_vars, pc[Receiver] = "calculate", pc'[Receiver] = "idle"
  PROVE  Calculate(Receiver) /\ constructed
<1> USE DEF Goto
<1>1. TypeOK /\ Receiver \in Threads /\ Receiver # Initializer
  BY CurrentTimeAssumption DEF ClockInv
<1>2. constructed
  BY <1>1 DEF ClockInv, FirstCall
<1>3. ASSUME NEW th \in Threads,
             \/ QueryPerformanceCounter(th)
             \/ TestInited(th)
             \/ MarkInited(th)
             \/ QueryPerformanceFrequency(th)
             \/ GetSystemTime(th)
             \/ SetInitMicroseconds(th)
      PROVE  FALSE
  BY <1>1, <1>3 DEF TypeOK, QueryPerformanceCounter, TestInited, MarkInited,
     QueryPerformanceFrequency, GetSystemTime, SetInitMicroseconds
<1>4. ASSUME NEW th \in Threads, Calculate(th)
      PROVE  th = Receiver
  BY <1>1, <1>4 DEF TypeOK, Calculate
<1>5. ~Tick /\ ~UNCHANGED vars
  BY DEF Tick, vars
<1> QED
  BY <1>2, <1>3, <1>4, <1>5 DEF Next

(* What the receiver takes for the time since its start is wrong by less    *)
(* than a microsecond, however the system clock was set in between.         *)
THEOREM ElapsedTimeIsExact == Spec => ElapsedIsExact
<1> DEFINE ticks == performancecount[Receiver] - startcount
           error == Value(elapsed') * Frequency - ticks * Million
           Step == pc[Receiver] = "calculate" /\ pc'[Receiver] = "idle"
                   /\ starttime # NoTime
                     => - Frequency < error /\ error < Frequency
<1>1. ClockInv /\ [Next]_vars => Step
  <2> SUFFICES ASSUME ClockInv, [Next]_vars, pc[Receiver] = "calculate",
                      pc'[Receiver] = "idle", starttime # NoTime
               PROVE  - Frequency < error /\ error < Frequency
    OBVIOUS
  <2> DEFINE p == performancecount[Receiver]
             range == WordRange * Million
             d == Micros(p) - Micros(startcount)
  <2>1. Calculate(Receiver) /\ constructed /\ Receiver \in Threads
    BY ReceiverReturns, CurrentTimeAssumption
  <2>2. /\ p \in Counts /\ startcount \in Counts /\ startcount <= p
        /\ starttime \in Times /\ Value(starttime) = At(startcount)
        /\ initmicroseconds <= Micros(startcount)
        /\ performancefrequency = Frequency /\ microseconds \in WallTimes
        /\ initmicroseconds \in 0 .. MaxMicroseconds
    BY <2>1 DEF ClockInv, ClockRuns, TypeOK
  <2>3. /\ TimeAt(p) \in Times /\ Value(TimeAt(p)) = At(p)
        /\ At(p) \in 0 .. range - 1
    BY <2>1, ReturnedTime
  <2>4. At(startcount) \in 0 .. range - 1
    BY <2>2, TimeAtValue
  <2>5. At(startcount) <= At(p)
    BY <2>1, <2>2, AtMonotone
  <2>6. /\ Micros(p) \in Int /\ Micros(startcount) \in Int
        /\ microseconds \in Int /\ initmicroseconds \in Int
    BY <2>2, MicrosType, CurrentTimeAssumption, WordFacts
  <2>7. At(p) - At(startcount) = d
    BY <2>6 DEF At
  <2>8. range \in Nat \ {0}
    BY WordFacts
  <2>9. d \in 0 .. range - 1 /\ d \in Int
    BY <2>3, <2>4, <2>5, <2>7, <2>8
  <2>10. Value(elapsed') = d
    <3>1. elapsed' = Minus(TimeAt(p), starttime)
      BY <2>1 DEF Calculate
    <3>2. Value(elapsed') = (At(p) - At(startcount)) % range
      BY <2>2, <2>3, <3>1, MinusIsExact DEF ExactMinus
    <3> HIDE DEF d, range
    <3>3. d = range * 0 + d
      BY <2>8, <2>9
    <3>4. d % range = d
      BY <2>8, <2>9, <3>3, DivisionUnique
    <3> QED
      BY <2>7, <3>2, <3>4
  <2>11. PICK r \in 0 .. Frequency - 1 : p * Million = Frequency * Micros(p) + r
    BY <2>2, MicrosRest
  <2>12. PICK s \in 0 .. Frequency - 1 :
           startcount * Million = Frequency * Micros(startcount) + s
    BY <2>2, MicrosRest
  <2>13. /\ Frequency \in Nat \ {0} /\ Million \in Nat
         /\ p \in Int /\ startcount \in Int
    BY <2>2, CurrentTimeAssumption, WordFacts DEF Counts
  <2>14. d * Frequency = Frequency * Micros(p) - Frequency * Micros(startcount)
    BY <2>6, <2>13
  <2>15. ticks * Million = p * Million - startcount * Million
    BY <2>13
  <2>16. error = s - r
    <3>1. error = d * Frequency - ticks * Million
      BY <2>10
    <3> HIDE DEF d, ticks, error
    <3> QED
      BY <2>6, <2>11, <2>12, <2>13, <2>14, <2>15, <3>1
  <2> HIDE DEF error
  <2> QED
    BY <2>11, <2>12, <2>13, <2>16
<1> QED
  BY <1>1, ClockInvariance, PTL DEF ElapsedIsExact, Spec
=============================================================================
