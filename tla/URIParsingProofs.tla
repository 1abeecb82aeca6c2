---------------------------- MODULE URIParsingProofs ----------------------------
(***************************************************************************)
(* Proofs about URIParsing, for every input whose fields fit the buffers:   *)
(* what the buffers hold although they are written over and over and never  *)
(* cleared.                                                                 *)
(***************************************************************************)
EXTENDS URIParsing, WellFoundedInduction, TLAPS

(* The part of TypeOK that the buffers' contents rest on.                   *)
BufferTypes ==
  /\ uri \in Uris \union {NoHead}
  /\ pc \in {"find", "scan", "done"}
  /\ pc = "scan" => uri # NoHead
  /\ pc = "find" => i = 1
  /\ uri # NoHead => i \in 1 .. Len(uri) + 1
  /\ dotIPAddr \in [0 .. DotSize - 1 -> Chars \union {NUL}]
  /\ strPort \in [0 .. PortSize - 1 -> Chars \union {NUL}]
  /\ dotIPAddr[DotSize - 1] = NUL /\ strPort[PortSize - 1] = NUL

(* The address buffer holds what stands before the colon c and then NULs.   *)
AddressUpTo(c) ==
  \A j \in 0 .. DotSize - 1 : dotIPAddr[j] = IF j + 1 < c THEN uri[j + 1] ELSE NUL

(* The j-th character of the port buffer is that of the latest port that    *)
(* has one, and NUL when there was none.                                    *)
PortCharacter(j) ==
  /\ Reaching(j) = {} <=> strPort[j - 1] = NUL
  /\ \A c \in Reaching(j) :
       (\A d \in Reaching(j) : d <= c) => strPort[j - 1] = uri[c + j]

(* The whole buffers, of which the properties only see the texts.           *)
BuffersInv ==
  /\ Handled = {} => \A j \in 0 .. DotSize - 1 : dotIPAddr[j] = NUL
  /\ \A c \in Handled : IsLastHandled(c) => AddressUpTo(c)
  /\ \A j \in 1 .. PortSize : PortCharacter(j)

IInv == BufferTypes /\ BuffersInv

-----------------------------------------------------------------------------
(* Every set of natural numbers has a least element.                        *)
LEMMA LeastNatural ==
  ASSUME NEW T, T \subseteq Nat, T # {}
  PROVE  \E x \in T : \A y \in T : x <= y
<1> DEFINE R == OpToRel(<, Nat)
<1>1. IsWellFoundedOn(R, Nat)
  BY NatLessThanWellFounded
<1>2. PICK x \in T : \A y \in T : ~ (<<y, x>> \in R)
  <2> HIDE DEF R
  <2> QED
    BY <1>1, WFMin
<1>3. \A y \in T : x <= y
  <2> SUFFICES ASSUME NEW y \in T PROVE x <= y
    OBVIOUS
  <2>1. <<y, x>> \in Nat \X Nat /\ x \in Nat /\ y \in Nat
    OBVIOUS
  <2>2. y < x => <<y, x>> \in R
    BY <2>1 DEF OpToRel
  <2> HIDE DEF R
  <2> QED
    BY <1>2, <2>1, <2>2
<1> QED
  BY <1>3

(* The text after a colon ends at the first slash or with the input.        *)
LEMMA PortEndIsFirstSlash ==
  ASSUME NEW u \in Seq(Chars), NEW c \in DOMAIN u
  PROVE  /\ PortEnd(u, c) \in c .. Len(u)
         /\ \A j \in c + 1 .. PortEnd(u, c) : u[j] # Slash
         /\ PortEnd(u, c) < Len(u) => u[PortEnd(u, c) + 1] = Slash
<1> DEFINE Ends(n) == /\ \A j \in c + 1 .. n : u[j] # Slash
                      /\ n < Len(u) => u[n + 1] = Slash
           Slashes == {k \in c + 1 .. Len(u) : u[k] = Slash}
<1>1. c \in 1 .. Len(u) /\ Len(u) \in Nat
  OBVIOUS
<1>2. \E n \in c .. Len(u) : Ends(n)
  <2>1. CASE Slashes = {}
    BY <1>1, <2>1
  <2>2. CASE Slashes # {}
    <3>1. PICK m \in Slashes : \A k \in Slashes : m <= k
      <4>1. Slashes \subseteq Nat
        BY <1>1
      <4> HIDE DEF Slashes
      <4> QED
        BY <4>1, <2>2, LeastNatural
    <3>2. m - 1 \in c .. Len(u) /\ u[m] = Slash
      BY <1>1
    <3>3. \A j \in c + 1 .. m - 1 : u[j] # Slash
      BY <3>1, <1>1
    <3>4. Ends(m - 1)
      BY <3>2, <3>3, <1>1
    <3> QED
      BY <3>2, <3>4
  <2> QED
    BY <2>1, <2>2
<1>3. PortEnd(u, c) = CHOOSE n \in c .. Len(u) : Ends(n)
  BY DEF PortEnd
<1> HIDE DEF Ends
<1>4. PortEnd(u, c) \in c .. Len(u) /\ Ends(PortEnd(u, c))
  BY <1>2, <1>3
<1> QED
  BY <1>4 DEF Ends

(* The C string in a buffer is what stands before the first NUL.            *)
LEMMA TextLength ==
  ASSUME NEW size \in Nat, NEW buf \in [0 .. size - 1 -> Chars \union {NUL}]
  PROVE  \E n \in 0 .. size :
           /\ \A j \in 0 .. n - 1 : buf[j] # NUL
           /\ n < size => buf[n] = NUL
           /\ Text(buf, size) = [j \in 1 .. n |-> buf[j - 1]]
<1> DEFINE First(n) == /\ \A j \in 0 .. n - 1 : buf[j] # NUL
                       /\ n < size => buf[n] = NUL
           NULs == {k \in 0 .. size - 1 : buf[k] = NUL}
<1>1. \E n \in 0 .. size : First(n)
  <2>1. CASE NULs = {}
    <3>1. First(size)
      BY <2>1
    <3> QED
      BY <3>1
  <2>2. CASE NULs # {}
    <3>1. PICK m \in NULs : \A k \in NULs : m <= k
      <4>1. NULs \subseteq Nat
        OBVIOUS
      <4> HIDE DEF NULs
      <4> QED
        BY <4>1, <2>2, LeastNatural
    <3>2. First(m)
      BY <3>1
    <3> QED
      BY <3>2
  <2> QED
    BY <2>1, <2>2
<1>2. LET n == CHOOSE k \in 0 .. size : First(k)
      IN  /\ n \in 0 .. size /\ First(n)
          /\ Text(buf, size) = [j \in 1 .. n |-> buf[j - 1]]
  <2>1. Text(buf, size) = LET n == CHOOSE k \in 0 .. size : First(k)
                          IN  [j \in 1 .. n |-> buf[j - 1]]
    BY DEF Text
  <2> HIDE DEF First
  <2> QED
    BY <1>1, <2>1
<1> QED
  BY <1>2
-----------------------------------------------------------------------------
USE UriAssumption

LEMMA CharsAreNoNUL == NUL \notin Chars
  BY DEF NUL, Chars, Digits, Letter, Colon, Slash

(* What UriAssumption says of a colon of the input.                         *)
LEMMA FieldsFit ==
  ASSUME uri \in Uris, NEW c \in DOMAIN uri, uri[c] = Colon
  PROVE  /\ uri \in Seq(Chars)
         /\ c \in 1 .. Len(uri) /\ Len(uri) \in Nat
         /\ c - 1 < DotSize
         /\ PortEnd(uri, c) \in c .. Len(uri)
         /\ PortEnd(uri, c) - c < PortSize
<1>1. uri \in Seq(Chars)
  OBVIOUS
<1> QED
  BY <1>1, PortEndIsFirstSlash

LEMMA InitInvariant == Init => IInv
<1> SUFFICES ASSUME Init PROVE IInv
  OBVIOUS
<1>1. uri # NoHead => uri \in Seq(Chars)
  BY DEF Init
<1>2. Handled = {}
  BY <1>1 DEF Init, Handled
<1>3. BufferTypes
  BY <1>1 DEF Init, BufferTypes
<1>4. BuffersInv
  BY <1>2, CharsAreNoNUL DEF Init, BuffersInv, PortCharacter, Reaching
<1> QED
  BY <1>3, <1>4 DEF IInv

(* A step that is not at a colon changes neither buffer nor what was        *)
(* handled.                                                                 *)
LEMMA OtherSteps ==
  ASSUME IInv, FindHead \/ ScanOther \/ ScanEnds \/ UNCHANGED vars
  PROVE  IInv'
<1>1. uri' = uri /\ dotIPAddr' = dotIPAddr /\ strPort' = strPort
  BY DEF FindHead, ScanOther, ScanEnds, vars, fields
<1>2. uri # NoHead => uri \in Seq(Chars) /\ i \in Int
  BY DEF IInv, BufferTypes
<1>3. BufferTypes'
  BY <1>1, <1>2 DEF IInv, BufferTypes, FindHead, ScanOther, ScanEnds, vars
<1>4. Handled' = Handled
  <2>1. CASE uri = NoHead
    BY <1>1, <2>1 DEF Handled
  <2>2. CASE uri # NoHead /\ FindHead
    BY <1>1, <1>2, <2>2 DEF Handled, FindHead
  <2>3. CASE uri # NoHead /\ ScanOther
    BY <1>1, <1>2, <2>3 DEF Handled, ScanOther
  <2>4. CASE uri # NoHead /\ ScanEnds
    BY <1>1, <1>2, <2>4 DEF Handled, ScanEnds
  <2>5. CASE UNCHANGED vars
    BY <1>1, <2>5 DEF Handled, vars
  <2> QED
    BY <2>1, <2>2, <2>3, <2>4, <2>5
<1>5. BuffersInv'
  BY <1>1, <1>4 DEF IInv, BuffersInv, IsLastHandled, AddressUpTo, PortCharacter,
     Reaching
<1> QED
  BY <1>3, <1>5 DEF IInv

(* At a colon both buffers are written over; the new address is longer than *)
(* the old one, so nothing of that is left behind it.                       *)
LEMMA ColonStep ==
  ASSUME IInv, ScanColon
  PROVE  IInv'
<1>1. /\ uri \in Uris /\ i \in DOMAIN uri /\ uri[i] = Colon /\ uri' = uri
      /\ uri \in Seq(Chars) /\ pc = "scan" /\ uri # NoHead
  BY DEF IInv, BufferTypes, ScanColon
<1>2. /\ i \in 1 .. Len(uri) /\ Len(uri) \in Nat /\ i - 1 < DotSize
      /\ PortEnd(uri, i) \in i .. Len(uri) /\ PortEnd(uri, i) - i < PortSize
  BY <1>1, FieldsFit
<1>3. Handled' = Handled \union {i} /\ \A c \in Handled : c < i /\ c \in 1 .. Len(uri)
  <2>1. DOMAIN uri = 1 .. Len(uri) /\ i \in Int
    BY <1>2
  <2>2. \/ pc' = "done" /\ i' = i
        \/ pc' = "scan" /\ i' = i + 1
    BY DEF ScanColon
  <2>3. \A c \in DOMAIN uri :
          (c < i' \/ (c = i' /\ pc' = "done")) <=> (c < i \/ c = i)
    BY <2>1, <2>2
  <2>4. Handled' = {c \in DOMAIN uri : uri[c] = Colon /\ (c < i' \/ (c = i' /\ pc' = "done"))}
    BY <1>1 DEF Handled
  <2>5. Handled = {c \in DOMAIN uri : uri[c] = Colon /\ c < i}
    BY <1>1 DEF Handled
  <2>6. Handled' = {c \in DOMAIN uri : uri[c] = Colon /\ (c < i \/ c = i)}
    BY <2>3, <2>4
  <2> QED
    BY <1>1, <2>1, <2>5, <2>6
<1>4. \A j \in 0 .. DotSize - 1 :
        dotIPAddr'[j] = IF j + 1 < i THEN uri[j + 1] ELSE dotIPAddr[j]
  BY DEF ScanColon, CopyAddress
<1>5. \A j \in 0 .. PortSize - 1 :
        strPort'[j] = IF i + 1 + j <= PortEnd(uri, i) THEN uri[i + 1 + j] ELSE strPort[j]
  BY DEF ScanColon, CopyPort
<1>6. BufferTypes'
  <2>1. dotIPAddr' \in [0 .. DotSize - 1 -> Chars \union {NUL}]
    BY <1>1, <1>2 DEF IInv, BufferTypes, ScanColon, CopyAddress
  <2>2. dotIPAddr'[DotSize - 1] = NUL /\ strPort'[PortSize - 1] = NUL
    BY <1>2, <1>4, <1>5 DEF IInv, BufferTypes
  <2>3. strPort' \in [0 .. PortSize - 1 -> Chars \union {NUL}]
    <3>1. \A j \in 0 .. PortSize - 1 :
            i + 1 + j <= PortEnd(uri, i) => uri[i + 1 + j] \in Chars
      <4>1. \A k \in 1 .. Len(uri) : uri[k] \in Chars
        BY <1>1
      <4>2. \A j \in 0 .. PortSize - 1 :
              i + 1 + j <= PortEnd(uri, i) => i + 1 + j \in 1 .. Len(uri)
        BY <1>2
      <4> QED
        BY <4>1, <4>2
    <3> QED
      BY <3>1 DEF IInv, BufferTypes, ScanColon, CopyPort
  <2>4. pc' \in {"scan", "done"} /\ i' \in 1 .. Len(uri) + 1
    BY <1>2 DEF ScanColon
  <2> QED
    BY <1>1, <2>1, <2>2, <2>3, <2>4 DEF BufferTypes
<1>7. \A j \in 0 .. DotSize - 1 : j + 1 >= i => dotIPAddr[j] = NUL
  <2>1. CASE Handled = {}
    BY <2>1 DEF IInv, BuffersInv
  <2>2. CASE Handled # {}
    <3>1. PICK c \in Handled : IsLastHandled(c)
      <4>1. PICK m \in {Len(uri) - d : d \in Handled} :
              \A n \in {Len(uri) - d : d \in Handled} : m <= n
        <5>1. {Len(uri) - d : d \in Handled} \subseteq Nat
          BY <1>2, <1>3
        <5>2. {Len(uri) - d : d \in Handled} # {}
          BY <2>2
        <5> QED
          BY <5>1, <5>2, LeastNatural
      <4>2. PICK c \in Handled : m = Len(uri) - c
        OBVIOUS
      <4>3. ASSUME NEW d \in Handled PROVE d <= c
        <5>1. Len(uri) - c <= Len(uri) - d
          BY <4>1, <4>2
        <5> QED
          BY <5>1, <1>2, <1>3
      <4> QED
        BY <4>2, <4>3 DEF IsLastHandled
    <3>2. AddressUpTo(c)
      BY <3>1 DEF IInv, BuffersInv
    <3> QED
      BY <3>2, <1>2, <1>3 DEF AddressUpTo
  <2> QED
    BY <2>1, <2>2
<1>8. PICK c \in 1 .. Len(uri) : c = i
  BY <1>2
<1>9. AddressUpTo(c)'
  BY <1>1, <1>2, <1>4, <1>7, <1>8 DEF AddressUpTo
<1>10. ASSUME NEW j \in 1 .. PortSize PROVE PortCharacter(j)'
  <2>1. PortCharacter(j) /\ j - 1 \in 0 .. PortSize - 1
    BY DEF IInv, BuffersInv
  <2>2. Reaching(j)' = {d \in Handled \union {i} : d + j <= PortEnd(uri, d)}
    BY <1>1, <1>3 DEF Reaching
  <2>3. CASE i + j <= PortEnd(uri, i)
    <3>1. strPort'[j - 1] = uri[i + j]
      <4>1. i + 1 + (j - 1) = i + j
        BY <1>2
      <4> QED
        BY <1>5, <2>1, <2>3, <4>1
    <3>2. uri[i + j] # NUL
      <4>1. i + j \in 1 .. Len(uri)
        BY <1>2, <2>3
      <4> QED
        BY <1>1, <4>1, CharsAreNoNUL
    <3>3. i \in Reaching(j)'
      BY <2>2, <2>3
    <3>4. ASSUME NEW d \in Reaching(j)', \A e \in Reaching(j)' : e <= d
          PROVE  d = i
      BY <1>2, <1>3, <2>2, <3>3, <3>4
    <3> QED
      BY <1>1, <3>1, <3>2, <3>3, <3>4 DEF PortCharacter
  <2>4. CASE ~(i + j <= PortEnd(uri, i))
    <3>1. strPort'[j - 1] = strPort[j - 1]
      <4>1. ~(i + 1 + (j - 1) <= PortEnd(uri, i))
        BY <1>2, <2>4
      <4> QED
        BY <1>5, <2>1, <4>1
    <3>2. Reaching(j)' = Reaching(j)
      BY <2>2, <2>4 DEF Reaching
    <3> QED
      BY <1>1, <2>1, <3>1, <3>2 DEF PortCharacter
  <2> QED
    BY <2>3, <2>4
<1>11. BuffersInv'
  <2>1. Handled' # {}
    BY <1>3
  <2>2. ASSUME NEW d \in Handled', IsLastHandled(d)' PROVE d = c
    <3>1. d \in Handled \union {c} /\ c <= d
      BY <2>2, <1>3, <1>8 DEF IsLastHandled
    <3>2. d \in Handled => d < c
      BY <1>3, <1>8
    <3> QED
      BY <3>1, <3>2, <1>2, <1>3
  <2> QED
    BY <1>9, <1>10, <2>1, <2>2 DEF BuffersInv
<1> QED
  BY <1>6, <1>11 DEF IInv

LEMMA NextInvariant == IInv /\ [Next]_vars => IInv'
  BY OtherSteps, ColonStep DEF Next

(* The inductive invariant holds in every state.                            *)
THEOREM ParserInvariance == Spec => []IInv
  BY InitInvariant, NextInvariant, PTL DEF Spec

-----------------------------------------------------------------------------
(* The type of the fields that are converted from the buffers.              *)
ConvertedTypes ==
  /\ intPort = Garbage \/ intPort \in Nat
  /\ flag \in {-1, 0}

(* One pass of atoi: the value v of the first n - 1 characters and the next *)
(* character.                                                               *)
NextValue(buf, n, v) ==
  IF \A j \in 0 .. n - 1 : buf[j] \in Digits THEN 10 * v + buf[n - 1] ELSE v

Values(g, buf, m) ==
  /\ g[0] = 0
  /\ \A n \in 1 .. m : g[n] = NextValue(buf, n, g[n - 1])

LEMMA NextValueIsNat ==
  ASSUME NEW buf, NEW n \in Nat \ {0}, NEW v \in Nat
  PROVE  NextValue(buf, n, v) \in Nat
<1>1. CASE \A j \in 0 .. n - 1 : buf[j] \in Digits
  <2>1. buf[n - 1] \in Nat
    BY <1>1 DEF Digits
  <2> QED
    BY <1>1, <2>1 DEF NextValue
<1>2. CASE ~ \A j \in 0 .. n - 1 : buf[j] \in Digits
  BY <1>2 DEF NextValue
<1> QED
  BY <1>1, <1>2

LEMMA ValuesExist ==
  ASSUME NEW buf, NEW m \in Nat
  PROVE  \E g \in [0 .. m -> Nat] : Values(g, buf, m)
<1> DEFINE Valued(k) == \E g \in [0 .. k -> Nat] : Values(g, buf, k)
           Lacking == {k \in Nat : ~ Valued(k)}
<1>1. Lacking = {}
  <2> SUFFICES ASSUME Lacking # {} PROVE FALSE
    OBVIOUS
  <2>1. PICK k \in Lacking : \A j \in Lacking : k <= j
    <3>1. Lacking \subseteq Nat
      OBVIOUS
    <3> HIDE DEF Lacking
    <3> QED
      BY <3>1, LeastNatural
  <2>2. k \in Nat
    OBVIOUS
  <2>3. CASE k = 0
    <3>1. Values([n \in 0 .. 0 |-> 0], buf, 0)
      BY DEF Values
    <3> QED
      BY <2>3, <3>1
  <2>4. CASE k # 0
    <3>1. k - 1 \in Nat /\ k - 1 \notin Lacking
      <4>1. k - 1 \in Nat /\ ~ (k <= k - 1)
        BY <2>2, <2>4
      <4> HIDE DEF Lacking
      <4> QED
        BY <2>1, <4>1
    <3>2. PICK g \in [0 .. k - 1 -> Nat] : Values(g, buf, k - 1)
      BY <3>1
    <3>3. PICK v \in Nat : v = NextValue(buf, k, g[k - 1])
      <4>1. k \in Nat \ {0} /\ g[k - 1] \in Nat
        BY <2>2, <2>4, <3>2
      <4> QED
        BY <4>1, NextValueIsNat
    <3> DEFINE h == [n \in 0 .. k |-> IF n = k THEN v ELSE g[n]]
    <3>4. h \in [0 .. k -> Nat] /\ h[0] = 0
      BY <2>2, <2>4, <3>2 DEF Values
    <3>5. ASSUME NEW n \in 1 .. k PROVE h[n] = NextValue(buf, n, h[n - 1])
      <4>1. h[n - 1] = g[n - 1]
        BY <2>2
      <4>2. CASE n = k
        BY <3>3, <4>1, <4>2
      <4>3. CASE n # k
        <5>1. n \in 1 .. k - 1 /\ h[n] = g[n]
          BY <2>2, <4>3
        <5> QED
          BY <3>2, <4>1, <5>1 DEF Values
      <4> QED
        BY <4>2, <4>3
    <3> HIDE DEF h
    <3>6. Values(h, buf, k)
      BY <3>4, <3>5 DEF Values
    <3>7. Valued(k)
      BY <3>4, <3>6
    <3> QED
      BY <3>7
  <2> QED
    BY <2>3, <2>4
<1> QED
  BY <1>1

(* Whatever a buffer holds, atoi makes a number of it.                      *)
LEMMA AtoiIsNat ==
  ASSUME NEW buf
  PROVE  Atoi(buf) \in Nat
<1> DEFINE Def(g) == [n \in 0 .. PortSize |->
                        IF n = 0 THEN 0
                        ELSE IF \A j \in 0 .. n - 1 : buf[j] \in Digits
                             THEN 10 * g[n - 1] + buf[n - 1]
                             ELSE g[n - 1]]
           value == CHOOSE g : g = Def(g)
           Wrong == {n \in 0 .. PortSize : value[n] \notin Nat}
<1>1. Atoi(buf) = value[PortSize]
  BY DEF Atoi
<1>2. PortSize \in Nat
  BY UriAssumption
<1>3. PICK g \in [0 .. PortSize -> Nat] : Values(g, buf, PortSize)
  BY <1>2, ValuesExist
<1>4. g = Def(g)
  <2>1. ASSUME NEW n \in 0 .. PortSize PROVE g[n] = Def(g)[n]
    <3>1. CASE n = 0
      BY <1>2, <1>3, <3>1 DEF Values
    <3>2. CASE n # 0
      <4>1. n \in 1 .. PortSize
        BY <1>2, <3>2
      <4>2. g[n] = NextValue(buf, n, g[n - 1])
        BY <1>3, <4>1 DEF Values
      <4> QED
        BY <3>2, <4>2 DEF NextValue
    <3> QED
      BY <3>1, <3>2
  <2>2. g = [n \in 0 .. PortSize |-> g[n]]
    OBVIOUS
  <2> QED
    BY <2>1, <2>2
<1>5. value = Def(value)
  <2> HIDE DEF Def
  <2> QED
    BY <1>4
<1> HIDE DEF value
<1>6. \A n \in 0 .. PortSize : value[n] = IF n = 0 THEN 0 ELSE NextValue(buf, n, value[n - 1])
  <2>1. \A n \in 0 .. PortSize : Def(value)[n] = IF n = 0 THEN 0 ELSE NextValue(buf, n, value[n - 1])
    BY DEF NextValue
  <2> HIDE DEF Def
  <2> QED
    BY <1>5, <2>1
<1>7. Wrong = {}
  <2> SUFFICES ASSUME Wrong # {} PROVE FALSE
    OBVIOUS
  <2>1. PICK n \in Wrong : \A k \in Wrong : n <= k
    <3>1. Wrong \subseteq Nat
      BY <1>2
    <3> HIDE DEF Wrong
    <3> QED
      BY <3>1, LeastNatural
  <2>2. n \in 0 .. PortSize /\ n # 0
    BY <1>2, <1>6
  <2>3. value[n - 1] \in Nat
    <3>1. n - 1 \in 0 .. PortSize /\ ~ (n <= n - 1)
      BY <1>2, <2>2
    <3> QED
      BY <2>1, <3>1
  <2>4. NextValue(buf, n, value[n - 1]) \in Nat
    BY <1>2, <2>2, <2>3, NextValueIsNat
  <2> QED
    BY <1>6, <2>2, <2>4
<1>8. PortSize \in 0 .. PortSize
  BY <1>2
<1> QED
  BY <1>1, <1>7, <1>8

LEMMA ConvertedInvariant == ConvertedTypes /\ [Next]_vars => ConvertedTypes'
<1> SUFFICES ASSUME ConvertedTypes, [Next]_vars PROVE ConvertedTypes'
  OBVIOUS
<1>1. CASE ScanColon
  <2>1. intPort' \in Nat
    <3>1. PICK buf : intPort' = Atoi(buf)
      BY <1>1 DEF ScanColon
    <3> QED
      BY <3>1, AtoiIsNat
  <2> QED
    BY <1>1, <2>1 DEF ScanColon, ConvertedTypes
<1>2. CASE FindHead \/ ScanOther \/ ScanEnds \/ UNCHANGED vars
  BY <1>2 DEF FindHead, ScanOther, ScanEnds, vars, fields, ConvertedTypes
<1> QED
  BY <1>1, <1>2 DEF Next

(* For every input whose fields fit the buffers, which UriAssumption asks   *)
(* for because nothing at URIParsing.cpp:59 and 78 does: however often the  *)
(* buffers are written over, their last byte stays NUL, so that inet_pton   *)
(* and atoi (URIParsing.cpp:67, 81) read texts that end; atoi makes a       *)
(* number of any such text; the scan stays within the input.                *)
THEOREM TypeCorrect == Spec => []TypeOK
<1>1. Init => ConvertedTypes
  BY DEF Init, ConvertedTypes
<1>2. Spec => []ConvertedTypes
  BY <1>1, ConvertedInvariant, PTL DEF Spec
<1>3. IInv /\ ConvertedTypes => TypeOK
  BY DEF IInv, BufferTypes, ConvertedTypes, TypeOK
<1> QED
  BY <1>2, <1>3, ParserInvariance, PTL

-----------------------------------------------------------------------------
LEMMA AddressFromBuffer == IInv => AddressIsBeforeColon
<1> SUFFICES ASSUME IInv, NEW c \in Handled, IsLastHandled(c)
             PROVE  Text(dotIPAddr, DotSize) = SubSeq(uri, 1, c - 1)
  BY DEF AddressIsBeforeColon
<1>1. uri \in Uris /\ c \in DOMAIN uri /\ uri[c] = Colon
  BY DEF IInv, BufferTypes, Handled
<1>2. /\ uri \in Seq(Chars) /\ c \in 1 .. Len(uri) /\ Len(uri) \in Nat
      /\ c - 1 < DotSize
  BY <1>1, FieldsFit
<1>3. \A j \in 0 .. DotSize - 1 : dotIPAddr[j] = IF j + 1 < c THEN uri[j + 1] ELSE NUL
  BY DEF IInv, BuffersInv, AddressUpTo
<1>4. dotIPAddr \in [0 .. DotSize - 1 -> Chars \union {NUL}]
  BY DEF IInv, BufferTypes
<1>5. PICK n \in 0 .. DotSize :
        /\ \A j \in 0 .. n - 1 : dotIPAddr[j] # NUL
        /\ n < DotSize => dotIPAddr[n] = NUL
        /\ Text(dotIPAddr, DotSize) = [j \in 1 .. n |-> dotIPAddr[j - 1]]
  BY <1>4, TextLength
<1>6. \A j \in 1 .. Len(uri) : uri[j] # NUL
  BY <1>2, CharsAreNoNUL
<1>7. n = c - 1
  <2>1. n <= c - 1
    BY <1>2, <1>3, <1>5
  <2>2. n >= c - 1
    BY <1>2, <1>3, <1>5, <1>6
  <2> QED
    BY <1>2, <2>1, <2>2
<1>8. \A j \in 1 .. n : dotIPAddr[j - 1] = uri[j]
  BY <1>2, <1>3, <1>7
<1>9. SubSeq(uri, 1, c - 1) = [j \in 1 .. n |-> uri[j]]
  BY <1>2, <1>7
<1> QED
  BY <1>5, <1>8, <1>9

LEMMA PortFromBuffer == IInv => PortLiesOverEarlierOnes
<1> SUFFICES ASSUME IInv PROVE PortLiesOverEarlierOnes
  OBVIOUS
<1> DEFINE text == Text(strPort, PortSize)
<1>1. \A j \in 1 .. PortSize : PortCharacter(j)
  BY DEF IInv, BuffersInv
<1>2. strPort \in [0 .. PortSize - 1 -> Chars \union {NUL}]
  BY DEF IInv, BufferTypes
<1>3. PICK n \in 0 .. PortSize :
        /\ \A j \in 0 .. n - 1 : strPort[j] # NUL
        /\ n < PortSize => strPort[n] = NUL
        /\ text = [j \in 1 .. n |-> strPort[j - 1]]
  BY <1>2, TextLength
<1>4. Len(text) = n /\ \A j \in 1 .. n : text[j] = strPort[j - 1]
  BY <1>3
<1> HIDE DEF text
<1>5. ASSUME NEW j \in 1 .. PortSize, j <= n PROVE Reaching(j) # {}
  <2>1. strPort[j - 1] # NUL
    BY <1>3, <1>5
  <2> QED
    BY <1>1, <2>1 DEF PortCharacter
<1>6. ASSUME NEW j \in 1 .. PortSize, Reaching(j) # {} PROVE j <= n
  <2>1. SUFFICES ASSUME n < j PROVE FALSE
    OBVIOUS
  <2>2. n + 1 \in 1 .. PortSize /\ n + 1 <= j /\ strPort[(n + 1) - 1] = NUL
    BY <1>3, <2>1
  <2>3. Reaching(n + 1) = {}
    BY <1>1, <2>2 DEF PortCharacter
  <2>4. PICK c \in Reaching(j) : TRUE
    BY <1>6
  <2>5. c \in Nat /\ PortEnd(uri, c) \in Int /\ c + j <= PortEnd(uri, c)
    <3>1. uri \in Uris /\ c \in DOMAIN uri /\ uri[c] = Colon
      BY DEF IInv, BufferTypes, Handled, Reaching
    <3>2. PortEnd(uri, c) \in c .. Len(uri) /\ c \in 1 .. Len(uri) /\ Len(uri) \in Nat
      BY <3>1, FieldsFit
    <3> QED
      BY <3>2 DEF Reaching
  <2>6. c \in Reaching(n + 1)
    BY <2>2, <2>5 DEF Reaching
  <2> QED
    BY <2>3, <2>6
<1>7. \A j \in 1 .. n : \A c \in Reaching(j) :
        (\A d \in Reaching(j) : d <= c) => text[j] = uri[c + j]
  <2>1. \A j \in 1 .. n : j \in 1 .. PortSize
    BY <1>3
  <2> QED
    BY <1>1, <1>4, <2>1 DEF PortCharacter
<1> QED
  BY <1>4, <1>5, <1>6, <1>7 DEF PortLiesOverEarlierOnes, text

(* The address is the text before the last colon that was handled, with     *)
(* nothing of an earlier one behind it (URIParsing.cpp:59), whatever the    *)
(* sizes of the buffers, for every input whose fields fit them.             *)
THEOREM AddressIsThatOfLastColon == Spec => []AddressIsBeforeColon
  BY ParserInvariance, AddressFromBuffer, PTL

(* Each character of the port text is that of the latest port that is long  *)
(* enough; what a shorter port leaves of a longer one stays in the text     *)
(* (URIParsing.cpp:78).                                                     *)
THEOREM PortIsLaidOverEarlierOnes == Spec => []PortLiesOverEarlierOnes
  BY ParserInvariance, PortFromBuffer, PTL
=============================================================================
