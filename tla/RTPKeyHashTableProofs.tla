------------------------- MODULE RTPKeyHashTableProofs -------------------------
(***************************************************************************)
(* Proofs about RTPKeyHashTable, for any keys, buckets and addresses, and   *)
(* about the Destinations that are kept in tables.                          *)
(***************************************************************************)
EXTENDS RTPKeyHashTable, Destinations, TLAPS

-----------------------------------------------------------------------------
(* Linked lists over an ordered set S of addresses.  The order is a set R   *)
(* of pairs.                                                                *)

(* R orders S: strictly, totally, and so that every part has a least.       *)
Ordered(S, R) ==
  /\ \A a \in S : <<a, a>> \notin R
  /\ \A a, b, c \in S : <<a, b>> \in R /\ <<b, c>> \in R => <<a, c>> \in R
  /\ \A a, b \in S : a = b \/ <<a, b>> \in R \/ <<b, a>> \in R

WellOrdered(S, R) ==
  \A T \in SUBSET S : T # {} => \E m \in T : \A t \in T : t = m \/ <<m, t>> \in R

(* The pointer p is to the least of S, n to the one after a, p to the one   *)
(* before a; or it is null if there is none.                                *)
IsLeast(p, S, R) ==
  \/ p = Null /\ S = {}
  \/ p \in S /\ \A s \in S : s = p \/ <<p, s>> \in R

IsNext(n, a, S, R) ==
  \/ n = Null /\ \A s \in S : <<a, s>> \notin R
  \/ n \in S /\ <<a, n>> \in R /\ \A s \in S : <<a, s>> \in R => s = n \/ <<n, s>> \in R

IsPrev(p, a, S, R) ==
  \/ p = Null /\ \A s \in S : <<s, a>> \notin R
  \/ p \in S /\ <<p, a>> \in R /\ \A s \in S : <<s, a>> \in R => s = p \/ <<s, p>> \in R

(* first, next and prev are a doubly linked list of S in the order of R.    *)
Linked(S, R, first, next, prev) ==
  /\ IsLeast(first, S, R)
  /\ \A a \in S : IsNext(next[a], a, S, R) /\ IsPrev(prev[a], a, S, R)

-----------------------------------------------------------------------------
(* In a linked list, next and prev are inverse.                             *)
LEMMA NextIsInverse ==
  ASSUME NEW S \in SUBSET Addr, NEW R, Ordered(S, R),
         NEW first, NEW next, NEW prev, Linked(S, R, first, next, prev),
         NEW a \in S, NEW b \in S
  PROVE  next[a] = b <=> prev[b] = a
<1>1. a # Null /\ b # Null
  BY HashTableAssumption
<1>2. IsNext(next[a], a, S, R) /\ IsPrev(prev[b], b, S, R)
  BY DEF Linked
<1>3. ASSUME next[a] = b PROVE prev[b] = a
  <2>1. <<a, b>> \in R /\ \A s \in S : <<a, s>> \in R => s = b \/ <<b, s>> \in R
    BY <1>1, <1>2, <1>3 DEF IsNext
  <2>2. prev[b] \in S /\ <<prev[b], b>> \in R /\ (a = prev[b] \/ <<a, prev[b]>> \in R)
    BY <1>1, <1>2, <2>1 DEF IsPrev
  <2> QED
    BY <2>1, <2>2 DEF Ordered
<1>4. ASSUME prev[b] = a PROVE next[a] = b
  <2>1. <<a, b>> \in R /\ \A s \in S : <<s, b>> \in R => s = a \/ <<s, a>> \in R
    BY <1>1, <1>2, <1>4 DEF IsPrev
  <2>2. next[a] \in S /\ <<a, next[a]>> \in R /\ (b = next[a] \/ <<next[a], b>> \in R)
    BY <1>1, <1>2, <2>1 DEF IsNext
  <2> QED
    BY <2>1, <2>2 DEF Ordered
<1> QED
  BY <1>3, <1>4

(* A walk over a linked list reaches all of it and nothing else.            *)
LEMMA WalkReachesAll ==
  ASSUME NEW S \in SUBSET Addr, NEW R, Ordered(S, R), WellOrdered(S, R),
         NEW first, NEW next, NEW prev, Linked(S, R, first, next, prev)
  PROVE  Reached(first, next) = S
<1>1. Reached(first, next) \subseteq S
  <2>1. first # Null => first \in S
    BY DEF Linked, IsLeast
  <2>2. \A x \in S : next[x] # Null => next[x] \in S
    BY DEF Linked, IsNext
  <2> QED
    BY <2>1, <2>2 DEF Reached
<1>2. ASSUME NEW a \in S, NEW T \in SUBSET Addr,
             first # Null => first \in T,
             \A x \in T : next[x] # Null => next[x] \in T
      PROVE  a \in T
  <2> SUFFICES ASSUME a \notin T PROVE FALSE
    OBVIOUS
  <2>1. PICK m \in S \ T : \A t \in S \ T : t = m \/ <<m, t>> \in R
    <3>1. S \ T # {} /\ S \ T \in SUBSET S
      BY <1>2
    <3> QED
      BY <3>1 DEF WellOrdered
  <2>2. m # Null
    BY HashTableAssumption
  <2>3. first \in S /\ (m = first \/ <<first, m>> \in R)
    BY DEF Linked, IsLeast
  <2>4. first \in T
    BY <1>2, <2>3, HashTableAssumption
  <2>5. <<first, m>> \in R
    BY <2>1, <2>3, <2>4
  <2>6. prev[m] \in S /\ <<prev[m], m>> \in R
    BY <2>3, <2>5 DEF Linked, IsPrev
  <2>7. prev[m] \in T
    BY <2>1, <2>6 DEF Ordered
  <2>8. next[prev[m]] = m
    BY <2>6, NextIsInverse
  <2> QED
    BY <1>2, <2>1, <2>2, <2>7, <2>8
<1>3. S \subseteq Reached(first, next)
  BY <1>2 DEF Reached
<1> QED
  BY <1>1, <1>3
(* Only the order within the list and the pointers of its elements matter.  *)
LEMMA LinkedSame ==
  ASSUME NEW S, NEW R, NEW R2, NEW first, NEW next, NEW prev, NEW next2, NEW prev2,
         Linked(S, R, first, next, prev),
         \A a, b \in S : <<a, b>> \in R <=> <<a, b>> \in R2,
         \A a \in S : next2[a] = next[a] /\ prev2[a] = prev[a]
  PROVE  Linked(S, R2, first, next2, prev2)
<1>1. IsLeast(first, S, R2)
  BY DEF Linked, IsLeast
<1>2. ASSUME NEW a \in S
      PROVE  IsNext(next2[a], a, S, R2) /\ IsPrev(prev2[a], a, S, R2)
  <2>1. IsNext(next[a], a, S, R) /\ IsPrev(prev[a], a, S, R)
    BY DEF Linked
  <2>2. next2[a] = next[a] /\ prev2[a] = prev[a]
    OBVIOUS
  <2>3. IsNext(next[a], a, S, R2)
    BY <2>1 DEF IsNext
  <2>4. IsPrev(prev[a], a, S, R2)
    BY <2>1 DEF IsPrev
  <2> QED
    BY <2>2, <2>3, <2>4
<1> QED
  BY <1>1, <1>2 DEF Linked

(* Any part of an ordered set is ordered.                                   *)
LEMMA PartOrdered ==
  ASSUME NEW S, NEW T \in SUBSET S, NEW R, NEW R2,
         Ordered(S, R), WellOrdered(S, R),
         \A a, b \in T : <<a, b>> \in R <=> <<a, b>> \in R2
  PROVE  Ordered(T, R2) /\ WellOrdered(T, R2)
<1>1. Ordered(T, R2)
  BY DEF Ordered
<1>2. WellOrdered(T, R2)
  <2> SUFFICES ASSUME NEW U \in SUBSET T, U # {}
               PROVE  \E m \in U : \A t \in U : t = m \/ <<m, t>> \in R2
    BY DEF WellOrdered
  <2>1. PICK m \in U : \A t \in U : t = m \/ <<m, t>> \in R
    BY DEF WellOrdered
  <2> QED
    BY <2>1
<1> QED
  BY <1>1, <1>2

(* What comes after x once e is taken out of the list.                      *)
LEMMA RemoveNext ==
  ASSUME NEW S \in SUBSET Addr, NEW R, Ordered(S, R),
         NEW first, NEW next, NEW prev, Linked(S, R, first, next, prev),
         NEW e \in S, NEW x \in S \ {e}
  PROVE  /\ x = prev[e] => IsNext(next[e], x, S \ {e}, R)
         /\ x # prev[e] => IsNext(next[x], x, S \ {e}, R)
<1>1. IsNext(next[x], x, S, R) /\ IsNext(next[e], e, S, R)
  BY DEF Linked
<1>2. CASE x = prev[e]
  <2>1. next[x] = e /\ e # Null
    <3>1. x \in S /\ prev[e] = x
      BY <1>2
    <3>2. next[x] = e
      BY <3>1, NextIsInverse
    <3> QED
      BY <3>2, HashTableAssumption
  <2>2. <<x, e>> \in R /\ \A s \in S : <<x, s>> \in R => s = e \/ <<e, s>> \in R
    BY <1>1, <2>1 DEF IsNext
  <2>3. CASE next[e] = Null /\ \A s \in S : <<e, s>> \notin R
    BY <1>2, <2>2, <2>3 DEF IsNext
  <2>4. CASE /\ next[e] \in S /\ <<e, next[e]>> \in R
             /\ \A s \in S : <<e, s>> \in R => s = next[e] \/ <<next[e], s>> \in R
    <3>1. next[e] # e /\ <<x, next[e]>> \in R
      BY <2>2, <2>4 DEF Ordered
    <3> QED
      BY <1>2, <2>2, <2>4, <3>1 DEF IsNext
  <2> QED
    BY <1>1, <2>3, <2>4 DEF IsNext
<1>3. CASE x # prev[e]
  <2>1. next[x] # e
    BY <1>3, NextIsInverse
  <2> QED
    BY <1>1, <1>3, <2>1 DEF IsNext
<1> QED
  BY <1>2, <1>3

LEMMA RemovePrev ==
  ASSUME NEW S \in SUBSET Addr, NEW R, Ordered(S, R),
         NEW first, NEW next, NEW prev, Linked(S, R, first, next, prev),
         NEW e \in S, NEW x \in S \ {e}
  PROVE  /\ x = next[e] => IsPrev(prev[e], x, S \ {e}, R)
         /\ x # next[e] => IsPrev(prev[x], x, S \ {e}, R)
<1>1. IsPrev(prev[x], x, S, R) /\ IsPrev(prev[e], e, S, R)
  BY DEF Linked
<1>2. CASE x = next[e]
  <2>1. prev[x] = e /\ e # Null
    BY <1>2, NextIsInverse, HashTableAssumption
  <2>2. <<e, x>> \in R /\ \A s \in S : <<s, x>> \in R => s = e \/ <<s, e>> \in R
    BY <1>1, <2>1 DEF IsPrev
  <2>3. CASE prev[e] = Null /\ \A s \in S : <<s, e>> \notin R
    BY <1>2, <2>2, <2>3 DEF IsPrev
  <2>4. CASE /\ prev[e] \in S /\ <<prev[e], e>> \in R
             /\ \A s \in S : <<s, e>> \in R => s = prev[e] \/ <<s, prev[e]>> \in R
    <3>1. prev[e] # e /\ <<prev[e], x>> \in R
      BY <2>2, <2>4 DEF Ordered
    <3> QED
      BY <1>2, <2>2, <2>4, <3>1 DEF IsPrev
  <2> QED
    BY <1>1, <2>3, <2>4 DEF IsPrev
<1>3. CASE x # next[e]
  <2>1. prev[x] # e
    BY <1>3, NextIsInverse
  <2> QED
    BY <1>1, <1>3, <2>1 DEF IsPrev
<1> QED
  BY <1>2, <1>3

(* The field g is f with v written through p, and e reset to null.          *)
Relinks(g, f, p, v, e) ==
  /\ g \in [Addr -> Pointers]
  /\ g[e] = Null
  /\ \A x \in Addr \ {e} : IF x = p THEN g[x] = v ELSE g[x] = f[x]

LEMMA RelinksAt ==
  ASSUME NEW g, NEW f, NEW p, NEW v, NEW e, Relinks(g, f, p, v, e),
         NEW x \in Addr, x # e
  PROVE  /\ x = p => g[x] = v
         /\ x # p => g[x] = f[x]
BY DEF Relinks

LEMMA SetFieldRelinks ==
  ASSUME NEW f \in [Addr -> Pointers], NEW p \in Pointers, NEW v \in Pointers,
         NEW e \in Addr
  PROVE  Relinks([SetField(f, p, v) EXCEPT ![e] = Null], f, p, v, e)
<1>1. CASE p = Null
  BY <1>1, HashTableAssumption DEF SetField, Relinks, Pointers
<1>2. CASE p # Null
  BY <1>2 DEF SetField, Pointers, Relinks
<1> QED
  BY <1>1, <1>2

(* Taking e out of the list, as Unchain and Unlist do it.                   *)
LEMMA LinkedRemove ==
  ASSUME NEW S \in SUBSET Addr, NEW R, Ordered(S, R),
         NEW first, NEW next \in [Addr -> Pointers], NEW prev \in [Addr -> Pointers],
         Linked(S, R, first, next, prev), NEW e \in S
  PROVE  Linked(S \ {e}, R, IF prev[e] = Null THEN next[e] ELSE first,
                [SetField(next, prev[e], next[e]) EXCEPT ![e] = Null],
                [SetField(prev, next[e], prev[e]) EXCEPT ![e] = Null])
<1> DEFINE n2 == [SetField(next, prev[e], next[e]) EXCEPT ![e] = Null]
           p2 == [SetField(prev, next[e], prev[e]) EXCEPT ![e] = Null]
<1>1. next[e] \in Pointers /\ prev[e] \in Pointers /\ e \in Addr /\ Null \in Pointers
  BY DEF Pointers
<1>2. /\ Relinks(n2, next, prev[e], next[e], e)
      /\ Relinks(p2, prev, next[e], prev[e], e)
  BY <1>1, SetFieldRelinks
<1> HIDE DEF n2, p2
<1>3. ASSUME NEW x \in S \ {e} PROVE IsNext(n2[x], x, S \ {e}, R)
  <2>1. /\ x = prev[e] => n2[x] = next[e]
        /\ x # prev[e] => n2[x] = next[x]
    BY <1>2, RelinksAt
  <2> QED
    BY <2>1, RemoveNext
<1>4. ASSUME NEW x \in S \ {e} PROVE IsPrev(p2[x], x, S \ {e}, R)
  <2>1. /\ x = next[e] => p2[x] = prev[e]
        /\ x # next[e] => p2[x] = prev[x]
    BY <1>2, RelinksAt
  <2> QED
    BY <2>1, RemovePrev
<1>5. IsLeast(IF prev[e] = Null THEN next[e] ELSE first, S \ {e}, R)
  <2>1. first \in S /\ \A s \in S : s = first \/ <<first, s>> \in R
    BY DEF Linked, IsLeast
  <2>2. IsPrev(prev[e], e, S, R) /\ IsNext(next[e], e, S, R)
    BY DEF Linked
  <2>3. CASE prev[e] = Null
    <3>1. \A s \in S : s = e \/ <<e, s>> \in R
      BY <2>2, <2>3, HashTableAssumption DEF IsPrev, Ordered
    <3>2. CASE next[e] = Null
      <4>1. S \ {e} = {}
        BY <2>2, <3>1, <3>2, HashTableAssumption DEF IsNext
      <4> QED
        BY <2>3, <3>2, <4>1 DEF IsLeast
    <3>3. CASE next[e] # Null
      <4>1. next[e] \in S \ {e} /\ \A s \in S \ {e} : s = next[e] \/ <<next[e], s>> \in R
        BY <2>2, <3>1, <3>3 DEF IsNext, Ordered
      <4> QED
        BY <2>3, <4>1 DEF IsLeast
    <3> QED
      BY <3>2, <3>3
  <2>4. CASE prev[e] # Null
    <3>1. first # e
      BY <2>1, <2>2, <2>4 DEF IsPrev, Ordered
    <3> QED
      BY <2>1, <2>4, <3>1 DEF IsLeast
  <2> QED
    BY <2>3, <2>4
<1> QED
  BY <1>3, <1>4, <1>5 DEF Linked, n2, p2

(* Putting e before all of the list, as PrependToChain does it.             *)
LEMMA LinkedPrepend ==
  ASSUME NEW S \in SUBSET Addr, NEW R, Ordered(S, R),
         NEW first, NEW next \in [Addr -> Pointers], NEW prev \in [Addr -> Pointers],
         Linked(S, R, first, next, prev), NEW e \in Addr \ S,
         <<e, e>> \notin R,
         \A s \in S : <<e, s>> \in R /\ <<s, e>> \notin R
  PROVE  Linked(S \union {e}, R, e, [next EXCEPT ![e] = first],
                [SetField(prev, first, e) EXCEPT ![e] = Null])
<1> DEFINE n2 == [next EXCEPT ![e] = first]
           p2 == [SetField(prev, first, e) EXCEPT ![e] = Null]
<1>1. first \in Pointers /\ e \in Pointers /\ Null \in Pointers
  BY DEF Pointers, Linked, IsLeast
<1>2. IsLeast(first, S, R)
  BY DEF Linked
<1>3. n2[e] = first /\ \A x \in S : n2[x] = next[x]
  OBVIOUS
<1>4. Relinks(p2, prev, first, e, e)
  BY <1>1, SetFieldRelinks
<1> HIDE DEF n2, p2
<1>5. IsLeast(e, S \union {e}, R)
  BY DEF IsLeast
<1>6. IsNext(n2[e], e, S \union {e}, R)
  BY <1>2, <1>3, HashTableAssumption DEF IsLeast, IsNext
<1>7. IsPrev(p2[e], e, S \union {e}, R)
  BY <1>4 DEF IsPrev, Relinks
<1>8. ASSUME NEW x \in S PROVE IsNext(n2[x], x, S \union {e}, R)
  <2>1. IsNext(next[x], x, S, R)
    BY DEF Linked
  <2> QED
    BY <1>3, <2>1 DEF IsNext
<1>9. ASSUME NEW x \in S PROVE IsPrev(p2[x], x, S \union {e}, R)
  <2>1. IsPrev(prev[x], x, S, R)
    BY DEF Linked
  <2>2. CASE x = first
    <3>1. \A s \in S : <<s, x>> \notin R
      BY <1>2, <2>2, HashTableAssumption DEF IsLeast, Ordered
    <3>2. p2[x] = e
      BY <1>4, <2>2, RelinksAt
    <3> QED
      BY <3>1, <3>2 DEF IsPrev
  <2>3. CASE x # first
    <3>1. prev[x] \in S
      BY <1>2, <2>1, <2>3 DEF IsPrev, IsLeast
    <3> QED
      BY <1>4, <2>1, <2>3, <3>1, HashTableAssumption DEF IsPrev, Relinks
  <2> QED
    BY <2>2, <2>3
<1> QED
  BY <1>5, <1>6, <1>7, <1>8, <1>9 DEF Linked, n2, p2

-----------------------------------------------------------------------------
(* The inductive invariant.                                                 *)

Older == {p \in live \X live : key[p[1]] \in earlier[key[p[2]]]}
Newer == {p \in live \X live : key[p[2]] \in earlier[key[p[1]]]}

Bucket(i) == {a \in live : hashindex[a] = i}
Members   == {key[a] : a \in live}

(* The elements have different keys, and the keys added earlier order them. *)
OrderInv ==
  /\ \A a, b \in live : key[a] = key[b] => a = b
  /\ \A k \in Keys : earlier[k] \subseteq Members
  /\ Ordered(live, Older)
  /\ WellOrdered(live, Older)
  /\ WellOrdered(live, Newer)

(* The list links the elements from the oldest to the newest.               *)
ListInv ==
  /\ Linked(live, Older, firsthashelem, listnext, listprev)
  /\ IsLeast(lasthashelem, live, Newer)

(* Every chain links the elements of its bucket from the newest to the      *)
(* oldest.                                                                  *)
ChainInv ==
  \A i \in Buckets : Linked(Bucket(i), Newer, table[i], hashnext, hashprev)

IInv == TypeOK /\ OrderInv /\ ListInv /\ ChainInv /\ CurrentUsable

-----------------------------------------------------------------------------
(* Newer is Older read from right to left, and a list read backwards is a   *)
(* list in that order.                                                      *)
LEMMA Converse ==
  /\ \A a, b : <<a, b>> \in Older <=> a \in live /\ b \in live /\ key[a] \in earlier[key[b]]
  /\ \A a, b : <<a, b>> \in Newer <=> <<b, a>> \in Older
BY DEF Older, Newer

LEMMA NewerOrdered ==
  ASSUME NEW S, Ordered(S, Older)
  PROVE  Ordered(S, Newer)
BY Converse DEF Ordered

LEMMA LinkedBackwards ==
  ASSUME NEW S, NEW R, NEW Q, NEW first, NEW last, NEW next, NEW prev,
         \A a, b \in S : <<a, b>> \in Q <=> <<b, a>> \in R,
         Linked(S, R, first, next, prev), IsLeast(last, S, Q)
  PROVE  Linked(S, Q, last, prev, next)
<1>1. ASSUME NEW a \in S
      PROVE  IsNext(prev[a], a, S, Q) /\ IsPrev(next[a], a, S, Q)
  <2>1. IsNext(next[a], a, S, R) /\ IsPrev(prev[a], a, S, R)
    BY DEF Linked
  <2>2. IsNext(prev[a], a, S, Q)
    BY <2>1 DEF IsNext, IsPrev
  <2>3. IsPrev(next[a], a, S, Q)
    BY <2>1 DEF IsNext, IsPrev
  <2> QED
    BY <2>2, <2>3
<1> QED
  BY <1>1 DEF Linked

(* An element put at the end of an ordered set leaves it ordered.           *)
LEMMA EndOrdered ==
  ASSUME NEW S, NEW e, e \notin S, NEW R, NEW R2,
         Ordered(S, R), \A a, b \in S : <<a, b>> \in R2 <=> <<a, b>> \in R,
         <<e, e>> \notin R2,
         \A a \in S : <<a, e>> \in R2 /\ <<e, a>> \notin R2
  PROVE  /\ Ordered(S \union {e}, R2)
         /\ WellOrdered(S, R) => WellOrdered(S \union {e}, R2)
<1>1. Ordered(S \union {e}, R2)
  BY DEF Ordered
<1>2. ASSUME WellOrdered(S, R), NEW U \in SUBSET (S \union {e}), U # {}
      PROVE  \E m \in U : \A t \in U : t = m \/ <<m, t>> \in R2
  <2>1. CASE U \subseteq {e}
    BY <1>2, <2>1
  <2>2. CASE ~(U \subseteq {e})
    <3>1. U \ {e} # {} /\ U \ {e} \in SUBSET S
      BY <2>2
    <3>2. PICK m \in U \ {e} : \A t \in U \ {e} : t = m \/ <<m, t>> \in R
      BY <1>2, <3>1 DEF WellOrdered
    <3> QED
      BY <3>1, <3>2
  <2> QED
    BY <2>1, <2>2
<1> QED
  BY <1>1, <1>2 DEF WellOrdered

(* An element put before a well-ordered set leaves it well-ordered.         *)
LEMMA FrontWellOrdered ==
  ASSUME NEW S, NEW e, e \notin S, NEW R, NEW R2,
         WellOrdered(S, R), \A a, b \in S : <<a, b>> \in R2 <=> <<a, b>> \in R,
         \A a \in S : <<e, a>> \in R2
  PROVE  WellOrdered(S \union {e}, R2)
<1> SUFFICES ASSUME NEW U \in SUBSET (S \union {e}), U # {}
             PROVE  \E m \in U : \A t \in U : t = m \/ <<m, t>> \in R2
  BY DEF WellOrdered
<1>1. CASE e \in U
  BY <1>1
<1>2. CASE e \notin U
  <2>1. U \in SUBSET S
    BY <1>2
  <2>2. PICK m \in U : \A t \in U : t = m \/ <<m, t>> \in R
    BY <2>1 DEF WellOrdered
  <2> QED
    BY <2>1, <2>2
<1> QED
  BY <1>1, <1>2

(* What follows from the invariant for the searches: a chain has the        *)
(* elements of its bucket, the list has all elements.                       *)
LEMMA InvariantComplete ==
  ASSUME IInv
  PROVE  ChainsComplete /\ ListComplete
<1>1. live \subseteq Addr /\ Ordered(live, Older) /\ WellOrdered(live, Older)
      /\ Ordered(live, Newer) /\ WellOrdered(live, Newer)
  BY NewerOrdered DEF IInv, TypeOK, OrderInv
<1>2. ASSUME NEW i \in Buckets PROVE Chain(i) = Bucket(i)
  <2>1. Bucket(i) \in SUBSET live /\ Bucket(i) \in SUBSET Addr
    BY <1>1 DEF Bucket
  <2>2. Ordered(Bucket(i), Newer) /\ WellOrdered(Bucket(i), Newer)
    BY <1>1, <2>1, PartOrdered
  <2>3. Linked(Bucket(i), Newer, table[i], hashnext, hashprev)
    BY DEF IInv, ChainInv
  <2> QED
    BY <2>1, <2>2, <2>3, WalkReachesAll DEF Chain
<1>3. Reached(firsthashelem, listnext) = live
  <2>1. Linked(live, Older, firsthashelem, listnext, listprev)
    BY DEF IInv, ListInv
  <2> QED
    BY <1>1, <2>1, WalkReachesAll
<1>4. Reached(lasthashelem, listprev) = live
  <2>1. Linked(live, Newer, lasthashelem, listprev, listnext)
    BY Converse, LinkedBackwards DEF IInv, ListInv
  <2> QED
    BY <1>1, <2>1, WalkReachesAll
<1> QED
  BY <1>2, <1>3, <1>4 DEF ChainsComplete, ListComplete, Bucket

(* The search for a key finds its element, if there is one.                 *)
LEMMA FoundIs ==
  ASSUME IInv, NEW k \in Hashable
  PROVE  /\ Found(k) = {a \in live : key[a] = k}
         /\ GetIndex[k] \in Buckets
<1>1. GetIndex[k] \in Buckets /\ k \in Keys
  BY HashTableAssumption DEF Hashable, Buckets
<1>2. Chain(GetIndex[k]) = {a \in live : hashindex[a] = GetIndex[k]}
  BY <1>1, InvariantComplete DEF ChainsComplete
<1>3. \A a \in live : hashindex[a] = GetIndex[key[a]]
  BY DEF IInv, TypeOK
<1> QED
  BY <1>1, <1>2, <1>3 DEF Found

-----------------------------------------------------------------------------
(* Every field written keeps its type.                                      *)
LEMMA SetFieldType ==
  ASSUME NEW f \in [Addr -> Pointers], NEW p \in Pointers, NEW v \in Pointers
  PROVE  SetField(f, p, v) \in [Addr -> Pointers]
BY DEF SetField, Pointers

LEMMA DeleteType ==
  ASSUME TypeOK, NEW e \in Addr, DeleteAt(e), curset' \in BOOLEAN
  PROVE  TypeOK'
<1>1. /\ hashprev[e] \in Pointers /\ hashnext[e] \in Pointers
      /\ listprev[e] \in Pointers /\ listnext[e] \in Pointers
      /\ hashindex[e] \in Buckets /\ Null \in Pointers
  BY DEF TypeOK, Pointers
<1>2. table' \in [Buckets -> Pointers]
  BY <1>1 DEF TypeOK, DeleteAt, Unchain
<1>3. hashnext' \in [Addr -> Pointers] /\ hashprev' \in [Addr -> Pointers]
  <2>1. /\ SetField(hashnext, hashprev[e], hashnext[e]) \in [Addr -> Pointers]
        /\ SetField(hashprev, hashnext[e], hashprev[e]) \in [Addr -> Pointers]
    BY <1>1, SetFieldType DEF TypeOK
  <2> QED
    BY <1>1, <2>1 DEF DeleteAt, Unchain
<1>4. listnext' \in [Addr -> Pointers] /\ listprev' \in [Addr -> Pointers]
  <2>1. /\ SetField(listnext, listprev[e], listnext[e]) \in [Addr -> Pointers]
        /\ SetField(listprev, listnext[e], listprev[e]) \in [Addr -> Pointers]
    BY <1>1, SetFieldType DEF TypeOK
  <2> QED
    BY <1>1, <2>1 DEF DeleteAt, Unlist
<1>5. firsthashelem' \in Pointers /\ lasthashelem' \in Pointers /\ curhashelem' \in Pointers
  BY <1>1 DEF TypeOK, DeleteAt, Unlist
<1>6. /\ key' \in [Addr -> Keys \union {Null}]
      /\ hashindex' \in [Addr -> Buckets]
      /\ live' \subseteq Addr
      /\ earlier' \in [Keys -> SUBSET Keys]
  BY HashTableAssumption DEF TypeOK, DeleteAt, Free, Buckets
<1>7. \A a \in live' : key'[a] \in Keys /\ hashindex'[a] = GetIndex[key'[a]]
  BY DEF TypeOK, DeleteAt, Free
<1>8. status' = "ok"
  BY DEF DeleteAt
<1> QED
  BY <1>2, <1>3, <1>4, <1>5, <1>6, <1>7, <1>8 DEF TypeOK

LEMMA AddType ==
  ASSUME TypeOK, NEW k \in Hashable, NEW e \in Addr \ live,
         NewElement(e, k), PrependToChain(e, GetIndex[k]), AppendToList(e),
         status' = "ok", UNCHANGED <<curhashelem, curset>>
  PROVE  TypeOK'
<1>1. GetIndex[k] \in Buckets /\ k \in Keys /\ Null \in Pointers /\ e \in Pointers
  BY HashTableAssumption DEF Hashable, Buckets, Pointers
<1>2. table' \in [Buckets -> Pointers]
  BY <1>1 DEF TypeOK, PrependToChain
<1>3. hashnext' \in [Addr -> Pointers] /\ hashprev' \in [Addr -> Pointers]
  <2>1. table[GetIndex[k]] \in Pointers
    BY <1>1 DEF TypeOK
  <2>2. SetField(hashprev, table[GetIndex[k]], e) \in [Addr -> Pointers]
    BY <1>1, <2>1, SetFieldType DEF TypeOK
  <2> QED
    BY <1>1, <2>1, <2>2 DEF TypeOK, PrependToChain
<1>4. listnext' \in [Addr -> Pointers] /\ listprev' \in [Addr -> Pointers]
  <2>1. SetField(listnext, lasthashelem, e) \in [Addr -> Pointers]
    BY <1>1, SetFieldType DEF TypeOK
  <2> QED
    BY <1>1, <2>1 DEF TypeOK, AppendToList
<1>5. firsthashelem' \in Pointers /\ lasthashelem' \in Pointers
  BY <1>1 DEF TypeOK, AppendToList
<1>6. key' \in [Addr -> Keys \union {Null}] /\ hashindex' \in [Addr -> Buckets]
      /\ live' \subseteq Addr
  BY <1>1 DEF TypeOK, NewElement
<1>7. earlier' \in [Keys -> SUBSET Keys]
  BY <1>1 DEF TypeOK, NewElement
<1>8. \A a \in live' : key'[a] \in Keys /\ hashindex'[a] = GetIndex[key'[a]]
  BY <1>1 DEF TypeOK, NewElement
<1> QED
  BY <1>2, <1>3, <1>4, <1>5, <1>6, <1>7, <1>8 DEF TypeOK

LEMMA GotoType ==
  ASSUME TypeOK, NEW k \in Keys, GotoElement(k)
  PROVE  TypeOK'
<1>1. Found(k) \subseteq Pointers /\ Null \in Pointers
  BY DEF Found, Chain, Reached, Pointers
<1>2. curhashelem' \in Pointers
  BY <1>1 DEF GotoElement, TypeOK
<1>3. status' \in {"invalidindex", "notfound", "ok"} /\ curset' \in BOOLEAN
  BY DEF GotoElement, TypeOK
<1> QED
  BY <1>2, <1>3 DEF GotoElement, TypeOK, chainVars, listVars, elemVars

LEMMA InitType == Init => TypeOK
<1> SUFFICES ASSUME Init PROVE TypeOK
  OBVIOUS
<1>1. 0 \in Buckets
  BY HashTableAssumption DEF Buckets
<1>2. key \in [Addr -> Keys \union {Null}] /\ hashindex \in [Addr -> Buckets]
  BY <1>1 DEF Init
<1>3. /\ table \in [Buckets -> Pointers]
      /\ hashprev \in [Addr -> Pointers] /\ hashnext \in [Addr -> Pointers]
      /\ listprev \in [Addr -> Pointers] /\ listnext \in [Addr -> Pointers]
  BY DEF Init, Pointers
<1>4. earlier \in [Keys -> SUBSET Keys]
  BY DEF Init
<1> QED
  BY <1>2, <1>3, <1>4 DEF Init, TypeOK, Pointers

LEMMA StepType == TypeOK /\ [Next]_vars => TypeOK'
<1> SUFFICES ASSUME TypeOK, [Next]_vars PROVE TypeOK'
  OBVIOUS
<1> USE DEF chainVars, listVars, elemVars
<1>1. CASE GotoFirstElement
  BY <1>1 DEF GotoFirstElement, TypeOK
<1>2. CASE GotoLastElement
  BY <1>2 DEF GotoLastElement, TypeOK
<1>3. CASE GotoNextElement
  <2>1. curhashelem' \in Pointers
    BY <1>3 DEF GotoNextElement, TypeOK, Pointers
  <2> QED
    BY <1>3, <2>1 DEF GotoNextElement, TypeOK
<1>4. CASE GotoPreviousElement
  <2>1. curhashelem' \in Pointers
    BY <1>4 DEF GotoPreviousElement, TypeOK, Pointers
  <2> QED
    BY <1>4, <2>1 DEF GotoPreviousElement, TypeOK
<1>5. CASE DeleteCurrentElement
  <2>1. CASE curhashelem # Null /\ DeleteAt(curhashelem)
    <3>1. curhashelem \in Addr /\ curset' \in BOOLEAN
      BY <1>5, <2>1 DEF TypeOK, Pointers, DeleteCurrentElement
    <3> QED
      BY <2>1, <3>1, DeleteType
  <2>2. CASE curhashelem = Null
    BY <1>5, <2>1, <2>2 DEF DeleteCurrentElement, TypeOK
  <2> QED
    BY <1>5, <2>1, <2>2 DEF DeleteCurrentElement
<1>6. CASE Clear
  <2>1. /\ table' \in [Buckets -> Pointers] /\ firsthashelem' \in Pointers
        /\ lasthashelem' \in Pointers /\ curset' \in BOOLEAN
        /\ earlier' \in [Keys -> SUBSET Keys]
    BY <1>6 DEF Clear, Pointers
  <2>2. key' \in [Addr -> Keys \union {Null}] /\ hashindex' \in [Addr -> Buckets]
    BY <1>6, HashTableAssumption DEF Clear, TypeOK, Buckets
  <2>3. /\ hashprev' \in [Addr -> Pointers] /\ hashnext' \in [Addr -> Pointers]
        /\ listprev' \in [Addr -> Pointers] /\ listnext' \in [Addr -> Pointers]
    BY <1>6 DEF Clear, TypeOK, Pointers
  <2>4. live' \subseteq live
    BY <1>6 DEF Clear
  <2>5. \A a \in live' : key'[a] \in Keys /\ hashindex'[a] = GetIndex[key'[a]]
    BY <1>6, <2>4 DEF Clear, TypeOK
  <2> QED
    BY <1>6, <2>1, <2>2, <2>3, <2>4, <2>5 DEF Clear, TypeOK
<1>7. ASSUME NEW k \in Keys, GotoElement(k) PROVE TypeOK'
  BY <1>7, GotoType
<1>8. ASSUME NEW k \in Keys, HasElement(k) PROVE TypeOK'
  BY <1>8 DEF HasElement, TypeOK
<1>9. ASSUME NEW k \in Keys, DeleteElement(k) PROVE TypeOK'
  <2>1. CASE (\E e \in Found(k) : DeleteAt(e)) /\ curset' = TRUE
    <3>1. PICK e \in Found(k) : DeleteAt(e)
      BY <2>1
    <3>2. e \in Addr
      BY DEF Found, Chain, Reached
    <3> QED
      BY <2>1, <3>1, <3>2, DeleteType
  <2>2. CASE GotoElement(k)
    BY <2>2, GotoType
  <2> QED
    BY <1>9, <2>1, <2>2 DEF DeleteElement
<1>10. ASSUME NEW k \in Keys, AddElement(k) PROVE TypeOK'
  <2>1. CASE /\ Addable(k) /\ status' = "ok" /\ UNCHANGED <<curhashelem, curset>>
             /\ \E e \in Addr \ live : /\ NewElement(e, k)
                                       /\ PrependToChain(e, GetIndex[k])
                                       /\ AppendToList(e)
    <3>1. k \in Hashable
      BY <2>1 DEF Addable
    <3> QED
      BY <2>1, <3>1, AddType
  <2>2. CASE /\ status' \in {"invalidindex", "exists", "outofmem"}
             /\ UNCHANGED <<chainVars, listVars, elemVars, curhashelem, curset>>
    BY <2>2 DEF TypeOK
  <2> QED
    BY <1>10, <2>1, <2>2 DEF AddElement
<1>11. CASE UNCHANGED vars
  BY <1>11 DEF vars, TypeOK
<1> QED
  BY <1>1, <1>2, <1>3, <1>4, <1>5, <1>6, <1>7, <1>8, <1>9, <1>10, <1>11 DEF Next

(* Whatever is called in whatever order, the pointers point to addresses or *)
(* are null, and the indices are those of buckets.                          *)
THEOREM TypeCorrect == Spec => []TypeOK
BY InitType, StepType, PTL DEF Spec

-----------------------------------------------------------------------------
(* A deletion: the order of the other elements stays.                       *)
LEMMA DeleteOrder ==
  ASSUME IInv, NEW e \in live, Free(e)
  PROVE  /\ live' = live \ {e}
         /\ \A a, b \in live' : <<a, b>> \in Older' <=> <<a, b>> \in Older
         /\ \A a, b \in live' : <<a, b>> \in Newer' <=> <<a, b>> \in Newer
         /\ OrderInv'
<1>1. live' = live \ {e} /\ live \subseteq Addr /\ e \in Addr
  BY DEF Free, IInv, TypeOK
<1>2. \A a \in live' : key'[a] = key[a] /\ key[a] \in Keys /\ key[a] # key[e]
  BY <1>1 DEF Free, IInv, TypeOK, OrderInv
<1>3. \A a, b \in live' : key'[a] \in earlier'[key'[b]] <=> key[a] \in earlier[key[b]]
  BY <1>1, <1>2 DEF Free
<1>4. \A a, b \in live' : <<a, b>> \in Older' <=> <<a, b>> \in Older
  BY <1>1, <1>3 DEF Older
<1>5. \A a, b \in live' : <<a, b>> \in Newer' <=> <<a, b>> \in Newer
  BY <1>1, <1>3 DEF Newer
<1>6. Ordered(live', Older') /\ WellOrdered(live', Older')
  BY <1>1, <1>4, PartOrdered DEF IInv, OrderInv
<1>7. WellOrdered(live', Newer')
  BY <1>1, <1>5, PartOrdered, NewerOrdered DEF IInv, OrderInv
<1>8. \A a, b \in live' : key'[a] = key'[b] => a = b
  BY <1>1, <1>2 DEF IInv, OrderInv
<1>9. ASSUME NEW k \in Keys PROVE earlier'[k] \subseteq Members'
  <2> SUFFICES ASSUME NEW m \in earlier'[k] PROVE m \in Members'
    OBVIOUS
  <2>1. m \in earlier[k] /\ m # key[e]
    BY DEF Free
  <2>2. PICK a \in live : m = key[a]
    BY <2>1 DEF IInv, OrderInv, Members
  <2> QED
    BY <1>1, <1>2, <2>1, <2>2 DEF Members
<1> QED
  BY <1>1, <1>4, <1>5, <1>6, <1>7, <1>8, <1>9 DEF OrderInv

(* The list keeps linking the others.                                       *)
LEMMA DeleteList ==
  ASSUME IInv, NEW e \in live, Unlist(e), Free(e)
  PROVE  ListInv'
<1>1. /\ live \subseteq Addr /\ Ordered(live, Older) /\ Ordered(live, Newer)
      /\ listnext \in [Addr -> Pointers] /\ listprev \in [Addr -> Pointers]
  BY NewerOrdered DEF IInv, TypeOK, OrderInv
<1>2. Linked(live, Older, firsthashelem, listnext, listprev)
  BY DEF IInv, ListInv
<1>3. Linked(live \ {e}, Older, firsthashelem', listnext', listprev')
  BY <1>1, <1>2, LinkedRemove DEF Unlist
<1>4. Linked(live, Newer, lasthashelem, listprev, listnext)
  BY Converse, LinkedBackwards DEF IInv, ListInv
<1>5. Linked(live \ {e}, Newer, lasthashelem', listprev', listnext')
  BY <1>1, <1>4, LinkedRemove DEF Unlist
<1>6. Linked(live', Older', firsthashelem', listnext', listprev')
  <2>1. live' = live \ {e} /\ \A a, b \in live' : <<a, b>> \in Older' <=> <<a, b>> \in Older
    BY DeleteOrder
  <2> QED
    BY <1>3, <2>1, LinkedSame
<1>7. Linked(live', Newer', lasthashelem', listprev', listnext')
  <2>1. live' = live \ {e} /\ \A a, b \in live' : <<a, b>> \in Newer' <=> <<a, b>> \in Newer
    BY DeleteOrder
  <2> QED
    BY <1>5, <2>1, LinkedSame
<1> QED
  BY <1>6, <1>7 DEF ListInv, Linked

(* The chain of e's bucket keeps linking the others of the bucket, and no   *)
(* pointer of another bucket's elements is touched.                         *)
LEMMA DeleteChain ==
  ASSUME IInv, NEW e \in live, Unchain(e), Free(e)
  PROVE  ChainInv'
<1> DEFINE j == hashindex[e]
<1>1. /\ live \subseteq Addr /\ Ordered(live, Newer) /\ WellOrdered(live, Newer)
      /\ hashnext \in [Addr -> Pointers] /\ hashprev \in [Addr -> Pointers]
      /\ table \in [Buckets -> Pointers] /\ j \in Buckets /\ e \in Addr
      /\ hashindex \in [Addr -> Buckets]
  BY NewerOrdered DEF IInv, TypeOK, OrderInv
<1>2. \A i \in Buckets : Linked(Bucket(i), Newer, table[i], hashnext, hashprev)
  BY DEF IInv, ChainInv
<1>3. /\ hashprev[e] \in Pointers /\ hashnext[e] \in Pointers
      /\ hashprev[e] # Null => hashprev[e] \in Bucket(j)
      /\ hashnext[e] # Null => hashnext[e] \in Bucket(j)
  <2>1. e \in Bucket(j)
    BY DEF Bucket
  <2>2. IsNext(hashnext[e], e, Bucket(j), Newer) /\ IsPrev(hashprev[e], e, Bucket(j), Newer)
    BY <1>1, <1>2, <2>1 DEF Linked
  <2> QED
    BY <1>1, <2>2 DEF IsNext, IsPrev
<1>4. /\ Relinks(hashnext', hashnext, hashprev[e], hashnext[e], e)
      /\ Relinks(hashprev', hashprev, hashnext[e], hashprev[e], e)
  BY <1>1, <1>3, SetFieldRelinks DEF Unchain
<1>5. \A i \in Buckets : Bucket(i)' = Bucket(i) \ {e}
  BY <1>1 DEF Bucket, Free
<1>6. \A a, b \in live' : <<a, b>> \in Newer' <=> <<a, b>> \in Newer
  BY DeleteOrder
<1> HIDE DEF j
<1>7. ASSUME NEW i \in Buckets PROVE Linked(Bucket(i)', Newer', table'[i], hashnext', hashprev')
  <2>0. Bucket(i) \subseteq live /\ Bucket(i)' \subseteq live' /\ Bucket(i) \subseteq Addr
    BY <1>1 DEF Bucket
  <2>1. Ordered(Bucket(i), Newer)
    BY <1>1, <2>0, PartOrdered
  <2>2. CASE i = j
    <3>1. e \in Bucket(i)
      BY <2>2 DEF Bucket, j
    <3>2. table'[i] = IF hashprev[e] = Null THEN hashnext[e] ELSE table[i]
      BY <1>1, <2>2 DEF Unchain, j
    <3>3. Linked(Bucket(i) \ {e}, Newer, table'[i], hashnext', hashprev')
      BY <1>1, <1>2, <2>0, <2>1, <3>1, <3>2, LinkedRemove DEF Unchain
    <3> QED
      BY <1>5, <1>6, <2>0, <3>3, LinkedSame
  <2>3. CASE i # j
    <3>1. Bucket(i)' = Bucket(i)
      BY <1>5, <2>3 DEF Bucket, j
    <3>2. table'[i] = table[i]
      BY <1>1, <2>3 DEF Unchain, j
    <3>3. ASSUME NEW a \in Bucket(i)
          PROVE  hashnext'[a] = hashnext[a] /\ hashprev'[a] = hashprev[a]
      <4>1. a \in Addr /\ a # e /\ a # hashprev[e] /\ a # hashnext[e]
        BY <1>3, <2>0, <2>3, HashTableAssumption DEF Bucket, j
      <4> QED
        BY <1>4, <4>1, RelinksAt
    <3> QED
      BY <1>2, <1>6, <2>0, <3>1, <3>2, <3>3, LinkedSame
  <2> QED
    BY <2>2, <2>3
<1> QED
  BY <1>7 DEF ChainInv

(* What is after a deleted element is another element, or nothing.          *)
LEMMA DeleteInvariant ==
  ASSUME IInv, NEW e \in live, DeleteAt(e), curset' \in BOOLEAN
  PROVE  IInv'
<1>1. TypeOK'
  BY DeleteType DEF IInv, TypeOK
<1>2. OrderInv' /\ live' = live \ {e}
  BY DeleteOrder DEF DeleteAt
<1>3. ListInv'
  BY DeleteList DEF DeleteAt
<1>4. ChainInv'
  BY DeleteChain DEF DeleteAt
<1>5. CurrentUsable'
  <2>1. IsNext(listnext[e], e, live, Older) /\ <<e, e>> \notin Older
    BY DEF IInv, ListInv, Linked, OrderInv, Ordered
  <2>2. listnext[e] \in (live \ {e}) \union {Null}
    BY <2>1 DEF IsNext
  <2> QED
    BY <1>2, <2>2 DEF DeleteAt, CurrentUsable
<1> QED
  BY <1>1, <1>2, <1>3, <1>4, <1>5 DEF IInv

(* An addition: the new element is after all others.                        *)
LEMMA AddOrder ==
  ASSUME IInv, NEW k \in Keys, k \notin Members, NEW e \in Addr \ live,
         NewElement(e, k)
  PROVE  /\ live' = live \union {e}
         /\ \A a, b \in live : <<a, b>> \in Older' <=> <<a, b>> \in Older
         /\ \A a, b \in live : <<a, b>> \in Newer' <=> <<a, b>> \in Newer
         /\ <<e, e>> \notin Older' /\ <<e, e>> \notin Newer'
         /\ \A a \in live : <<a, e>> \in Older' /\ <<e, a>> \notin Older'
         /\ \A a \in live : <<e, a>> \in Newer' /\ <<a, e>> \notin Newer'
         /\ OrderInv'
<1>1. live' = live \union {e} /\ live \subseteq Addr /\ e \in Addr /\ e \notin live
  BY DEF NewElement, IInv, TypeOK
<1>2. \A a \in live : key'[a] = key[a] /\ key[a] \in Keys /\ key[a] # k
  BY <1>1 DEF NewElement, IInv, TypeOK, Members
<1>3. key'[e] = k
  BY DEF NewElement, IInv, TypeOK
<1>4. /\ earlier'[k] = Members
      /\ \A m \in Keys : m # k => earlier'[m] = earlier[m]
      /\ \A m \in Keys : earlier[m] \subseteq Members
  BY DEF NewElement, IInv, TypeOK, OrderInv, Members
<1>5. \A a, b \in live : key'[a] \in earlier'[key'[b]] <=> key[a] \in earlier[key[b]]
  BY <1>2, <1>4
<1>6. \A a \in live : /\ key'[a] \in earlier'[key'[e]]
                      /\ key'[e] \notin earlier'[key'[a]]
  BY <1>2, <1>3, <1>4 DEF Members
<1>7. key'[e] \notin earlier'[key'[e]]
  BY <1>3, <1>4
<1>8. \A a, b \in live : <<a, b>> \in Older' <=> <<a, b>> \in Older
  BY <1>1, <1>5 DEF Older
<1>9. \A a, b \in live : <<a, b>> \in Newer' <=> <<a, b>> \in Newer
  BY <1>1, <1>5 DEF Newer
<1>10. /\ <<e, e>> \notin Older'
       /\ \A a \in live : <<a, e>> \in Older' /\ <<e, a>> \notin Older'
  BY <1>1, <1>6, <1>7 DEF Older
<1>11. /\ <<e, e>> \notin Newer'
       /\ \A a \in live : <<e, a>> \in Newer' /\ <<a, e>> \notin Newer'
  BY <1>1, <1>6, <1>7 DEF Newer
<1>12. Ordered(live, Older) /\ WellOrdered(live, Older) /\ WellOrdered(live, Newer)
  BY DEF IInv, OrderInv
<1>13. Ordered(live', Older') /\ WellOrdered(live', Older')
  BY <1>1, <1>8, <1>10, <1>12, EndOrdered
<1>14. WellOrdered(live', Newer')
  BY <1>1, <1>9, <1>11, <1>12, FrontWellOrdered
<1>15. \A a, b \in live' : key'[a] = key'[b] => a = b
  BY <1>1, <1>2, <1>3 DEF IInv, OrderInv
<1>16. Members' = Members \union {k}
  BY <1>1, <1>2, <1>3 DEF Members
<1>17. \A m \in Keys : earlier'[m] \subseteq Members'
  BY <1>4, <1>16
<1> QED
  BY <1>1, <1>8, <1>9, <1>10, <1>11, <1>13, <1>14, <1>15, <1>17 DEF OrderInv

(* Without a first element there is no last one either, and AppendToList    *)
(* is the same in both cases: to put e before the list read backwards.      *)
LEMMA AddList ==
  ASSUME IInv, NEW k \in Keys, k \notin Members, NEW e \in Addr \ live,
         NewElement(e, k), AppendToList(e)
  PROVE  ListInv'
<1>1. /\ live \subseteq Addr /\ Ordered(live, Older) /\ Ordered(live, Newer)
      /\ listnext \in [Addr -> Pointers] /\ listprev \in [Addr -> Pointers]
  BY NewerOrdered DEF IInv, TypeOK, OrderInv
<1>2. IsLeast(firsthashelem, live, Older) /\ IsLeast(lasthashelem, live, Newer)
  BY DEF IInv, ListInv, Linked
<1>3. firsthashelem = Null => live = {} /\ lasthashelem = Null
  BY <1>1, <1>2, HashTableAssumption DEF IsLeast
<1>4. /\ lasthashelem' = e
      /\ listprev' = [listprev EXCEPT ![e] = lasthashelem]
      /\ listnext' = [SetField(listnext, lasthashelem, e) EXCEPT ![e] = Null]
  BY <1>3 DEF AppendToList, SetField
<1>5. /\ live' = live \union {e}
      /\ <<e, e>> \notin Newer'
      /\ \A a, b \in live : <<a, b>> \in Newer' <=> <<a, b>> \in Newer
      /\ \A a \in live : <<e, a>> \in Newer' /\ <<a, e>> \notin Newer'
  BY AddOrder
<1>6. Linked(live, Newer, lasthashelem, listprev, listnext)
  BY Converse, LinkedBackwards DEF IInv, ListInv
<1>7. Linked(live, Newer', lasthashelem, listprev, listnext)
  BY <1>5, <1>6, LinkedSame
<1>8. Ordered(live, Newer')
  BY <1>1, <1>5 DEF Ordered
<1>9. Linked(live', Newer', lasthashelem', listprev', listnext')
  BY <1>1, <1>4, <1>5, <1>7, <1>8, LinkedPrepend
<1>10. IsLeast(firsthashelem', live', Older')
  <2>1. /\ \A a, b \in live : <<a, b>> \in Older' <=> <<a, b>> \in Older
        /\ \A a \in live : <<a, e>> \in Older'
    BY AddOrder
  <2>2. CASE firsthashelem = Null
    BY <1>3, <1>5, <2>2 DEF AppendToList, IsLeast
  <2>3. CASE firsthashelem # Null
    BY <1>2, <1>5, <2>1, <2>3 DEF AppendToList, IsLeast
  <2> QED
    BY <2>2, <2>3
<1>11. \A a, b \in live' : <<a, b>> \in Older' <=> <<b, a>> \in Newer'
  BY DEF Older, Newer
<1>12. Linked(live', Older', firsthashelem', listnext', listprev')
  BY <1>9, <1>10, <1>11, LinkedBackwards
<1> QED
  BY <1>9, <1>12 DEF ListInv, Linked

LEMMA AddChain ==
  ASSUME IInv, NEW k \in Hashable, k \notin Members, NEW e \in Addr \ live,
         NewElement(e, k), PrependToChain(e, GetIndex[k])
  PROVE  ChainInv'
<1> DEFINE j == GetIndex[k]
<1>1. /\ live \subseteq Addr /\ Ordered(live, Newer)
      /\ hashnext \in [Addr -> Pointers] /\ hashprev \in [Addr -> Pointers]
      /\ table \in [Buckets -> Pointers] /\ e \in Addr /\ e \notin live
      /\ hashindex \in [Addr -> Buckets]
  BY NewerOrdered DEF IInv, TypeOK, OrderInv
<1>2. \A i \in Buckets : Linked(Bucket(i), Newer, table[i], hashnext, hashprev)
  BY DEF IInv, ChainInv
<1>3. j \in Buckets /\ k \in Keys
  BY HashTableAssumption DEF Hashable, Buckets
<1>4. /\ Bucket(j)' = Bucket(j) \union {e}
      /\ \A i \in Buckets : i # j => Bucket(i)' = Bucket(i)
  BY <1>1, <1>3 DEF Bucket, NewElement
<1>5. /\ live' = live \union {e}
      /\ <<e, e>> \notin Newer'
      /\ \A a, b \in live : <<a, b>> \in Newer' <=> <<a, b>> \in Newer
      /\ \A a \in live : <<e, a>> \in Newer' /\ <<a, e>> \notin Newer'
  BY <1>3, AddOrder
<1>6. table[j] \in Pointers /\ (table[j] # Null => table[j] \in Bucket(j))
  BY <1>1, <1>2, <1>3 DEF Linked, IsLeast
<1>7. /\ table'[j] = e
      /\ hashnext' = [hashnext EXCEPT ![e] = table[j]]
      /\ hashprev' = [SetField(hashprev, table[j], e) EXCEPT ![e] = Null]
      /\ \A i \in Buckets : i # j => table'[i] = table[i]
  BY <1>1, <1>3 DEF PrependToChain
<1>8. e \in Pointers
  BY DEF Pointers
<1> HIDE DEF j
<1>9. Relinks(hashprev', hashprev, table[j], e, e)
  BY <1>1, <1>6, <1>7, <1>8, SetFieldRelinks
<1>10. ASSUME NEW i \in Buckets PROVE Linked(Bucket(i)', Newer', table'[i], hashnext', hashprev')
  <2>0. Bucket(i) \subseteq live /\ Bucket(i) \subseteq Addr
    BY <1>1 DEF Bucket
  <2>1. Linked(Bucket(i), Newer', table[i], hashnext, hashprev)
    BY <1>2, <1>5, <2>0, LinkedSame
  <2>2. CASE i = j
    <3>1. Ordered(Bucket(i), Newer')
      BY <1>1, <1>5, <2>0 DEF Ordered
    <3>2. e \in Addr \ Bucket(i) /\ <<e, e>> \notin Newer'
      BY <1>1, <1>5, <2>0
    <3>3. \A s \in Bucket(i) : <<e, s>> \in Newer' /\ <<s, e>> \notin Newer'
      BY <1>5, <2>0
    <3>4. Linked(Bucket(i) \union {e}, Newer', e, [hashnext EXCEPT ![e] = table[i]],
                 [SetField(hashprev, table[i], e) EXCEPT ![e] = Null])
      BY <1>1, <2>0, <2>1, <3>1, <3>2, <3>3, LinkedPrepend
    <3> QED
      BY <1>4, <1>7, <2>2, <3>4
  <2>3. CASE i # j
    <3>1. Bucket(i)' = Bucket(i) /\ table'[i] = table[i]
      BY <1>4, <1>7, <2>3
    <3>2. ASSUME NEW a \in Bucket(i)
          PROVE  hashnext'[a] = hashnext[a] /\ hashprev'[a] = hashprev[a]
      <4>1. a \in Addr /\ a # e /\ a # table[j]
        BY <1>1, <1>6, <2>0, <2>3, HashTableAssumption DEF Bucket
      <4>2. hashprev'[a] = hashprev[a]
        BY <1>9, <4>1, RelinksAt
      <4> QED
        BY <1>1, <1>7, <4>1, <4>2
    <3> QED
      BY <2>1, <3>1, <3>2, LinkedSame
  <2> QED
    BY <2>2, <2>3
<1> QED
  BY <1>10 DEF ChainInv

LEMMA AddInvariant ==
  ASSUME IInv, NEW k \in Hashable, k \notin Members, NEW e \in Addr \ live,
         NewElement(e, k), PrependToChain(e, GetIndex[k]), AppendToList(e),
         status' = "ok", UNCHANGED <<curhashelem, curset>>
  PROVE  IInv'
<1>1. k \in Keys
  BY DEF Hashable
<1>2. TypeOK'
  BY AddType DEF IInv
<1>3. OrderInv' /\ live' = live \union {e}
  BY <1>1, AddOrder
<1>4. ListInv'
  BY <1>1, AddList
<1>5. ChainInv'
  BY AddChain
<1>6. CurrentUsable'
  BY <1>3 DEF IInv, CurrentUsable
<1> QED
  BY <1>2, <1>3, <1>4, <1>5, <1>6 DEF IInv

(* A step that leaves the elements and their links leaves the invariant, as *)
(* far as it is not about the current element.                              *)
LEMMA MoveInvariant ==
  ASSUME IInv, TypeOK', UNCHANGED <<chainVars, listVars, elemVars>>,
         CurrentUsable'
  PROVE  IInv'
<1> USE DEF chainVars, listVars, elemVars
<1>1. OrderInv'
  BY DEF IInv, OrderInv, Older, Newer, Members
<1>2. ListInv'
  BY DEF IInv, ListInv, Older, Newer
<1>3. ChainInv'
  BY DEF IInv, ChainInv, Bucket, Newer
<1> QED
  BY <1>1, <1>2, <1>3 DEF IInv

LEMMA GotoInvariant ==
  ASSUME IInv, NEW k \in Keys, GotoElement(k)
  PROVE  IInv'
<1>1. TypeOK'
  BY GotoType DEF IInv
<1>2. CurrentUsable'
  <2>1. CASE k \notin Hashable
    BY <2>1 DEF IInv, CurrentUsable, GotoElement, elemVars
  <2>2. CASE k \in Hashable
    <3>1. Found(k) \subseteq live
      BY <2>2, FoundIs
    <3> QED
      BY <2>2, <3>1 DEF GotoElement, CurrentUsable, elemVars
  <2> QED
    BY <2>1, <2>2
<1> QED
  BY <1>1, <1>2, MoveInvariant DEF GotoElement

LEMMA InitInvariant == Init => IInv
<1> SUFFICES ASSUME Init PROVE IInv
  OBVIOUS
<1>1. TypeOK
  BY InitType
<1>2. live = {} /\ firsthashelem = Null /\ lasthashelem = Null /\ curset = FALSE
  BY DEF Init
<1>3. OrderInv
  <2>1. \A k \in Keys : earlier[k] \subseteq Members
    BY DEF Init
  <2> QED
    BY <1>2, <2>1 DEF OrderInv, Ordered, WellOrdered
<1>4. ListInv
  BY <1>2 DEF ListInv, Linked, IsLeast
<1>5. ChainInv
  BY <1>2 DEF Init, ChainInv, Linked, IsLeast, Bucket
<1> QED
  BY <1>1, <1>2, <1>3, <1>4, <1>5 DEF IInv, CurrentUsable

(* Clear frees every element, since the list has them all.                  *)
LEMMA ClearInvariant ==
  ASSUME IInv, Clear
  PROVE  IInv' /\ live' = {}
<1>1. TypeOK'
  BY StepType DEF IInv, Next
<1>2. live' = {} /\ firsthashelem' = Null /\ lasthashelem' = Null /\ curset' = FALSE
  BY InvariantComplete DEF Clear, ListComplete
<1>3. OrderInv'
  <2>1. \A k \in Keys : earlier'[k] \subseteq Members'
    BY DEF Clear
  <2> QED
    BY <1>2, <2>1 DEF OrderInv, Ordered, WellOrdered
<1>4. ListInv'
  BY <1>2 DEF ListInv, Linked, IsLeast
<1>5. ChainInv'
  <2>1. \A i \in Buckets : table'[i] = Null
    BY DEF Clear
  <2> QED
    BY <1>2, <2>1 DEF ChainInv, Linked, IsLeast, Bucket
<1> QED
  BY <1>1, <1>2, <1>3, <1>4, <1>5 DEF IInv, CurrentUsable

LEMMA NextInvariant == IInv /\ [Next]_vars => IInv'
<1> SUFFICES ASSUME IInv, [Next]_vars PROVE IInv'
  OBVIOUS
<1>0. TypeOK'
  BY StepType DEF IInv
<1>1. ASSUME curhashelem' \in live \union {Null},
             UNCHANGED <<chainVars, listVars, elemVars>>
      PROVE  IInv'
  BY <1>0, <1>1, MoveInvariant DEF CurrentUsable, elemVars
<1>2. CASE GotoFirstElement
  <2>1. firsthashelem \in live \union {Null}
    BY DEF IInv, ListInv, Linked, IsLeast
  <2> QED
    BY <1>1, <1>2, <2>1 DEF GotoFirstElement
<1>3. CASE GotoLastElement
  <2>1. lasthashelem \in live \union {Null}
    BY DEF IInv, ListInv, IsLeast
  <2> QED
    BY <1>1, <1>3, <2>1 DEF GotoLastElement
<1>4. CASE GotoNextElement
  <2>1. curhashelem \in live
    BY <1>4 DEF IInv, CurrentUsable, GotoNextElement
  <2>2. listnext[curhashelem] \in live \union {Null}
    BY <2>1 DEF IInv, ListInv, Linked, IsNext
  <2> QED
    BY <1>1, <1>4, <2>2 DEF GotoNextElement
<1>5. CASE GotoPreviousElement
  <2>1. curhashelem \in live
    BY <1>5 DEF IInv, CurrentUsable, GotoPreviousElement
  <2>2. listprev[curhashelem] \in live \union {Null}
    BY <2>1 DEF IInv, ListInv, Linked, IsPrev
  <2> QED
    BY <1>1, <1>5, <2>2 DEF GotoPreviousElement
<1>6. CASE DeleteCurrentElement
  <2>1. CASE curhashelem # Null /\ DeleteAt(curhashelem)
    <3>1. curhashelem \in live /\ curset' \in BOOLEAN
      BY <1>6, <2>1 DEF IInv, CurrentUsable, TypeOK, DeleteCurrentElement
    <3> QED
      BY <2>1, <3>1, DeleteInvariant
  <2>2. CASE curhashelem = Null /\ UNCHANGED <<curhashelem, chainVars, listVars, elemVars>>
    BY <1>1, <2>2
  <2> QED
    BY <1>6, <2>1, <2>2 DEF DeleteCurrentElement
<1>7. CASE Clear
  BY <1>7, ClearInvariant
<1>8. ASSUME NEW k \in Keys, GotoElement(k) PROVE IInv'
  BY <1>8, GotoInvariant
<1>9. ASSUME NEW k \in Keys, HasElement(k) PROVE IInv'
  <2>1. CurrentUsable'
    BY <1>9 DEF HasElement, IInv, CurrentUsable, elemVars
  <2> QED
    BY <1>0, <1>9, <2>1, MoveInvariant DEF HasElement
<1>10. ASSUME NEW k \in Keys, DeleteElement(k) PROVE IInv'
  <2>1. CASE k \in Hashable /\ (\E e \in Found(k) : DeleteAt(e)) /\ curset' = TRUE
    <3>1. PICK e \in Found(k) : DeleteAt(e)
      BY <2>1
    <3>2. e \in live
      BY <2>1, <3>1, FoundIs
    <3> QED
      BY <2>1, <3>1, <3>2, DeleteInvariant
  <2>2. CASE GotoElement(k)
    BY <2>2, GotoInvariant
  <2> QED
    BY <1>10, <2>1, <2>2 DEF DeleteElement
<1>11. ASSUME NEW k \in Keys, AddElement(k) PROVE IInv'
  <2>1. CASE /\ Addable(k) /\ status' = "ok" /\ UNCHANGED <<curhashelem, curset>>
             /\ \E e \in Addr \ live : /\ NewElement(e, k)
                                       /\ PrependToChain(e, GetIndex[k])
                                       /\ AppendToList(e)
    <3>1. k \in Hashable /\ k \notin Members
      BY <2>1, FoundIs DEF Addable, Members
    <3> QED
      BY <2>1, <3>1, AddInvariant
  <2>2. CASE UNCHANGED <<chainVars, listVars, elemVars, curhashelem, curset>>
    <3>1. CurrentUsable'
      BY <2>2 DEF IInv, CurrentUsable, elemVars
    <3> QED
      BY <1>0, <2>2, <3>1, MoveInvariant
  <2> QED
    BY <1>11, <2>1, <2>2 DEF AddElement
<1>12. CASE UNCHANGED vars
  <2>1. UNCHANGED <<chainVars, listVars, elemVars, curhashelem, curset>>
    BY <1>12 DEF vars, chainVars, listVars, elemVars
  <2>2. CurrentUsable'
    BY <2>1 DEF IInv, CurrentUsable, elemVars
  <2> QED
    BY <1>0, <2>1, <2>2, MoveInvariant
<1> QED
  BY <1>2, <1>3, <1>4, <1>5, <1>6, <1>7, <1>8, <1>9, <1>10, <1>11, <1>12 DEF Next

(* Every reachable state has the whole inductive invariant: both kinds of   *)
(* linked lists are intact, and every element is on one of each.            *)
THEOREM Invariant == Spec => []IInv
BY InitInvariant, NextInvariant, PTL DEF Spec

(* However elements were added and deleted, with whatever collisions: every *)
(* chain has exactly the elements of its bucket.                            *)
THEOREM ChainsAreComplete == Spec => []ChainsComplete
<1>1. IInv => ChainsComplete
  BY InvariantComplete
<1> QED
  BY <1>1, Invariant, PTL

(* ... and the list has all of them, in both directions.                    *)
THEOREM ListIsComplete == Spec => []ListComplete
<1>1. IInv => ListComplete
  BY InvariantComplete
<1> QED
  BY <1>1, Invariant, PTL

(* The current element, once set, is never one that was freed.              *)
THEOREM CurrentIsUsable == Spec => []CurrentUsable
<1>1. IInv => CurrentUsable
  BY DEF IInv
<1> QED
  BY <1>1, Invariant, PTL

-----------------------------------------------------------------------------
(* The refinement of OrderedTable.                                          *)

(* What the abstract table calls the element at p.                          *)
KeyAt(p) == IF p = Null THEN Null ELSE key[p]

Current == IF ~curset THEN Unset ELSE KeyAt(curhashelem)

(* The list's links mean what the abstract table says of the order in which *)
(* the keys were added.                                                     *)
LEMMA NextIsAfter ==
  ASSUME IInv, NEW a \in live
  PROVE  Abstract!IsAfter(KeyAt(listnext[a]), key[a])
<1> DEFINE n == listnext[a]
<1>1. IsNext(n, a, live, Older)
  BY DEF IInv, ListInv, Linked
<1>2. CASE n = Null /\ \A s \in live : <<a, s>> \notin Older
  <2>1. \A s \in live : key[a] \notin earlier[key[s]]
    BY <1>2, Converse
  <2> QED
    BY <1>2, <2>1 DEF Abstract!IsAfter, KeyAt
<1>3. CASE n \in live /\ <<a, n>> \in Older
           /\ \A s \in live : <<a, s>> \in Older => s = n \/ <<n, s>> \in Older
  <2>1. n # Null /\ key[a] \in earlier[key[n]]
    BY <1>3, Converse, HashTableAssumption DEF IInv, TypeOK
  <2>2. \A s \in live : key[a] \in earlier[key[s]] =>
          key[s] = key[n] \/ key[n] \in earlier[key[s]]
    BY <1>3, Converse
  <2> HIDE DEF n
  <2>3. key[n] \in {key[s] : s \in live}
    BY <1>3
  <2>4. Abstract!IsSuccessor(key[n], key[a])
    BY <2>1, <2>2 DEF Abstract!IsSuccessor
  <2>5. KeyAt(n) = key[n]
    BY <2>1 DEF KeyAt
  <2> QED
    BY <2>3, <2>4, <2>5 DEF Abstract!IsAfter, n
<1> QED
  BY <1>1, <1>2, <1>3 DEF IsNext

LEMMA PrevIsBefore ==
  ASSUME IInv, NEW a \in live
  PROVE  Abstract!IsBefore(KeyAt(listprev[a]), key[a])
<1> DEFINE p == listprev[a]
<1>1. IsPrev(p, a, live, Older)
  BY DEF IInv, ListInv, Linked
<1>2. CASE p = Null /\ \A s \in live : <<s, a>> \notin Older
  <2>1. \A s \in live : key[s] \notin earlier[key[a]]
    BY <1>2, Converse
  <2>2. key[a] \in Keys /\ earlier[key[a]] \subseteq Members
    BY DEF IInv, OrderInv, TypeOK
  <2>3. earlier[key[a]] = {}
    BY <2>1, <2>2 DEF Members
  <2> QED
    BY <1>2, <2>3 DEF Abstract!IsBefore, KeyAt
<1>3. CASE p \in live /\ <<p, a>> \in Older
           /\ \A s \in live : <<s, a>> \in Older => s = p \/ <<s, p>> \in Older
  <2>1. p # Null /\ key[p] \in earlier[key[a]]
    BY <1>3, Converse, HashTableAssumption DEF IInv, TypeOK
  <2>2. ASSUME NEW s \in live, key[p] \in earlier[key[s]]
        PROVE  key[s] = key[a] \/ key[a] \in earlier[key[s]]
    <3>1. <<p, s>> \in Older /\ (s = a \/ <<a, s>> \in Older \/ <<s, a>> \in Older)
      BY <1>3, <2>2, Converse DEF IInv, OrderInv, Ordered
    <3>2. CASE <<s, a>> \in Older
      BY <1>3, <3>1, <3>2 DEF IInv, OrderInv, Ordered
    <3> QED
      BY <3>1, <3>2, Converse
  <2> HIDE DEF p
  <2>3. key[p] \in {key[s] : s \in live}
    BY <1>3
  <2>4. Abstract!IsSuccessor(key[a], key[p])
    BY <2>1, <2>2 DEF Abstract!IsSuccessor
  <2>5. KeyAt(p) = key[p]
    BY <2>1 DEF KeyAt
  <2> QED
    BY <2>3, <2>4, <2>5 DEF Abstract!IsBefore, p
<1> QED
  BY <1>1, <1>2, <1>3 DEF IsPrev

LEMMA FirstIsFirst ==
  ASSUME IInv
  PROVE  Abstract!IsFirst(KeyAt(firsthashelem))
<1> DEFINE p == firsthashelem
<1>1. IsLeast(p, live, Older)
  BY DEF IInv, ListInv, Linked
<1>2. CASE p = Null /\ live = {}
  BY <1>2 DEF Abstract!IsFirst, KeyAt
<1>3. CASE p \in live /\ \A s \in live : s = p \/ <<p, s>> \in Older
  <2>1. \A s \in live : <<s, p>> \notin Older
    BY <1>3 DEF IInv, OrderInv, Ordered
  <2>2. \A s \in live : key[s] \notin earlier[key[p]]
    BY <1>3, <2>1, Converse
  <2>3. key[p] \in Keys /\ earlier[key[p]] \subseteq Members /\ p # Null
    BY <1>3, HashTableAssumption DEF IInv, OrderInv, TypeOK
  <2>4. earlier[key[p]] = {}
    BY <2>2, <2>3 DEF Members
  <2>5. key[p] \in {key[s] : s \in live}
    BY <1>3
  <2> QED
    BY <2>3, <2>4, <2>5 DEF Abstract!IsFirst, KeyAt
<1> QED
  BY <1>1, <1>2, <1>3 DEF IsLeast

LEMMA LastIsLast ==
  ASSUME IInv
  PROVE  Abstract!IsLast(KeyAt(lasthashelem))
<1> DEFINE p == lasthashelem
<1>1. IsLeast(p, live, Newer)
  BY DEF IInv, ListInv
<1>2. CASE p = Null /\ live = {}
  BY <1>2 DEF Abstract!IsLast, KeyAt
<1>3. CASE p \in live /\ \A s \in live : s = p \/ <<p, s>> \in Newer
  <2>1. \A s \in live : <<p, s>> \notin Older
    BY <1>3, Converse DEF IInv, OrderInv, Ordered
  <2>2. \A s \in live : key[p] \notin earlier[key[s]]
    BY <1>3, <2>1, Converse
  <2>3. key[p] \in {key[s] : s \in live} /\ p # Null
    BY <1>3, HashTableAssumption DEF IInv, TypeOK
  <2> QED
    BY <2>2, <2>3 DEF Abstract!IsLast, KeyAt
<1> QED
  BY <1>1, <1>2, <1>3 DEF IsLeast

(* A deletion removes the key, and its successor becomes current.           *)
LEMMA DeleteRefines ==
  ASSUME IInv, NEW e \in live, DeleteAt(e), curset' = TRUE
  PROVE  /\ Abstract!Remove(key[e])
         /\ Abstract!IsAfter(Current', key[e])
         /\ status' = "ok"
         /\ key[e] \in Members
<1>1. live' = live \ {e} /\ live \subseteq Addr /\ e \in Addr
  BY DEF DeleteAt, Free, IInv, TypeOK
<1>2. \A a \in live \ {e} : key'[a] = key[a] /\ key[a] # key[e]
  BY <1>1 DEF DeleteAt, Free, IInv, TypeOK, OrderInv
<1>3. {key'[a] : a \in live'} = {key[a] : a \in live} \ {key[e]}
  BY <1>1, <1>2
<1>4. earlier' = [k \in Keys |-> IF k = key[e] THEN {} ELSE earlier[k] \ {key[e]}]
  BY DEF DeleteAt, Free
<1>5. Abstract!Remove(key[e])
  BY <1>3, <1>4 DEF Abstract!Remove
<1>6. Current' = KeyAt(listnext[e])
  <2>1. IsNext(listnext[e], e, live, Older) /\ <<e, e>> \notin Older
    BY DEF IInv, ListInv, Linked, OrderInv, Ordered
  <2>2. curhashelem' = listnext[e] /\ listnext[e] \in (live \ {e}) \union {Null}
    BY <2>1 DEF DeleteAt, IsNext
  <2>3. curhashelem' # Null => key'[curhashelem'] = key[listnext[e]]
    BY <1>2, <2>2
  <2> QED
    BY <2>2, <2>3 DEF Current, KeyAt
<1>7. Abstract!IsAfter(Current', key[e])
  BY <1>6, NextIsAfter
<1> QED
  BY <1>5, <1>7 DEF DeleteAt, Members

(* What Abstract's variables stand for.                                     *)
LEMMA CurrentIs ==
  ASSUME IInv
  PROVE  /\ Current \in Members \union {Null, Unset}
         /\ Current \in Members <=> curset /\ curhashelem # Null
         /\ curset /\ curhashelem # Null => curhashelem \in live
                                            /\ Current = key[curhashelem]
         /\ curset /\ curhashelem = Null => Current = Null
         /\ Members \subseteq Keys
<1>1. Members \subseteq Keys
  BY DEF IInv, TypeOK, Members
<1>2. curset /\ curhashelem # Null => curhashelem \in live /\ Current = key[curhashelem]
                                      /\ Current \in Members
  BY DEF IInv, CurrentUsable, Current, KeyAt, Members
<1>3. Null \notin Members /\ Unset \notin Members
  BY <1>1, HashTableAssumption
<1> QED
  BY <1>1, <1>2, <1>3 DEF Current, KeyAt

(* To go to a key is the abstract table's Goto.                             *)
LEMMA GotoRefines ==
  ASSUME IInv, NEW k \in Keys, GotoElement(k)
  PROVE  Abstract!Goto(k)
<1>1. UNCHANGED <<live, key, earlier>>
  BY DEF GotoElement, elemVars
<1>2. CASE k \notin Hashable
  <2>1. Current' = Current
    BY <1>1, <1>2 DEF GotoElement, Current, KeyAt
  <2> QED
    BY <1>1, <1>2, <2>1 DEF GotoElement, Abstract!Goto, Current, KeyAt
<1>3. CASE k \in Hashable
  <2>1. Found(k) = {a \in live : key[a] = k} /\ live \subseteq Addr
    BY <1>3, FoundIs DEF IInv, TypeOK
  <2>2. CASE Found(k) = {}
    <3>1. k \notin Members
      BY <2>1, <2>2 DEF Members
    <3>2. curhashelem' = Null /\ status' = "notfound" /\ curset' = TRUE
      BY <1>3, <2>2 DEF GotoElement
    <3>3. Current' = Null
      BY <3>2 DEF Current, KeyAt
    <3> QED
      BY <1>1, <1>3, <3>1, <3>2, <3>3 DEF Abstract!Goto, Members, Current, KeyAt
  <2>3. CASE Found(k) # {}
    <3>1. k \in Members
      BY <2>1, <2>3 DEF Members
    <3>2. curhashelem' \in Found(k) /\ curset' = TRUE
      BY <1>3, <2>3 DEF GotoElement
    <3>3. curhashelem' # Null /\ key[curhashelem'] = k
      BY <2>1, <3>2, HashTableAssumption
    <3>4. status' = "ok" /\ Current' = k
      BY <1>1, <1>3, <3>2, <3>3 DEF GotoElement, Current, KeyAt
    <3> QED
      BY <1>1, <1>3, <3>1, <3>4 DEF Abstract!Goto, Members, Current, KeyAt
  <2> QED
    BY <2>2, <2>3
<1> QED
  BY <1>2, <1>3

LEMMA HasRefines ==
  ASSUME IInv, NEW k \in Keys, HasElement(k)
  PROVE  Abstract!Has(k)
<1>1. k \in Hashable => (Found(k) # {} <=> k \in Members)
  BY FoundIs DEF Members
<1>2. k \notin Hashable => k \notin Members
  <2>1. ASSUME k \in Members PROVE k \in Hashable
    <3>1. PICK a \in live : k = key[a]
      BY <2>1 DEF Members
    <3>2. GetIndex[k] \in Buckets
      BY <3>1 DEF IInv, TypeOK
    <3> QED
      BY <3>2, HashTableAssumption DEF Hashable, Buckets
  <2> QED
    BY <2>1
<1>3. status' = IF k \in Members THEN "found" ELSE "notfound"
  BY <1>1, <1>2 DEF HasElement
<1> QED
  BY <1>3 DEF HasElement, Abstract!Has, elemVars, Members

LEMMA AddRefines ==
  ASSUME IInv, NEW k \in Keys, AddElement(k)
  PROVE  Abstract!Add(k)
<1>1. k \in Hashable => (Found(k) = {} <=> k \notin Members)
  BY FoundIs DEF Members
<1>2. CASE /\ Addable(k) /\ status' = "ok" /\ UNCHANGED <<curhashelem, curset>>
           /\ \E e \in Addr \ live : /\ NewElement(e, k)
                                     /\ PrependToChain(e, GetIndex[k])
                                     /\ AppendToList(e)
  <2>1. PICK e \in Addr \ live : NewElement(e, k)
    BY <1>2
  <2>2. k \in Hashable /\ k \notin Members
    BY <1>1, <1>2 DEF Addable
  <2>3. live' = live \union {e} /\ live \subseteq Addr /\ e \in Addr /\ e \notin live
    BY <2>1 DEF NewElement, IInv, TypeOK
  <2>4. key'[e] = k /\ \A a \in live : key'[a] = key[a]
    BY <2>1, <2>3 DEF NewElement, IInv, TypeOK
  <2>5. {key'[a] : a \in live'} = {key[a] : a \in live} \union {k}
    BY <2>3, <2>4
  <2>6. Current' = Current
    BY <1>2, <2>4, CurrentIs DEF Current, KeyAt
  <2>7. earlier' = [earlier EXCEPT ![k] = {key[a] : a \in live}]
    BY <2>1 DEF NewElement
  <2> QED
    BY <1>2, <2>2, <2>5, <2>6, <2>7 DEF Abstract!Add, Members, Current, KeyAt
<1>3. CASE /\ \/ k \notin Hashable /\ status' = "invalidindex"
              \/ k \in Hashable /\ ~Addable(k) /\ status' = "exists"
              \/ Addable(k) /\ status' = "outofmem"
           /\ UNCHANGED <<chainVars, listVars, elemVars, curhashelem, curset>>
  <2>1. status' \in (IF k \notin Hashable THEN {"invalidindex"}
                     ELSE IF k \in Members THEN {"exists"}
                     ELSE {"outofmem"})
    BY <1>1, <1>3 DEF Addable
  <2> QED
    BY <1>3, <2>1 DEF Abstract!Add, Members, elemVars
<1> QED
  BY <1>2, <1>3 DEF AddElement

(* Every step of the hash table is a step of the abstract one.              *)
LEMMA StepRefines ==
  ASSUME IInv, [Next]_vars
  PROVE  [Abstract!Next]_(Abstract!vars)
<1> USE DEF elemVars
<1>1. CASE GotoFirstElement
  <2>1. Current' = KeyAt(firsthashelem)
    BY <1>1 DEF GotoFirstElement, Current, KeyAt
  <2>2. Abstract!IsFirst(Current')
    BY <2>1, FirstIsFirst
  <2>3. Abstract!GotoFirst
    BY <1>1, <2>2 DEF Abstract!GotoFirst, GotoFirstElement, Current, KeyAt
  <2> QED
    BY <2>3 DEF Abstract!Next
<1>2. CASE GotoLastElement
  <2>1. Current' = KeyAt(lasthashelem)
    BY <1>2 DEF GotoLastElement, Current, KeyAt
  <2>2. Abstract!IsLast(Current')
    BY <2>1, LastIsLast
  <2>3. Abstract!GotoLast
    BY <1>2, <2>2 DEF Abstract!GotoLast, GotoLastElement, Current, KeyAt
  <2> QED
    BY <2>3 DEF Abstract!Next
<1>3. CASE GotoNextElement
  <2>1. curhashelem \in live /\ Current = key[curhashelem] /\ Current \in Members
    BY <1>3, CurrentIs DEF GotoNextElement
  <2>2. Current' = KeyAt(listnext[curhashelem])
    BY <1>3 DEF GotoNextElement, Current, KeyAt
  <2>3. Abstract!IsAfter(Current', Current)
    BY <2>1, <2>2, NextIsAfter
  <2>4. Abstract!GotoNext
    BY <1>3, <2>1, <2>3 DEF Abstract!GotoNext, GotoNextElement, Current, KeyAt, Members
  <2> QED
    BY <2>4 DEF Abstract!Next
<1>4. CASE GotoPreviousElement
  <2>1. curhashelem \in live /\ Current = key[curhashelem] /\ Current \in Members
    BY <1>4, CurrentIs DEF GotoPreviousElement
  <2>2. Current' = KeyAt(listprev[curhashelem])
    BY <1>4 DEF GotoPreviousElement, Current, KeyAt
  <2>3. Abstract!IsBefore(Current', Current)
    BY <2>1, <2>2, PrevIsBefore
  <2>4. Abstract!GotoPrevious
    BY <1>4, <2>1, <2>3 DEF Abstract!GotoPrevious, GotoPreviousElement, Current, KeyAt, Members
  <2> QED
    BY <2>4 DEF Abstract!Next
<1>5. CASE DeleteCurrentElement
  <2>1. CASE curhashelem # Null /\ DeleteAt(curhashelem)
    <3>1. /\ curset' = TRUE /\ curhashelem \in live
          /\ Current = key[curhashelem] /\ Current \in Members
      BY <1>5, <2>1, CurrentIs DEF DeleteCurrentElement
    <3>2. PICK e \in live : e = curhashelem
      BY <3>1
    <3>3. DeleteAt(e)
      BY <2>1, <3>2
    <3>4. /\ Abstract!Remove(key[e])
          /\ Abstract!IsAfter(Current', key[e])
          /\ status' = "ok"
      BY <3>1, <3>3, DeleteRefines
    <3>5. Abstract!Remove(Current)
      BY <3>1, <3>2, <3>4 DEF Abstract!Remove
    <3>6. Abstract!IsAfter(Current', Current)
      BY <3>1, <3>2, <3>4
    <3>7. Abstract!DeleteCurrent
      BY <3>1, <3>4, <3>5, <3>6 DEF Abstract!DeleteCurrent, Current, KeyAt, Members
    <3> QED
      BY <3>7 DEF Abstract!Next
  <2>2. CASE /\ curhashelem = Null /\ status' = "nocurrent"
             /\ UNCHANGED <<curhashelem, chainVars, listVars, elemVars>>
    <3>1. Current = Null /\ Current' = Null
      BY <1>5, <2>2 DEF DeleteCurrentElement, Current, KeyAt
    <3>2. Abstract!DeleteCurrent
      BY <2>2, <3>1 DEF Abstract!DeleteCurrent, Current, KeyAt, Members
    <3> QED
      BY <3>2 DEF Abstract!Next
  <2> QED
    BY <1>5, <2>1, <2>2 DEF DeleteCurrentElement
<1>6. CASE Clear
  <2>1. live' = {} /\ curset' = FALSE
    BY <1>6, ClearInvariant DEF Clear
  <2>2. Abstract!Clear
    BY <1>6, <2>1 DEF Clear, Abstract!Clear
  <2> QED
    BY <2>2 DEF Abstract!Next
<1>7. ASSUME NEW k \in Keys, GotoElement(k) PROVE Abstract!Next
  BY <1>7, GotoRefines DEF Abstract!Next
<1>8. ASSUME NEW k \in Keys, HasElement(k) PROVE Abstract!Next
  BY <1>8, HasRefines DEF Abstract!Next
<1>9. ASSUME NEW k \in Keys, DeleteElement(k) PROVE Abstract!Next
  <2>1. CASE k \in Hashable /\ (\E e \in Found(k) : DeleteAt(e)) /\ curset' = TRUE
    <3>1. PICK e \in Found(k) : DeleteAt(e)
      BY <2>1
    <3>2. e \in live /\ key[e] = k
      BY <2>1, <3>1, FoundIs
    <3>3. /\ Abstract!Remove(key[e]) /\ Abstract!IsAfter(Current', key[e])
          /\ status' = "ok" /\ key[e] \in Members
      BY <2>1, <3>1, <3>2, DeleteRefines
    <3>4. Abstract!Remove(k)
      BY <3>2, <3>3 DEF Abstract!Remove
    <3>5. Abstract!IsAfter(Current', k)
      BY <3>2, <3>3
    <3>6. Abstract!Delete(k)
      BY <3>2, <3>3, <3>4, <3>5 DEF Abstract!Delete, Current, KeyAt, Members
    <3> QED
      BY <3>6 DEF Abstract!Next
  <2>2. CASE (k \in Hashable => Found(k) = {}) /\ GotoElement(k)
    <3>1. k \notin Members
      <4>1. ASSUME k \in Members PROVE k \in Hashable /\ Found(k) # {}
        <5>1. PICK a \in live : k = key[a]
          BY <4>1 DEF Members
        <5>2. GetIndex[k] \in Buckets
          BY <5>1 DEF IInv, TypeOK
        <5>3. k \in Hashable
          BY <5>2, HashTableAssumption DEF Hashable, Buckets
        <5> QED
          BY <5>1, <5>3, FoundIs
      <4> QED
        BY <2>2, <4>1
    <3>2. Abstract!Delete(k)
      BY <2>2, <3>1, GotoRefines DEF Abstract!Delete, Members
    <3> QED
      BY <3>2 DEF Abstract!Next
  <2> QED
    BY <1>9, <2>1, <2>2 DEF DeleteElement
<1>10. ASSUME NEW k \in Keys, AddElement(k) PROVE Abstract!Next
  BY <1>10, AddRefines DEF Abstract!Next
<1>11. CASE UNCHANGED vars
  BY <1>11 DEF vars, Abstract!vars
<1> QED
  BY <1>1, <1>2, <1>3, <1>4, <1>5, <1>6, <1>7, <1>8, <1>9, <1>10, <1>11 DEF Next

(* Whoever sets the current element before he uses it sees a set of keys in *)
(* the order in which they were added: buckets, collisions and pointers do  *)
(* not show.                                                                *)
THEOREM HashTableIsOrderedTable == Spec => ImplementsOrderedTable
<1>1. Init => Abstract!Init
  BY DEF Init, Abstract!Init
<1>2. IInv /\ [Next]_vars => [Abstract!Next]_(Abstract!vars)
  BY StepRefines
<1> QED
  BY <1>1, <1>2, Invariant, PTL DEF Spec, ImplementsOrderedTable, Abstract!Spec

-----------------------------------------------------------------------------
(* The destinations that the transmitters keep in tables of this kind.      *)

(* Division leaves a rest smaller than the divisor ...                      *)
LEMMA DivisionProperties ==
  ASSUME NEW n \in Int, NEW f \in Nat \ {0}
  PROVE  /\ n \div f \in Int
         /\ n % f \in 0 .. f - 1
         /\ n = f * (n \div f) + (n % f)
  OBVIOUS

(* A number is known by its quotient and its rest.                          *)
LEMMA DivisionDetermines ==
  ASSUME NEW p \in Nat, NEW q \in Nat, NEW f \in Nat \ {0},
         p \div f = q \div f, p % f = q % f
  PROVE  p = q
  <1>1. p = f * (p \div f) + (p % f)
    BY DivisionProperties
  <1>2. q = f * (q \div f) + (q % f)
    BY DivisionProperties
  <1> QED
    BY <1>1, <1>2

(* Ports with the same bytes are the same port.                             *)
LEMMA PortBytesInjective ==
  ASSUME NEW p \in Port, NEW q \in Port, PortBytes(p) = PortBytes(q)
  PROVE  p = q
<1> DEFINE f == 256
<1>1. f \in Nat \ {0} /\ p \in Nat /\ q \in Nat
  BY DEF Port
<1>2. p \div f = q \div f /\ p % f = q % f
  BY DEF PortBytes
<1> HIDE DEF f
<1> QED
  BY <1>1, <1>2, DivisionDetermines

(* Every index is one of the table's, so that GotoElement, AddElement and   *)
(* HasElement of these tables never meet an invalid hash index.             *)
LEMMA IndexInTable ==
  ASSUME NEW k \in Nat
  PROVE  IndexOf(k) \in 0 .. HASHSIZE - 1
BY DivisionProperties DEF IndexOf, HASHSIZE

(* What operator== takes for the same destination (rtpipv4destination.h:76) *)
(* is the same in every respect, the RTCP address and the unused ip field   *)
(* included, and is looked for in the same chain of the table, which has    *)
(* such a chain: the hash table may take a destination for its own key.     *)
THEOREM EqualIPv4DestinationsAreOne ==
  ASSUME NEW a \in IPv4, NEW b \in IPv4, NEW p \in Port, NEW q \in Port,
         EqualIPv4(RTPIPv4Destination(a, p), RTPIPv4Destination(b, q))
  PROVE  /\ RTPIPv4Destination(a, p) = RTPIPv4Destination(b, q)
         /\ GetIndexIPv4(RTPIPv4Destination(a, p))
              = GetIndexIPv4(RTPIPv4Destination(b, q))
         /\ GetIndexIPv4(RTPIPv4Destination(a, p)) \in 0 .. HASHSIZE - 1
<1>1. a = b /\ PortBytes(p) = PortBytes(q)
  BY DEF EqualIPv4, RTPIPv4Destination, SockAddr
<1>2. p = q
  BY <1>1, PortBytesInjective
<1>3. Word32(a[1], a[2], a[3], a[4]) \in Nat
  <2>1. a[1] \in Nat /\ a[2] \in Nat /\ a[3] \in Nat /\ a[4] \in Nat
    <3>1. \A j \in 1 .. 4 : a[j] \in Nat
      BY DEF IPv4, Byte
    <3> QED
      BY <3>1
  <2> QED
    BY <2>1 DEF Word32
<1>4. GetIndexIPv4(RTPIPv4Destination(a, p)) \in 0 .. HASHSIZE - 1
  BY <1>3, IndexInTable DEF GetIndexIPv4, RTPIPv4Destination
<1> QED
  BY <1>1, <1>2, <1>4

(* The same for rtpipv6destination.h:76.                                    *)
THEOREM EqualIPv6DestinationsAreOne ==
  ASSUME NEW a \in IPv6, NEW b \in IPv6, NEW p \in Port, NEW q \in Port,
         EqualIPv6(RTPIPv6Destination(a, p), RTPIPv6Destination(b, q))
  PROVE  /\ RTPIPv6Destination(a, p) = RTPIPv6Destination(b, q)
         /\ GetIndexIPv6(RTPIPv6Destination(a, p))
              = GetIndexIPv6(RTPIPv6Destination(b, q))
         /\ GetIndexIPv6(RTPIPv6Destination(a, p)) \in 0 .. HASHSIZE - 1
<1>1. a = b /\ PortBytes(p) = PortBytes(q)
  BY DEF EqualIPv6, RTPIPv6Destination, SockAddr
<1>2. p = q
  BY <1>1, PortBytesInjective
<1>3. Word32(a[13], a[14], a[15], a[16]) \in Nat
  <2>1. a[13] \in Nat /\ a[14] \in Nat /\ a[15] \in Nat /\ a[16] \in Nat
    <3>1. \A j \in 1 .. 16 : a[j] \in Nat
      BY DEF IPv6, Byte
    <3> QED
      BY <3>1
  <2> QED
    BY <2>1 DEF Word32
<1>4. GetIndexIPv6(RTPIPv6Destination(a, p)) \in 0 .. HASHSIZE - 1
  BY <1>3, IndexInTable DEF GetIndexIPv6, RTPIPv6Destination, SockAddr
<1> QED
  BY <1>1, <1>2, <1>4
=============================================================================
