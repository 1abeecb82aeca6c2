---------------------------- MODULE RTPKeyHashTable ----------------------------
(***************************************************************************)
(* The library's keyed hash table, which holds the source table: every      *)
(* element is in the chain of its bucket (inserted at the head) and in one  *)
(* list of all elements (appended at the end), both doubly linked, and one  *)
(* element is the current one of the iteration.  RTPHashTable is the same   *)
(* code with the element as its own key.                                    *)
(*                                                                          *)
(* The methods are called under a lock, so each is one step.  What an       *)
(* element holds besides its key is left out.                               *)
(***************************************************************************)
EXTENDS Naturals, FiniteSets

CONSTANTS
  Keys,      (* the keys the callers use                                   *)
  hashsize,  (* the number of buckets                                      *)
  GetIndex,  (* GetIndex[k]: the bucket of k, not always below hashsize    *)
  Addr,      (* the addresses the memory manager hands out                 *)
  Null,      (* the null pointer                                           *)
  Unset      (* what the abstract table calls an unset current element     *)

ASSUME HashTableAssumption ==
  /\ IsFiniteSet(Keys)
  /\ hashsize \in Nat \ {0}
  /\ GetIndex \in [Keys -> Nat]
  /\ Null \notin Addr
  /\ Null \notin Keys
  /\ Unset \notin Keys
  /\ Unset # Null

VARIABLES
  table,         (* per bucket: the head of its chain                      *)
  firsthashelem, (* the first element of the list                          *)
  lasthashelem,  (* the last element of the list                           *)
  curhashelem,   (* the current element; garbage until it was set          *)
  key,           (* per element: its key                                   *)
  hashindex,     (* per element: its bucket                                *)
  hashprev,      (* per element: its predecessor in the chain              *)
  hashnext,      (* per element: its successor in the chain                *)
  listprev,      (* per element: its predecessor in the list               *)
  listnext,      (* per element: its successor in the list                 *)
  live,          (* the addresses of elements that were not freed          *)
  status,        (* what the last method returned                          *)
  curset,        (* history: the current element was set since the         *)
                 (* constructor or the last Clear                          *)
  earlier        (* history: per key, the keys in the table added before it*)

chainVars == <<table, hashprev, hashnext>>
listVars  == <<firsthashelem, lasthashelem, listprev, listnext>>
elemVars  == <<key, hashindex, live, earlier>>
vars == <<table, firsthashelem, lasthashelem, curhashelem, key, hashindex,
          hashprev, hashnext, listprev, listnext, live, status, curset, earlier>>

Pointers == Addr \union {Null}
Buckets  == 0 .. hashsize - 1

TypeOK ==
  /\ table \in [Buckets -> Pointers]
  /\ firsthashelem \in Pointers
  /\ lasthashelem \in Pointers
  /\ curhashelem \in Pointers
  /\ key \in [Addr -> Keys \union {Null}]
  /\ hashindex \in [Addr -> Buckets]
  /\ hashprev \in [Addr -> Pointers]
  /\ hashnext \in [Addr -> Pointers]
  /\ listprev \in [Addr -> Pointers]
  /\ listnext \in [Addr -> Pointers]
  /\ live \subseteq Addr
  /\ \A a \in live : key[a] \in Keys /\ hashindex[a] = GetIndex[key[a]]
  /\ status \in {"ok", "exists", "found", "notfound", "nocurrent",
                 "invalidindex", "outofmem"}
  /\ curset \in BOOLEAN
  /\ earlier \in [Keys -> SUBSET Keys]

-----------------------------------------------------------------------------
Hashable == {k \in Keys : GetIndex[k] < hashsize}

(* The elements met when one starts at pointer p and follows next: the      *)
(* least set with p in it that next does not leave.                         *)
Reached(p, next) ==
  {a \in Addr : \A S \in SUBSET Addr :
     (p # Null => p \in S) /\ (\A x \in S : next[x] # Null => next[x] \in S)
        => a \in S}

Chain(i) == Reached(table[i], hashnext)

(* What the search of GotoElement, HasElement and AddElement finds: an      *)
(* element of the key's chain with that key.                                *)
Found(k) == {a \in Chain(GetIndex[k]) : key[a] = k}

(* The assignment p->field = v, made only if p is not null.                 *)
SetField(field, p, v) == IF p = Null THEN field ELSE [field EXCEPT ![p] = v]

-----------------------------------------------------------------------------
GotoFirstElement ==
  /\ curhashelem' = firsthashelem
  /\ curset' = TRUE
  /\ UNCHANGED <<chainVars, listVars, elemVars, status>>

GotoLastElement ==
  /\ curhashelem' = lasthashelem
  /\ curset' = TRUE
  /\ UNCHANGED <<chainVars, listVars, elemVars, status>>

(* The callers move and delete only after they have set the current element.*)
GotoNextElement ==
  /\ curset
  /\ curhashelem # Null
  /\ curhashelem' = listnext[curhashelem]
  /\ UNCHANGED <<chainVars, listVars, elemVars, status, curset>>

GotoPreviousElement ==
  /\ curset
  /\ curhashelem # Null
  /\ curhashelem' = listprev[curhashelem]
  /\ UNCHANGED <<chainVars, listVars, elemVars, status, curset>>

(* With a bad hash index the current element stays what it was.             *)
GotoElement(k) ==
  \/ /\ k \notin Hashable
     /\ status' = "invalidindex"
     /\ UNCHANGED <<curhashelem, curset, chainVars, listVars, elemVars>>
  \/ /\ k \in Hashable
     /\ curhashelem' \in (IF Found(k) = {} THEN {Null} ELSE Found(k))
     /\ status' = IF curhashelem' = Null THEN "notfound" ELSE "ok"
     /\ curset' = TRUE
     /\ UNCHANGED <<chainVars, listVars, elemVars>>

HasElement(k) ==
  /\ status' = IF k \in Hashable /\ Found(k) # {} THEN "found" ELSE "notfound"
  /\ UNCHANGED <<chainVars, listVars, elemVars, curhashelem, curset>>

(* Mutant: the predecessor's chain is not cut, only a head is replaced.     *)
UnchainHeadOnly(e) ==
  /\ table' = [table EXCEPT ![hashindex[e]] = hashnext[e]]
  /\ hashnext' = [hashnext EXCEPT ![e] = Null]
  /\ hashprev' = [SetField(hashprev, hashnext[e], hashprev[e]) EXCEPT ![e] = Null]

(* DeleteCurrentElement relinks the chain of e's bucket.                    *)
Unchain(e) ==
  /\ table' = IF hashprev[e] = Null
              THEN [table EXCEPT ![hashindex[e]] = hashnext[e]] ELSE table
  /\ hashnext' = [SetField(hashnext, hashprev[e], hashnext[e]) EXCEPT ![e] = Null]
  /\ hashprev' = [SetField(hashprev, hashnext[e], hashprev[e]) EXCEPT ![e] = Null]

(* Mutant: the end of the list is not moved back when the last one goes.    *)
UnlistKeepLast(e) ==
  /\ firsthashelem' = IF listprev[e] = Null THEN listnext[e] ELSE firsthashelem
  /\ listnext' = [SetField(listnext, listprev[e], listnext[e]) EXCEPT ![e] = Null]
  /\ listprev' = [SetField(listprev, listnext[e], listprev[e]) EXCEPT ![e] = Null]
  /\ UNCHANGED lasthashelem

(* ... and the list.                                                        *)
Unlist(e) ==
  /\ firsthashelem' = IF listprev[e] = Null THEN listnext[e] ELSE firsthashelem
  /\ lasthashelem' = IF listnext[e] = Null THEN listprev[e] ELSE lasthashelem
  /\ listnext' = [SetField(listnext, listprev[e], listnext[e]) EXCEPT ![e] = Null]
  /\ listprev' = [SetField(listprev, listnext[e], listprev[e]) EXCEPT ![e] = Null]

(* The memory of e is given back; what it held is gone.                     *)
Free(e) ==
  /\ live' = live \ {e}
  /\ key' = [key EXCEPT ![e] = Null]
  /\ hashindex' = [hashindex EXCEPT ![e] = 0]
  /\ earlier' = [k \in Keys |-> IF k = key[e] THEN {} ELSE earlier[k] \ {key[e]}]

(* Mutant: the current element stays on the one that was deleted.           *)
DeleteDangling(e) ==
  /\ Unchain(e)
  /\ Unlist(e)
  /\ Free(e)
  /\ curhashelem' = e
  /\ status' = "ok"

(* Mutant: the element before the deleted one becomes current.              *)
DeleteStepsBack(e) ==
  /\ Unchain(e)
  /\ Unlist(e)
  /\ Free(e)
  /\ curhashelem' = listprev[e]
  /\ status' = "ok"

(* The element after the deleted one becomes current.                       *)
DeleteAt(e) ==
  /\ Unchain(e)
  /\ Unlist(e)
  /\ Free(e)
  /\ curhashelem' = listnext[e]
  /\ status' = "ok"

DeleteCurrentElement ==
  /\ curset
  /\ \/ curhashelem # Null /\ DeleteAt(curhashelem)
     \/ /\ curhashelem = Null
        /\ status' = "nocurrent"
        /\ UNCHANGED <<curhashelem, chainVars, listVars, elemVars>>
  /\ UNCHANGED curset

(* DeleteElement goes to the element first; when that fails it returns, and *)
(* what is current has changed nevertheless.                                *)
DeleteElement(k) ==
  \/ /\ k \in Hashable
     /\ \E e \in Found(k) : DeleteAt(e)
     /\ curset' = TRUE
  \/ /\ k \in Hashable => Found(k) = {}
     /\ GotoElement(k)

(* The key has a bucket and is not in its chain.                            *)
Addable(k) == k \in Hashable /\ Found(k) = {}

(* Mutant: the constructor of HashElement forgets the hash index.           *)
NewElementUnindexed(e, k) ==
  /\ live' = live \union {e}
  /\ key' = [key EXCEPT ![e] = k]
  /\ earlier' = [earlier EXCEPT ![k] = {key[a] : a \in live}]
  /\ UNCHANGED hashindex

(* The constructor of HashElement.                                          *)
NewElement(e, k) ==
  /\ live' = live \union {e}
  /\ key' = [key EXCEPT ![e] = k]
  /\ hashindex' = [hashindex EXCEPT ![e] = GetIndex[k]]
  /\ earlier' = [earlier EXCEPT ![k] = {key[a] : a \in live}]

(* The new element becomes the head of its chain ...                        *)
PrependToChain(e, i) ==
  /\ table' = [table EXCEPT ![i] = e]
  /\ hashnext' = [hashnext EXCEPT ![e] = table[i]]
  /\ hashprev' = [SetField(hashprev, table[i], e) EXCEPT ![e] = Null]

(* ... and the end of the list.                                             *)
AppendToList(e) ==
  /\ firsthashelem' = IF firsthashelem = Null THEN e ELSE firsthashelem
  /\ lasthashelem' = e
  /\ IF firsthashelem = Null
     THEN /\ listnext' = [listnext EXCEPT ![e] = Null]
          /\ listprev' = [listprev EXCEPT ![e] = Null]
     ELSE /\ listnext' = [SetField(listnext, lasthashelem, e) EXCEPT ![e] = Null]
          /\ listprev' = [listprev EXCEPT ![e] = lasthashelem]

(* The key has a bucket and is not in its chain; allocating may fail.       *)
AddElement(k) ==
  \/ /\ Addable(k)
     /\ \E e \in Addr \ live :
          /\ NewElement(e, k)
          /\ PrependToChain(e, GetIndex[k])
          /\ AppendToList(e)
     /\ status' = "ok"
     /\ UNCHANGED <<curhashelem, curset>>
  \/ /\ \/ k \notin Hashable /\ status' = "invalidindex"
        \/ k \in Hashable /\ ~Addable(k) /\ status' = "exists"
        \/ Addable(k) /\ status' = "outofmem"
     /\ UNCHANGED <<chainVars, listVars, elemVars, curhashelem, curset>>

(* Every element is freed, but curhashelem is not reset: it keeps the       *)
(* address of an element that is gone.                                      *)
Clear ==
  /\ table' = [i \in Buckets |-> Null]
  /\ firsthashelem' = Null
  /\ lasthashelem' = Null
  /\ live' = live \ Reached(firsthashelem, listnext)
  /\ key' = [a \in Addr |-> IF a \in live' THEN key[a] ELSE Null]
  /\ hashindex' = [a \in Addr |-> IF a \in live' THEN hashindex[a] ELSE 0]
  /\ hashprev' = [a \in Addr |-> IF a \in live' THEN hashprev[a] ELSE Null]
  /\ hashnext' = [a \in Addr |-> IF a \in live' THEN hashnext[a] ELSE Null]
  /\ listprev' = [a \in Addr |-> IF a \in live' THEN listprev[a] ELSE Null]
  /\ listnext' = [a \in Addr |-> IF a \in live' THEN listnext[a] ELSE Null]
  /\ curset' = FALSE
  /\ earlier' = [k \in Keys |-> {}]
  /\ UNCHANGED <<curhashelem, status>>

-----------------------------------------------------------------------------
(* The constructor leaves curhashelem uninitialised.                        *)
Init ==
  /\ table = [i \in Buckets |-> Null]
  /\ firsthashelem = Null
  /\ lasthashelem = Null
  /\ curhashelem \in Pointers
  /\ key = [a \in Addr |-> Null]
  /\ hashindex = [a \in Addr |-> 0]
  /\ hashprev = [a \in Addr |-> Null]
  /\ hashnext = [a \in Addr |-> Null]
  /\ listprev = [a \in Addr |-> Null]
  /\ listnext = [a \in Addr |-> Null]
  /\ live = {}
  /\ status = "ok"
  /\ curset = FALSE
  /\ earlier = [k \in Keys |-> {}]

Next ==
  \/ GotoFirstElement
  \/ GotoLastElement
  \/ GotoNextElement
  \/ GotoPreviousElement
  \/ DeleteCurrentElement
  \/ Clear
  \/ \E k \in Keys :
       \/ GotoElement(k)
       \/ HasElement(k)
       \/ DeleteElement(k)
       \/ AddElement(k)

Spec == Init /\ [][Next]_vars

-----------------------------------------------------------------------------
(* The chain of a bucket reaches exactly the elements that belong to it: no *)
(* element is lost to the search, none is in a foreign chain, none is freed.*)
ChainsComplete ==
  \A i \in Buckets : Chain(i) = {a \in live : hashindex[a] = i}

(* The list reaches every element, forwards from its first and backwards    *)
(* from its last, and nothing else: Clear frees all of them, and an         *)
(* iteration in either direction visits all of them.                        *)
ListComplete ==
  /\ Reached(firsthashelem, listnext) = live
  /\ Reached(lasthashelem, listprev) = live

(* Once the current element was set it is null or an element that was not   *)
(* freed, whatever was deleted or added since.                              *)
CurrentUsable == curset => curhashelem \in live \union {Null}

(* The table is a set of keys in the order of their insertion, with one     *)
(* current element, for every caller that sets that before it uses it.      *)
Abstract == INSTANCE OrderedTable WITH
  Nowhere <- Null,
  members <- {key[a] : a \in live},
  current <- IF ~curset THEN Unset
             ELSE IF curhashelem = Null THEN Null ELSE key[curhashelem]

ImplementsOrderedTable == Abstract!Spec
=============================================================================
