----------------------------- MODULE OrderedTable -----------------------------
(***************************************************************************)
(* What the library's hash tables promise, without buckets and pointers: a  *)
(* set of keys that remembers the order in which they were added, and one   *)
(* current element to iterate with.  The current element is unset until the *)
(* first positioning, and again after Clear.                                *)
(***************************************************************************)
EXTENDS Naturals

CONSTANTS
  Keys,      (* the keys that may be in the table                          *)
  Hashable,  (* those of them whose hash index is within the table         *)
  Nowhere,   (* no element is current                                      *)
  Unset      (* the current element was never set                          *)

VARIABLES
  members,   (* the keys in the table                                      *)
  earlier,   (* earlier[k]: the members that were added before k           *)
  current,   (* the current key, Nowhere or Unset                          *)
  status     (* what the last operation returned                           *)

vars == <<members, earlier, current, status>>

Init ==
  /\ members = {}
  /\ earlier = [k \in Keys |-> {}]
  /\ current = Unset
  /\ status = "ok"

(* n comes right after k in the order of insertion.                         *)
IsSuccessor(n, k) ==
  /\ k \in earlier[n]
  /\ \A m \in members : k \in earlier[m] => m = n \/ n \in earlier[m]

(* The successor of k, or nowhere when k is the newest.                     *)
IsAfter(c, k) ==
  \/ c \in members /\ IsSuccessor(c, k)
  \/ c = Nowhere /\ \A m \in members : k \notin earlier[m]

IsBefore(c, k) ==
  \/ c \in members /\ IsSuccessor(k, c)
  \/ c = Nowhere /\ earlier[k] = {}

IsFirst(c) ==
  \/ c \in members /\ earlier[c] = {}
  \/ c = Nowhere /\ members = {}

IsLast(c) ==
  \/ c \in members /\ \A m \in members : c \notin earlier[m]
  \/ c = Nowhere /\ members = {}

(* Adding may also fail for want of memory.                                 *)
Add(k) ==
  \/ /\ k \in Hashable \ members
     /\ members' = members \union {k}
     /\ earlier' = [earlier EXCEPT ![k] = members]
     /\ status' = "ok"
     /\ UNCHANGED current
  \/ /\ status' \in (IF k \notin Hashable THEN {"invalidindex"}
                     ELSE IF k \in members THEN {"exists"}
                     ELSE {"outofmem"})
     /\ UNCHANGED <<members, earlier, current>>

Has(k) ==
  /\ status' = IF k \in members THEN "found" ELSE "notfound"
  /\ UNCHANGED <<members, earlier, current>>

Goto(k) ==
  /\ status' = IF k \notin Hashable THEN "invalidindex"
               ELSE IF k \in members THEN "ok" ELSE "notfound"
  /\ current' = IF k \notin Hashable THEN current
                ELSE IF k \in members THEN k ELSE Nowhere
  /\ UNCHANGED <<members, earlier>>

Remove(k) ==
  /\ members' = members \ {k}
  /\ earlier' = [m \in Keys |-> IF m = k THEN {} ELSE earlier[m] \ {k}]

(* What is current after a removal is the removed element's successor.      *)
DeleteCurrent ==
  \/ /\ current \in members
     /\ Remove(current)
     /\ IsAfter(current', current)
     /\ status' = "ok"
  \/ /\ current = Nowhere
     /\ status' = "nocurrent"
     /\ UNCHANGED <<members, earlier, current>>

Delete(k) ==
  \/ /\ k \in members
     /\ Remove(k)
     /\ IsAfter(current', k)
     /\ status' = "ok"
  \/ /\ k \notin members
     /\ Goto(k)

GotoFirst == IsFirst(current') /\ UNCHANGED <<members, earlier, status>>

GotoLast == IsLast(current') /\ UNCHANGED <<members, earlier, status>>

GotoNext ==
  /\ current \in members
  /\ IsAfter(current', current)
  /\ UNCHANGED <<members, earlier, status>>

GotoPrevious ==
  /\ current \in members
  /\ IsBefore(current', current)
  /\ UNCHANGED <<members, earlier, status>>

Clear ==
  /\ members' = {}
  /\ earlier' = [k \in Keys |-> {}]
  /\ current' = Unset
  /\ UNCHANGED status

Next ==
  \/ \E k \in Keys : Add(k) \/ Has(k) \/ Goto(k) \/ Delete(k)
  \/ DeleteCurrent
  \/ GotoFirst
  \/ GotoLast
  \/ GotoNext
  \/ GotoPrevious
  \/ Clear

Spec == Init /\ [][Next]_vars
=============================================================================
