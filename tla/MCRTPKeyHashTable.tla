-------------------------- MODULE MCRTPKeyHashTable --------------------------
(* Two buckets: k1, k2 and k3 share one, k4 has the other, k5 has none.  Any *)
(* step may be one of RTPHashTable's methods on the same table, where the    *)
(* elements are the keys.  The addresses are interchangeable.                *)
EXTENDS RTPKeyHashTable, TLC

MCGetIndex ==
  [k \in Keys |-> CASE k = "k4" -> 1
                    [] k = "k5" -> 2
                    [] OTHER    -> 0]

MCSymmetry == Permutations(Addr)

Unkeyed == INSTANCE RTPHashTable WITH Elements <- Keys, element <- key

MCSpec == Init /\ [][Next \/ Unkeyed!Next]_vars
=============================================================================
