----------------------------- MODULE SDESIteration -----------------------------
(***************************************************************************)
(* What the two nested iterations of an SDES packet promise, without bytes: *)
(* a position among the chunks and one among the items of that chunk, each  *)
(* of which moves forward by one or says that it is at the end.             *)
(***************************************************************************)
EXTENDS Naturals, Sequences

VARIABLES
  sizes,  (* per packet: the number of items in each of its chunks         *)
  chunk,  (* per packet: the current chunk, 0: none                        *)
  item,   (* per packet: the current item of that chunk                    *)
  ret     (* what the last call returned                                   *)

vars == <<sizes, chunk, item, ret>>

Init ==
  /\ sizes \in Seq(Seq(Nat))
  /\ chunk = [i \in DOMAIN sizes |-> 0]
  /\ item = [i \in DOMAIN sizes |-> 0]
  /\ ret = FALSE

(* The iterations over packet i go to item j of chunk c, or stay.           *)
MoveTo(i, c, j) ==
  /\ chunk' = [chunk EXCEPT ![i] = c]
  /\ item' = [item EXCEPT ![i] = j]
  /\ UNCHANGED sizes

Stay == ret' = FALSE /\ UNCHANGED <<sizes, chunk, item>>

FirstChunk(i) ==
  \/ sizes[i] # <<>> /\ ret' = TRUE /\ MoveTo(i, 1, 1)
  \/ sizes[i] = <<>> /\ ret' = FALSE /\ MoveTo(i, 0, 0)

NextChunk(i) ==
  \/ chunk[i] \in 1 .. Len(sizes[i]) - 1 /\ ret' = TRUE /\ MoveTo(i, chunk[i] + 1, 1)
  \/ chunk[i] \notin 1 .. Len(sizes[i]) - 1 /\ Stay

(* A chunk without items has a first position all the same.                 *)
FirstItem(i) ==
  \/ /\ chunk[i] # 0
     /\ ret' = (sizes[i][chunk[i]] > 0)
     /\ MoveTo(i, chunk[i], 1)
  \/ chunk[i] = 0 /\ Stay

NextItem(i) ==
  \/ /\ chunk[i] # 0 /\ item[i] < sizes[i][chunk[i]]
     /\ ret' = TRUE
     /\ MoveTo(i, chunk[i], item[i] + 1)
  \/ (chunk[i] # 0 => item[i] >= sizes[i][chunk[i]]) /\ Stay

Next ==
  \E i \in DOMAIN sizes :
    FirstChunk(i) \/ NextChunk(i) \/ FirstItem(i) \/ NextItem(i)

Spec == Init /\ [][Next]_vars
=============================================================================
