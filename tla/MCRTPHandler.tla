---------------------------- MODULE MCRTPHandler ----------------------------
(* Two senders; each configuration chooses some of these datagrams.  a sends *)
(* the numbers 1, 2, 3, possibly a second copy of 2.  The payloads of a1 are *)
(* all header, those of number 2 and of b are too short to strip.  The two   *)
(* copies of 2 are alike, so their exchange is a symmetry.                   *)
EXTENDS RTPHandler, TLC

CONSTANTS a1, a2, a2dup, a3, b1

MCSourceOf == [p \in Packets |-> IF p = b1 THEN "b" ELSE "a"]

MCExtSeqNr ==
  [p \in Packets |-> CASE p \in {a1, b1}    -> 1
                       [] p \in {a2, a2dup} -> 2
                       [] OTHER             -> 3]

MCPayloadLength ==
  [p \in Packets |-> CASE p = a1 -> 4
                       [] p = a3 -> 9
                       [] OTHER  -> 3]

CopiesAlike == Permutations({a2, a2dup})
=============================================================================
