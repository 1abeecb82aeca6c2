----------------------------- MODULE MCSourceData -----------------------------
(* The blocks of memory are interchangeable.                                 *)
EXTENDS SourceData, TLC

MCSymmetry == Permutations(Blocks)
=============================================================================
