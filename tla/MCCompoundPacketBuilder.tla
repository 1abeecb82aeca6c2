------------------------ MODULE MCCompoundPacketBuilder ------------------------
(* With two entries to a header instead of 31, a few blocks and sources      *)
(* already need several headers.                                             *)
EXTENDS CompoundPacketBuilder
=============================================================================
