----------------------------- MODULE MCURIParsing -----------------------------
(* Every text of at most MaxLength characters over an odd and an even digit, *)
(* a letter, the colon and the slash, and the program's own URI.             *)
EXTENDS URIParsing

CONSTANT MaxLength

(* rtsp://192.168.1.115:554/live, the one that main passes.                  *)
MainUri ==
  [j \in 1 .. 13 |-> Letter] \o <<Colon, 5, 5, 4, Slash>>
    \o <<Letter, Letter, Letter, Letter>>

MCUris ==
  {MainUri} \union
  UNION {[1 .. n -> {1, 2, Letter, Colon, Slash}] : n \in 0 .. MaxLength}
=============================================================================
