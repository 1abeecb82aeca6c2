------------------------- MODULE MCRTCPCompoundPacket -------------------------
(* Bytes of sixteen values.  A compound packet is one report, BYE or APP     *)
(* packet and one SDES packet with up to two chunks of up to two items.      *)
EXTENDS RTCPCompoundPacket

(* Texts that are empty, look like an end of items or like another item; a   *)
(* private item without and with a prefix, with a prefix and a value, with a *)
(* prefix up to its end, and with one that is too long; an unknown item.     *)
SomeItems ==
  {[sdesid |-> 1, text |-> t] : t \in {<<>>, <<0>>, <<8, 1, 0>>, <<0, 0, 0, 2>>}}
  \union
  {[sdesid |-> PRIV, text |-> t] :
     t \in {<<>>, <<0>>, <<1, 7, 9>>, <<2, 7, 9>>, <<3, 7, 9>>, <<1>>}}
  \union {[sdesid |-> 9, text |-> <<1, 1>>]}

SomeChunks == {[ssrc |-> 2748, items |-> t] : t \in SeqOf(SomeItems, 2)}

LastChunks ==
  {[ssrc |-> 17, items |-> t] :
     t \in SeqOf({[sdesid |-> 2, text |-> <<5, 5>>]}, 2)}

SDESSent ==
  {[type |-> "SDES", chunks |-> cs] :
     cs \in {<<>>} \union {<<c>> : c \in SomeChunks}
            \union {<<c, d>> : c \in SomeChunks, d \in LastChunks}}

(* Losses at both ends of the three bytes and around zero.                   *)
SomeReports ==
  {[ssrc |-> 4660, fractionlost |-> 11, packetslost |-> lost,
    exthighseqnr |-> 22136, jitter |-> 255, lsr |-> 4097, dlsr |-> 65535] :
     lost \in {-2048, -2047, -1, 0, 1, 256, 2047}}

OtherSent ==
  {[type |-> "SR", ssrc |-> 9, info |-> <<1, 65535, 300, 40, 5000>>, reports |-> rs] :
     rs \in SeqOf(SomeReports, 2)}
  \union
  {[type |-> "RR", ssrc |-> 9, reports |-> rs] : rs \in SeqOf(SomeReports, 2)}
  \union
  {[type |-> "BYE", ssrcs |-> ss, reason |-> r] :
     ss \in {<<>>, <<77>>, <<77, 4369>>}, r \in {<<>>, <<0, 0, 0, 0>>, <<2, 3, 4, 0>>}}
  \union
  {[type |-> "APP", subtype |-> 3, ssrc |-> 9, name |-> 1234, appdata |-> d] :
     d \in {<<>>, <<1, 2, 3, 4>>}}

MCCompoundPackets ==
  LET rr == [type |-> "RR", ssrc |-> 9, reports |-> <<>>]
      one == [type |-> "SDES", chunks |-> <<[ssrc |-> 17, items |-> <<>>]>>]
  IN  {<<Packet(rr, TRUE), Packet(s, TRUE)>> : s \in SDESSent}
      \union {<<Packet(s, k), Packet(one, k)>> : s \in OtherSent, k \in BOOLEAN}
=============================================================================
