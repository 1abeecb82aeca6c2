------------------------------ MODULE Destinations ------------------------------
(***************************************************************************)
(* The elements of the transmitters' hash tables: destinations over IPv4    *)
(* and IPv6 and their hash indices (rtpipv4destination.h,                   *)
(* rtpipv6destination.h, rtpudpv4transmitter.h, rtpudpv6transmitter.h).     *)
(*                                                                          *)
(* An IP address is the sequence of its bytes in network order, and so is a *)
(* port in a socket address: htons and htonl only write host numbers in     *)
(* that order.                                                              *)
(***************************************************************************)
EXTENDS Integers

Byte     == {n \in Nat : n < 256}
Port     == {n \in Nat : n < 65536}
IPv4     == [1 .. 4 -> Byte]
IPv6     == [1 .. 16 -> Byte]
HASHSIZE == 8317

(* htons: the two bytes of a port, the higher one first.                    *)
PortBytes(p) == <<p \div 256, p % 256>>

SockAddr(ip, port) == [addr |-> ip, port |-> PortBytes(port)]

(* RTP goes to the port given, RTCP to the next; port numbers have 16 bits. *)
RTPIPv4Destination(ip, port) ==
  [ip       |-> ip,
   rtpaddr  |-> SockAddr(ip, port),
   rtcpaddr |-> SockAddr(ip, (port + 1) % 65536)]

RTPIPv6Destination(ip, port) ==
  [rtpaddr  |-> SockAddr(ip, port),
   rtcpaddr |-> SockAddr(ip, (port + 1) % 65536)]

(* operator==: only the address and the port for RTP are compared.          *)
EqualIPv4(d, e) ==
  d.rtpaddr.addr = e.rtpaddr.addr /\ d.rtpaddr.port = e.rtpaddr.port

EqualIPv6(d, e) ==
  d.rtpaddr.port = e.rtpaddr.port /\ d.rtpaddr.addr = e.rtpaddr.addr

(* Four bytes as a number.                                                  *)
Word32(a, b, c, d) == 16777216 * a + 65536 * b + 256 * c + d

(* The index of a number: an IPv4 multicast group, an SSRC.                 *)
IndexOf(k) == k % HASHSIZE

GetIndexIPv4(d) == IndexOf(Word32(d.ip[1], d.ip[2], d.ip[3], d.ip[4]))

(* Of an IPv6 address the last four bytes count.                            *)
GetIndexIPv6(d) ==
  IndexOf(Word32(d.rtpaddr.addr[13], d.rtpaddr.addr[14],
                 d.rtpaddr.addr[15], d.rtpaddr.addr[16]))

=============================================================================
