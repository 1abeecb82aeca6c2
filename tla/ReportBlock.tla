------------------------------ MODULE ReportBlock ------------------------------
(***************************************************************************)
(* The number of lost packets in a reception report: a signed number in the *)
(* three bytes of RTCPReceiverReport::packetslost, of a report that may     *)
(* have received more packets than were expected.  The range of a byte is a *)
(* parameter.                                                               *)
(***************************************************************************)
EXTENDS Integers

CONSTANT ByteRange   (* the number of values of a byte, 256                *)

ASSUME ByteAssumption ==
  ByteRange \in Nat /\ ByteRange >= 2 /\ ByteRange % 2 = 0

Byte == 0 .. ByteRange - 1

Long == ByteRange * ByteRange * ByteRange * ByteRange

(* What the three bytes hold of a number: the rest of it in three bytes.    *)
PacketsLostBytes(n) ==
  LET u == n % (ByteRange * ByteRange * ByteRange) IN
  <<u \div (ByteRange * ByteRange), (u \div ByteRange) % ByteRange, u % ByteRange>>

(* A uint32_t read as an int32_t.                                           *)
Signed(u) == IF 2 * u >= Long THEN u - Long ELSE u

(* Mutant: the sign bit is not extended.                                    *)
UnsignedLost(b0, b1, b2) ==
  Signed(b2 + b1 * ByteRange + b0 * ByteRange * ByteRange)

(* GetLostPacketCount: the bytes are put together, and with the sign bit    *)
(* 0x00800000 set, the fourth byte becomes 0xFF.                            *)
LostPacketCount(b0, b1, b2) ==
  LET count == b2 + b1 * ByteRange + b0 * ByteRange * ByteRange
      extension == (ByteRange - 1) * (ByteRange * ByteRange * ByteRange)
  IN  Signed(IF 2 * b0 >= ByteRange THEN count + extension ELSE count)
=============================================================================
