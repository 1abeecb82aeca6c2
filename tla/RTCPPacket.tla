------------------------------ MODULE RTCPPacket ------------------------------
(***************************************************************************)
(* The RTCP packet classes: what a sender puts into the bytes of a packet,  *)
(* and what the accessors of the views read from them.  A packet is what    *)
(* was sent, its bytes, and whether the view's constructor has recognised   *)
(* their format.  The constructors are in the library binary: a packet of    *)
(* known format is taken to hold what some sender has laid out.             *)
(*                                                                          *)
(* A pointer is an offset from the start of the packet.                     *)
(***************************************************************************)
EXTENDS ReportBlock, Sequences, SequencesExt

(* The sizes of the structures of rtpstructs.h.                             *)
WordSize == 4              (* sizeof(uint32_t)                              *)
CommonHeaderSize == 4      (* sizeof(RTCPCommonHeader)                      *)
SenderReportSize == 20     (* sizeof(RTCPSenderReport)                      *)
ReceiverReportSize == 24   (* sizeof(RTCPReceiverReport)                    *)
SDESHeaderSize == 2        (* sizeof(RTCPSDESHeader)                        *)

NullPointer == 0           (* where the header is, nothing else points to   *)

PRIV == 8                  (* RTCP_SDES_ID_PRIVATE                          *)

-----------------------------------------------------------------------------
(* What can be sent: words, texts whose length fits into a byte, and as     *)
(* many parts as the header can count.                                      *)
Words32 == 0 .. Long - 1
Counted(S) == {s \in Seq(S) : Len(s) < ByteRange}

Losses ==
  {n \in Int : LET three == ByteRange * ByteRange * ByteRange
               IN  - three <= 2 * n /\ 2 * n < three}

Reports ==
  [ssrc : Words32, fractionlost : Byte, packetslost : Losses,
   exthighseqnr : Words32, jitter : Words32, lsr : Words32, dlsr : Words32]

Items == [sdesid : Byte \ {0}, text : Counted(Byte)]
Chunks == [ssrc : Words32, items : Seq(Items)]

(* The reason for leaving is a length and a text, or it is left out.        *)
Reasons == {r \in Seq(Byte) : r # <<>> => Head(r) < Len(r)}

Sendable ==
  [type : {"SR"}, ssrc : Words32, info : [1 .. 5 -> Words32], reports : Counted(Reports)]
  \union [type : {"RR"}, ssrc : Words32, reports : Counted(Reports)]
  \union [type : {"SDES"}, chunks : Counted(Chunks)]
  \union [type : {"BYE"}, ssrcs : Counted(Words32), reason : Reasons]
  \union [type : {"APP"}, subtype : Byte, ssrc : Words32, name : Words32, appdata : Seq(Byte)]

-----------------------------------------------------------------------------
(* How it is laid out.  A word in network order:                            *)
Word(n) ==
  <<n \div (ByteRange * ByteRange * ByteRange),
    (n \div (ByteRange * ByteRange)) % ByteRange,
    (n \div ByteRange) % ByteRange,
    n % ByteRange>>

Words(ns) == FlattenSeq([i \in DOMAIN ns |-> Word(ns[i])])

(* RTCPReceiverReport                                                       *)
ReportBytes(r) ==
  Word(r.ssrc) \o <<r.fractionlost>> \o PacketsLostBytes(r.packetslost)
    \o Words(<<r.exthighseqnr, r.jitter, r.lsr, r.dlsr>>)

ReportParts(rs) == [i \in DOMAIN rs |-> ReportBytes(rs[i])]

(* RTCPSDESHeader and the item's text                                       *)
ItemBytes(item) == <<item.sdesid, Len(item.text)>> \o item.text

ItemParts(items) == [j \in DOMAIN items |-> ItemBytes(items[j])]

(* A chunk: its source, its items, and at least one zero up to the next     *)
(* multiple of four.                                                        *)
ChunkBytes(c) ==
  LET bytes == Word(c.ssrc) \o FlattenSeq(ItemParts(c.items))
  IN  bytes \o [k \in 1 .. 4 - (Len(bytes) % 4) |-> 0]

ChunkParts(cs) == [c \in DOMAIN cs |-> ChunkBytes(cs[c])]

(* RTCPCommonHeader, of which only the count is read, and what follows it.  *)
Header(count) == <<count, 0, 0, 0>>

PacketBytes(s) ==
  CASE s.type = "SR" ->
         Header(Len(s.reports)) \o Words(<<s.ssrc>> \o s.info)
           \o FlattenSeq(ReportParts(s.reports))
    [] s.type = "RR" ->
         Header(Len(s.reports)) \o Words(<<s.ssrc>>) \o FlattenSeq(ReportParts(s.reports))
    [] s.type = "SDES" -> Header(Len(s.chunks)) \o FlattenSeq(ChunkParts(s.chunks))
    [] s.type = "BYE" -> Header(Len(s.ssrcs)) \o Words(s.ssrcs) \o s.reason
    [] s.type = "APP" -> Header(s.subtype) \o Words(<<s.ssrc, s.name>>) \o s.appdata

(* Where the parts start that are laid out from o on, and where they end.   *)
Starts(o, parts) ==
  [k \in 1 .. Len(parts) + 1 |-> o + Len(FlattenSeq([l \in 1 .. k - 1 |-> parts[l]]))]

(* The packet that its receiver makes of it; of chunks and items, it is     *)
(* remembered where they have been put.                                     *)
Packet(s, known) ==
  LET chunks == IF s.type = "SDES" THEN s.chunks ELSE <<>>
      bytes == PacketBytes(s)
  IN  [sent |-> s, data |-> bytes, datalen |-> Len(bytes), knownformat |-> known,
       chunkstarts |-> Starts(CommonHeaderSize, ChunkParts(chunks)),
       itemstarts |-> [c \in DOMAIN chunks |->
                         Starts(WordSize, ItemParts(chunks[c].items))]]

-----------------------------------------------------------------------------
(* What is read.                                                            *)
ByteAt(q, o) == q.data[o + 1]

(* ntohl of the word at an offset                                           *)
LongAt(q, o) ==
  ((ByteAt(q, o) * ByteRange + ByteAt(q, o + 1)) * ByteRange
     + ByteAt(q, o + 2)) * ByteRange + ByteAt(q, o + 3)

Slice(q, o, n) == SubSeq(q.data, o + 1, o + n)

(* The count of the header: reports, chunks, sources or the subtype.        *)
HeaderCount(q) == IF q.knownformat THEN ByteAt(q, 0) ELSE 0

SenderSSRC(q) == IF q.knownformat THEN LongAt(q, CommonHeaderSize) ELSE 0

(* The accessors of a sender's report: GetNTPTimestamp, GetRTPTimestamp,    *)
(* GetSenderPacketCount and GetSenderOctetCount.                            *)
SenderInfo(q) ==
  LET sr == CommonHeaderSize + WordSize IN
  [k \in 1 .. 5 |-> IF q.knownformat THEN LongAt(q, sr + (k - 1) * WordSize) ELSE 0]

(* RTCPSRPacket::GotoReport and RTCPRRPacket::GotoReport                    *)
GotoReportSR(index) ==
  CommonHeaderSize + WordSize + SenderReportSize + index * ReceiverReportSize

GotoReportRR(index) == CommonHeaderSize + WordSize + index * ReceiverReportSize

(* The accessors of a reception report, GetSSRC to GetDLSR, on the block    *)
(* that GotoReport has found; the two classes have the same.                *)
ReportAt(q, r) ==
  [ssrc         |-> LongAt(q, r),
   fractionlost |-> ByteAt(q, r + 4),
   packetslost  |-> LostPacketCount(ByteAt(q, r + 5), ByteAt(q, r + 6), ByteAt(q, r + 7)),
   exthighseqnr |-> LongAt(q, r + 8),
   jitter       |-> LongAt(q, r + 12),
   lsr          |-> LongAt(q, r + 16),
   dlsr         |-> LongAt(q, r + 20)]

NoReport ==
  [ssrc |-> 0, fractionlost |-> 0, packetslost |-> 0, exthighseqnr |-> 0,
   jitter |-> 0, lsr |-> 0, dlsr |-> 0]

ReportSR(q, index) ==
  IF q.knownformat THEN ReportAt(q, GotoReportSR(index)) ELSE NoReport

ReportRR(q, index) ==
  IF q.knownformat THEN ReportAt(q, GotoReportRR(index)) ELSE NoReport

(* RTCPBYEPacket.  Its constructor finds the reason after the sources.      *)
BYESSRC(q, index) ==
  IF q.knownformat THEN LongAt(q, CommonHeaderSize + WordSize * index) ELSE 0

ReasonOffset(q) ==
  LET o == CommonHeaderSize + WordSize * ByteAt(q, 0) IN
  IF q.datalen > o THEN o ELSE 0

HasReasonForLeaving(q) == q.knownformat /\ ReasonOffset(q) # 0

ReasonLength(q) == IF HasReasonForLeaving(q) THEN ByteAt(q, ReasonOffset(q)) ELSE 0

ReasonData(q) ==
  IF ReasonLength(q) = 0 THEN NullPointer ELSE ReasonOffset(q) + 1

(* RTCPAPPPacket.  Its constructor takes what follows the name for data.    *)
APPDataLength(q) == IF q.knownformat THEN q.datalen - 3 * WordSize ELSE 0

APPName(q) == IF q.knownformat THEN CommonHeaderSize + WordSize ELSE NullPointer

APPData(q) ==
  IF APPDataLength(q) = 0 THEN NullPointer ELSE CommonHeaderSize + 2 * WordSize
=============================================================================
