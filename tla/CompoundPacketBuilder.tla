------------------------- MODULE CompoundPacketBuilder -------------------------
(***************************************************************************)
(* The size accounting of RTCPCompoundPacketBuilder.  Before anything is    *)
(* added, the builder asks how many bytes the parts would need with it, and *)
(* refuses what would exceed the maximum.  The parts' NeededBytes functions *)
(* are inline; the Add functions around them are in the library binary and  *)
(* are modelled from the contract in the header.                            *)
(*                                                                          *)
(* A part is represented by its sizes: the number of report blocks, and per *)
(* SDES source the sizes of its items.                                      *)
(***************************************************************************)
EXTENDS Integers, Sequences, SequencesExt

CONSTANTS
  MaxCount,      (* report blocks or sources that one header can count: 31 *)
  PacketSizes,   (* the maximum sizes a build may be started with          *)
  ItemLengths,   (* the lengths of SDES item values                        *)
  OtherSizes     (* the sizes of BYE and APP packets, multiples of 4       *)

ASSUME BuilderAssumption ==
  /\ MaxCount \in Nat \ {0}
  /\ PacketSizes \subseteq Nat
  /\ ItemLengths \subseteq 0 .. 255
  /\ OtherSizes \subseteq Nat /\ \A size \in OtherSizes : size % 4 = 0

(* The sizes of the structures of rtpstructs.h.                             *)
WordSize == 4              (* sizeof(uint32_t)                              *)
CommonHeaderSize == 4      (* sizeof(RTCPCommonHeader)                      *)
SenderReportSize == 20     (* sizeof(RTCPSenderReport)                      *)
ReceiverReportSize == 24   (* sizeof(RTCPReceiverReport)                    *)
SDESHeaderSize == 2        (* sizeof(RTCPSDESHeader)                        *)

VARIABLES
  arebuilding,       (* between InitBuild and EndBuild                     *)
  maximumpacketsize, (* the limit given to InitBuild                       *)
  isSR,              (* the report is a sender report                      *)
  headerlength,      (* bytes of the report before its blocks, 0: none yet *)
  reportblocks,      (* the number of report blocks                        *)
  sdessources,       (* per SDES source: the sizes of its items            *)
  othersize          (* byesize and appsize together                       *)

vars == <<arebuilding, maximumpacketsize, isSR, headerlength, reportblocks,
          sdessources, othersize>>

TypeOK ==
  /\ arebuilding \in BOOLEAN
  /\ maximumpacketsize \in PacketSizes
  /\ isSR \in BOOLEAN
  /\ headerlength \in {0, WordSize, WordSize + SenderReportSize}
  /\ isSR => headerlength = WordSize + SenderReportSize
  /\ headerlength = 0 => reportblocks = 0
  /\ reportblocks \in Nat
  /\ sdessources \in Seq(Seq(Nat))
  /\ othersize \in Nat

-----------------------------------------------------------------------------
(* What n entries need in headers of MaxCount entries each.                 *)
Headers(n) == n \div MaxCount + (IF n % MaxCount # 0 THEN 1 ELSE 0)

Padded(x) == IF (x % WordSize) # 0 THEN x + (WordSize - (x % WordSize)) ELSE x

(* Mutant: the header of the first report is the only one.                  *)
BlocksNeedOneHeader(n) ==
  n * ReceiverReportSize + (CommonHeaderSize + WordSize)
    + (IF isSR THEN SenderReportSize ELSE 0)

(* n report blocks, with a header and an SSRC for every MaxCount of them.   *)
BlocksNeed(n) ==
  n * ReceiverReportSize + Headers(n) * (CommonHeaderSize + WordSize)
    + (IF isSR THEN SenderReportSize ELSE 0)

(* Report::NeededBytes.                                                     *)
ReportNeeds ==
  IF reportblocks # 0 THEN BlocksNeed(reportblocks)
  ELSE IF headerlength = 0 THEN 0
  ELSE CommonHeaderSize + headerlength

(* Report::NeededBytesWithExtraReportBlock.                                 *)
ReportNeedsWithBlock == BlocksNeed(reportblocks + 1)

Total(sizes) ==
  LET upto[n \in 0 .. Len(sizes)] == IF n = 0 THEN 0 ELSE upto[n - 1] + sizes[n]
  IN  upto[Len(sizes)]

(* SDESSource::NeededBytes: the items and a zero byte, padded, and the SSRC.*)
SourceNeeds(items) == Padded(Total(items) + 1) + WordSize

(* Mutant: the zero byte that ends the list of items is forgotten.          *)
SourceNeedsWithItemUnended(items, length) ==
  Padded(Total(items) + SDESHeaderSize + length) + WordSize

(* SDESSource::NeededBytesWithExtraItem.                                    *)
SourceNeedsWithItem(items, length) ==
  Padded(Total(items) + SDESHeaderSize + length + 1) + WordSize

SourcesNeed(sources) ==
  Total([s \in DOMAIN sources |-> SourceNeeds(sources[s])])

(* SDES::NeededBytes.                                                       *)
SDESNeeds ==
  IF sdessources = <<>> THEN 0
  ELSE SourcesNeed(sdessources) + Headers(Len(sdessources)) * CommonHeaderSize

(* SDES::NeededBytesWithExtraItem: items only go to the last source.        *)
SDESNeedsWithItem(length) ==
  SourcesNeed(Front(sdessources)) + SourceNeedsWithItem(Last(sdessources), length)
    + Headers(Len(sdessources)) * CommonHeaderSize

(* Mutant: the new source's share of the headers is forgotten.              *)
SDESNeedsWithSourceUncounted ==
  IF sdessources = <<>> THEN 0
  ELSE SourcesNeed(sdessources) + 2 * WordSize
         + Headers(Len(sdessources)) * CommonHeaderSize

(* SDES::NeededBytesWithExtraSource.  For the first source it returns 0.    *)
SDESNeedsWithSource ==
  IF sdessources = <<>> THEN 0
  ELSE SourcesNeed(sdessources) + 2 * WordSize
         + Headers(Len(sdessources) + 1) * CommonHeaderSize

(* What EndBuild will write.                                                *)
Size == ReportNeeds + SDESNeeds + othersize

-----------------------------------------------------------------------------
(* StartSenderReport, StartReceiverReport; refused after the first report.  *)
StartReport(sender) ==
  LET length == IF sender THEN WordSize + SenderReportSize ELSE WordSize IN
  /\ arebuilding
  /\ headerlength = 0
  /\ CommonHeaderSize + length + SDESNeeds + othersize <= maximumpacketsize
  /\ isSR' = sender
  /\ headerlength' = length
  /\ UNCHANGED <<arebuilding, maximumpacketsize, reportblocks, sdessources,
                 othersize>>

(* Mutant: a block is accepted before any report was started.               *)
AddReportBlockUnstarted ==
  /\ arebuilding
  /\ ReportNeedsWithBlock + SDESNeeds + othersize <= maximumpacketsize
  /\ reportblocks' = reportblocks + 1
  /\ UNCHANGED <<arebuilding, maximumpacketsize, isSR, headerlength,
                 sdessources, othersize>>

AddReportBlock ==
  /\ arebuilding
  /\ headerlength # 0
  /\ ReportNeedsWithBlock + SDESNeeds + othersize <= maximumpacketsize
  /\ reportblocks' = reportblocks + 1
  /\ UNCHANGED <<arebuilding, maximumpacketsize, isSR, headerlength,
                 sdessources, othersize>>

AddSDESSource ==
  /\ arebuilding
  /\ ReportNeeds + SDESNeedsWithSource + othersize <= maximumpacketsize
  /\ sdessources' = Append(sdessources, <<>>)
  /\ UNCHANGED <<arebuilding, maximumpacketsize, isSR, headerlength,
                 reportblocks, othersize>>

(* Without a source there is no current one to add an item to.              *)
AddSDESItem(length) ==
  /\ arebuilding
  /\ sdessources # <<>>
  /\ ReportNeeds + SDESNeedsWithItem(length) + othersize <= maximumpacketsize
  /\ sdessources' = [sdessources EXCEPT
                       ![Len(sdessources)] = Append(@, SDESHeaderSize + length)]
  /\ UNCHANGED <<arebuilding, maximumpacketsize, isSR, headerlength,
                 reportblocks, othersize>>

(* AddBYEPacket, AddAPPPacket.                                              *)
AddOther(size) ==
  /\ arebuilding
  /\ Size + size <= maximumpacketsize
  /\ othersize' = othersize + size
  /\ UNCHANGED <<arebuilding, maximumpacketsize, isSR, headerlength,
                 reportblocks, sdessources>>

(* Report::Clear                                                            *)
ClearReport == isSR' = FALSE /\ headerlength' = 0 /\ reportblocks' = 0

(* SDES::Clear                                                              *)
ClearSDES == sdessources' = <<>>

(* A compound packet has to begin with a report.  The body of EndBuild is   *)
(* in the library; the parts it clears are those of the header.             *)
EndBuild ==
  /\ arebuilding
  /\ headerlength # 0
  /\ arebuilding' = FALSE
  /\ ClearReport
  /\ ClearSDES
  /\ othersize' = 0
  /\ UNCHANGED maximumpacketsize

(* Just after InitBuild.                                                    *)
Init ==
  /\ arebuilding = TRUE
  /\ maximumpacketsize \in PacketSizes
  /\ isSR = FALSE
  /\ headerlength = 0
  /\ reportblocks = 0
  /\ sdessources = <<>>
  /\ othersize = 0

Next ==
  \/ \E sender \in BOOLEAN : StartReport(sender)
  \/ AddReportBlock
  \/ AddSDESSource
  \/ \E length \in ItemLengths : AddSDESItem(length)
  \/ \E size \in OtherSizes : AddOther(size)
  \/ EndBuild

Spec == Init /\ [][Next]_vars

-----------------------------------------------------------------------------
(* What was asked about an addition beforehand is what the parts need after *)
(* it: the estimate with an extra block or item, padding and headers        *)
(* included, is neither too small nor too large; nor is that with an extra  *)
(* source, other than the first.                                            *)
EstimatesAreExact ==
  [][/\ AddReportBlock => ReportNeeds' = ReportNeedsWithBlock
     /\ \A length \in ItemLengths :
          AddSDESItem(length) => SDESNeeds' = SDESNeedsWithItem(length)
     /\ AddSDESSource /\ sdessources # <<>> => SDESNeeds' = SDESNeedsWithSource
    ]_vars

(* What EndBuild writes: a common header and an SSRC in front of every      *)
(* MaxCount report blocks (at least one such packet if a report was         *)
(* started), the sender information once, and every SDES chunk and packet   *)
(* on a word boundary.                                                      *)
BytesOnTheWire ==
  LET packets(n) == CHOOSE d \in 0 .. n :
                      (d - 1) * MaxCount < n /\ n <= d * MaxCount
      reports == IF headerlength = 0 THEN 0
                 ELSE IF reportblocks = 0 THEN 1 ELSE packets(reportblocks)
      words(items) == CHOOSE w \in 0 .. Total(items) + 1 :
                        WordSize * w > Total(items) /\ WordSize * (w - 1) <= Total(items)
  IN reports * 8 + (IF isSR THEN 20 ELSE 0) + reportblocks * 24
       + packets(Len(sdessources)) * 4
       + Total([s \in DOMAIN sdessources |-> 4 + 4 * words(sdessources[s])])
       + othersize

(* The accounting is what is written, byte for byte, and a multiple of 4.   *)
SizeIsWhatIsWritten == Size = BytesOnTheWire /\ Size % 4 = 0

(* The maximum is exceeded in one way only: by at most 12 bytes, by a first *)
(* SDES source that has no item; nothing more is accepted then.             *)
OvershootIsFirstSource ==
  Size > maximumpacketsize =>
    Size <= maximumpacketsize + 12 /\ sdessources = <<<<>>>>

(* NeededBytesWithExtraSource's comment: for the extra source we'll need at *)
(* least 8 bytes.                                                           *)
ExtraSourceNeedsEightBytes == SDESNeedsWithSource >= SDESNeeds + 8
=============================================================================
