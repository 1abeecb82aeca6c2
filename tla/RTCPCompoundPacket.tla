--------------------------- MODULE RTCPCompoundPacket ---------------------------
(***************************************************************************)
(* A received compound packet as the library and the application read it:   *)
(* one iteration over its packets, and in each SDES packet two nested ones, *)
(* over its chunks and over the items of the current chunk.  Nothing is     *)
(* copied: an iteration is an offset into the bytes that moves over headers *)
(* and lengths which are bytes among others.                                *)
(*                                                                          *)
(* One step is one call; the calls may come in any order.                   *)
(***************************************************************************)
EXTENDS RTCPPacket

CONSTANT CompoundPackets   (* the sequences of packets that may be received *)

ASSUME CompoundAssumption ==
  \A p \in CompoundPackets :
    /\ Len(p) \in Nat /\ p = [i \in 1 .. Len(p) |-> p[i]]
    /\ \A i \in DOMAIN p :
         /\ p[i].sent \in Sendable /\ p[i].knownformat \in BOOLEAN
         /\ p[i] = Packet(p[i].sent, p[i].knownformat)

VARIABLES
  rtcppacklist,  (* the packets of the compound packet                     *)
  rtcppackit,    (* the position of the iteration over them                *)
  current,       (* the packet that GetNextPacket returned, 0: none        *)
  currentchunk,  (* per packet: where its current chunk starts, or null    *)
  curchunknum,   (* per packet: the number of that chunk                   *)
  itemoffset,    (* per packet: the current item, from the chunk's start   *)
  ret            (* what the last move of an SDES iteration returned       *)

sdesVars == <<currentchunk, curchunknum, itemoffset, ret>>
listVars == <<rtcppackit, current>>
vars == <<rtcppacklist, listVars, sdesVars>>

Indices == DOMAIN rtcppacklist

TypeOK ==
  /\ \A i \in Indices : rtcppacklist[i].data \in Seq(Byte)
  /\ rtcppackit \in 1 .. Len(rtcppacklist) + 1
  /\ current \in 0 .. Len(rtcppacklist)
  /\ currentchunk \in [Indices -> Nat]
  /\ \A i \in Indices : currentchunk[i] % WordSize = 0
  /\ curchunknum \in [Indices -> Nat]
  /\ \A i \in Indices : currentchunk[i] # NullPointer =>
       curchunknum[i] \in 1 .. HeaderCount(rtcppacklist[i])
  /\ itemoffset \in [Indices -> Nat]
  /\ ret \in BOOLEAN

-----------------------------------------------------------------------------
GotoFirstPacket ==
  /\ rtcppackit' = 1
  /\ UNCHANGED <<rtcppacklist, current, sdesVars>>

GetNextPacket ==
  /\ IF rtcppackit = Len(rtcppacklist) + 1
     THEN current' = 0 /\ UNCHANGED rtcppackit
     ELSE current' = rtcppackit /\ rtcppackit' = rtcppackit + 1
  /\ UNCHANGED <<rtcppacklist, sdesVars>>

-----------------------------------------------------------------------------
(* The SDES header at an offset of the current chunk of packet i.           *)
SdesId(i, offset) == ByteAt(rtcppacklist[i], currentchunk[i] + offset)
SdesLength(i, offset) == ByteAt(rtcppacklist[i], currentchunk[i] + offset + 1)

(* The header that follows.                                                 *)
After(i, offset) == offset + SDESHeaderSize + SdesLength(i, offset)

Iterating(i) == rtcppacklist[i].knownformat /\ currentchunk[i] # NullPointer

(* The calls that return false and change nothing.                          *)
Fail == ret' = FALSE /\ UNCHANGED <<currentchunk, curchunknum, itemoffset>>

GotoFirstChunk(i) ==
  \/ /\ HeaderCount(rtcppacklist[i]) = 0
     /\ currentchunk' = [currentchunk EXCEPT ![i] = NullPointer]
     /\ ret' = FALSE
     /\ UNCHANGED <<curchunknum, itemoffset>>
  \/ /\ HeaderCount(rtcppacklist[i]) # 0
     /\ currentchunk' = [currentchunk EXCEPT ![i] = CommonHeaderSize]
     /\ curchunknum' = [curchunknum EXCEPT ![i] = 1]
     /\ itemoffset' = [itemoffset EXCEPT ![i] = WordSize]
     /\ ret' = TRUE

(* Where the chunk after the current one starts: behind the zero that ends  *)
(* the items, at the next multiple of four.  The loop over the items makes  *)
(* fewer passes than the packet has bytes and then stays at the zero.       *)
NextChunk(i) ==
  LET at[n \in 0 .. rtcppacklist[i].datalen] ==
        IF n = 0 THEN WordSize
        ELSE LET o == at[n - 1] IN IF SdesId(i, o) = 0 THEN o ELSE After(i, o)
      offset == at[rtcppacklist[i].datalen] + 1
  IN  currentchunk[i] + offset + ((WordSize - (offset % WordSize)) % WordSize)

(* Mutant: the number of chunks is not looked at.                           *)
GotoNextChunkUnchecked(i) ==
  \/ /\ Iterating(i)
     /\ currentchunk' = [currentchunk EXCEPT ![i] = NextChunk(i)]
     /\ curchunknum' = [curchunknum EXCEPT ![i] = @ + 1]
     /\ itemoffset' = [itemoffset EXCEPT ![i] = WordSize]
     /\ ret' = TRUE
  \/ ~Iterating(i) /\ Fail

GotoNextChunk(i) ==
  \/ /\ Iterating(i)
     /\ curchunknum[i] # HeaderCount(rtcppacklist[i])
     /\ currentchunk' = [currentchunk EXCEPT ![i] = NextChunk(i)]
     /\ curchunknum' = [curchunknum EXCEPT ![i] = @ + 1]
     /\ itemoffset' = [itemoffset EXCEPT ![i] = WordSize]
     /\ ret' = TRUE
  \/ /\ Iterating(i) => curchunknum[i] = HeaderCount(rtcppacklist[i])
     /\ Fail

GotoFirstItem(i) ==
  \/ /\ Iterating(i)
     /\ itemoffset' = [itemoffset EXCEPT ![i] = WordSize]
     /\ ret' = (SdesId(i, WordSize) # 0)
     /\ UNCHANGED <<currentchunk, curchunknum>>
  \/ ~Iterating(i) /\ Fail

(* There is a current item, and one behind it.                              *)
HasNextItem(i) ==
  /\ Iterating(i)
  /\ SdesId(i, itemoffset[i]) # 0
  /\ SdesId(i, After(i, itemoffset[i])) # 0

(* Mutant: the iteration runs onto the zero that ends the items.            *)
NextItemOverEnd(i) ==
  \/ /\ Iterating(i) /\ SdesId(i, itemoffset[i]) # 0
     /\ itemoffset' = [itemoffset EXCEPT ![i] = After(i, @)]
     /\ ret' = (SdesId(i, After(i, itemoffset[i])) # 0)
     /\ UNCHANGED <<currentchunk, curchunknum>>
  \/ ~(Iterating(i) /\ SdesId(i, itemoffset[i]) # 0) /\ Fail

GotoNextItem(i) ==
  \/ /\ HasNextItem(i)
     /\ itemoffset' = [itemoffset EXCEPT ![i] = After(i, @)]
     /\ ret' = TRUE
     /\ UNCHANGED <<currentchunk, curchunknum>>
  \/ ~HasNextItem(i) /\ Fail

-----------------------------------------------------------------------------
GetChunkSSRC(i) ==
  IF Iterating(i) THEN LongAt(rtcppacklist[i], currentchunk[i]) ELSE 0

(* Its number instead of its name; 0 is None.                               *)
GetItemType(i) == IF Iterating(i) THEN SdesId(i, itemoffset[i]) ELSE 0

GetItemLength(i) ==
  IF GetItemType(i) = 0 THEN 0 ELSE SdesLength(i, itemoffset[i])

(* Mutant: the length byte is taken for the first of the text.              *)
ItemDataAtLength(i) ==
  IF GetItemType(i) = 0 THEN NullPointer ELSE currentchunk[i] + itemoffset[i] + 1

GetItemData(i) ==
  IF GetItemType(i) = 0
  THEN NullPointer
  ELSE currentchunk[i] + itemoffset[i] + SDESHeaderSize

PrefixByte(i) == ByteAt(rtcppacklist[i], GetItemData(i))

(* Mutant: the prefix may take the place of its own length byte.            *)
PRIVUpToLength(i) ==
  /\ GetItemType(i) = PRIV
  /\ GetItemLength(i) # 0
  /\ PrefixByte(i) <= GetItemLength(i)

(* The item is private, and its prefix ends within it.                      *)
IsPRIV(i) ==
  /\ GetItemType(i) = PRIV
  /\ GetItemLength(i) # 0
  /\ PrefixByte(i) <= GetItemLength(i) - 1

GetPRIVPrefixLength(i) == IF IsPRIV(i) THEN PrefixByte(i) ELSE 0

GetPRIVPrefixData(i) ==
  IF GetPRIVPrefixLength(i) = 0 THEN NullPointer ELSE GetItemData(i) + 1

GetPRIVValueLength(i) ==
  IF IsPRIV(i) THEN GetItemLength(i) - PrefixByte(i) - 1 ELSE 0

GetPRIVValueData(i) ==
  IF GetPRIVValueLength(i) = 0
  THEN NullPointer
  ELSE GetItemData(i) + 1 + PrefixByte(i)

-----------------------------------------------------------------------------
Init ==
  /\ rtcppacklist \in CompoundPackets
  /\ rtcppackit = 1
  /\ current = 0
  /\ currentchunk = [i \in Indices |-> NullPointer]
  /\ curchunknum = [i \in Indices |-> 0]
  /\ itemoffset = [i \in Indices |-> 0]
  /\ ret = FALSE

(* The iterations of the SDES packet that was handed out last.              *)
SDESCall(i) ==
  /\ rtcppacklist[i].sent.type = "SDES"
  /\ \/ GotoFirstChunk(i)
     \/ GotoNextChunk(i)
     \/ GotoFirstItem(i)
     \/ GotoNextItem(i)
  /\ UNCHANGED <<rtcppacklist, listVars>>

Next ==
  \/ GotoFirstPacket
  \/ GetNextPacket
  \/ current # 0 /\ SDESCall(current)

Spec == Init /\ [][Next]_vars

-----------------------------------------------------------------------------
(* The chunk of packet i that currentchunk points to, and the item, or the  *)
(* zero that ends the items, that itemoffset points to.                     *)
ChunkOf(i) ==
  IF currentchunk[i] = NullPointer
  THEN 0
  ELSE LET q == rtcppacklist[i] IN
       CHOOSE c \in DOMAIN q.sent.chunks : q.chunkstarts[c] = currentchunk[i]

ItemOf(i) ==
  IF currentchunk[i] = NullPointer
  THEN 0
  ELSE LET starts == rtcppacklist[i].itemstarts[ChunkOf(i)] IN
       CHOOSE j \in DOMAIN starts : starts[j] = itemoffset[i]

Sizes(q) ==
  IF q.knownformat /\ q.sent.type = "SDES"
  THEN [c \in DOMAIN q.sent.chunks |-> Len(q.sent.chunks[c].items)]
  ELSE <<>>

(* Every iteration visits the chunks and items that were sent, in order and *)
(* none twice, however calls are mixed, and whatever the texts of the items *)
(* look like: texts that hold zeros and numbers of types, and items and     *)
(* chunks that are empty or end on a word.                                  *)
Iteration == INSTANCE SDESIteration WITH
  sizes <- [i \in Indices |-> Sizes(rtcppacklist[i])],
  chunk <- [i \in Indices |-> ChunkOf(i)],
  item <- [i \in Indices |-> ItemOf(i)]

IteratesOverWhatWasSent == Iteration!Spec

NoItemReturned(i) ==
  GetItemType(i) = 0 /\ GetItemLength(i) = 0 /\ GetItemData(i) = NullPointer

ItemReturned(i, item) ==
  /\ GetItemType(i) = item.sdesid
  /\ GetItemLength(i) = Len(item.text)
  /\ Slice(rtcppacklist[i], GetItemData(i), GetItemLength(i)) = item.text

ItemIsRead(i) ==
  LET chunk == rtcppacklist[i].sent.chunks[ChunkOf(i)]
      j == ItemOf(i)
  IN  IF ChunkOf(i) = 0
      THEN GetChunkSSRC(i) = 0 /\ NoItemReturned(i)
      ELSE /\ GetChunkSSRC(i) = chunk.ssrc
           /\ j > Len(chunk.items) => NoItemReturned(i)
           /\ j <= Len(chunk.items) => ItemReturned(i, chunk.items[j])

(* The accessors of a current chunk and item return the source, type,       *)
(* length and text that were sent; without one they return nothing.         *)
ItemIsWhatWasSent == \A i \in Indices : ItemIsRead(i)

(* Prefix and value of an item share out its text behind the length of the  *)
(* prefix, if it is private and the prefix ends within it; else there are   *)
(* none.                                                                    *)
PRIVIsShared(i) ==
  LET q == rtcppacklist[i]
      text == Slice(q, GetItemData(i), GetItemLength(i))
      prefix == Slice(q, GetPRIVPrefixData(i), GetPRIVPrefixLength(i))
      value == Slice(q, GetPRIVValueData(i), GetPRIVValueLength(i))
  IN  IF GetItemType(i) = PRIV /\ text # <<>> /\ Head(text) < Len(text)
      THEN <<Len(prefix)>> \o prefix \o value = text
      ELSE prefix = <<>> /\ value = <<>>

(* Prefix and value of a private item share out its text behind the length  *)
(* of the prefix; one whose prefix claims to be longer than that has        *)
(* neither.                                                                 *)
PRIVSharesOutItem == \A i \in Indices : PRIVIsShared(i)

(* What the accessors of reports, BYE and APP packets return.               *)
ReportsAreRead(q) ==
  LET s == q.sent
      n == HeaderCount(q)
  IN  /\ s.type \in {"SR", "RR"} /\ q.knownformat =>
           /\ SenderSSRC(q) = s.ssrc /\ n = Len(s.reports)
           /\ s.type = "SR" =>
                /\ SenderInfo(q) = s.info
                /\ \A k \in 1 .. n : ReportSR(q, k - 1) = s.reports[k]
           /\ s.type = "RR" =>
                \A k \in 1 .. n : ReportRR(q, k - 1) = s.reports[k]
      /\ s.type = "BYE" /\ q.knownformat =>
           /\ n = Len(s.ssrcs)
           /\ \A k \in 1 .. n : BYESSRC(q, k - 1) = s.ssrcs[k]
           /\ HasReasonForLeaving(q) <=> s.reason # <<>>
           /\ s.reason # <<>> =>
                /\ ReasonLength(q) = Head(s.reason)
                /\ Slice(q, ReasonData(q), ReasonLength(q))
                     = SubSeq(s.reason, 2, 1 + Head(s.reason))
      /\ s.type = "APP" /\ q.knownformat =>
           /\ n = s.subtype /\ SenderSSRC(q) = s.ssrc
           /\ Slice(q, APPName(q), WordSize) = Word(s.name)
           /\ Slice(q, APPData(q), APPDataLength(q)) = s.appdata
      /\ ~q.knownformat => n = 0 /\ SenderSSRC(q) = 0 /\ ReportSR(q, 0) = NoReport

(* The accessors of reports, BYE and APP packets return what was sent, the  *)
(* losses with their sign, and nothing of a packet of unknown format.       *)
ReportsAreWhatWasSent ==
  \A i \in Indices : ReportsAreRead(rtcppacklist[i])
=============================================================================
