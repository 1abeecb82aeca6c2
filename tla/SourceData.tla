------------------------------- MODULE SourceData -------------------------------
(***************************************************************************)
(* What one entry of the source table keeps, and who owns the memory: the   *)
(* participant's addresses, its SDES items, its packets and its last        *)
(* reports (rtpsourcedata.h, rtpinternalsourcedata.h, rtcpsdesinfo.h), and  *)
(* on the way to it the raw packet that carries a datagram from the         *)
(* transmitter (rtprawpacket.h) and the packet made of it (rtppacket.h).    *)
(*                                                                          *)
(* A block of memory stands for an object together with the buffer only it  *)
(* uses; the raw packet object itself is left out, its two parts are not.   *)
(* What is written in a block is left out, but not how long an SDES item    *)
(* is, and so is the order of the packet list, which RTPHandler models.     *)
(* All methods are called under the lock of the source table or on objects  *)
(* of one thread, so each is one step.  Any allocation may fail.            *)
(***************************************************************************)
EXTENDS Naturals

CONSTANTS
  Blocks,        (* the addresses of the memory manager                    *)
  Null,          (* the null pointer                                       *)
  Items,         (* the SDES items but the private ones                    *)
  NoteItem,      (* the one that ClearNote clears                          *)
  MaxItemLength, (* RTCP_SDES_MAXITEMLENGTH                                *)
  Lengths,       (* the lengths of items that callers ask for              *)
  MaxTime        (* bound: the readings of the clock                       *)

ASSUME SourceDataAssumption ==
  /\ Null \notin Blocks
  /\ NoteItem \in Items
  /\ Items \intersect {"rtpaddr", "rtcpaddr", "packetdata", "senderaddress", "packet"} = {}
  /\ MaxItemLength \in Nat \ {0}
  /\ Lengths \subseteq Nat
  /\ MaxTime \in Nat \ {0}

VARIABLES
  live,           (* the blocks that are allocated                         *)
  exists,         (* the source was not deleted                            *)
  rtpaddr,        (* its address for RTP                                   *)
  rtcpaddr,       (* its address for RTCP                                  *)
  isrtpaddrset,   (* flags: the two were set                               *)
  isrtcpaddrset,
  str,            (* per SDES item: its buffer                             *)
  length,         (* per SDES item: its length                             *)
  size,           (* per SDES item: how long its buffer was made           *)
  packetlist,     (* the packets that wait to be extracted                 *)
  validated,      (* flags of the source                                   *)
  ownssrc,
  iscsrc,
  issender,
  SRinf,          (* the last sender report, known by the time at which it *)
                  (* was received; 0: there is none                        *)
  SRprevinf,      (* the one before it                                     *)
  RRinf,          (* the same for the report about our data                *)
  RRprevinf,
  lastmsgtime,    (* when the participant was last heard of                *)
  lastrtptime,    (* when the last RTP packet was sent                     *)
  now,            (* the clock                                             *)
  receivetime,    (* the raw packet: when it was received, 0: there is none*)
  isrtp,          (* whether it is RTP, not RTCP                           *)
  packetdata,     (* its buffer                                            *)
  senderaddress,  (* its sender's address                                  *)
  packet,         (* the packet made of it                                 *)
  extracted,      (* packets the application has taken out                 *)
  selfset,        (* history: an address was set to itself                 *)
  senderreports,  (* history: how many reports of each kind were processed,*)
  reportblocks    (* 2 for more than one                                   *)

addrVars   == <<rtpaddr, rtcpaddr, isrtpaddrset, isrtcpaddrset, selfset>>
itemVars   == <<str, length, size>>
flagVars   == <<validated, ownssrc, iscsrc>>
senderVars == <<SRinf, SRprevinf, senderreports>>
blockVars  == <<RRinf, RRprevinf, reportblocks>>
reportVars == <<senderVars, blockVars>>
sentVars   == <<issender, lastrtptime>>
rawVars    == <<receivetime, isrtp, packetdata, senderaddress>>
packetVars == <<packetlist, packet, extracted>>
vars == <<live, exists, now, addrVars, itemVars, flagVars, reportVars, sentVars,
          lastmsgtime, rawVars, packetVars>>

Pointers == Blocks \union {Null}
Times    == 0 .. MaxTime

(* An item's buffer is as long as the item, so that who copies length bytes *)
(* out of str stays inside it, and no item is too long for a length byte.   *)
ItemFits(i) ==
  /\ str[i] = Null <=> length[i] = 0
  /\ length[i] = size[i]
  /\ length[i] <= MaxItemLength

TypeOK ==
  /\ live \subseteq Blocks
  /\ rtpaddr \in Pointers
  /\ rtcpaddr \in Pointers
  /\ str \in [Items -> Pointers]
  /\ length \in [Items -> Nat]
  /\ size \in [Items -> Nat]
  /\ \A i \in Items : ItemFits(i)
  /\ packetlist \subseteq Blocks
  /\ extracted \subseteq Blocks
  /\ packetdata \in Pointers
  /\ senderaddress \in Pointers
  /\ packet \in Pointers
  /\ exists \in BOOLEAN /\ isrtp \in BOOLEAN /\ selfset \in BOOLEAN
  /\ isrtpaddrset \in BOOLEAN /\ isrtcpaddrset \in BOOLEAN
  /\ validated \in BOOLEAN /\ ownssrc \in BOOLEAN
  /\ iscsrc \in BOOLEAN /\ issender \in BOOLEAN
  /\ SRinf \in Times /\ SRprevinf \in Times
  /\ RRinf \in Times /\ RRprevinf \in Times
  /\ senderreports \in 0 .. 2 /\ reportblocks \in 0 .. 2
  /\ lastmsgtime \in Times /\ lastrtptime \in Times
  /\ now \in Times /\ receivetime \in Times

-----------------------------------------------------------------------------
Tick ==
  /\ exists
  /\ now < MaxTime
  /\ now' = now + 1
  /\ UNCHANGED <<live, exists, addrVars, itemVars, flagVars, reportVars, sentVars,
                 lastmsgtime, rawVars, packetVars>>

(* The transmitter has read a datagram and made a raw packet of it; one is  *)
(* worked on at a time, in the order of their arrival.  Several may arrive  *)
(* at one reading of the clock.                                             *)
Receive ==
  /\ exists
  /\ receivetime = 0
  /\ receivetime' = now
  /\ isrtp' \in BOOLEAN
  /\ \E data, address \in Blocks \ live :
       /\ data # address
       /\ live' = live \union {data, address}
       /\ packetdata' = data
       /\ senderaddress' = address
  /\ UNCHANGED <<exists, now, addrVars, itemVars, flagVars, reportVars, sentVars,
                 lastmsgtime, packetVars>>

(* Mutant: the raw packet keeps its pointer to the data it gave away.       *)
ZeroDataForgotten == UNCHANGED packetdata

ZeroData == packetdata' = Null

(* A packet is made of the raw packet's data, which it takes over.          *)
ParseRawPacket ==
  /\ packetdata # Null
  /\ packet = Null
  /\ packet' = packetdata
  /\ ZeroData
  /\ UNCHANGED <<live, exists, now, addrVars, itemVars, flagVars, reportVars,
                 sentVars, lastmsgtime, receivetime, isrtp, senderaddress,
                 packetlist, extracted>>

(* An RTP packet is stored in the list; it may validate the source and make *)
(* it a sender.                                                             *)
StorePacket ==
  /\ packet # Null
  /\ isrtp
  /\ packetlist' = packetlist \union {packet}
  /\ packet' = Null
  /\ lastmsgtime' = receivetime
  /\ \E valid, sender \in BOOLEAN :
       /\ validated' = (validated \/ valid)
       /\ issender' = (issender \/ sender)
  /\ UNCHANGED <<live, exists, now, addrVars, itemVars, ownssrc, iscsrc,
                 reportVars, lastrtptime, rawVars, extracted>>

(* The destructor of a packet that was not stored.                          *)
DropPacket ==
  /\ packet # Null
  /\ live' = live \ {packet}
  /\ packet' = Null
  /\ UNCHANGED <<exists, now, addrVars, itemVars, flagVars, reportVars, sentVars,
                 lastmsgtime, rawVars, packetlist, extracted>>

(* The destructor of the raw packet, when its packet was dealt with.        *)
DeleteRawPacket ==
  /\ receivetime # 0
  /\ packet = Null
  /\ live' = live \ {packetdata, senderaddress}
  /\ packetdata' = Null
  /\ senderaddress' = Null
  /\ receivetime' = 0
  /\ UNCHANGED <<exists, now, addrVars, itemVars, flagVars, reportVars, sentVars,
                 lastmsgtime, isrtp, packetVars>>

-----------------------------------------------------------------------------
(* What a caller may pass as an address: none, the sender's, or one that it *)
(* got from the source itself.                                              *)
AddressArguments == {Null, senderaddress, rtpaddr, rtcpaddr}

(* The address old is replaced by new: nothing, or a copy of a, which is    *)
(* made first and may fail.  What was there is deleted, unless it is a.     *)
Replace(old, a, new) ==
  \/ /\ a = Null
     /\ new = Null
     /\ live' = live \ {old}
  \/ /\ a # Null
     /\ new \in Blocks \ live
     /\ live' = (live \union {new}) \ (IF a = old THEN {} ELSE {old})

SetRTPDataAddress(a) ==
  /\ exists
  /\ \E new \in Pointers :
       /\ Replace(rtpaddr, a, new)
       /\ rtpaddr' = new
  /\ isrtpaddrset' = TRUE
  /\ selfset' = (selfset \/ (a # Null /\ a = rtpaddr))
  /\ UNCHANGED <<exists, now, rtcpaddr, isrtcpaddrset, itemVars, flagVars,
                 reportVars, sentVars, lastmsgtime, rawVars, packetVars>>

SetRTCPDataAddress(a) ==
  /\ exists
  /\ \E new \in Pointers :
       /\ Replace(rtcpaddr, a, new)
       /\ rtcpaddr' = new
  /\ isrtcpaddrset' = TRUE
  /\ selfset' = (selfset \/ (a # Null /\ a = rtcpaddr))
  /\ UNCHANGED <<exists, now, rtpaddr, isrtpaddrset, itemVars, flagVars,
                 reportVars, sentVars, lastmsgtime, rawVars, packetVars>>

-----------------------------------------------------------------------------
(* Mutant: the length is written before the buffer is allocated.            *)
SetStringLengthFirst(i, l) ==
  \/ /\ l = 0
     /\ live' = live \ {str[i]}
     /\ str' = [str EXCEPT ![i] = Null]
     /\ length' = [length EXCEPT ![i] = 0]
     /\ size' = [size EXCEPT ![i] = 0]
  \/ /\ l > 0
     /\ length' = [length EXCEPT ![i] = l]
     /\ \/ \E new \in Blocks \ live :
             /\ live' = (live \union {new}) \ {str[i]}
             /\ size' = [size EXCEPT ![i] = l]
             /\ str' = [str EXCEPT ![i] = new]
        \/ UNCHANGED <<live, str, size>>

(* Of length 0 the item goes; otherwise a buffer is allocated, which may    *)
(* fail, then the old one is deleted.                                       *)
SetString(i, l) ==
  \/ /\ l = 0
     /\ live' = live \ {str[i]}
     /\ str' = [str EXCEPT ![i] = Null]
     /\ length' = [length EXCEPT ![i] = 0]
     /\ size' = [size EXCEPT ![i] = 0]
  \/ /\ l > 0
     /\ \E new \in Blocks \ live :
          /\ live' = (live \union {new}) \ {str[i]}
          /\ size' = [size EXCEPT ![i] = l]
          /\ length' = [length EXCEPT ![i] = l]
          /\ str' = [str EXCEPT ![i] = new]
  \/ /\ l > 0
     /\ UNCHANGED <<live, itemVars>>

(* A longer item is refused, so that SetString has nothing to cut.          *)
SetNonPrivateItem(i, l) ==
  /\ exists
  /\ l <= MaxItemLength
  /\ SetString(i, l)
  /\ UNCHANGED <<exists, now, addrVars, flagVars, reportVars, sentVars,
                 lastmsgtime, rawVars, packetVars>>

ClearNote == SetNonPrivateItem(NoteItem, 0)

-----------------------------------------------------------------------------
(* A compound RTCP packet may hold several reports of a participant: they   *)
(* are processed one after the other, with one receive time.                *)

OneMore(n) == IF n = 2 THEN 2 ELSE n + 1

(* Mutant: the new report is written first, and then copied.                *)
ProcessSenderInfoSwapped ==
  /\ exists
  /\ packet # Null /\ ~isrtp
  /\ SRinf' = receivetime
  /\ SRprevinf' = SRinf'
  /\ senderreports' = OneMore(senderreports)
  /\ lastmsgtime' = receivetime
  /\ UNCHANGED <<live, exists, now, addrVars, itemVars, flagVars, sentVars,
                 blockVars, rawVars, packetVars>>

ProcessSenderInfo ==
  /\ exists
  /\ packet # Null /\ ~isrtp
  /\ SRprevinf' = SRinf
  /\ SRinf' = receivetime
  /\ senderreports' = OneMore(senderreports)
  /\ lastmsgtime' = receivetime
  /\ UNCHANGED <<live, exists, now, addrVars, itemVars, flagVars, sentVars,
                 blockVars, rawVars, packetVars>>

ProcessReportBlock ==
  /\ exists
  /\ packet # Null /\ ~isrtp
  /\ RRprevinf' = RRinf
  /\ RRinf' = receivetime
  /\ reportblocks' = OneMore(reportblocks)
  /\ lastmsgtime' = receivetime
  /\ UNCHANGED <<live, exists, now, addrVars, itemVars, flagVars, sentVars,
                 senderVars, rawVars, packetVars>>

UpdateMessageTime ==
  /\ exists
  /\ packet # Null
  /\ lastmsgtime' = receivetime
  /\ UNCHANGED <<live, exists, now, addrVars, itemVars, flagVars, reportVars,
                 sentVars, rawVars, packetVars>>

-----------------------------------------------------------------------------
SetOwnSSRC ==
  /\ exists
  /\ ownssrc' = TRUE
  /\ validated' = TRUE
  /\ UNCHANGED <<live, exists, now, addrVars, itemVars, iscsrc, reportVars,
                 sentVars, lastmsgtime, rawVars, packetVars>>

SetCSRC ==
  /\ exists
  /\ validated' = TRUE
  /\ iscsrc' = TRUE
  /\ UNCHANGED <<live, exists, now, addrVars, itemVars, ownssrc, reportVars,
                 sentVars, lastmsgtime, rawVars, packetVars>>

(* Only the participant itself notes what it sends.                         *)
SentRTPPacket ==
  /\ exists
  /\ ownssrc
  /\ issender' = TRUE
  /\ lastrtptime' = now
  /\ lastmsgtime' = now
  /\ UNCHANGED <<live, exists, now, addrVars, itemVars, flagVars, reportVars,
                 rawVars, packetVars>>

ClearSenderFlag ==
  /\ exists
  /\ issender' = FALSE
  /\ UNCHANGED <<live, exists, now, addrVars, itemVars, flagVars, reportVars,
                 lastrtptime, lastmsgtime, rawVars, packetVars>>

-----------------------------------------------------------------------------
GetNextPacket ==
  /\ exists
  /\ validated
  /\ \E p \in packetlist :
       /\ extracted' = extracted \union {p}
       /\ packetlist' = packetlist \ {p}
  /\ UNCHANGED <<live, exists, now, addrVars, itemVars, flagVars, reportVars,
                 sentVars, lastmsgtime, rawVars, packet>>

(* The application gives back a packet that it has extracted.               *)
DeletePacket ==
  /\ \E p \in extracted :
       /\ extracted' = extracted \ {p}
       /\ live' = live \ {p}
  /\ UNCHANGED <<exists, now, addrVars, itemVars, flagVars, reportVars, sentVars,
                 lastmsgtime, rawVars, packetlist, packet>>

FlushPackets ==
  /\ exists
  /\ live' = live \ packetlist
  /\ packetlist' = {}
  /\ UNCHANGED <<exists, now, addrVars, itemVars, flagVars, reportVars, sentVars,
                 lastmsgtime, rawVars, packet, extracted>>

(* The destructors of the source and of its SDES items, while no datagram   *)
(* is worked on.                                                            *)
Delete ==
  /\ exists
  /\ receivetime = 0
  /\ exists' = FALSE
  /\ live' = live \ (packetlist \union {rtpaddr, rtcpaddr} \union {str[i] : i \in Items})
  /\ packetlist' = {}
  /\ rtpaddr' = Null
  /\ rtcpaddr' = Null
  /\ str' = [i \in Items |-> Null]
  /\ length' = [i \in Items |-> 0]
  /\ size' = [i \in Items |-> 0]
  /\ UNCHANGED <<now, isrtpaddrset, isrtcpaddrset, selfset, flagVars,
                 reportVars, sentVars, lastmsgtime, rawVars, packet, extracted>>

-----------------------------------------------------------------------------
Init ==
  /\ live = {}
  /\ exists = TRUE
  /\ rtpaddr = Null /\ rtcpaddr = Null
  /\ isrtpaddrset = FALSE /\ isrtcpaddrset = FALSE
  /\ str = [i \in Items |-> Null]
  /\ length = [i \in Items |-> 0]
  /\ size = [i \in Items |-> 0]
  /\ packetlist = {}
  /\ validated = FALSE /\ ownssrc = FALSE /\ iscsrc = FALSE /\ issender = FALSE
  /\ SRinf = 0 /\ SRprevinf = 0 /\ RRinf = 0 /\ RRprevinf = 0
  /\ lastmsgtime = 0 /\ lastrtptime = 0
  /\ senderreports = 0 /\ reportblocks = 0
  /\ now = 1 /\ receivetime = 0 /\ isrtp = FALSE
  /\ packetdata = Null /\ senderaddress = Null /\ packet = Null
  /\ extracted = {}
  /\ selfset = FALSE

Next ==
  \/ Tick \/ Receive \/ ParseRawPacket \/ StorePacket \/ DropPacket
  \/ DeleteRawPacket
  \/ \E a \in AddressArguments : SetRTPDataAddress(a) \/ SetRTCPDataAddress(a)
  \/ \E i \in Items, l \in Lengths : SetNonPrivateItem(i, l)
  \/ ClearNote
  \/ ProcessSenderInfo \/ ProcessReportBlock \/ UpdateMessageTime
  \/ SetOwnSSRC \/ SetCSRC \/ SentRTPPacket \/ ClearSenderFlag
  \/ GetNextPacket \/ DeletePacket \/ FlushPackets
  \/ Delete

Spec == Init /\ [][Next]_vars

-----------------------------------------------------------------------------
(* The pointers that own a block, besides the packet list and the packets   *)
(* with the application.                                                    *)
Owners == {"rtpaddr", "rtcpaddr", "packetdata", "senderaddress", "packet"}
            \union Items

Owned(o) ==
  CASE o = "rtpaddr"       -> rtpaddr
    [] o = "rtcpaddr"      -> rtcpaddr
    [] o = "packetdata"    -> packetdata
    [] o = "senderaddress" -> senderaddress
    [] o = "packet"        -> packet
    [] OTHER               -> str[o]

OwnedBlocks == ({Owned(o) : o \in Owners} \ {Null}) \union packetlist \union extracted

(* Nobody points to memory that was freed, no two owners will free the same *)
(* block, and what nobody owns any more is freed: on its way from the       *)
(* transmitter through the source to the application a packet has exactly   *)
(* one owner, and so have a source's addresses and items, also when they    *)
(* are replaced, when an allocation fails and after the source is deleted.  *)
(* The one leak: an address set to itself is copied and not deleted.        *)
OneOwner ==
  /\ OwnedBlocks \subseteq live
  /\ \A o, q \in Owners : o # q /\ Owned(o) # Null => Owned(o) # Owned(q)
  /\ \A o \in Owners : Owned(o) \notin packetlist \union extracted
  /\ packetlist \intersect extracted = {}
  /\ ~selfset => live \subseteq OwnedBlocks

(* There is a previous report exactly when more than one was processed, as  *)
(* the header says of SR_Prev_HasInfo and RR_Prev_HasInfo, also when they   *)
(* came in one packet; it was received no later than the last one; and the  *)
(* participant counts as heard of at least since its last reports, and not  *)
(* in the future, although a datagram that was received before this client  *)
(* sent something may set the time of its last message back.                *)
ReportsInOrder ==
  /\ SRinf # 0 <=> senderreports > 0
  /\ SRprevinf # 0 <=> senderreports > 1
  /\ RRinf # 0 <=> reportblocks > 0
  /\ RRprevinf # 0 <=> reportblocks > 1
  /\ SRprevinf <= SRinf /\ SRinf <= lastmsgtime
  /\ RRprevinf <= RRinf /\ RRinf <= lastmsgtime
  /\ lastmsgtime <= now
=============================================================================
