---------------------------- MODULE SourceDataProofs ----------------------------
(***************************************************************************)
(* Proofs about SourceData, for every set of memory blocks and of items,    *)
(* every maximum length and every length that callers ask for.              *)
(***************************************************************************)
EXTENDS SourceData, TLAPS

(* Without a raw packet there is none of its parts either.                  *)
RawInv ==
  receivetime = 0 => packetdata = Null /\ senderaddress = Null /\ packet = Null

(* Everything known was received no later than the datagram at work, which  *)
(* has a receive time.                                                      *)
TimesInv ==
  /\ SRinf <= now /\ RRinf <= now /\ receivetime <= now /\ now # 0
  /\ receivetime # 0 => SRinf <= receivetime /\ RRinf <= receivetime

IInv == TypeOK /\ RawInv /\ TimesInv /\ OneOwner /\ ReportsInOrder

USE SourceDataAssumption DEF senderVars, blockVars, OneMore

LEMMA InitTypes == Init => TypeOK
<1> SUFFICES ASSUME Init PROVE TypeOK
  OBVIOUS
<1>1. \A i \in Items : ItemFits(i)
  BY DEF Init, ItemFits
<1>2. 0 \in Times /\ 1 \in Times
  BY DEF Times
<1>3. Null \in Pointers
  BY DEF Pointers
<1>4. 0 \in 0 .. 2 /\ 0 \in Nat
  OBVIOUS
<1>5. str \in [Items -> Pointers] /\ length \in [Items -> Nat]
      /\ size \in [Items -> Nat]
  BY <1>3, <1>4 DEF Init
<1> QED
  BY <1>1, <1>2, <1>3, <1>4, <1>5 DEF Init, TypeOK

LEMMA InitOthers == Init => RawInv /\ TimesInv /\ OneOwner /\ ReportsInOrder
  BY DEF Init, RawInv, TimesInv, OneOwner, ReportsInOrder, OwnedBlocks, Owned, Owners

(* One step per action; the ones with several are alike.                    *)
LEMMA NextTypes == TypeOK /\ [Next]_vars => TypeOK'
<1> SUFFICES ASSUME TypeOK, [Next]_vars PROVE TypeOK'
  OBVIOUS
<1> USE DEF TypeOK, ItemFits, Pointers, Times, addrVars, itemVars, flagVars,
    reportVars, sentVars, rawVars, packetVars
<1>1. CASE Tick
  BY <1>1 DEF Tick
<1>2. CASE Receive
  BY <1>2 DEF Receive
<1>3. CASE ParseRawPacket
  BY <1>3 DEF ParseRawPacket, ZeroData
<1>4. CASE StorePacket
  BY <1>4 DEF StorePacket
<1>5. CASE DropPacket
  BY <1>5 DEF DropPacket
<1>6. CASE DeleteRawPacket
  BY <1>6 DEF DeleteRawPacket
<1>7. ASSUME NEW a \in AddressArguments, SetRTPDataAddress(a) PROVE TypeOK'
  BY <1>7 DEF SetRTPDataAddress, Replace, AddressArguments
<1>8. ASSUME NEW a \in AddressArguments, SetRTCPDataAddress(a) PROVE TypeOK'
  BY <1>8 DEF SetRTCPDataAddress, Replace, AddressArguments
<1>9. ASSUME NEW i \in Items, NEW l \in Nat, SetNonPrivateItem(i, l) PROVE TypeOK'
  BY <1>9 DEF SetNonPrivateItem, SetString
<1>10. CASE ProcessSenderInfo
  BY <1>10 DEF ProcessSenderInfo
<1>11. CASE ProcessReportBlock
  BY <1>11 DEF ProcessReportBlock
<1>12. CASE UpdateMessageTime
  BY <1>12 DEF UpdateMessageTime
<1>13. CASE SetOwnSSRC
  BY <1>13 DEF SetOwnSSRC
<1>14. CASE SetCSRC
  BY <1>14 DEF SetCSRC
<1>15. CASE SentRTPPacket
  BY <1>15 DEF SentRTPPacket
<1>16. CASE ClearSenderFlag
  <2>1. issender' \in BOOLEAN
    BY <1>16 DEF ClearSenderFlag
  <2> QED
    BY <1>16, <2>1 DEF ClearSenderFlag
<1>17. CASE GetNextPacket \/ DeletePacket \/ FlushPackets
  BY <1>17 DEF GetNextPacket, DeletePacket, FlushPackets
<1>18. CASE Delete
  <2>1. str' = [i \in Items |-> Null] /\ length' = [i \in Items |-> 0]
        /\ size' = [i \in Items |-> 0]
    BY <1>18 DEF Delete
  <2>2. str' \in [Items -> Pointers] /\ length' \in [Items -> Nat]
        /\ size' \in [Items -> Nat] /\ (\A i \in Items : ItemFits(i))'
    BY <2>1
  <2>3. live' \subseteq Blocks /\ rtpaddr' \in Pointers /\ rtcpaddr' \in Pointers
        /\ packetlist' \subseteq Blocks /\ exists' \in BOOLEAN
    BY <1>18 DEF Delete
  <2> QED
    BY <1>18, <2>2, <2>3 DEF Delete
<1>19. CASE UNCHANGED vars
  BY <1>19 DEF vars
<1>20. CASE ClearNote
  BY <1>9, <1>20, SourceDataAssumption DEF ClearNote
<1>21. ASSUME NEW i \in Items, NEW l \in Lengths, SetNonPrivateItem(i, l) PROVE TypeOK'
  BY <1>9, <1>21, SourceDataAssumption
<1> HIDE DEF TypeOK
<1> QED
  BY <1>1, <1>2, <1>3, <1>4, <1>5, <1>6, <1>7, <1>8, <1>10, <1>11, <1>12,
     <1>13, <1>14, <1>15, <1>16, <1>17, <1>18, <1>19, <1>20, <1>21 DEF Next

(* The order of times needs RawInv: a report comes out of a datagram at work.*)
LEMMA NextTimes ==
  TypeOK /\ RawInv /\ TimesInv /\ ReportsInOrder /\ [Next]_vars
    => RawInv' /\ TimesInv' /\ ReportsInOrder'
<1> SUFFICES ASSUME TypeOK, RawInv, TimesInv, ReportsInOrder, [Next]_vars
             PROVE  RawInv' /\ TimesInv' /\ ReportsInOrder'
  OBVIOUS
<1>0. /\ now \in Nat /\ receivetime \in Nat /\ lastmsgtime \in Nat
      /\ SRinf \in Nat /\ SRprevinf \in Nat /\ RRinf \in Nat /\ RRprevinf \in Nat
      /\ senderreports \in 0 .. 2 /\ reportblocks \in 0 .. 2
  BY DEF TypeOK, Times
<1> USE <1>0 DEF RawInv, TimesInv, ReportsInOrder, addrVars, itemVars, flagVars,
    reportVars, sentVars, rawVars, packetVars
<1>1. CASE Tick
  BY <1>1 DEF Tick
<1>2. CASE Receive
  BY <1>2 DEF Receive
<1>3. CASE ParseRawPacket
  BY <1>3 DEF ParseRawPacket, ZeroData
<1>4. CASE StorePacket
  BY <1>4 DEF StorePacket
<1>5. CASE DropPacket
  BY <1>5 DEF DropPacket
<1>6. CASE DeleteRawPacket
  BY <1>6 DEF DeleteRawPacket
<1>7. CASE \E a \in AddressArguments : SetRTPDataAddress(a)
  BY <1>7 DEF SetRTPDataAddress, Replace
<1>8. CASE \E a \in AddressArguments : SetRTCPDataAddress(a)
  BY <1>8 DEF SetRTCPDataAddress, Replace
<1>9. CASE \E i \in Items, l \in Lengths : SetNonPrivateItem(i, l)
  BY <1>9 DEF SetNonPrivateItem, SetString
<1>10. CASE ClearNote
  BY <1>10 DEF ClearNote, SetNonPrivateItem, SetString
<1>11. CASE ProcessSenderInfo
  BY <1>11 DEF ProcessSenderInfo
<1>12. CASE ProcessReportBlock
  BY <1>12 DEF ProcessReportBlock
<1>13. CASE UpdateMessageTime
  BY <1>13 DEF UpdateMessageTime
<1>14. CASE SetOwnSSRC
  BY <1>14 DEF SetOwnSSRC
<1>15. CASE SetCSRC
  BY <1>15 DEF SetCSRC
<1>16. CASE SentRTPPacket
  BY <1>16 DEF SentRTPPacket
<1>17. CASE ClearSenderFlag
  BY <1>17 DEF ClearSenderFlag
<1>18. CASE GetNextPacket
  BY <1>18 DEF GetNextPacket
<1>19. CASE DeletePacket
  BY <1>19 DEF DeletePacket
<1>20. CASE FlushPackets
  BY <1>20 DEF FlushPackets
<1>21. CASE Delete
  BY <1>21 DEF Delete
<1>22. CASE UNCHANGED vars
  BY <1>22 DEF vars
<1> QED
  BY <1>1, <1>2, <1>3, <1>4, <1>5, <1>6, <1>7, <1>8, <1>9, <1>10, <1>11, <1>12, <1>13, <1>14, <1>15, <1>16, <1>17, <1>18, <1>19, <1>20, <1>21, <1>22 DEF Next

(* The steps that leave all owners and the memory alone.                    *)
LEMMA OwnersAlone ==
  ASSUME OneOwner,
         UNCHANGED <<live, addrVars, str, packetdata, senderaddress, packetVars>>
  PROVE  OneOwner'
<1>1. \A o \in Owners : Owned(o)' = Owned(o)
  BY DEF Owned, addrVars, packetVars
<1>2. OwnedBlocks' = OwnedBlocks
  BY <1>1 DEF OwnedBlocks, packetVars
<1> QED
  BY <1>1, <1>2 DEF OneOwner, addrVars, packetVars

(* One pointer, to nothing or to a new block, replaces another, whose block *)
(* is freed, unless it is abandoned by an address that is set to itself.    *)
LEMMA OwnerReplaced ==
  ASSUME TypeOK, OneOwner,
         NEW o \in Owners, NEW new \in Pointers, NEW kept \in BOOLEAN,
         new = Null \/ new \notin live,
         live' = (live \union ({new} \ {Null})) \ (IF kept THEN {} ELSE {Owned(o)}),
         \A q \in Owners : Owned(q)' = IF q = o THEN new ELSE Owned(q),
         UNCHANGED <<packetlist, extracted>>,
         selfset' = (selfset \/ kept)
  PROVE  OneOwner'
<1>0. /\ live \subseteq Blocks /\ Null \notin Blocks /\ selfset \in BOOLEAN
  BY SourceDataAssumption DEF TypeOK
<1>1. \A q \in Owners : Owned(q) # Null => Owned(q) \in live
  BY DEF OneOwner, OwnedBlocks
<1>2. packetlist \subseteq live /\ extracted \subseteq live
  BY DEF OneOwner, OwnedBlocks
<1>3. Owned(o) \notin packetlist \union extracted
  BY DEF OneOwner
<1>4. OwnedBlocks' \subseteq live'
  <2>1. ASSUME NEW q \in Owners, Owned(q)' # Null PROVE Owned(q)' \in live'
    BY <1>0, <1>1, <2>1 DEF OneOwner, Pointers
  <2>2. packetlist \subseteq live' /\ extracted \subseteq live'
    BY <1>2, <1>3
  <2> QED
    BY <2>1, <2>2 DEF OwnedBlocks
<1>5. \A p, q \in Owners : p # q /\ Owned(p)' # Null => Owned(p)' # Owned(q)'
  BY <1>1 DEF OneOwner
<1>6. \A q \in Owners : Owned(q)' \notin packetlist' \union extracted'
  BY <1>0, <1>2 DEF OneOwner
<1>7. ASSUME ~selfset' PROVE live' \subseteq OwnedBlocks'
  <2>1. ~kept /\ live \subseteq OwnedBlocks
    BY <1>7 DEF OneOwner
  <2>2. ASSUME NEW b \in live' PROVE b \in OwnedBlocks'
    <3>1. CASE b = new
      <4>1. b # Null /\ Owned(o)' = b
        BY <1>0, <3>1, <2>2
      <4> QED
        BY <4>1 DEF OwnedBlocks
    <3>2. CASE b # new
      <4>1. b \in OwnedBlocks /\ b # Owned(o)
        BY <2>1, <2>2, <3>2
      <4>2. CASE b \in packetlist \union extracted
        BY <4>2 DEF OwnedBlocks
      <4>3. CASE b \notin packetlist \union extracted
        <5>1. PICK q \in Owners : Owned(q) = b /\ b # Null
          BY <4>1, <4>3 DEF OwnedBlocks
        <5>2. Owned(q)' = b
          BY <4>1, <5>1
        <5> QED
          BY <5>1, <5>2 DEF OwnedBlocks
      <4> QED
        BY <4>2, <4>3
    <3> QED
      BY <3>1, <3>2
  <2> QED
    BY <2>2
<1> QED
  BY <1>4, <1>5, <1>6, <1>7 DEF OneOwner

LEMMA NextOwner ==
  TypeOK /\ RawInv /\ OneOwner /\ [Next]_vars => OneOwner'
<1> SUFFICES ASSUME TypeOK, RawInv, OneOwner, [Next]_vars PROVE OneOwner'
  OBVIOUS
<1>1. CASE \/ Tick \/ ProcessSenderInfo \/ ProcessReportBlock \/ UpdateMessageTime
           \/ SetOwnSSRC \/ SetCSRC \/ SentRTPPacket \/ ClearSenderFlag
           \/ UNCHANGED vars
  <2>1. UNCHANGED <<live, addrVars, str, packetdata, senderaddress, packetVars>>
    BY <1>1 DEF Tick, ProcessSenderInfo, ProcessReportBlock, UpdateMessageTime,
         SetOwnSSRC, SetCSRC, SentRTPPacket, ClearSenderFlag, vars, itemVars, rawVars
  <2> QED
    BY <2>1, OwnersAlone
<1>2. ASSUME NEW a \in AddressArguments, SetRTPDataAddress(a) PROVE OneOwner'
  <2>1. PICK new \in Pointers : Replace(rtpaddr, a, new) /\ rtpaddr' = new
    BY <1>2 DEF SetRTPDataAddress
  <2> DEFINE kept == a # Null /\ a = rtpaddr
  <2>2. kept \in BOOLEAN /\ selfset' = (selfset \/ kept)
    BY <1>2 DEF SetRTPDataAddress
  <2>3. "rtpaddr" \in Owners /\ Owned("rtpaddr") = rtpaddr
    BY DEF Owners, Owned
  <2>4. new = Null \/ new \notin live
    BY <2>1 DEF Replace
  <2>5. live' = (live \union ({new} \ {Null})) \ (IF kept THEN {} ELSE {rtpaddr})
    BY <2>1, SourceDataAssumption DEF Replace, TypeOK
  <2>6. \A q \in Owners : Owned(q)' = IF q = "rtpaddr" THEN new ELSE Owned(q)
    BY <1>2, <2>1, SourceDataAssumption
       DEF SetRTPDataAddress, Owners, Owned, itemVars, rawVars, packetVars
  <2>7. UNCHANGED <<packetlist, extracted>>
    BY <1>2 DEF SetRTPDataAddress, packetVars
  <2> HIDE DEF kept
  <2> QED
    BY <2>2, <2>3, <2>4, <2>5, <2>6, <2>7, OwnerReplaced
<1>3. ASSUME NEW a \in AddressArguments, SetRTCPDataAddress(a) PROVE OneOwner'
  <2>1. PICK new \in Pointers : Replace(rtcpaddr, a, new) /\ rtcpaddr' = new
    BY <1>3 DEF SetRTCPDataAddress
  <2> DEFINE kept == a # Null /\ a = rtcpaddr
  <2>2. kept \in BOOLEAN /\ selfset' = (selfset \/ kept)
    BY <1>3 DEF SetRTCPDataAddress
  <2>3. "rtcpaddr" \in Owners /\ Owned("rtcpaddr") = rtcpaddr
    BY DEF Owners, Owned
  <2>4. new = Null \/ new \notin live
    BY <2>1 DEF Replace
  <2>5. live' = (live \union ({new} \ {Null})) \ (IF kept THEN {} ELSE {rtcpaddr})
    BY <2>1, SourceDataAssumption DEF Replace, TypeOK
  <2>6. \A q \in Owners : Owned(q)' = IF q = "rtcpaddr" THEN new ELSE Owned(q)
    BY <1>3, <2>1, SourceDataAssumption
       DEF SetRTCPDataAddress, Owners, Owned, itemVars, rawVars, packetVars
  <2>7. UNCHANGED <<packetlist, extracted>>
    BY <1>3 DEF SetRTCPDataAddress, packetVars
  <2> HIDE DEF kept
  <2> QED
    BY <2>2, <2>3, <2>4, <2>5, <2>6, <2>7, OwnerReplaced
<1>4. ASSUME NEW i \in Items, NEW l \in Nat, SetNonPrivateItem(i, l) PROVE OneOwner'
  <2>1. UNCHANGED <<addrVars, packetdata, senderaddress, packetVars>>
    BY <1>4 DEF SetNonPrivateItem, rawVars
  <2>2. CASE UNCHANGED <<live, itemVars>>
    BY <2>1, <2>2, OwnersAlone DEF itemVars
  <2>3. CASE ~UNCHANGED <<live, itemVars>>
    <3>1. PICK new \in Pointers :
            /\ new = Null \/ new \notin live
            /\ live' = (live \union ({new} \ {Null})) \ {str[i]}
            /\ str' = [str EXCEPT ![i] = new]
      <4>1. Null \notin live
        BY SourceDataAssumption DEF TypeOK
      <4>2. CASE l = 0
        BY <1>4, <2>3, <4>1, <4>2 DEF SetNonPrivateItem, SetString, Pointers
      <4>3. CASE l > 0
        BY <1>4, <2>3, <4>1, <4>3, SourceDataAssumption
           DEF SetNonPrivateItem, SetString, Pointers
      <4> QED
        BY <4>2, <4>3
    <3>2. i \in Owners /\ Owned(i) = str[i]
      BY SourceDataAssumption DEF Owners, Owned
    <3>3. \A q \in Owners : Owned(q)' = IF q = i THEN new ELSE Owned(q)
      BY <2>1, <3>1, SourceDataAssumption
         DEF Owners, Owned, addrVars, packetVars, TypeOK
    <3>4. UNCHANGED <<packetlist, extracted>> /\ selfset' = (selfset \/ FALSE)
      <4>1. selfset \in BOOLEAN
        BY DEF TypeOK
      <4>2. selfset' = selfset /\ UNCHANGED <<packetlist, extracted>>
        BY <2>1 DEF addrVars, packetVars
      <4> QED
        BY <4>1, <4>2
    <3>5. live' = (live \union ({new} \ {Null})) \ (IF FALSE THEN {} ELSE {Owned(i)})
      BY <3>1, <3>2
    <3> QED
      BY <3>1, <3>2, <3>3, <3>4, <3>5, OwnerReplaced
  <2> QED
    BY <2>2, <2>3
<1>5. CASE \/ \E i \in Items, l \in Lengths : SetNonPrivateItem(i, l)
           \/ ClearNote
  <2>1. NoteItem \in Items /\ 0 \in Nat /\ Lengths \subseteq Nat
    BY SourceDataAssumption
  <2> QED
    BY <1>4, <1>5, <2>1 DEF ClearNote
<1>0. /\ str \in [Items -> Pointers] /\ live \subseteq Blocks /\ selfset \in BOOLEAN
  BY DEF TypeOK
<1> USE <1>0 DEF OneOwner, OwnedBlocks, Owned, Owners, Pointers, RawInv, addrVars,
    itemVars, rawVars, packetVars
<1>6. CASE Receive
  BY <1>6, SourceDataAssumption DEF Receive
<1>7. CASE ParseRawPacket
  BY <1>7, SourceDataAssumption DEF ParseRawPacket, ZeroData
<1>8. CASE StorePacket
  BY <1>8, SourceDataAssumption DEF StorePacket
<1>9. CASE DropPacket
  BY <1>9, SourceDataAssumption DEF DropPacket
<1>10. CASE DeleteRawPacket
  BY <1>10, SourceDataAssumption DEF DeleteRawPacket
<1>11. CASE GetNextPacket
  BY <1>11, SourceDataAssumption DEF GetNextPacket
<1>12. CASE DeletePacket
  BY <1>12, SourceDataAssumption DEF DeletePacket
<1>13. CASE FlushPackets
  BY <1>13, SourceDataAssumption DEF FlushPackets
<1>14. CASE Delete
  BY <1>14, SourceDataAssumption DEF Delete
<1> HIDE DEF OneOwner
<1> QED
  BY <1>1, <1>2, <1>3, <1>5, <1>6, <1>7, <1>8, <1>9, <1>10, <1>11, <1>12, <1>13,
     <1>14 DEF Next

-----------------------------------------------------------------------------
(* The inductive invariant holds in every state.                            *)
THEOREM SourceInvariance == Spec => []IInv
<1>1. Init => IInv
  BY InitTypes, InitOthers DEF IInv
<1>2. IInv /\ [Next]_vars => IInv'
  BY NextTypes, NextTimes, NextOwner DEF IInv
<1> QED
  BY <1>1, <1>2, PTL DEF Spec

(* Types, and an SDES item is as long as its buffer.                        *)
THEOREM SourceTypes == Spec => []TypeOK
<1>1. IInv => TypeOK
  BY DEF IInv
<1> QED
  BY <1>1, SourceInvariance, PTL

(* Memory: nothing dangles, nothing has two owners, and nothing leaks but   *)
(* what an address set to itself leaves behind.                             *)
THEOREM EveryBlockHasOneOwner == Spec => []OneOwner
<1>1. IInv => OneOwner
  BY DEF IInv
<1> QED
  BY <1>1, SourceInvariance, PTL

(* A previous report exists exactly when more than one was processed, and   *)
(* the last two reports and the last message are in the order of time.      *)
THEOREM ReportsAreInOrder == Spec => []ReportsInOrder
<1>1. IInv => ReportsInOrder
  BY DEF IInv
<1> QED
  BY <1>1, SourceInvariance, PTL
=============================================================================
