--------------------------- MODULE RTPHandlerProofs ---------------------------
(***************************************************************************)
(* Proofs about RTPHandler, for any sources, packets, sequence numbers,     *)
(* payload lengths and probation count.                                     *)
(***************************************************************************)
EXTENDS RTPHandler, SequenceTheorems, TLAPS

(* Removing one element of a sequence leaves a sequence one shorter.        *)
LEMMA RemoveOne ==
  ASSUME NEW S, NEW seq \in Seq(S), NEW i \in DOMAIN seq
  PROVE  LET rest == SubSeq(seq, 1, i - 1) \o SubSeq(seq, i + 1, Len(seq))
         IN  rest \in Seq(S) /\ Len(rest) = Len(seq) - 1
<1> DEFINE front == SubSeq(seq, 1, i - 1)
           back == SubSeq(seq, i + 1, Len(seq))
<1>1. /\ Len(seq) \in Nat
      /\ DOMAIN seq = 1 .. Len(seq)
      /\ \A k \in 1 .. Len(seq) : seq[k] \in S
  BY LenProperties, ElementOfSeq
<1>2. front \in Seq(S) /\ Len(front) = i - 1
  <2>1. \A k \in 1 .. i - 1 : seq[k] \in S
    BY <1>1
  <2>2. 1 \in Int /\ i - 1 \in Int /\ (IF 1 <= i - 1 THEN (i - 1) - 1 + 1 ELSE 0) = i - 1
    BY <1>1
  <2> QED
    BY <2>1, <2>2, SubSeqProperties
<1>3. back \in Seq(S) /\ Len(back) = Len(seq) - i
  <2>1. \A k \in i + 1 .. Len(seq) : seq[k] \in S
    BY <1>1
  <2>2. /\ i + 1 \in Int
        /\ Len(seq) \in Int
        /\ (IF i + 1 <= Len(seq) THEN Len(seq) - (i + 1) + 1 ELSE 0) = Len(seq) - i
    BY <1>1
  <2> QED
    BY <2>1, <2>2, SubSeqProperties
<1>4. front \o back \in Seq(S) /\ Len(front \o back) = Len(front) + Len(back)
  BY <1>2, <1>3
<1> QED
  BY <1>1, <1>2, <1>3, <1>4

USE DEF tableVars, sourceVars, fileVars, appVars, pollVars

-----------------------------------------------------------------------------
(* The cursor that a search for data leaves is null or a position.          *)
LEMMA CursorType ==
  ASSUME TypeOK, NEW i \in Nat \ {0}, GotoWithDataFrom(i)
  PROVE  cur' \in 0 .. Len(sourcelist)
BY DEF TypeOK, GotoWithDataFrom, WithDataFrom

(* Looking a source up leaves a sequence of sources and a valid cursor.     *)
LEMMA ObtainType ==
  ASSUME TypeOK, NEW s \in Sources, Obtain(s)
  PROVE  /\ sourcelist' \in Seq(Sources)
         /\ cur' \in 0 .. Len(sourcelist')
<1>1. sourcelist' \in Seq(Sources)
  <2>1. sourcelist \in Seq(Sources) /\ Append(sourcelist, s) \in Seq(Sources)
    BY AppendProperties DEF TypeOK
  <2> QED
    BY <2>1 DEF Obtain
<1>2. Len(sourcelist') \in Nat /\ DOMAIN sourcelist = 1 .. Len(sourcelist)
  BY <1>1, LenProperties DEF TypeOK
<1> QED
  BY <1>1, <1>2 DEF Obtain

(* The probation counter stays in its range.                                *)
LEMMA ProbationType ==
  ASSUME TypeOK, NEW s \in Sources, NEW n \in Nat
  PROVE  ProbationAfter(s, n) \in 0 .. RTP_PROBATIONCOUNT
BY ConstantsAssumption DEF TypeOK, ProbationAfter

-----------------------------------------------------------------------------
(* Every step of the receive loop and of the poll thread keeps every        *)
(* variable in its type; in particular the table's cursor is always null or *)
(* on an element that is still in the table.                                *)
LEMMA TypeStep == TypeOK /\ [Next]_vars => TypeOK'
<1> SUFFICES ASSUME TypeOK, [Next]_vars PROVE TypeOK'
  OBVIOUS
<1> USE ConstantsAssumption
<1>1. CASE InitRTPHandler
  <2>1. <<OwnSSRC>> \in Seq(Sources)
    BY DEF Sources
  <2>2. sourcelist' \in Seq(Sources)
    BY <1>1, <2>1 DEF InitRTPHandler, TypeOK
  <2>3. cur' \in 0 .. Len(sourcelist')
    BY <1>1, <2>2, LenProperties DEF InitRTPHandler
  <2> QED
    BY <1>1, <2>2, <2>3 DEF InitRTPHandler, TypeOK, AppPcs, PollPcs
<1>2. CASE OpenFile
  BY <1>2 DEF OpenFile, TypeOK, AppPcs
<1>3. CASE BeginDataAccess
  BY <1>3 DEF BeginDataAccess, TypeOK, AppPcs
<1>4. CASE GotoFirstSourceWithData
  <2>1. cur' \in 0 .. Len(sourcelist)
    BY <1>4, CursorType DEF GotoFirstSourceWithData
  <2> QED
    BY <1>4, <2>1 DEF GotoFirstSourceWithData, TypeOK, AppPcs
<1>5. CASE GetNextPacket
  <2>1. packetlist' \in [Sources -> SUBSET Packets] /\ packet' \in Packets
    <3>1. sourcelist[cur] \in Sources
      BY <1>5 DEF GetNextPacket, TypeOK
    <3> QED
      BY <1>5, <3>1 DEF GetNextPacket, TypeOK
  <2>2. batch' \in Seq(Packets)
    BY <1>5, <2>1, AppendProperties DEF GetNextPacket, TypeOK
  <2> QED
    BY <1>5, <2>1, <2>2 DEF GetNextPacket, TypeOK, AppPcs
<1>6. CASE NoMorePackets
  BY <1>6 DEF NoMorePackets, TypeOK, AppPcs
<1>7. CASE WriteFile
  BY <1>7 DEF WriteFile, TypeOK, AppPcs
<1>8. CASE DeletePacket
  BY <1>8 DEF DeletePacket, TypeOK, AppPcs
<1>9. CASE GotoNextSourceWithData
  <2>1. cur + 1 \in Nat \ {0}
    BY DEF TypeOK
  <2>2. cur' \in 0 .. Len(sourcelist)
    BY <1>9, <2>1, CursorType DEF GotoNextSourceWithData
  <2> QED
    BY <1>9, <2>2 DEF GotoNextSourceWithData, TypeOK, AppPcs
<1>10. CASE EndDataAccess
  BY <1>10 DEF EndDataAccess, TypeOK, AppPcs
<1>11. ASSUME NEW p \in Packets, ReceiveRaw(p) PROVE TypeOK'
  BY <1>11 DEF ReceiveRaw, TypeOK
<1>12. CASE PollLock
  BY <1>12 DEF PollLock, TypeOK, PollPcs
<1>13. ASSUME NEW p \in Packets, ProcessRTPPacket(p) PROVE TypeOK'
  <2> DEFINE s == SourceOf[p]
             n == ExtSeqNr[p]
  <2>1. s \in Sources /\ n \in Nat
    BY DEF Sources
  <2>2. ProbationAfter(s, n) \in 0 .. RTP_PROBATIONCOUNT
    BY <2>1, ProbationType
  <2>3. sourcelist' \in Seq(Sources) /\ cur' \in 0 .. Len(sourcelist')
    BY <1>13, <2>1, ObtainType DEF ProcessRTPPacket
  <2>4. /\ validated' \in [Sources -> BOOLEAN]
        /\ probation' \in [Sources -> 0 .. RTP_PROBATIONCOUNT]
        /\ prevseqnr' \in [Sources -> Nat]
    <3>1. CASE validated[s]
      BY <1>13, <3>1 DEF ProcessRTPPacket, TypeOK
    <3>2. CASE ~validated[s]
      <4>1. /\ probation' = [probation EXCEPT ![s] = ProbationAfter(s, n)]
            /\ validated' = [validated EXCEPT ![s] = ProbationAfter(s, n) = 0]
            /\ prevseqnr' = [prevseqnr EXCEPT ![s] = n]
        BY <1>13, <3>2 DEF ProcessRTPPacket
      <4>2. validated' \in [Sources -> BOOLEAN]
        BY <4>1, Zenon DEF TypeOK
      <4> QED
        BY <2>1, <2>2, <4>1, <4>2 DEF TypeOK
    <3> QED
      BY <3>1, <3>2
  <2>5. packetlist' \in [Sources -> SUBSET Packets] /\ discarded' \subseteq Packets
    <3>1. CASE packetlist' = packetlist
      BY <1>13, <3>1 DEF ProcessRTPPacket, TypeOK
    <3>2. CASE packetlist' = [packetlist EXCEPT ![s] = @ \union {p}]
      BY <1>13, <2>1, <3>2 DEF ProcessRTPPacket, TypeOK
    <3> QED
      BY <1>13, <3>1, <3>2 DEF ProcessRTPPacket
  <2> QED
    BY <1>13, <2>3, <2>4, <2>5 DEF ProcessRTPPacket, TypeOK
<1>14. ASSUME NEW s \in SSRCs, ProcessCNAME(s) PROVE TypeOK'
  <2>1. s \in Sources
    BY DEF Sources
  <2>2. sourcelist' \in Seq(Sources) /\ cur' \in 0 .. Len(sourcelist')
    BY <1>14, <2>1, ObtainType DEF ProcessCNAME
  <2> QED
    BY <1>14, <2>1, <2>2 DEF ProcessCNAME, TypeOK
<1>15. CASE RawPacketsDone
  BY <1>15 DEF RawPacketsDone, TypeOK, PollPcs
<1>16. ASSUME NEW i \in DOMAIN sourcelist, RemoveSource(i) PROVE TypeOK'
  <2>1. i \in 1 .. Len(sourcelist) /\ sourcelist[i] \in Sources
    BY DEF TypeOK
  <2>2. sourcelist' \in Seq(Sources) /\ Len(sourcelist') = Len(sourcelist) - 1
    BY <1>16, RemoveOne DEF RemoveSource, TypeOK
  <2>3. cur' \in 0 .. Len(sourcelist')
    <3>1. cur' = IF i < Len(sourcelist) THEN i ELSE 0
      BY <1>16 DEF RemoveSource
    <3> QED
      BY <2>1, <2>2, <3>1
  <2>4. /\ validated' = [validated EXCEPT ![sourcelist[i]] = FALSE]
        /\ probation' = [probation EXCEPT ![sourcelist[i]] = 0]
        /\ prevseqnr' = [prevseqnr EXCEPT ![sourcelist[i]] = 0]
        /\ packetlist' = [packetlist EXCEPT ![sourcelist[i]] = {}]
        /\ discarded' = discarded \union packetlist[sourcelist[i]]
    BY <1>16 DEF RemoveSource
  <2>5. /\ validated' \in [Sources -> BOOLEAN]
        /\ probation' \in [Sources -> 0 .. RTP_PROBATIONCOUNT]
        /\ prevseqnr' \in [Sources -> Nat]
        /\ packetlist' \in [Sources -> SUBSET Packets]
        /\ discarded' \subseteq Packets
    BY <2>1, <2>4 DEF TypeOK
  <2>6. UNCHANGED <<appVars, pollPc, sourcesmutex, unsent, rawpackets>>
    BY <1>16 DEF RemoveSource
  <2> QED
    BY <2>2, <2>3, <2>5, <2>6 DEF TypeOK
<1>17. CASE PollUnlock
  BY <1>17 DEF PollUnlock, TypeOK, PollPcs
<1>18. CASE UNCHANGED vars
  BY <1>18 DEF vars, TypeOK
<1> QED
  BY <1>1, <1>2, <1>3, <1>4, <1>5, <1>6, <1>7, <1>8, <1>9, <1>10, <1>11,
     <1>12, <1>13, <1>14, <1>15, <1>16, <1>17, <1>18
     DEF Next, AppNext, PollNext

LEMMA TypeInit == Init => TypeOK
<1> SUFFICES ASSUME Init PROVE TypeOK
  OBVIOUS
<1>1. <<>> \in Seq(Sources) /\ <<>> \in Seq(Packets) /\ Len(<<>>) = 0
  BY EmptySeq
<1>2. validated \in [Sources -> BOOLEAN]
  BY Zenon DEF Init
<1>3. /\ probation \in [Sources -> 0 .. RTP_PROBATIONCOUNT]
      /\ prevseqnr \in [Sources -> Nat]
      /\ packetlist \in [Sources -> SUBSET Packets]
  BY ConstantsAssumption DEF Init
<1>4. sourcelist \in Seq(Sources) /\ cur \in 0 .. Len(sourcelist) /\ batch \in Seq(Packets)
  BY <1>1 DEF Init
<1> QED
  BY <1>2, <1>3, <1>4 DEF Init, TypeOK, AppPcs, PollPcs

(* The type invariant of the receiving side holds in every behaviour.       *)
THEOREM TypeCorrect == Spec => []TypeOK
BY TypeInit, TypeStep, PTL DEF Spec

-----------------------------------------------------------------------------
(* The lock: whoever is inside the source table holds sourcesmutex.         *)
LEMMA LockStep == TypeOK /\ LockInv /\ [Next]_vars => LockInv'
<1> SUFFICES ASSUME TypeOK, LockInv, [Next]_vars PROVE LockInv'
  OBVIOUS
<1> USE DEF LockInv, Inside
<1>1. CASE InitRTPHandler
  BY <1>1 DEF InitRTPHandler, TypeOK, PollPcs
<1>2. CASE OpenFile
  BY <1>2 DEF OpenFile
<1>3. CASE BeginDataAccess
  BY <1>3 DEF BeginDataAccess
<1>4. CASE GotoFirstSourceWithData
  <2>1. ~created => cur' = 0
    <3> SUFFICES ASSUME ~created PROVE cur' = 0
      OBVIOUS
    <3>1. Len(sourcelist) = 0
      BY EmptySeq
    <3> QED
      BY <1>4, <3>1 DEF GotoFirstSourceWithData, GotoWithDataFrom, WithDataFrom, TypeOK
  <2> QED
    BY <1>4, <2>1 DEF GotoFirstSourceWithData
<1>5. CASE GetNextPacket
  BY <1>5 DEF GetNextPacket
<1>6. CASE NoMorePackets
  BY <1>6 DEF NoMorePackets
<1>7. CASE WriteFile
  BY <1>7 DEF WriteFile
<1>8. CASE DeletePacket
  BY <1>8 DEF DeletePacket
<1>9. CASE GotoNextSourceWithData
  BY <1>9 DEF GotoNextSourceWithData
<1>10. CASE EndDataAccess
  BY <1>10 DEF EndDataAccess
<1>11. ASSUME NEW p \in Packets, ReceiveRaw(p) PROVE LockInv'
  BY <1>11 DEF ReceiveRaw
<1>12. CASE PollLock
  BY <1>12 DEF PollLock
<1>13. ASSUME NEW p \in Packets, ProcessRTPPacket(p) PROVE LockInv'
  BY <1>13 DEF ProcessRTPPacket
<1>14. ASSUME NEW s \in SSRCs, ProcessCNAME(s) PROVE LockInv'
  BY <1>14 DEF ProcessCNAME
<1>15. CASE RawPacketsDone
  BY <1>15 DEF RawPacketsDone
<1>16. ASSUME NEW i \in DOMAIN sourcelist, RemoveSource(i) PROVE LockInv'
  BY <1>16 DEF RemoveSource
<1>17. CASE PollUnlock
  BY <1>17 DEF PollUnlock
<1>18. CASE UNCHANGED vars
  BY <1>18 DEF vars
<1> QED
  BY <1>1, <1>2, <1>3, <1>4, <1>5, <1>6, <1>7, <1>8, <1>9, <1>10, <1>11,
     <1>12, <1>13, <1>14, <1>15, <1>16, <1>17, <1>18
     DEF Next, AppNext, PollNext

-----------------------------------------------------------------------------
(* SingleOwner said of one packet at a time: p is in some place, and in no  *)
(* second one.                                                              *)
InOnePlace(p) ==
  /\ \/ p \in unsent
     \/ p \in rawpackets
     \/ p \in packetlist[SourceOf[p]]
     \/ p \in Held
     \/ p \in deleted
     \/ p \in discarded
  /\ p \in unsent =>
       p \notin rawpackets \union packetlist[SourceOf[p]] \union Held \union deleted \union discarded
  /\ p \in rawpackets =>
       p \notin packetlist[SourceOf[p]] \union Held \union deleted \union discarded
  /\ p \in packetlist[SourceOf[p]] => p \notin Held \union deleted \union discarded
  /\ p \in Held => p \notin deleted \union discarded
  /\ p \in deleted => p \notin discarded

FiledUnder == \A s \in Sources : \A p \in packetlist[s] : SourceOf[p] = s

OwnerInv == FiledUnder /\ \A p \in Packets : InOnePlace(p)

LEMMA OwnersPointwise == TypeOK => (SingleOwner <=> OwnerInv)
<1> SUFFICES ASSUME TypeOK PROVE SingleOwner <=> OwnerInv
  OBVIOUS
<1>1. DOMAIN Owners = 1 .. 6
  BY DEF Owners
<1>2. /\ Owners[1] = unsent
      /\ Owners[2] = rawpackets
      /\ Owners[3] = Stored
      /\ Owners[4] = Held
      /\ Owners[5] = deleted
      /\ Owners[6] = discarded
  BY DEF Owners
<1>3. \A i \in 1 .. 6 : i = 1 \/ i = 2 \/ i = 3 \/ i = 4 \/ i = 5 \/ i = 6
  OBVIOUS
<1>4. Stored \subseteq Packets /\ Held \subseteq Packets
  BY DEF TypeOK, Stored, Held
<1>5. ASSUME FiledUnder
      PROVE  \A p \in Packets : p \in Stored <=> p \in packetlist[SourceOf[p]]
  BY <1>5, ConstantsAssumption DEF FiledUnder, Stored, Sources
<1>6. ASSUME FiledUnder
      PROVE  (\A p \in Packets : InOnePlace(p)) <=>
               /\ \A p \in Packets : \E i \in 1 .. 6 : p \in Owners[i]
               /\ \A i, j \in 1 .. 6 : i # j => Owners[i] \cap Owners[j] = {}
  <2>1. ASSUME \A p \in Packets : InOnePlace(p)
        PROVE  \A p \in Packets : \E i \in 1 .. 6 : p \in Owners[i]
    BY <1>2, <1>5, <1>6, <2>1 DEF InOnePlace
  <2>2. ASSUME \A p \in Packets : InOnePlace(p), NEW i \in 1 .. 6, NEW j \in 1 .. 6, i # j
        PROVE  Owners[i] \cap Owners[j] = {}
    <3>1. Owners[i] \subseteq Packets
      BY <1>2, <1>3, <1>4 DEF TypeOK
    <3>2. ASSUME NEW p \in Packets, p \in Owners[i], p \in Owners[j] PROVE FALSE
      <4>1. InOnePlace(p) /\ (p \in Stored <=> p \in packetlist[SourceOf[p]])
        BY <1>5, <1>6, <2>2
      <4> QED
        BY <1>2, <1>3, <2>2, <3>2, <4>1 DEF InOnePlace
    <3> QED
      BY <3>1, <3>2
  <2>3. ASSUME \A p \in Packets : \E i \in 1 .. 6 : p \in Owners[i],
               \A i, j \in 1 .. 6 : i # j => Owners[i] \cap Owners[j] = {},
               NEW p \in Packets
        PROVE  InOnePlace(p)
    <3>1. p \in Stored <=> p \in packetlist[SourceOf[p]]
      BY <1>5, <1>6
    <3>2. \A i, j \in 1 .. 6 : i # j => ~(p \in Owners[i] /\ p \in Owners[j])
      BY <2>3
    <3>3. PICK i \in 1 .. 6 : p \in Owners[i]
      BY <2>3
    <3>4. \A j \in 1 .. 6 : j # i => p \notin Owners[j]
      BY <3>2, <3>3
    <3> QED
      BY <1>2, <1>3, <3>1, <3>3, <3>4 DEF InOnePlace
  <2> QED
    BY <2>1, <2>2, <2>3
<1> QED
  BY <1>1, <1>6 DEF SingleOwner, OwnerInv, FiledUnder

LEMMA OwnerStep == TypeOK /\ LockInv /\ OwnerInv /\ [Next]_vars => OwnerInv'
<1> SUFFICES ASSUME TypeOK, LockInv, OwnerInv, [Next]_vars PROVE OwnerInv'
  OBVIOUS
<1> USE ConstantsAssumption DEF OwnerInv, InOnePlace, FiledUnder, Held
<1>0. \A p \in Packets : SourceOf[p] \in Sources /\ SourceOf[p] \in SSRCs
  BY DEF Sources
<1>1. CASE InitRTPHandler
  BY <1>1 DEF InitRTPHandler
<1>2. CASE OpenFile
  BY <1>2 DEF OpenFile
<1>3. CASE BeginDataAccess
  BY <1>3 DEF BeginDataAccess
<1>4. CASE GotoFirstSourceWithData
  <2>1. Held' = Held
    BY <1>4 DEF GotoFirstSourceWithData
  <2> QED
    BY <1>4, <2>1 DEF GotoFirstSourceWithData
<1>5. CASE GetNextPacket
  <2> DEFINE s == sourcelist[cur]
  <2>1. s \in Sources
    BY <1>5 DEF GetNextPacket, TypeOK
  <2>2. PICK p \in packetlist[s] :
          /\ packet' = p
          /\ packetlist' = [packetlist EXCEPT ![s] = @ \ {p}]
    BY <1>5 DEF GetNextPacket
  <2>3. p \in Packets /\ SourceOf[p] = s
    BY <2>1, <2>2 DEF TypeOK
  <2>4. Held = {} /\ Held' = {p}
    BY <1>5, <2>2 DEF GetNextPacket
  <2>5. FiledUnder'
    BY <2>1, <2>2 DEF TypeOK
  <2>6. ASSUME NEW q \in Packets PROVE InOnePlace(q)'
    <3>1. /\ SourceOf[q] \in Sources
          /\ q \in packetlist'[SourceOf[q]] <=> q \in packetlist[SourceOf[q]] /\ q # p
      BY <1>0, <2>1, <2>2, <2>3 DEF TypeOK
    <3>2. UNCHANGED <<unsent, rawpackets, deleted, discarded>>
      BY <1>5 DEF GetNextPacket
    <3> QED
      BY <2>2, <2>3, <2>4, <3>1, <3>2
  <2> QED
    BY <2>5, <2>6
<1>6. CASE NoMorePackets
  BY <1>6 DEF NoMorePackets
<1>7. CASE WriteFile
  BY <1>7 DEF WriteFile
<1>8. CASE DeletePacket
  <2>1. Held = {packet} /\ Held' = {} /\ deleted' = deleted \union {packet}
    BY <1>8 DEF DeletePacket
  <2>2. UNCHANGED <<unsent, rawpackets, packetlist, discarded>>
    BY <1>8 DEF DeletePacket
  <2> QED
    BY <2>1, <2>2
<1>9. CASE GotoNextSourceWithData
  <2>1. Held' = Held
    BY <1>9 DEF GotoNextSourceWithData
  <2> QED
    BY <1>9, <2>1 DEF GotoNextSourceWithData
<1>10. CASE EndDataAccess
  BY <1>10 DEF EndDataAccess
<1>11. ASSUME NEW p \in Packets, ReceiveRaw(p) PROVE OwnerInv'
  BY <1>11 DEF ReceiveRaw
<1>12. CASE PollLock
  BY <1>12 DEF PollLock
<1>13. ASSUME NEW p \in Packets, ProcessRTPPacket(p) PROVE OwnerInv'
  <2>1. Held' = Held /\ rawpackets' = rawpackets \ {p} /\ p \in rawpackets
    BY <1>13 DEF ProcessRTPPacket
  <2>2. UNCHANGED <<unsent, deleted>>
    BY <1>13 DEF ProcessRTPPacket
  <2>3. CASE packetlist' = [packetlist EXCEPT ![SourceOf[p]] = @ \union {p}] /\ discarded' = discarded
    <3>1. FiledUnder'
      BY <1>0, <2>3 DEF TypeOK
    <3>2. ASSUME NEW q \in Packets PROVE InOnePlace(q)'
      <4>1. q \in packetlist'[SourceOf[q]] <=> q \in packetlist[SourceOf[q]] \/ q = p
        BY <1>0, <2>3 DEF TypeOK
      <4> QED
        BY <2>1, <2>2, <2>3, <4>1
    <3> QED
      BY <3>1, <3>2
  <2>4. CASE packetlist' = packetlist /\ discarded' = discarded \union {p}
    BY <2>1, <2>2, <2>4
  <2> QED
    BY <1>13, <2>3, <2>4 DEF ProcessRTPPacket
<1>14. ASSUME NEW s \in SSRCs, ProcessCNAME(s) PROVE OwnerInv'
  BY <1>14 DEF ProcessCNAME
<1>15. CASE RawPacketsDone
  BY <1>15 DEF RawPacketsDone
<1>16. ASSUME NEW i \in DOMAIN sourcelist, RemoveSource(i) PROVE OwnerInv'
  <2> DEFINE s == sourcelist[i]
  <2>1. s \in Sources
    BY DEF TypeOK
  <2>2. /\ packetlist' = [packetlist EXCEPT ![s] = {}]
        /\ discarded' = discarded \union packetlist[s]
        /\ UNCHANGED <<appVars, unsent, rawpackets>>
    BY <1>16 DEF RemoveSource
  <2>3. FiledUnder'
    BY <2>1, <2>2 DEF TypeOK
  <2>4. ASSUME NEW q \in Packets PROVE InOnePlace(q)'
    <3>1. q \in packetlist'[SourceOf[q]] <=> q \in packetlist[SourceOf[q]] /\ SourceOf[q] # s
      BY <1>0, <2>1, <2>2 DEF TypeOK
    <3>2. q \in packetlist[s] <=> q \in packetlist[SourceOf[q]] /\ SourceOf[q] = s
      BY <2>1
    <3>3. q \in discarded' <=> q \in discarded \/ q \in packetlist[s]
      BY <2>2
    <3>4. Held' = Held
      BY <2>2
    <3>5. UNCHANGED <<unsent, rawpackets, deleted>>
      BY <2>2
    <3>6. InOnePlace(q)
      OBVIOUS
    <3> QED
      BY <3>1, <3>2, <3>3, <3>4, <3>5, <3>6
  <2> QED
    BY <2>3, <2>4
<1>17. CASE PollUnlock
  BY <1>17 DEF PollUnlock
<1>18. CASE UNCHANGED vars
  BY <1>18 DEF vars
<1> QED
  BY <1>1, <1>2, <1>3, <1>4, <1>5, <1>6, <1>7, <1>8, <1>9, <1>10, <1>11,
     <1>12, <1>13, <1>14, <1>15, <1>16, <1>17, <1>18
     DEF Next, AppNext, PollNext

-----------------------------------------------------------------------------
(* The poll thread changes the table only while the receive loop is outside.*)
LEMMA PollOutside ==
  ASSUME LockInv, pollPc \in {"process", "timeouts"}
  PROVE  ~Inside
BY DEF LockInv

LEMMA DrainStep == TypeOK /\ LockInv /\ OwnerInv /\ DrainInv /\ [Next]_vars => DrainInv'
<1> SUFFICES ASSUME TypeOK, LockInv, OwnerInv, DrainInv, [Next]_vars PROVE DrainInv'
  OBVIOUS
<1>0. /\ cur \in Nat /\ Len(sourcelist) \in Nat
      /\ DOMAIN sourcelist = 1 .. Len(sourcelist)
      /\ \A i \in 1 .. Len(sourcelist) : sourcelist[i] \in Sources
  BY LenProperties, ElementOfSeq DEF TypeOK
<1>1. CASE InitRTPHandler
  BY <1>1 DEF InitRTPHandler, DrainInv
<1>2. CASE OpenFile
  BY <1>2 DEF OpenFile, DrainInv
<1>3. CASE BeginDataAccess
  BY <1>3 DEF BeginDataAccess, DrainInv
<1>4. CASE GotoFirstSourceWithData
  BY <1>0, <1>4 DEF GotoFirstSourceWithData, GotoWithDataFrom, WithDataFrom, DrainInv, HasData, TypeOK
<1>5. CASE GetNextPacket
  <2>1. PICK p \in packetlist[sourcelist[cur]] :
          /\ packet' = p
          /\ packetlist' = [packetlist EXCEPT ![sourcelist[cur]] = @ \ {p}]
    BY <1>5 DEF GetNextPacket
  <2>2. cur \in 1 .. Len(sourcelist) /\ sourcelist[cur] \in Sources
    BY <1>0, <1>5 DEF GetNextPacket, TypeOK
  <2>3. SourceOf[p] = sourcelist[cur]
    BY <2>1, <2>2 DEF OwnerInv, FiledUnder
  <2>4. \A i \in 1 .. cur - 1 : ~HasData(sourcelist[i])
    BY <1>5 DEF GetNextPacket, DrainInv
  <2>5. \A s \in Sources : packetlist'[s] \subseteq packetlist[s]
    BY <2>1, <2>2 DEF TypeOK
  <2>6. UNCHANGED <<sourcelist, cur, validated>> /\ appPc' = "write" /\ cur # 0
    BY <1>5 DEF GetNextPacket
  <2>7. \A i \in 1 .. cur - 1 : ~(validated'[sourcelist'[i]] /\ packetlist'[sourcelist'[i]] # {})
    BY <1>0, <2>2, <2>4, <2>5, <2>6 DEF HasData
  <2> QED
    BY <2>1, <2>3, <2>6, <2>7 DEF DrainInv, HasData
<1>6. CASE NoMorePackets
  BY <1>6 DEF NoMorePackets, DrainInv, HasData
<1>7. CASE WriteFile
  BY <1>7 DEF WriteFile, DrainInv, HasData
<1>8. CASE DeletePacket
  BY <1>8 DEF DeletePacket, DrainInv, HasData
<1>9. CASE GotoNextSourceWithData
  <2>1. /\ UNCHANGED <<sourcelist, validated, packetlist, packet>>
        /\ appPc' = IF cur' # 0 THEN "get" ELSE "end"
        /\ GotoWithDataFrom(cur + 1)
        /\ appPc = "next"
    BY <1>9 DEF GotoNextSourceWithData
  <2>2. \A i \in 1 .. cur : ~HasData(sourcelist[i])
    BY <1>0, <2>1 DEF DrainInv
  <2>3. CASE cur' = 0 /\ WithDataFrom(cur + 1) = {}
    <3>1. \A i \in 1 .. Len(sourcelist) : ~HasData(sourcelist[i])
      BY <1>0, <2>2, <2>3 DEF WithDataFrom
    <3> QED
      BY <1>0, <2>1, <2>3, <3>1 DEF DrainInv, HasData
  <2>4. ASSUME NEW c \in WithDataFrom(cur + 1), cur' = c,
               \A k \in WithDataFrom(cur + 1) : c <= k
        PROVE  DrainInv'
    <3>1. c \in 1 .. Len(sourcelist)
      BY <1>0 DEF WithDataFrom
    <3>2. ASSUME NEW i \in 1 .. c - 1, HasData(sourcelist[i]) PROVE FALSE
      <4>1. i \in Nat /\ i <= Len(sourcelist) /\ i < c
        BY <1>0, <3>1
      <4>2. i \in cur + 1 .. Len(sourcelist)
        BY <1>0, <2>2, <3>2, <4>1
      <4>3. i \in WithDataFrom(cur + 1)
        BY <3>2, <4>2 DEF WithDataFrom
      <4> QED
        BY <2>4, <3>1, <4>1, <4>3
    <3>3. \A i \in 1 .. cur' - 1 : ~(validated'[sourcelist'[i]] /\ packetlist'[sourcelist'[i]] # {})
      BY <2>1, <2>4, <3>2 DEF HasData
    <3>4. appPc' = "get" /\ cur' # 0
      BY <2>1, <2>4, <3>1
    <3> QED
      BY <3>3, <3>4 DEF DrainInv, HasData
  <2> QED
    BY <2>1, <2>3, <2>4 DEF GotoWithDataFrom
<1>10. CASE EndDataAccess
  BY <1>10 DEF EndDataAccess, DrainInv
<1>11. ASSUME NEW p \in Packets, ReceiveRaw(p) PROVE DrainInv'
  BY <1>11 DEF ReceiveRaw, DrainInv, HasData
<1>12. CASE PollLock
  BY <1>12 DEF PollLock, DrainInv, HasData
<1>13. ASSUME NEW p \in Packets, ProcessRTPPacket(p) PROVE DrainInv'
  BY <1>13, PollOutside DEF ProcessRTPPacket, DrainInv, Inside
<1>14. ASSUME NEW s \in SSRCs, ProcessCNAME(s) PROVE DrainInv'
  BY <1>14, PollOutside DEF ProcessCNAME, DrainInv, Inside
<1>15. CASE RawPacketsDone
  BY <1>15 DEF RawPacketsDone, DrainInv, HasData
<1>16. ASSUME NEW i \in DOMAIN sourcelist, RemoveSource(i) PROVE DrainInv'
  BY <1>16, PollOutside DEF RemoveSource, DrainInv, Inside
<1>17. CASE PollUnlock
  BY <1>17, PollOutside DEF PollUnlock, DrainInv, Inside
<1>18. CASE UNCHANGED vars
  BY <1>18 DEF vars, DrainInv, HasData
<1> QED
  BY <1>1, <1>2, <1>3, <1>4, <1>5, <1>6, <1>7, <1>8, <1>9, <1>10, <1>11,
     <1>12, <1>13, <1>14, <1>15, <1>16, <1>17, <1>18
     DEF Next, AppNext, PollNext

-----------------------------------------------------------------------------
LEMMA BatchStep == TypeOK /\ LockInv /\ OwnerInv /\ BatchInv /\ [Next]_vars => BatchInv'
<1> SUFFICES ASSUME TypeOK, LockInv, OwnerInv, BatchInv, [Next]_vars PROVE BatchInv'
  OBVIOUS
<1> USE ConstantsAssumption DEF BatchInv, BatchInOrder
<1>0. \A i \in DOMAIN batch : batch[i] \in Packets /\ SourceOf[batch[i]] \in Sources
  BY ElementOfSeq, LenProperties DEF TypeOK, Sources
<1>1. CASE InitRTPHandler
  BY <1>1 DEF InitRTPHandler, Inside
<1>2. CASE OpenFile
  BY <1>2 DEF OpenFile, Inside
<1>3. CASE BeginDataAccess
  BY <1>3 DEF BeginDataAccess
<1>4. CASE GotoFirstSourceWithData
  BY <1>4 DEF GotoFirstSourceWithData, Inside
<1>5. CASE GetNextPacket
  <2> DEFINE s == sourcelist[cur]
  <2>1. s \in Sources
    BY <1>5 DEF GetNextPacket, TypeOK
  <2>2. PICK p \in packetlist[s] :
          /\ IsFront(p, s)
          /\ packetlist' = [packetlist EXCEPT ![s] = @ \ {p}]
          /\ batch' = Append(batch, p)
    BY <1>5 DEF GetNextPacket
  <2>3. p \in Packets /\ SourceOf[p] = s
    BY <2>1, <2>2 DEF TypeOK, OwnerInv, FiledUnder
  <2>4. /\ Len(batch) \in Nat
        /\ DOMAIN batch = 1 .. Len(batch)
        /\ batch' \in Seq(Packets)
        /\ DOMAIN batch' = 1 .. Len(batch) + 1
        /\ \A i \in 1 .. Len(batch) : batch'[i] = batch[i]
        /\ batch'[Len(batch) + 1] = p
    BY <2>2, <2>3, AppendProperties, LenProperties DEF TypeOK
  <2>5. Inside
    BY <1>5 DEF GetNextPacket, Inside
  <2>6. \A i \in 1 .. Len(batch) : SourceOf[batch[i]] = s => ExtSeqNr[batch[i]] < ExtSeqNr[p]
    BY <1>0, <2>2, <2>4, <2>5
  <2>7. BatchInOrder'
    <3> SUFFICES ASSUME NEW i \in 1 .. Len(batch) + 1, NEW j \in 1 .. Len(batch) + 1,
                        i < j, SourceOf[batch'[i]] = SourceOf[batch'[j]]
                 PROVE  ExtSeqNr[batch'[i]] < ExtSeqNr[batch'[j]]
      BY <2>4
    <3>1. i \in 1 .. Len(batch)
      BY <2>4
    <3>2. CASE j \in 1 .. Len(batch)
      BY <2>4, <3>1, <3>2
    <3>3. CASE j = Len(batch) + 1
      BY <2>3, <2>4, <2>6, <3>1, <3>3
    <3> QED
      <4>1. Len(batch) \in Nat
        BY <2>4
      <4>2. j \in 1 .. Len(batch) \/ j = Len(batch) + 1
        BY <4>1
      <4> QED
        BY <3>2, <3>3, <4>2
  <2>8. \A t \in Sources : packetlist'[t] \subseteq packetlist[t]
    BY <2>1, <2>2 DEF TypeOK
  <2>9. \A q \in packetlist'[s] : ExtSeqNr[p] < ExtSeqNr[q]
    <3> SUFFICES ASSUME NEW q \in packetlist'[s] PROVE ExtSeqNr[p] < ExtSeqNr[q]
      OBVIOUS
    <3>1. q \in packetlist[s] /\ q # p
      BY <2>1, <2>2 DEF TypeOK
    <3>2. q \in Packets /\ ExtSeqNr[q] \in Nat /\ ExtSeqNr[p] \in Nat
      BY <2>1, <2>3, <3>1 DEF TypeOK
    <3>3. ExtSeqNr[p] <= ExtSeqNr[q] /\ ExtSeqNr[p] # ExtSeqNr[q]
      BY <2>1, <2>2, <3>1 DEF IsFront
    <3> QED
      BY <3>2, <3>3
  <2>10. \A i \in 1 .. Len(batch) + 1 :
           \A q \in packetlist'[SourceOf[batch'[i]]] : ExtSeqNr[batch'[i]] < ExtSeqNr[q]
    <3> SUFFICES ASSUME NEW i \in 1 .. Len(batch) + 1, NEW q \in packetlist'[SourceOf[batch'[i]]]
                 PROVE  ExtSeqNr[batch'[i]] < ExtSeqNr[q]
      OBVIOUS
    <3>1. CASE i \in 1 .. Len(batch)
      BY <1>0, <2>4, <2>5, <2>8, <3>1
    <3>2. CASE i = Len(batch) + 1
      BY <2>3, <2>4, <2>9, <3>2
    <3> QED
      BY <2>4, <3>1, <3>2
  <2> QED
    BY <2>4, <2>7, <2>8, <2>10
<1>6. CASE NoMorePackets
  BY <1>6 DEF NoMorePackets, Inside
<1>7. CASE WriteFile
  BY <1>7 DEF WriteFile, Inside
<1>8. CASE DeletePacket
  BY <1>8 DEF DeletePacket, Inside
<1>9. CASE GotoNextSourceWithData
  BY <1>9 DEF GotoNextSourceWithData, Inside
<1>10. CASE EndDataAccess
  BY <1>10 DEF EndDataAccess, Inside
<1>11. ASSUME NEW p \in Packets, ReceiveRaw(p) PROVE BatchInv'
  BY <1>11 DEF ReceiveRaw, Inside
<1>12. CASE PollLock
  BY <1>12 DEF PollLock, Inside
<1>13. ASSUME NEW p \in Packets, ProcessRTPPacket(p) PROVE BatchInv'
  <2>1. ~Inside /\ Inside' = Inside /\ batch' = batch
    BY <1>13, PollOutside DEF ProcessRTPPacket, Inside
  <2>2. CASE packetlist' = packetlist
    BY <2>1, <2>2
  <2>3. CASE /\ \A q \in packetlist[SourceOf[p]] : ExtSeqNr[q] # ExtSeqNr[p]
             /\ packetlist' = [packetlist EXCEPT ![SourceOf[p]] = @ \union {p}]
    <3>1. \A s \in Sources : \A q, r \in packetlist'[s] : ExtSeqNr[q] = ExtSeqNr[r] => q = r
      <4> SUFFICES ASSUME NEW s \in Sources, NEW q \in packetlist'[s], NEW r \in packetlist'[s],
                          ExtSeqNr[q] = ExtSeqNr[r]
                   PROVE  q = r
        OBVIOUS
      <4>1. CASE s = SourceOf[p]
        BY <2>3, <4>1 DEF TypeOK
      <4>2. CASE s # SourceOf[p]
        BY <2>3, <4>2 DEF TypeOK
      <4> QED
        BY <4>1, <4>2
    <3> QED
      BY <2>1, <3>1
  <2> QED
    BY <1>13, <2>2, <2>3 DEF ProcessRTPPacket
<1>14. ASSUME NEW s \in SSRCs, ProcessCNAME(s) PROVE BatchInv'
  BY <1>14 DEF ProcessCNAME, Inside
<1>15. CASE RawPacketsDone
  BY <1>15 DEF RawPacketsDone, Inside
<1>16. ASSUME NEW i \in DOMAIN sourcelist, RemoveSource(i) PROVE BatchInv'
  <2>1. ~Inside /\ Inside' = Inside /\ batch' = batch
    BY <1>16, PollOutside DEF RemoveSource, Inside
  <2>2. packetlist' = [packetlist EXCEPT ![sourcelist[i]] = {}]
    BY <1>16 DEF RemoveSource
  <2>3. \A s \in Sources : packetlist'[s] \subseteq packetlist[s]
    BY <2>2 DEF TypeOK
  <2> QED
    BY <2>1, <2>3
<1>17. CASE PollUnlock
  BY <1>17 DEF PollUnlock, Inside
<1>18. CASE UNCHANGED vars
  BY <1>18 DEF vars, Inside
<1> QED
  BY <1>1, <1>2, <1>3, <1>4, <1>5, <1>6, <1>7, <1>8, <1>9, <1>10, <1>11,
     <1>12, <1>13, <1>14, <1>15, <1>16, <1>17, <1>18
     DEF Next, AppNext, PollNext

-----------------------------------------------------------------------------
LEMMA FileStep == TypeOK /\ FileInv /\ [Next]_vars => FileInv'
<1> SUFFICES ASSUME TypeOK, FileInv, [Next]_vars PROVE FileInv'
  OBVIOUS
<1> USE DEF FileInv, Held
<1>1. CASE InitRTPHandler
  BY <1>1 DEF InitRTPHandler
<1>2. CASE OpenFile
  BY <1>2 DEF OpenFile
<1>3. CASE BeginDataAccess
  BY <1>3 DEF BeginDataAccess
<1>4. CASE GotoFirstSourceWithData
  BY <1>4 DEF GotoFirstSourceWithData
<1>5. CASE GetNextPacket
  BY <1>5 DEF GetNextPacket
<1>6. CASE NoMorePackets
  BY <1>6 DEF NoMorePackets
<1>7. CASE WriteFile
  BY <1>7 DEF WriteFile
<1>8. CASE DeletePacket
  BY <1>8 DEF DeletePacket
<1>9. CASE GotoNextSourceWithData
  BY <1>9 DEF GotoNextSourceWithData
<1>10. CASE EndDataAccess
  BY <1>10 DEF EndDataAccess
<1>11. CASE PollNext
  <2>1. UNCHANGED appVars
    BY <1>11 DEF PollNext, ReceiveRaw, PollLock, ProcessRTPPacket, ProcessCNAME,
                 RawPacketsDone, RemoveSource, PollUnlock
  <2> QED
    BY <2>1
<1>12. CASE UNCHANGED vars
  BY <1>12 DEF vars
<1> QED
  BY <1>1, <1>2, <1>3, <1>4, <1>5, <1>6, <1>7, <1>8, <1>9, <1>10, <1>11, <1>12
     DEF Next, AppNext

-----------------------------------------------------------------------------
LEMMA InvInit == Init => TypeOK /\ LockInv /\ OwnerInv /\ DrainInv /\ BatchInv /\ FileInv
<1> SUFFICES ASSUME Init
             PROVE  TypeOK /\ LockInv /\ OwnerInv /\ DrainInv /\ BatchInv /\ FileInv
  OBVIOUS
<1>1. TypeOK
  BY TypeInit
<1>2. LockInv
  BY DEF Init, LockInv, Inside
<1>3. OwnerInv
  BY ConstantsAssumption DEF Init, OwnerInv, FiledUnder, InOnePlace, Held, Sources
<1>4. DrainInv
  BY DEF Init, DrainInv
<1>5. BatchInv
  BY DEF Init, BatchInv, BatchInOrder, Inside
<1>6. FileInv
  BY DEF Init, FileInv, Held
<1> QED
  BY <1>1, <1>2, <1>3, <1>4, <1>5, <1>6

(* The inductive invariant of the receiving side, whatever the network      *)
(* delivers, the poll thread times out and Create and CreateFile answer.    *)
THEOREM Invariance == Spec => []IInv
<1> DEFINE J == TypeOK /\ LockInv /\ OwnerInv /\ DrainInv /\ BatchInv /\ FileInv
<1>1. Init => J
  BY InvInit
<1>2. J /\ [Next]_vars => J'
  BY TypeStep, LockStep, OwnerStep, DrainStep, BatchStep, FileStep
<1>3. J => IInv
  BY OwnersPointwise DEF IInv
<1> QED
  BY <1>1, <1>2, <1>3, PTL DEF Spec

(* No packet is freed twice, used after it was freed, or leaked: at every   *)
(* moment each one has exactly one owner.                                   *)
THEOREM SingleOwnerHolds == Spec => []SingleOwner
<1>1. IInv => SingleOwner
  BY DEF IInv
<1> QED
  BY <1>1, Invariance, PTL

(* The receive loop leaves no extractable packet behind when it releases    *)
(* the source table.                                                        *)
THEOREM DrainedHolds == Spec => []DrainedAtEnd
<1>1. IInv => DrainedAtEnd
  BY DEF IInv, DrainInv, DrainedAtEnd
<1> QED
  BY <1>1, Invariance, PTL

(* The cursor shared with the poll thread is where the receive loop left it.*)
THEOREM CursorHolds == Spec => []CursorValid
<1>1. IInv => CursorValid
  BY DEF IInv, DrainInv, CursorValid
<1> QED
  BY <1>1, Invariance, PTL

(* Within one data access the payloads of a source are written in sequence. *)
THEOREM BatchInOrderHolds == Spec => []BatchInOrder
<1>1. IInv => BatchInOrder
  BY DEF IInv, BatchInv
<1> QED
  BY <1>1, Invariance, PTL

(* However the writes end, media that arrived for a validated source is     *)
(* missing from the file only where the library threw it away or a write    *)
(* failed (RTPHandler.cpp:77-81).                                           *)
THEOREM FileHolds == Spec => []OnlyFailedWritesAreMissing
<1>1. IInv => OnlyFailedWritesAreMissing
  <2> SUFFICES ASSUME IInv PROVE OnlyFailedWritesAreMissing
    OBVIOUS
  <2>1. TypeOK /\ SingleOwner /\ DrainInv /\ FileInv
    BY DEF IInv
  <2>2. OwnerInv
    BY <2>1, OwnersPointwise
  <2>3. ASSUME appPc = "end", NEW p \in Packets, InTable(SourceOf[p]),
               validated[SourceOf[p]], p \notin unsent
        PROVE  p \in written \union failed \union rawpackets \union discarded
    <3>1. packetlist[SourceOf[p]] = {}
      BY <2>1, <2>3 DEF DrainInv, InTable, HasData
    <3>2. Held = {}
      BY <2>3 DEF Held
    <3>3. p \in deleted => p \in written \union failed
      BY <2>1 DEF FileInv
    <3>4. InOnePlace(p)
      BY <2>2 DEF OwnerInv
    <3> QED
      BY <2>3, <3>1, <3>2, <3>3, <3>4 DEF InOnePlace
  <2> QED
    BY <2>1, <2>3 DEF FileInv, OnlyFailedWritesAreMissing
<1> QED
  BY <1>1, Invariance, PTL
=============================================================================
