------------------------------ MODULE RTPHandler ------------------------------
(***************************************************************************)
(* The RTP receiving side of the client.  Two threads share the jrtplib     *)
(* source table under sourcesmutex:                                         *)
(*                                                                          *)
(*  - the application thread runs RTPHandler::initRTPHandler and then       *)
(*    RTPHandler::recvPackets, whose endless loop drains every source with  *)
(*    data between BeginDataAccess and EndDataAccess and writes the         *)
(*    payloads to a file;                                                   *)
(*  - the poll thread that RTPSession::Create starts (its body is in the    *)
(*    library binary) moves datagrams from the transmitter into the source  *)
(*    table and removes the sources that timed out.                         *)
(*                                                                          *)
(* A datagram that the network never delivers stays in unsent; a duplicate  *)
(* is another member of Packets with the same source and number; delivery   *)
(* is in any order.                                                         *)
(***************************************************************************)
EXTENDS Integers, Sequences, FiniteSets

CONSTANTS
  SSRCs,               (* the remote sources that may send to this client  *)
  OwnSSRC,             (* this client's own entry in the source table      *)
  Packets,             (* the datagrams that may arrive, each at most once *)
  SourceOf,            (* SourceOf[p]: the SSRC in the header of p         *)
  ExtSeqNr,            (* ExtSeqNr[p]: the extended sequence number of p   *)
  PayloadLength,       (* PayloadLength[p]: bytes after the RTP header     *)
  RTP_PROBATIONCOUNT,  (* consecutive packets a new source has to show     *)
  NULL                 (* the null packet pointer                          *)

(* The application strips this many bytes from the front of every payload. *)
Strip == 4

Sources == SSRCs \union {OwnSSRC}

ASSUME ConstantsAssumption ==
  /\ OwnSSRC \notin SSRCs
  /\ NULL \notin Packets
  /\ SourceOf \in [Packets -> SSRCs]
  /\ ExtSeqNr \in [Packets -> Nat]
  /\ PayloadLength \in [Packets -> Nat]
  /\ RTP_PROBATIONCOUNT \in Nat \ {0}

VARIABLES
  created,      (* session.Create succeeded, so the poll thread runs       *)
  hFile,        (* CreateFile gave a usable handle                         *)
  appPc,        (* where the application thread is                         *)
  pollPc,       (* where the poll thread is                                *)
  sourcesmutex, (* the thread inside the source table: app, poll or none   *)
  sourcelist,   (* the source table, in the order of its linked list       *)
  cur,          (* position of the table's current element, 0 for null     *)
  validated,    (* per source: past probation                              *)
  probation,    (* per source: what remains of the probation, 0 not begun  *)
  prevseqnr,    (* per source: last number seen on probation               *)
  packetlist,   (* per source: received packets not extracted yet          *)
  packet,       (* the packet the application holds                        *)
  unsent,       (* datagrams that have not arrived                         *)
  rawpackets,   (* datagrams the transmitter has and the table has not     *)
  deleted,      (* packets freed by the application with DeletePacket      *)
  discarded,    (* packets freed by the library without being extracted    *)
  written,      (* packets whose whole payload is in the file              *)
  failed,       (* packets whose write failed or came out short            *)
  batch         (* packets extracted since BeginDataAccess, in that order  *)

sessionVars == <<created, hFile>>
tableVars   == <<sourcelist, cur>>
sourceVars  == <<validated, probation, prevseqnr>>
fileVars    == <<written, failed>>
appVars     == <<appPc, packet, deleted, fileVars, batch, hFile, created>>
pollVars    == <<pollPc, unsent, rawpackets, discarded>>
vars == <<created, hFile, appPc, pollPc, sourcesmutex, sourcelist, cur,
          validated, probation, prevseqnr, packetlist, packet, unsent,
          rawpackets, deleted, discarded, written, failed, batch>>

AppPcs  == {"init", "open", "begin", "first", "get", "write", "delete",
            "next", "end"}
PollPcs == {"off", "wait", "process", "timeouts"}

TypeOK ==
  /\ created \in BOOLEAN
  /\ hFile \in BOOLEAN
  /\ appPc \in AppPcs
  /\ pollPc \in PollPcs
  /\ sourcesmutex \in {"app", "poll", "none"}
  /\ sourcelist \in Seq(Sources)
  /\ cur \in 0 .. Len(sourcelist)
  /\ validated \in [Sources -> BOOLEAN]
  /\ probation \in [Sources -> 0 .. RTP_PROBATIONCOUNT]
  /\ prevseqnr \in [Sources -> Nat]
  /\ packetlist \in [Sources -> SUBSET Packets]
  /\ packet \in Packets \union {NULL}
  /\ appPc \in {"write", "delete"} => packet \in Packets
  /\ unsent \subseteq Packets
  /\ rawpackets \subseteq Packets
  /\ deleted \subseteq Packets
  /\ discarded \subseteq Packets
  /\ written \subseteq Packets
  /\ failed \subseteq Packets
  /\ batch \in Seq(Packets)

-----------------------------------------------------------------------------
(* The source table.                                                        *)

InTable(s) == \E i \in DOMAIN sourcelist : sourcelist[i] = s

(* RTPSourceData::HasData: a source on probation never has data, even when  *)
(* its packet list is not empty.                                            *)
HasData(s) == validated[s] /\ packetlist[s] # {}

(* Mutant: the search stops one source short of the end of the table.       *)
WithDataFromShort(i) ==
  {j \in i .. Len(sourcelist) - 1 : HasData(sourcelist[j])}

(* The positions from i on whose source has data.                           *)
WithDataFrom(i) == {j \in i .. Len(sourcelist) : HasData(sourcelist[j])}

(* Makes the first source with data at or after position i current, or     *)
(* leaves no current source; found tells which.                             *)
GotoWithDataFrom(i) ==
  \/ \E j \in WithDataFrom(i) :
       /\ \A k \in WithDataFrom(i) : j <= k
       /\ cur' = j
  \/ /\ WithDataFrom(i) = {}
     /\ cur' = 0

(* Mutant: packets are appended in arrival order, the list is not sorted.   *)
IsFrontUnsorted(p, s) == p \in packetlist[s]

(* The front of a source's packet list, which is sorted by sequence number  *)
(* and holds no number twice.                                               *)
IsFront(p, s) ==
  /\ p \in packetlist[s]
  /\ \A q \in packetlist[s] : ExtSeqNr[p] <= ExtSeqNr[q]

-----------------------------------------------------------------------------
(* The application thread.                                                  *)

(* initRTPHandler: the status of session.Create is ignored, so the thread   *)
(* goes on to recvPackets with or without a session.                        *)
InitRTPHandler ==
  /\ appPc = "init"
  /\ \E ok \in BOOLEAN :
       /\ created' = ok
       /\ IF ok THEN /\ pollPc' = "wait"
                     /\ sourcelist' = <<OwnSSRC>>
                ELSE UNCHANGED <<pollPc, sourcelist>>
  /\ cur' = 0
  /\ appPc' = "open"
  /\ UNCHANGED <<hFile, sourcesmutex, sourceVars, packetlist, packet,
                 unsent, rawpackets, deleted, discarded, fileVars, batch>>

(* recvPackets up to its loop: the handle of CreateFile is not checked.  The *)
(* destination it adds to the session before is one to send to.             *)
OpenFile ==
  /\ appPc = "open"
  /\ hFile' \in BOOLEAN
  /\ appPc' = "begin"
  /\ UNCHANGED <<created, pollPc, sourcesmutex, tableVars, sourceVars,
                 packetlist, packet, unsent, rawpackets, deleted, discarded,
                 fileVars, batch>>

(* Mutant: the table is used without taking sourcesmutex.                   *)
BeginDataAccessUnlocked ==
  /\ appPc = "begin"
  /\ appPc' = "first"
  /\ batch' = <<>>
  /\ UNCHANGED <<created, hFile, sourcesmutex, tableVars, sourceVars,
                 packetlist, packet, pollVars, deleted, fileVars>>

(* Without a session BeginDataAccess only returns an error.                 *)
BeginDataAccess ==
  /\ appPc = "begin"
  /\ created => sourcesmutex = "none"
  /\ sourcesmutex' = IF created THEN "app" ELSE sourcesmutex
  /\ appPc' = "first"
  /\ batch' = <<>>
  /\ UNCHANGED <<created, hFile, tableVars, sourceVars, packetlist, packet,
                 pollVars, deleted, fileVars>>

GotoFirstSourceWithData ==
  /\ appPc = "first"
  /\ GotoWithDataFrom(1)
  /\ appPc' = IF cur' # 0 THEN "get" ELSE "end"
  /\ UNCHANGED <<created, hFile, sourcesmutex, sourcelist, sourceVars,
                 packetlist, packet, pollVars, deleted, fileVars, batch>>

(* Mutant: the front packet is returned without being popped.               *)
GetNextPacketPeek ==
  /\ appPc = "get"
  /\ cur # 0
  /\ \E p \in packetlist[sourcelist[cur]] :
       /\ IsFront(p, sourcelist[cur])
       /\ packet' = p
       /\ batch' = <<p>>
  /\ appPc' = "write"
  /\ UNCHANGED <<created, hFile, sourcesmutex, tableVars, sourceVars,
                 packetlist, pollVars, deleted, fileVars>>

(* The front packet of the current source leaves its list and belongs to   *)
(* the application from here on.                                            *)
GetNextPacket ==
  /\ appPc = "get"
  /\ cur # 0
  /\ HasData(sourcelist[cur])
  /\ \E p \in packetlist[sourcelist[cur]] :
       /\ IsFront(p, sourcelist[cur])
       /\ packet' = p
       /\ packetlist' = [packetlist EXCEPT ![sourcelist[cur]] = @ \ {p}]
       /\ batch' = Append(batch, p)
  /\ appPc' = "write"
  /\ UNCHANGED <<created, hFile, sourcesmutex, tableVars, sourceVars,
                 pollVars, deleted, fileVars>>

(* GetNextPacket returned 0: the inner loop is over for this source.        *)
NoMorePackets ==
  /\ appPc = "get"
  /\ cur = 0 \/ ~HasData(sourcelist[cur])
  /\ packet' = NULL
  /\ appPc' = "next"
  /\ UNCHANGED <<created, hFile, sourcesmutex, tableVars, sourceVars,
                 packetlist, pollVars, deleted, fileVars, batch>>

(* Mutant: a packet that is all header, 4 bytes, is skipped.                *)
WriteFileOffByOne ==
  /\ appPc = "write"
  /\ \/ /\ hFile /\ PayloadLength[packet] > Strip
        /\ written' = written \union {packet}
        /\ UNCHANGED failed
     \/ /\ PayloadLength[packet] > Strip
        /\ failed' = failed \union {packet}
        /\ UNCHANGED written
     \/ /\ PayloadLength[packet] <= Strip
        /\ UNCHANGED fileVars
  /\ appPc' = "delete"
  /\ UNCHANGED <<created, hFile, sourcesmutex, tableVars, sourceVars,
                 packetlist, packet, pollVars, deleted, batch>>

(* The write may fail or be cut short (a full disk, an error of the device, *)
(* no usable handle): neither the result nor ReadSize is looked at.         *)
(* length - 4 is passed as a DWORD, which wraps to almost 2^32 for a        *)
(* payload shorter than 4 bytes: what that call may put into the file is    *)
(* not the packet's.                                                        *)
WriteFile ==
  /\ appPc = "write"
  /\ \/ /\ hFile
        /\ PayloadLength[packet] >= Strip
        /\ written' = written \union {packet}
        /\ UNCHANGED failed
     \/ /\ failed' = failed \union {packet}
        /\ UNCHANGED written
  /\ appPc' = "delete"
  /\ UNCHANGED <<created, hFile, sourcesmutex, tableVars, sourceVars,
                 packetlist, packet, pollVars, deleted, batch>>

DeletePacket ==
  /\ appPc = "delete"
  /\ deleted' = deleted \union {packet}
  /\ appPc' = "get"
  /\ UNCHANGED <<created, hFile, sourcesmutex, tableVars, sourceVars,
                 packetlist, packet, pollVars, fileVars, batch>>

GotoNextSourceWithData ==
  /\ appPc = "next"
  /\ GotoWithDataFrom(cur + 1)
  /\ appPc' = IF cur' # 0 THEN "get" ELSE "end"
  /\ UNCHANGED <<created, hFile, sourcesmutex, sourcelist, sourceVars,
                 packetlist, packet, pollVars, deleted, fileVars, batch>>

(* Mutant: EndDataAccess is forgotten before the loop goes round.           *)
EndDataAccessForgotten ==
  /\ appPc = "end"
  /\ appPc' = "begin"
  /\ UNCHANGED <<created, hFile, sourcesmutex, tableVars, sourceVars,
                 packetlist, packet, pollVars, deleted, fileVars>>
  /\ batch' = <<>>

(* Then the elapsed time is computed, used for nothing, and the loop goes   *)
(* round without waiting: done is never set.                                *)
EndDataAccess ==
  /\ appPc = "end"
  /\ sourcesmutex' = IF created THEN "none" ELSE sourcesmutex
  /\ appPc' = "begin"
  /\ UNCHANGED <<created, hFile, tableVars, sourceVars, packetlist, packet,
                 pollVars, deleted, fileVars, batch>>

-----------------------------------------------------------------------------
(* The poll thread (library binary, modelled from its contract).            *)

(* A datagram reaches the transmitter's list of raw packets.                *)
ReceiveRaw(p) ==
  /\ pollPc = "wait"
  /\ p \in unsent
  /\ unsent' = unsent \ {p}
  /\ rawpackets' = rawpackets \union {p}
  /\ UNCHANGED <<appVars, pollPc, sourcesmutex, tableVars, sourceVars,
                 packetlist, discarded>>

PollLock ==
  /\ pollPc = "wait"
  /\ sourcesmutex = "none"
  /\ sourcesmutex' = "poll"
  /\ pollPc' = "process"
  /\ UNCHANGED <<appVars, tableVars, sourceVars, packetlist, unsent,
                 rawpackets, discarded>>

(* The table with s in it.  Looking s up moves the cursor that the          *)
(* application also iterates with: to s, or to null when s is new.          *)
Obtain(s) ==
  \/ /\ cur' \in DOMAIN sourcelist
     /\ sourcelist[cur'] = s
     /\ UNCHANGED sourcelist
  \/ /\ ~InTable(s)
     /\ cur' = 0
     /\ sourcelist' = Append(sourcelist, s)

(* What the probation of s is after number n arrives: it starts over at     *)
(* every gap and ends when RTP_PROBATIONCOUNT successors were seen in a row.*)
ProbationAfter(s, n) ==
  IF probation[s] > 0 /\ n = prevseqnr[s] + 1
  THEN probation[s] - 1
  ELSE RTP_PROBATIONCOUNT

(* ProbationStore: packets of a source on probation are stored too, for     *)
(* later.  A number that is already in the list is not stored again.        *)
ProcessRTPPacket(p) ==
  LET s == SourceOf[p]
      n == ExtSeqNr[p]
  IN
  /\ pollPc = "process"
  /\ p \in rawpackets
  /\ rawpackets' = rawpackets \ {p}
  /\ Obtain(s)
  /\ IF validated[s]
     THEN UNCHANGED sourceVars
     ELSE /\ probation' = [probation EXCEPT ![s] = ProbationAfter(s, n)]
          /\ validated' = [validated EXCEPT ![s] = ProbationAfter(s, n) = 0]
          /\ prevseqnr' = [prevseqnr EXCEPT ![s] = n]
  /\ \/ /\ \A q \in packetlist[s] : ExtSeqNr[q] # n
        /\ packetlist' = [packetlist EXCEPT ![s] = @ \union {p}]
        /\ UNCHANGED discarded
     \/ /\ \E q \in packetlist[s] : ExtSeqNr[q] = n
        /\ discarded' = discarded \union {p}
        /\ UNCHANGED packetlist
  /\ UNCHANGED <<appVars, pollPc, sourcesmutex, unsent>>

(* A CNAME item for s validates it without any probation.                   *)
ProcessCNAME(s) ==
  /\ pollPc = "process"
  /\ s \in SSRCs
  /\ ~validated[s]
  /\ Obtain(s)
  /\ validated' = [validated EXCEPT ![s] = TRUE]
  /\ UNCHANGED <<appVars, pollPc, sourcesmutex, probation, prevseqnr,
                 packetlist, unsent, rawpackets, discarded>>

(* Every raw packet is in the table: on to the timeouts.                    *)
RawPacketsDone ==
  /\ pollPc = "process"
  /\ rawpackets = {}
  /\ pollPc' = "timeouts"
  /\ UNCHANGED <<appVars, sourcesmutex, tableVars, sourceVars, packetlist,
                 unsent, rawpackets, discarded>>

(* Mutant: the cursor is left where the removed element was.                *)
RemoveSourceDangling(i) ==
  LET s == sourcelist[i] IN
  /\ pollPc = "timeouts"
  /\ i \in DOMAIN sourcelist
  /\ s # OwnSSRC
  /\ sourcelist' = SubSeq(sourcelist, 1, i - 1)
                     \o SubSeq(sourcelist, i + 1, Len(sourcelist))
  /\ cur' = i
  /\ validated' = [validated EXCEPT ![s] = FALSE]
  /\ packetlist' = [packetlist EXCEPT ![s] = {}]
  /\ discarded' = discarded \union packetlist[s]
  /\ UNCHANGED <<appVars, pollPc, sourcesmutex, probation, prevseqnr,
                 unsent, rawpackets>>

(* A source that was silent too long, or that said BYE, is removed with the *)
(* packets nobody extracted.                                                *)
RemoveSource(i) ==
  LET s == sourcelist[i] IN
  /\ pollPc = "timeouts"
  /\ i \in DOMAIN sourcelist
  /\ s # OwnSSRC
  /\ sourcelist' = SubSeq(sourcelist, 1, i - 1)
                     \o SubSeq(sourcelist, i + 1, Len(sourcelist))
  /\ cur' = IF i < Len(sourcelist) THEN i ELSE 0
  /\ validated' = [validated EXCEPT ![s] = FALSE]
  /\ probation' = [probation EXCEPT ![s] = 0]
  /\ prevseqnr' = [prevseqnr EXCEPT ![s] = 0]
  /\ packetlist' = [packetlist EXCEPT ![s] = {}]
  /\ discarded' = discarded \union packetlist[s]
  /\ UNCHANGED <<appVars, pollPc, sourcesmutex, unsent, rawpackets>>

(* The iteration over the table is over, and with it the lock.              *)
PollUnlock ==
  /\ pollPc = "timeouts"
  /\ cur' = 0
  /\ sourcesmutex' = "none"
  /\ pollPc' = "wait"
  /\ UNCHANGED <<appVars, sourcelist, sourceVars, packetlist, unsent,
                 rawpackets, discarded>>

-----------------------------------------------------------------------------
Init ==
  /\ created = FALSE
  /\ hFile = FALSE
  /\ appPc = "init"
  /\ pollPc = "off"
  /\ sourcesmutex = "none"
  /\ sourcelist = <<>>
  /\ cur = 0
  /\ validated = [s \in Sources |-> s = OwnSSRC]
  /\ probation = [s \in Sources |-> 0]
  /\ prevseqnr = [s \in Sources |-> 0]
  /\ packetlist = [s \in Sources |-> {}]
  /\ packet = NULL
  /\ unsent = Packets
  /\ rawpackets = {}
  /\ deleted = {}
  /\ discarded = {}
  /\ written = {}
  /\ failed = {}
  /\ batch = <<>>

AppNext ==
  \/ InitRTPHandler
  \/ OpenFile
  \/ BeginDataAccess
  \/ GotoFirstSourceWithData
  \/ GetNextPacket
  \/ NoMorePackets
  \/ WriteFile
  \/ DeletePacket
  \/ GotoNextSourceWithData
  \/ EndDataAccess

PollNext ==
  \/ \E p \in Packets : ReceiveRaw(p) \/ ProcessRTPPacket(p)
  \/ PollLock
  \/ \E s \in SSRCs : ProcessCNAME(s)
  \/ RawPacketsDone
  \/ \E i \in DOMAIN sourcelist : RemoveSource(i)
  \/ PollUnlock

Next == AppNext \/ PollNext

(* Both threads are scheduled.  Each one leaves the lock for long stretches *)
(* (the poll thread sleeps in select between two rounds), so a thread that  *)
(* keeps asking for it gets it; the network owes nothing.                   *)
Fairness ==
  /\ WF_vars(AppNext)
  /\ SF_vars(BeginDataAccess)
  /\ WF_vars(\E p \in Packets : ProcessRTPPacket(p))
  /\ WF_vars(RawPacketsDone)
  /\ WF_vars(PollUnlock)
  /\ SF_vars(PollLock)

Spec == Init /\ [][Next]_vars

FairSpec == Spec /\ Fairness

-----------------------------------------------------------------------------
(* The application is between BeginDataAccess and EndDataAccess.            *)
Inside == appPc \in {"first", "get", "write", "delete", "next", "end"}

(* The packet the application is responsible for freeing, if any.           *)
Held == IF appPc \in {"write", "delete"} THEN {packet} ELSE {}

Stored == UNION {packetlist[s] : s \in Sources}

Owners == <<unsent, rawpackets, Stored, Held, deleted, discarded>>

(* At every moment exactly one party is responsible for a packet: the       *)
(* network, the transmitter, one source's list, the receive loop, or nobody *)
(* any more because one of the two threads freed it.  A packet in two       *)
(* places is freed twice or used after it was freed; one in none is leaked. *)
SingleOwner ==
  /\ \A p \in Packets : \E i \in DOMAIN Owners : p \in Owners[i]
  /\ \A i, j \in DOMAIN Owners : i # j => Owners[i] \cap Owners[j] = {}
  /\ \A s \in Sources : \A p \in packetlist[s] : SourceOf[p] = s

(* When the receive loop leaves the source table, it leaves nothing behind: *)
(* no source in the table has a packet that could still be extracted.  The  *)
(* loop visits each source once, so this needs that the poll thread adds    *)
(* nothing to, and reorders nothing in, the table meanwhile.                *)
DrainedAtEnd ==
  created /\ appPc = "end" =>
    \A i \in DOMAIN sourcelist : ~HasData(sourcelist[i])

(* While the receive loop iterates, the cursor it shares with the poll      *)
(* thread stays on the source whose packets it is extracting.               *)
CursorValid ==
  /\ appPc \in {"get", "write", "delete", "next"} => cur # 0
  /\ appPc \in {"write", "delete"} => SourceOf[packet] = sourcelist[cur]

(* During one data access the payloads of a source are handed to WriteFile  *)
(* in the order of their sequence numbers, none of them twice, whatever the *)
(* order in which the network delivered them.                               *)
BatchInOrder ==
  \A i, j \in DOMAIN batch :
    i < j /\ SourceOf[batch[i]] = SourceOf[batch[j]] =>
      ExtSeqNr[batch[i]] < ExtSeqNr[batch[j]]

(* The only way in which the client itself loses media is a write that      *)
(* failed unseen.  A packet is freed only after its write; nothing that the *)
(* library threw away is in the file; and when a data access ends, every    *)
(* datagram of a validated source that reached the transmitter is in the    *)
(* file, still with the transmitter, thrown away by the library (a second   *)
(* copy, or with its source), or its write failed.                          *)
OnlyFailedWritesAreMissing ==
  /\ deleted \subseteq written \union failed
  /\ written \subseteq deleted \union Held
  /\ ~hFile => written = {}
  /\ created /\ appPc = "end" =>
       \A p \in Packets :
         InTable(SourceOf[p]) /\ validated[SourceOf[p]] /\ p \notin unsent =>
           p \in written \union failed \union rawpackets \union discarded

(* A packet stored for a validated source is eventually extracted and freed *)
(* by the receive loop, or freed with its source when that times out.       *)
StoredIsExtracted ==
  \A p \in Packets :
    (\E s \in SSRCs : validated[s] /\ p \in packetlist[s])
      ~> p \in deleted \union discarded

(* A data access ends: the loop over the packets of a source and the loop   *)
(* over the sources terminate, since nobody refills what they drain.        *)
AccessEnds == Inside ~> ~Inside

(* The receive loop takes the lock again as soon as it has released it, and *)
(* still every datagram the transmitter has reaches the source table.       *)
ReceivedIsProcessed ==
  \A p \in Packets : p \in rawpackets ~> p \notin rawpackets

-----------------------------------------------------------------------------
(* What makes the invariants above inductive.                               *)

(* The lock is held by the thread that is inside the table, and there is a  *)
(* table to be inside of only once the session exists.                      *)
LockInv ==
  /\ sourcesmutex = "app" <=> created /\ Inside
  /\ sourcesmutex = "poll" <=> pollPc \in {"process", "timeouts"}
  /\ pollPc = "off" <=> ~created
  /\ appPc = "init" => ~created
  /\ ~created => sourcelist = <<>> /\ appPc \notin {"get", "write", "delete", "next"}

(* What the iteration has left behind it has no data any more.              *)
DrainInv ==
  /\ appPc \in {"get", "write", "delete", "next"} =>
       /\ cur # 0
       /\ \A i \in 1 .. cur - 1 : ~HasData(sourcelist[i])
  /\ appPc \in {"write", "delete"} => SourceOf[packet] = sourcelist[cur]
  /\ appPc = "next" => ~HasData(sourcelist[cur])
  /\ appPc = "end" => \A i \in DOMAIN sourcelist : ~HasData(sourcelist[i])

(* What was extracted precedes what is still in the list of its source.     *)
BatchInv ==
  /\ BatchInOrder
  /\ \A s \in Sources : \A p, q \in packetlist[s] :
       ExtSeqNr[p] = ExtSeqNr[q] => p = q
  /\ Inside => \A i \in DOMAIN batch :
       \A q \in packetlist[SourceOf[batch[i]]] : ExtSeqNr[batch[i]] < ExtSeqNr[q]

(* Between WriteFile and DeletePacket the write is over.                    *)
FileInv ==
  /\ deleted \subseteq written \union failed
  /\ written \subseteq deleted \union Held
  /\ ~hFile => written = {}
  /\ appPc \in {"init", "open"} => deleted = {}
  /\ appPc = "delete" => packet \in written \union failed

IInv ==
  TypeOK /\ LockInv /\ SingleOwner /\ DrainInv /\ BatchInv /\ FileInv
=============================================================================
