# RayionClient: TLA+ models, model checking and proofs

RayionClient is a small Windows RTSP/RTP client: it connects to a media server
over TCP, performs the RTSP exchange in one thread, receives RTP packets in
another and appends their payloads to `C:\rtp.tmp`. It uses jrtplib 3 and
jthread, whose headers (with a good deal of inline code) and binaries are
checked in; the bodies of most library functions are only in the binaries.
`RTSPmsg.cpp` and `RTPHandler.h`, which `RayionClient.vcxproj` names, are not in
the repository.

Source references below are `file:line` under `src/`; `jrtplib3/` stands for
`src/jrtplib/include/jrtplib3/`.

## 1. Inventory

| Component | State | Operations | Talks to |
|---|---|---|---|
| main thread (`RayionClient.cpp` 20-79) | Winsock, the `Socket` object, `URIInfo`, one parameter object per thread, all in its stack frame | start-up, parse, connect, create both threads, spin for ever | threads, through pointers into its frame |
| URI parser (`URIParsing.cpp`) | dotted address, IP bytes, port as text and as number, in zeroed buffers | `initURIInfo`, `ParseURI`, getters | main |
| TCP socket (`WinSock.cpp`) | `RTSPSocket` | open, connect, close in the destructor | main, control thread (by handle) |
| RTSP control thread (`RayionClient.cpp` 83-118, `RTSPmsg.h`) | an `RTSPmsg` (socket, sequence number, session), the heartbeat timer | `play` (OPTIONS to PLAY), the control loop | server |
| RTP thread (`RTPHandler.cpp`) | the jrtplib session, the file handle, the packet in hand | `initRTPHandler`, the endless loop of `recvPackets` | source table, file |
| source table and poll thread (jrtplib `rtpsources.h`, `rtpsourcedata.h`, `rtpsession.h`) | sources in a linked list with a current element, packet list and probation per source, `sourcesmutex` | receive, process, look up, time out (poll thread); iterate, extract (application) | RTP thread, network |
| hash tables (`rtpkeyhashtable.h`, `rtphashtable.h`) | buckets, a linked list through all elements, a current element | add, delete, go to, iterate, clear | source table, transmitter |
| RTCP compound packet builder (`rtcpcompoundpacketbuilder.h`) | size accounting of report blocks, SDES sources and items | needed bytes, add | RTCP packet builder |
| RTCP packet views (`rtcpsdespacket.h`, `rtcpsrpacket.h`, `rtcprrpacket.h`, `rtcpbyepacket.h`, `rtcpapppacket.h`, `rtcpcompoundpacket.h`) | an iteration over bytes | checked accessors | source table |
| one entry of the source table (`rtpsourcedata.h`, `rtpinternalsourcedata.h`, `rtcpsdesinfo.h`, `rtprawpacket.h`) | the memory it owns: packets, two addresses, one buffer per SDES item; its last two sender and receiver reports; flags; times | process, set an address, set an item, extract, flush, delete | source table, raw packet, application |
| destinations (`rtpipv4destination.h`, `rtpipv6destination.h`) | an address, a port and the next port | comparison, hash index | the transmitters' hash tables |
| time (`rtptimeutilities.h`) | seconds and microseconds; static: flag, frequency and start of the performance counter | constructors, arithmetic, comparison, NTP conversion, current time | everything |

What is hard here: two threads around one table and its one cursor
(interleaving, stale cursor, ownership of packets), a network that loses,
reorders and duplicates, a server that need not answer, results nobody looks at
(`session.Create`, `CreateFile`, `WriteFile`, `CreateThread`, `WSAStartup`), objects shared by pointer into a
stack frame, pointer structures updated in place, and arithmetic at boundaries.
The list of hazards, each with its line and the properties that watch it, is in
`PROJECT.json`.

What makes each component correct, in a sentence: the receive loop frees every
packet exactly once, misses none that can be extracted, hands each to `WriteFile` once
before it frees it, in sequence and only while it alone is in the table; the threads find what main promised
them; the parser fills its fields from one place of the input; the hash table
is an ordered set with a cursor; the builder never counts a packet smaller than
it will be; the packet views return what was sent, whatever the bytes of a text
look like; every block of memory of a source has one owner; time values compare
and add like numbers, and the clock made of them never goes back.

## 2. Modules

| Module | Models | Theorems |
|---|---|---|
| `RTPHandler` | receive loop and poll thread around the source table | `RTPHandlerProofs` |
| `RayionClient` | main, control and RTP thread, shared objects, RTSP exchange | `RayionClientProofs` |
| `URIParsing` | the URI parser with its two buffers | `URIParsingProofs` |
| `OrderedTable` | abstract: an insertion-ordered set with a current element | |
| `RTPKeyHashTable` | the keyed hash table's pointers; implements `OrderedTable` | `RTPKeyHashTableProofs` |
| `RTPHashTable` | the table without keys, an instance of `RTPKeyHashTable` | |
| `Destinations` | the elements of the tables without keys: equality and hash index | in `RTPKeyHashTableProofs` |
| `CompoundPacketBuilder` | the builder's size accounting | `CompoundPacketBuilderProofs` |
| `SDESIteration` | abstract: two nested positions in chunks and items | |
| `ReportBlock` | the signed loss count in three bytes | in `RTCPCompoundPacketProofs` |
| `RTCPPacket` | packets as bytes, and the accessors of the views (extends `ReportBlock`) | in `RTCPCompoundPacketProofs` |
| `RTCPCompoundPacket` | the iterations over packets, chunks and items; implements `SDESIteration` | `RTCPCompoundPacketProofs` |
| `SourceData` | one entry of the source table and a datagram's way through it | `SourceDataProofs` |
| `RTPTime` | values and operators of `RTPTime` | in `CurrentTimeProofs` |
| `CurrentTime` | `CurrentTime` in several threads (extends `RTPTime`) | `CurrentTimeProofs` |
| `MC...` | the constants of the runs | |

Operators named `...Forgotten`, `...Peek`, `...Dangling` and the like, each under a
comment that begins with "Mutant", are deliberately wrong variants of the
definition after them. `PROJECT.json` pairs each with a property that must
notice it. No specification uses them.

### RTPHandler

Each variable has the source's name. `appPc` is the line of `recvPackets` the
application thread is at, `pollPc` the phase of the poll thread. One action per
library call of the loop (`RTPHandler.cpp` 55-85): `BeginDataAccess`,
`GotoFirstSourceWithData`, `GetNextPacket` or `NoMorePackets`, `WriteFile`,
`DeletePacket`, `GotoNextSourceWithData`, `EndDataAccess`. `session.Create` and
`CreateFile` may fail, and the loop then runs as the code does: without a lock
and without a table, or without a file. `GetNextPacket` and `HasData` are the
inline bodies of `rtpsourcedata.h`. The poll thread's actions are external: the
headers give the contract (`rtpsession.h` 267-337 and 545-570, `rtpsources.h`
76-83 and 192-277), the bodies are in the binary. The contract used is: a
packet is stored in sequence order, a number only once; a source is validated
after `RTP_PROBATIONCOUNT` consecutive packets or a CNAME; packets received on
probation are stored (`ProbationStore`, chosen in `rtpsessionsources.h` 52); a
look-up moves the table's cursor; a timeout frees a source with its packets;
all of this under `sourcesmutex`.

The code looks neither at `WriteFile`'s result nor at `ReadSize`
(`RTPHandler.cpp:77`), so in the model every write may fail or come out short, with a
usable handle too, and the packet is freed all the same. On a full disk media
is lost, then, without anything noticing it; what `OnlyFailedWritesAreMissing` says
is that this is the only loss the client itself adds to those of network and
library.

`deleted`, `discarded`, `written`, `failed` and `batch` are history variables: what the
application freed, what the library freed, whose whole payload is in the file,
whose write failed, and what this data access extracted.

### RayionClient

`mainPc`, `rtspPc` and `rtpPc` are the places of the three threads; the
parameter objects, the socket and Winsock are the shared state. Everything whose
result the code ignores (`WSAStartup`, `socket`, `CreateThread`) may fail; a
failed `connect` takes the early return and the destructor. `play` is external:
a sequence of the requests of `stdafx.h` 31-44. A request is sent, or that fails;
then the thread waits for the answer (`rtspPc` is `answer`), which the server gives,
refuses, or never gives: `WinSock.cpp` sets no timeout on the socket. The receive loop is one place here; it never returns, as in `RTPHandler`.

### URIParsing

One action per pass of the scan. A character is one of the kinds the code tells
apart (digits, colon, slash) or a letter that stands for the rest; `inet_pton`
accepts what is all letters, and otherwise the address numbers are `Garbage`,
since the code then reads a variable nobody wrote. The buffers keep their sizes
and their old contents. The program passes one URI only, which the run
includes; the others are inputs the class accepts whose fields fit the buffers
(`UriAssumption`). The code itself does not check that they fit (`URIParsing.cpp:59`
and 78); nothing here is said of inputs that do not.

After a second colon with a shorter port behind it the port buffer holds a rest of
the first: `rtsp://a:12/b:4` has port 42. `PortLiesOverEarlierOnes` describes exactly
what is left, and so when the port is the one that was written.

### OrderedTable and RTPKeyHashTable

A method is one step, since the table is only used under a lock. `Reached(p,
next)` is the set of elements a walk from `p` meets, written as the least set
closed under `next`: no recursion, so that the module can be proved about.
Memory given back loses its contents and its address may be handed out again.
`curset` says whether the current element was set since the constructor or the
last `Clear`, neither of which sets it; the callers' methods that use it are
guarded by it, which is a requirement on the callers and not a check in the
code. `earlier` is a history variable. The refinement mapping forgets the
pointers: members are the keys of live elements, the current key is the key of
the current element. `RTPHandler` uses the same table at the abstract level:
`sourcelist` is the members in order and `cur` the current one.

`rtphashtable.h` repeats that code with an element in the place of key and
element; `RTPHashTable` is therefore an instance with the element as its key, and
each of its methods has its own line in the map. That an element may be its own
key rests on `Destinations`: what `operator==` takes for equal is identical and has
one hash index.

### CompoundPacketBuilder

A part of the packet is represented by its sizes. The `NeededBytes` functions and
`SDES::AddSSRC`, `AddItem` are inline and translated; the guards of the `Add`
functions that call them are in the binary and follow the contract of the
header (lines 54-58): what would not fit is refused, the report comes first and
once, an item needs a source. `BytesOnTheWire` is the reference: the size of
the packets RFC 3550 lays out, written without the code's division and padding.
`EndBuild` is external as well; of what it clears, `ClearReport` and `ClearSDES` are
inline and translated.
BYE and APP packets are only sizes.

### RTCPPacket, RTCPCompoundPacket and SDESIteration

Here packets are bytes, since what can go wrong is that one byte is taken for
another: a length for a text, a text for an end. `PacketBytes` lays a packet out as
`rtpstructs.h` and the standard do, and is the reference; the accessors are
translated with their offsets, a pointer being an offset and 0 the null pointer.
`Sendable` is what fits the fields: words, texts whose length fits into a byte, as
many parts as the header counts; `CompoundAssumption` says that what is received was
laid out from that. The constructors are in the binary: a view of known format is
taken to hold what some sender laid out, one of unknown format anything. What a damaged packet
does to the iterations is therefore not covered. One step of
`RTCPCompoundPacket` is one call, and the calls of one iteration may be mixed with
those of the others in any order. `ChunkOf` and `ItemOf` map the offsets back to
positions; under them the calls implement `SDESIteration`.

### SourceData

One entry of the source table as `RTPInternalSourceData` keeps it, the raw packet
in work and the packets with the application. Memory is a set of blocks; `live`
are those allocated and not freed, and each pointer holds a block or `Null`. Any
allocation may fail, and the call then returns `ERR_RTP_OUTOFMEM`. Assumed of the
callers, from the headers: datagrams are worked on one at a time, in order of
arrival; a source is deleted between datagrams. Several datagrams may be received at
one reading of the clock, and a compound packet may hold any number of reports of a
participant, which are processed with one receive time. So the times of the last two
reports may be equal; `senderreports` and `reportblocks` count the reports up to two, as a
history, and `ReportsInOrder` relates them to what the entry says it has. All SDES items behave
alike, so one stands for them; `Lengths` contains one that is too long. An address
that is set to itself is copied and the old copy lost, which the code permits
(`rtpinternalsourcedata.h` 84); `selfset` remembers it, and it is the one leak
`OneOwner` excludes.

### RTPTime and CurrentTime

A time is a word of seconds and less than a second of microseconds; the word's
range, the length of a second and the NTP offset are parameters. `CurrentTime` is
the branch of the Windows build (`rtptimeutilities.h` 170-199). One step is one
access to a static variable, the performance counter or the system clock, in
the order of the code, in which the flag comes before what it announces.
That the first call is over before there is a second thread is an assumption about
the library, `MayCall`: `rtptimeutilities.h` 209-218 declares the class
`RTPTimeInitializer` and the object `timeinit`, whose constructor, in `jrtplib.lib`, is taken
to make that call before `main`. Nothing in the sources of the client makes it; without
it `NoDivisionByZero` fails, as its mutant shows. The system
clock may be set at any time; the counter runs at a constant rate. `recvPackets`
takes `starttime` and subtracts it from each later time, which is the receiver's
part of `Calculate`.

## 3. Runs

| Run | Shows | Bounds and why they are enough |
|---|---|---|
| `RTPHandler_safety` | ownership, complete drain, valid cursor, sequence order, what the file lacks | two sources; one sends three numbers and a copy of one of them, so gaps, reordering, duplicates, probation of 2 and its restart all occur; a payload has exactly 4 bytes, the two copies and the other source's packet fewer; every write may fail; the copies are alike, hence interchangeable |
| `RTPHandler_liveness` | data accesses end, received packets reach the table, stored ones leave it | three packets, probation 1: every lock hand-over and every removal still occurs |
| `RayionClient` | parameters, socket and clean-up; started threads get to work; the timer comes round | every failure branch; `TimerLimit` 20 for 100000, the loop has no other state |
| `RayionClient_heartbeat` | violated: no heartbeat is ever sent | same, `TimerLimit` 6 |
| `URIParsing` | buffer contents after each colon, the call returns | all texts of up to 6 characters over an odd digit, an even digit, letter, colon, slash (two colons with a shorter second port fit in), and `192.168.1.115:554/live` |
| `URIParsing_result` | violated: a successful parse does not return 0 | same |
| `RTPKeyHashTable` | chains and list complete, current element usable, refinement of `OrderedTable`, for the methods of both hash tables | three keys in one bucket, one in the other, one without; four interchangeable addresses, so first, middle, last and only element of chain and list are all removed and addresses are reused |
| `CompoundPacketBuilder` | estimate before an addition equals need after it; accounting equals what is written; the one way to exceed the maximum | two entries to a header (31 in the code), at most 24 or 100 bytes: three blocks or up to six sources, so headers are added twice; item lengths 6 and 13 reach every remainder modulo 4 |
| `CompoundPacketBuilder_source` | violated: the first source is estimated at less than 8 bytes | same |
| `CurrentTime` | no division by zero, time never goes back, an elapsed time is exact to a microsecond; all pairs of times through the operators | a second of 5 microseconds and 7 ticks of the counter, so neither divides the other and both roundings occur; the counter runs for twelve ticks, well past a second; the system clock shows either of two times at each reading; initializer, receiver and poll thread |
| `RTCPCompoundPacket` | views return what was sent; private items are shared out; refinement of `SDESIteration` | bytes of 16 values; one report, BYE or APP packet and one SDES packet of up to two chunks of up to two items: chunks and items that are empty, that end on a word and off one, texts that look like an end or another item; losses at both ends of three bytes and around zero; both formats |
| `SourceData` | one owner for each block; last and previous report against how many were processed, and times | four interchangeable blocks, so two are left for the raw packet while address and item are replaced; one SDES item with lengths that clear, fit and are too long; two readings of the clock, at each of which any number of datagrams and reports may come, so that reports move on with equal times and with different ones |

`CHECK_DEADLOCK FALSE` is set where the system may stop: the process ends when
the server cannot be reached, a parser call returns, a packet is built once, a
source is deleted and nothing is left of it.

### Fairness

`RTPHandler`: weak fairness for each thread's next step (both are scheduled by
the operating system, and no step but taking the lock blocks), strong fairness
for taking the lock in each thread. Strong is needed because the lock is free
only now and then: the loop takes it again as soon as it has released it. The
code justifies it as far as the lock does not starve a waiter for ever: the
poll thread sleeps in `select` between two rounds, and the loop is outside the
lock once in every round. Windows does not promise fair critical sections, so
this is an assumption about the platform. The network has no fairness: a
datagram may never arrive. The poll thread may also time sources out or process
CNAMEs at no particular time.

`RayionClient`: weak fairness for each thread's own steps. `connect` is among them, since
TCP gives up by itself, and so is sending a request, which is short and fits into
the buffers of the connection. The answer is the server's, and nothing is assumed of
it: the control thread may wait for ever, and `StartedThreadsRun` says that the RTP
thread starts all the same, that the control thread gets as far as a wait or its
end, and into the control loop only if it is not left waiting. `HeartBeatDueRecurs`
holds once it is in that loop. `URIParsing`: the call gets on.

### Findings

* `RayionClient.cpp:107`: the call of `HeartBeat` is commented out, while
  `RayionClient.h:13` and `RTSPmsg.h:26` describe it as a duty of the control
  thread (`RayionClient_heartbeat`).
* `URIParsing.cpp:92`: `flag` is never set to 0, while `URIParsing.h:19` promises 0
  for success (`URIParsing_result`).
* `jrtplib3/rtcpcompoundpacketbuilder.h:353`: for the first SDES source the
  estimate is 0, while the comment at 358 says at least 8 bytes are needed
  (`CompoundPacketBuilder_source`). With a caller that checks by this estimate
  the packet can get 12 bytes too long, and no more (`OvershootIsFirstSource`).

## 4. Proofs

What follows holds for every value of the constants under the named assumptions
of the modules.

`RTPHandlerProofs` (all sets of sources and packets, all sequence numbers, lengths
and probation counts; own SSRC not a sender's, `NULL` no packet):

* `TypeCorrect`: the type invariant;
* `Invariance`: the inductive invariant `IInv`;
* `SingleOwnerHolds`, `DrainedHolds`, `CursorHolds`, `BatchInOrderHolds`,
  `FileHolds`: the five safety properties of `RTPHandler_safety`.

None of the five is inductive. `IInv` adds `LockInv` (who is inside the table
holds the lock, and there is no table before the session exists), `DrainInv`
(what the iteration has left behind has no data), the part of `BatchInv` that
says what was extracted precedes what is still listed and that no list holds a
number twice, and `FileInv`: what was written is with the application or was freed
by it, and between the write and the delete the write is over, with whatever
result. That no packet is missing otherwise follows from the ownership and the
drain: at the end of an access a datagram that arrived is nowhere else. The argument for completeness of the drain, for example: while the
application is inside, `LockInv` makes every action of the poll thread that
touches the table disabled; so the sources before the cursor stay without data;
so when the search finds none from the cursor on, there is none at all. There
is one lemma per part, and in it one step per action that can disturb it.

`RayionClientProofs` (any `TimerLimit`, any media port): `ClientTypes`,
`ThreadsFindTheirParameters`, `SocketOutlivesExchange`, `EndIsClean`. The
properties speak of the threads; why they hold is in what main has done before
it creates them. The inductive invariant says that: `ThreadInv` (a thread exists
only from a place of main on), `FrameInv` (what main has acquired and filled in at
each place), `ExchangeInv` (the requests sent so far).

`URIParsingProofs` (any set of inputs whose fields fit, any buffer sizes):
`TypeCorrect`, `AddressIsThatOfLastColon`, `PortIsLaidOverEarlierOnes`. The inductive
invariant describes the whole contents of the address buffer by the last colon
handled and each character of the port buffer by the last colon whose port
reaches it; that there is a last one, and a first terminator in a buffer, follows
from the least-number principle. `TypeCorrect` includes that the last byte of either
buffer stays the terminator, however often it is written over. For `TypeCorrect` the value of the port's digits
has to be a number, whatever is in the buffer (`AtoiIsNat`).

`SourceDataProofs` (any number of blocks and items, any lengths): `SourceTypes`,
`EveryBlockHasOneOwner`, `ReportsAreInOrder`. `OneOwner` needs only to know that
without a raw packet in work its pointers are null (`RawInv`); `ReportsInOrder` needs
that nothing known is newer than the datagram in work, which has a receive time
(`TimesInv`), or a report would replace one that is newer.

`CurrentTimeProofs` (any word size, second, frequency, threads, settings of the
system clock):

* on the values: `MicrosecondsAreWhole` (the division in two parts is exact),
  `OrderIsExact`, `PlusIsExact`, `MinusIsExact`, `NTPRoundTripIsClose`;
* on the threads: `ClockTypes`, `NeverDividesByZero`, `ClockNeverGoesBack`,
  `ElapsedTimeIsExact`. The inductive invariant `ClockInv` has two halves: before
  `main` only the initializer runs, and the statics are set as far as it has come
  (`FirstCall`); afterwards they are set for good and every time returned is the
  start plus the microseconds the counter advanced (`ClockRuns`). That time
  never goes back is then that `CalculateMicroseconds` is monotonic, and the
  bound on the error that it rounds each of two counts down by less than one.
  `CurrentTimeAssumption` keeps the seconds below the wrap of their word: the system
  time of the first call and the microseconds that `MaxCount` ticks take at the
  counter's frequency (`MaxMicroseconds`) are less than `WordRange` seconds, which with 32
  bits is a run until the year 2106. It also asks that a second's microseconds
  times the frequency fit into 64 bits, the one product `CalculateMicroseconds` forms
  of the counter's rest.

`RTPKeyHashTableProofs` (any finite set of keys, any index function, number of
buckets and addresses): `TypeCorrect`, `ChainsAreComplete`, `ListIsComplete`,
`CurrentIsUsable`, `HashTableIsOrderedTable`. What the properties say about walks is
not inductive: a walk is a least fixpoint, and a step changes a pointer in the
middle of it. `IInv` says instead, pointer by pointer, what each is for: elements
have an order, older before newer (the history variable `earlier`); `ListInv` says
that `firsthashelem` is the least element, each `listnext` the least of those after
an element and each `listprev` the greatest of those before it; `ChainInv` says the
same of every bucket, from newest to oldest. A deletion takes an element out of
the middle of an order, an addition puts one at an end, and one lemma each shows
that the assignments of the code restore `Linked` (for the list and the chains alike).
That a walk over linked pointers meets every element follows from the order
being a well-order on a finite set. Every step of `IInv` maps to a step of
`OrderedTable`, with `Init` to `Init`: the table is a set of keys in the order of their
addition with a cursor, and buckets and collisions never show. In the same
module, for the tables whose elements are their own keys:
`EqualIPv4DestinationsAreOne`, `EqualIPv6DestinationsAreOne`.

`CompoundPacketBuilderProofs` (any header count, any maximum, item lengths of a byte,
other packets of any number of words): `TypeCorrect`, `EstimatesCorrect`, `OvershootBounded`,
`SizeCorrect`. The sums over items and sources are taken by a recursive function,
whose existence is shown from partial sums by the least-number principle; from
them come that appending an entry adds its size and that replacing the last one
changes the sum by the difference. `Headers` and `Padded` are shown to be the least
numbers that are large enough, which is how the reference `BytesOnTheWire` defines
them. `OvershootBounded` needs to know that all sizes are multiples of four, so
that what would not fit does not fit by a whole word.

`RTCPCompoundPacketProofs` (any range of a byte that is even, any packets that can
be sent, of any number of reports, chunks, items and bytes):

* `LossesKeepTheirSign`: the 24-bit loss count;
* `TypeCorrect`, `ReportsCorrect`, `ItemCorrect`, `PRIVCorrect`: the run's invariants;
* `IterationCorrect`: the refinement of `SDESIteration`.

The argument has three layers. On sequences: where a part starts in a
concatenation and that it stands there (`StartFacts`, `FlattenAt`,
`StandsParts`). On packets: for each packet type, at which offset each field
stands, so that the accessor that reads there reads it. On the iterations: the
inductive invariant says that an iteration is at the start of a chunk that was
sent, and there at the start of an item or at the zero behind the last
(`Placed`). Why it is kept: the length byte of an item that stands somewhere
leads to the next item, or to the zero that ends the chunk, so the loop of
`GotoNextChunk` comes to that zero and stays there, and the padding leads to the
next chunk. What an item's text looks like never enters, since nothing is read
at a place that is not a start.

### Only model-checked

* The liveness properties (`RTPHandler_liveness`, `StartedThreadsRun`,
  `HeartBeatDueRecurs`, the parser's return): fairness and `ENABLED` are out of the
  reach of the prover, and so are the three runs that expect a violation.
* That `RTPHashTable` is the keyed table with elements as keys is by its definition;
  the theorems about the keyed table are theorems about it.

The inductive invariants were checked by TLC before they were proved: `IInv` of
`RTPHandlerProofs`, `RTPKeyHashTableProofs` and `RTCPCompoundPacketProofs` on the constants
of the runs of their models.

## 5. Not modelled

* The bodies in `jrtplib.lib` and `jthread.lib`: RTCP processing and building,
  constructors of packets, SSRC collisions, transmitters, session; where a model
  needs them, they follow the contract of the headers and are marked external in
  the map.
* In `rtpsourcedata.h`: loss and jitter statistics, BYE reasons, private SDES items.
  In `rtptimeutilities.h`: `Wait`, which only sleeps, and the rounding of `double`
  (the conversions are on exact fractions). Every `Dump`.
* Session, transmission and scheduler parameters, packets to send, memory
  managers, random numbers: getters, setters and constants inline, the rest in
  the binary; the client sends no RTP.
* `RTPBuffer` of `RTPHandler.cpp` 106-129 (no caller: the lines that would use it are
  commented out); `BYEDestroy` at the end of `recvPackets` (unreachable, `done` is never
  set); the loss of the buffer `FileBuf` points to at `RTPHandler.cpp:76` (a leak of
  one allocation).

Most lines of `src/` are the headers of jrtplib, and most of a header is licence,
documentation and declarations. Code that does something is about 2400 lines
there, much of it getters; a share of 30% of all lines cannot be reached by
modelling behaviour that is in the repository.

## 6. Plan

1. A step from `RTPHandler` to `OrderedTable`: its table operations as compositions of
   the abstract ones, now that the table is known to implement it for all keys.
2. Constructors of the packet views from their documented checks, and packets
   that pass them without having been laid out by a sender; which of the
   accessors' reads then stay inside the packet, as a theorem over any bytes.
3. From the builder to the views: that what `CompoundPacketBuilder` accounts for is the
   length of the `PacketBytes` of its parts, which ties the two proofs together.
