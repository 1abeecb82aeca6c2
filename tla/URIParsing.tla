------------------------------ MODULE URIParsing ------------------------------
(***************************************************************************)
(* URIInfo: takes "rtsp://address:port/path" apart.  The parser scans what  *)
(* follows the head and, at EVERY colon, fills the object's fields anew,    *)
(* without clearing the two text buffers, and goes on scanning.             *)
(*                                                                          *)
(* A character is a number: a digit is itself, Letter stands for whatever a *)
(* dotted address is written with, Colon and Slash for themselves, NUL ends *)
(* a text in a buffer.                                                      *)
(***************************************************************************)
EXTENDS Integers, Sequences

CONSTANTS
  Uris,      (* what may follow the head: texts whose fields fit           *)
  DotSize,   (* the size of the buffer dotIPAddr                           *)
  PortSize,  (* the size of the buffer strPort                             *)
  NoHead,    (* the input has no "rtsp://" in it                           *)
  Garbage    (* a value that was never written, or never converted         *)

Digits == 0 .. 9
Letter == 10
Colon  == 11
Slash  == 12
NUL    == 13
Chars  == Digits \union {Letter, Colon, Slash}

(* The text after the colon at position c of u goes up to the next slash.   *)
PortEnd(u, c) ==
  CHOOSE n \in c .. Len(u) :
    /\ \A j \in c + 1 .. n : u[j] # Slash
    /\ n < Len(u) => u[n + 1] = Slash

(* The input that the buffers are made for: what stands before and after a  *)
(* colon fits, with the NUL that ends it.                                   *)
ASSUME UriAssumption ==
  /\ DotSize \in Nat \ {0}
  /\ PortSize \in Nat \ {0}
  /\ NoHead \notin Uris
  /\ \A u \in Uris : u \in Seq(Chars) /\ \A c \in DOMAIN u :
       u[c] = Colon => c - 1 < DotSize /\ PortEnd(u, c) - c < PortSize

VARIABLES
  uri,        (* what follows the head, or NoHead                          *)
  pc,         (* find, scan or done                                        *)
  i,          (* the scan's position, counted from the end of the head     *)
  dotIPAddr,  (* buffer: the dotted address                                *)
  IPAddr,     (* the text of which the four numbers were converted         *)
  strPort,    (* buffer: the port as text                                  *)
  intPort,    (* the port as a number                                      *)
  flag        (* what initURIInfo returns                                  *)

vars == <<uri, pc, i, dotIPAddr, IPAddr, strPort, intPort, flag>>
fields == <<dotIPAddr, IPAddr, strPort, intPort>>

TypeOK ==
  /\ uri \in Uris \union {NoHead}
  /\ pc \in {"find", "scan", "done"}
  /\ uri # NoHead => i \in 1 .. Len(uri) + 1
  /\ dotIPAddr \in [0 .. DotSize - 1 -> Chars \union {NUL}]
  /\ strPort \in [0 .. PortSize - 1 -> Chars \union {NUL}]
  /\ dotIPAddr[DotSize - 1] = NUL /\ strPort[PortSize - 1] = NUL
  /\ intPort = Garbage \/ intPort \in Nat
  /\ flag \in {-1, 0}

-----------------------------------------------------------------------------
(* The C string in a buffer: what stands before the first NUL.              *)
Text(buf, size) ==
  LET n == CHOOSE k \in 0 .. size :
             /\ \A j \in 0 .. k - 1 : buf[j] # NUL
             /\ k < size => buf[k] = NUL
  IN [j \in 1 .. n |-> buf[j - 1]]

(* atoi: the value of the digits a text begins with, 0 if there is none.    *)
Atoi(buf) ==
  LET value[n \in 0 .. PortSize] ==
        IF n = 0 THEN 0
        ELSE IF \A j \in 0 .. n - 1 : buf[j] \in Digits
             THEN 10 * value[n - 1] + buf[n - 1]
             ELSE value[n - 1]
  IN value[PortSize]

(* Mutant: a slash does not end the port.                                   *)
CopyPortToTheEnd(c) ==
  [j \in 0 .. PortSize - 1 |->
     IF c + 1 + j <= Len(uri) THEN uri[c + 1 + j] ELSE strPort[j]]

(* strPort after the port behind the colon at c was copied into it: beyond  *)
(* the new text the buffer keeps what was in it.                            *)
CopyPort(c) ==
  [j \in 0 .. PortSize - 1 |->
     IF c + 1 + j <= PortEnd(uri, c) THEN uri[c + 1 + j] ELSE strPort[j]]

(* Mutant: the colon is copied with the address.                            *)
CopyAddressAndColon(c) ==
  [j \in 0 .. DotSize - 1 |-> IF j + 1 <= c THEN uri[j + 1] ELSE dotIPAddr[j]]

CopyAddress(c) ==
  [j \in 0 .. DotSize - 1 |-> IF j + 1 < c THEN uri[j + 1] ELSE dotIPAddr[j]]

(* inet_pton takes an address, here a text of letters.  When it refuses the *)
(* text, the four numbers come from a variable that was never written.      *)
Convert(t) ==
  IF t # <<>> /\ \A j \in DOMAIN t : t[j] = Letter THEN t ELSE Garbage

-----------------------------------------------------------------------------
FindHead ==
  /\ pc = "find"
  /\ pc' = IF uri = NoHead THEN "done" ELSE "scan"
  /\ UNCHANGED <<uri, i, fields, flag>>

(* Mutant: the scan does not move on.                                       *)
ScanOtherStuck ==
  /\ pc = "scan"
  /\ i <= Len(uri)
  /\ uri[i] # Colon
  /\ UNCHANGED vars

(* Mutant: the position is incremented twice in one pass.                   *)
ScanOtherTwice ==
  /\ pc = "scan"
  /\ i <= Len(uri)
  /\ uri[i] # Colon
  /\ i' = i + 2
  /\ UNCHANGED <<uri, pc, fields, flag>>

ScanOther ==
  /\ pc = "scan"
  /\ i <= Len(uri)
  /\ uri[i] # Colon
  /\ i' = i + 1
  /\ UNCHANGED <<uri, pc, fields, flag>>

(* An odd port ends the scan at once, otherwise it goes on.                 *)
ScanColon ==
  /\ pc = "scan"
  /\ i <= Len(uri)
  /\ uri[i] = Colon
  /\ dotIPAddr' = CopyAddress(i)
  /\ IPAddr' = Convert(Text(dotIPAddr', DotSize))
  /\ strPort' = CopyPort(i)
  /\ intPort' = Atoi(strPort')
  /\ \/ intPort' % 2 # 0 /\ pc' = "done" /\ i' = i
     \/ intPort' % 2 = 0 /\ pc' = "scan" /\ i' = i + 1
  /\ UNCHANGED <<uri, flag>>

(* The scan is over.  flag still is what it was set to at the start, -1.    *)
ScanEnds ==
  /\ pc = "scan"
  /\ i = Len(uri) + 1
  /\ pc' = "done"
  /\ UNCHANGED <<uri, i, fields, flag>>

Init ==
  /\ uri \in Uris \union {NoHead}
  /\ pc = "find"
  /\ i = 1
  /\ dotIPAddr = [j \in 0 .. DotSize - 1 |-> NUL]
  /\ IPAddr = Garbage
  /\ strPort = [j \in 0 .. PortSize - 1 |-> NUL]
  /\ intPort = Garbage
  /\ flag = -1

Next == FindHead \/ ScanOther \/ ScanColon \/ ScanEnds

Spec == Init /\ [][Next]_vars

(* One sequential call: the processor gets on with it.                      *)
FairSpec == Spec /\ WF_vars(Next)

-----------------------------------------------------------------------------
(* The colons at which the fields were filled in so far.                    *)
Handled ==
  IF uri = NoHead THEN {}
  ELSE {c \in DOMAIN uri : uri[c] = Colon /\ (c < i \/ (c = i /\ pc = "done"))}

IsLastHandled(c) == c \in Handled /\ \A d \in Handled : d <= c

(* The dotted address is the text before the last colon that was handled,   *)
(* with no rest of an earlier one behind it although the buffer was not     *)
(* cleared: each colon has a longer text before it than the one before.     *)
AddressIsBeforeColon ==
  \A c \in Handled : IsLastHandled(c) =>
    Text(dotIPAddr, DotSize) = SubSeq(uri, 1, c - 1)

(* The handled colons with at least j characters of port behind them.       *)
Reaching(j) == {c \in Handled : c + j <= PortEnd(uri, c)}

(* The port text is laid over the earlier ones: each of its characters is   *)
(* that of the latest port that is long enough to have one there.  So it    *)
(* begins with the port of the last colon, and is nothing else unless an    *)
(* earlier port was longer; then the rest of that is still behind it, and   *)
(* atoi takes both for one number ("a:12/b:4" has port 42).                 *)
PortLiesOverEarlierOnes ==
  LET text == Text(strPort, PortSize) IN
  /\ \A j \in 1 .. PortSize : j <= Len(text) <=> Reaching(j) # {}
  /\ \A j \in 1 .. Len(text) : \A c \in Reaching(j) :
       (\A d \in Reaching(j) : d <= c) => text[j] = uri[c + j]

(* The call returns.                                                        *)
Terminates == <>(pc = "done")

(* An address, a colon and an even number, then nothing or a path without a *)
(* colon in it.                                                             *)
WellFormed(u) ==
  \E c \in DOMAIN u : \E n \in c + 1 .. Len(u) :
    /\ c > 1
    /\ \A j \in 1 .. c - 1 : u[j] = Letter
    /\ u[c] = Colon
    /\ \A j \in c + 1 .. n : u[j] \in Digits
    /\ u[n] % 2 = 0
    /\ n < Len(u) => u[n + 1] = Slash
    /\ \A j \in n + 1 .. Len(u) : u[j] # Colon

(* URIParsing.h says of initURIInfo: on an error it returns -1, on success  *)
(* it returns 0.                                                            *)
SuccessReturnsZero ==
  pc = "done" /\ uri # NoHead /\ WellFormed(uri) => flag = 0
=============================================================================
