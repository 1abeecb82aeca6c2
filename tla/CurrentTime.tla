------------------------------ MODULE CurrentTime ------------------------------
(***************************************************************************)
(* RTPTime::CurrentTime, as the threads of the client call it.  It takes    *)
(* the wall clock once and from then on adds what the performance counter   *)
(* has advanced.  What it keeps is in static variables without a lock: the  *)
(* first call, by the initializer object that the library constructs before *)
(* main, has to be over before a second thread exists.  That there is such  *)
(* a call is assumed of the library, see MayCall.                           *)
(*                                                                          *)
(* One step is one access to the counter, the system clock or a static.     *)
(***************************************************************************)
EXTENDS RTPTime

CONSTANTS
  Threads,      (* the threads that ask for the time                       *)
  Initializer,  (* the one that constructs RTPTimeInitializer              *)
  Receiver,     (* the one in recvPackets                                  *)
  Frequency,    (* ticks of the performance counter per second             *)
  MaxCount,     (* the counter stops here                                  *)
  WallTimes,    (* the microseconds since 1970 the system clock may show   *)
  LongRange     (* the number of values of an unsigned __int64             *)

(* The microseconds that the counter can have run for.                      *)
MaxMicroseconds == (MaxCount * Million) \div Frequency

(* Up to the end of the observation no time exceeds a word of seconds (with *)
(* 32 bits, the year 2106), and the words of CalculateMicroseconds hold its *)
(* products.                                                                *)
ASSUME CurrentTimeAssumption ==
  /\ {Initializer, Receiver} \subseteq Threads
  /\ Initializer # Receiver
  /\ Frequency \in Nat \ {0}
  /\ MaxCount \in Nat
  /\ WallTimes \subseteq Nat
  /\ LongRange \in Nat
  /\ \A w \in WallTimes : w + MaxMicroseconds < WordRange * Million
  /\ WordRange * Million <= LongRange
  /\ Frequency * Million <= LongRange

VARIABLES
  count,                 (* the performance counter                        *)
  inited,                (* static: the statics below are taken as set     *)
  performancefrequency,  (* static: ticks per second                       *)
  microseconds,          (* static: the system time of the first call      *)
  initmicroseconds,      (* static: the counter of the first call, in      *)
                         (* microseconds                                   *)
  constructed,           (* the initializer was constructed                *)
  pc,                    (* per thread: its next step in CurrentTime       *)
  performancecount,      (* per thread: the counter it has read            *)
  starttime,             (* recvPackets: the time at its start             *)
  elapsed,               (* recvPackets: t -= starttime                    *)
  latest,                (* history: the latest time returned so far       *)
  floor,                 (* history: per thread, latest when it called     *)
  startcount             (* history: the counter that starttime is from    *)

statics == <<inited, performancefrequency, microseconds, initmicroseconds>>
history == <<latest, floor, startcount>>
vars == <<count, statics, constructed, pc, performancecount, starttime, elapsed,
          history>>

(* starttime before recvPackets has set it                                  *)
NoTime == [sec |-> 0, microsec |-> Million]

Counts == 0 .. MaxCount

TypeOK ==
  /\ count \in Counts
  /\ inited \in BOOLEAN
  /\ performancefrequency \in {0, Frequency}
  /\ microseconds \in WallTimes \union {0}
  /\ initmicroseconds \in 0 .. MaxMicroseconds
  /\ constructed \in BOOLEAN
  /\ pc \in [Threads -> {"idle", "test", "mark", "frequency", "systemtime",
                         "initmicroseconds", "calculate"}]
  /\ performancecount \in [Threads -> Counts]
  /\ starttime \in Times \union {NoTime}
  /\ elapsed \in Times
  /\ latest \in Nat
  /\ floor \in [Threads -> Nat]
  /\ startcount \in Counts

-----------------------------------------------------------------------------
(* a microseconds-per-second of a counter with f ticks per second, without  *)
(* the overflow of a * Million.                                             *)
CalculateMicroseconds(a, f) ==
  (a \div f) * Million + ((a % f) * Million) \div f

(* The counter runs at a constant rate; nothing sets it back.               *)
Tick ==
  /\ count < MaxCount
  /\ count' = count + 1
  /\ UNCHANGED <<statics, constructed, pc, performancecount, starttime, elapsed,
                 history>>

Goto(th, step) == pc' = [pc EXCEPT ![th] = step]

(* Mutant: there is no initializer, the threads make the first call.        *)
MayCallFirst(th) == th # Initializer

(* Outside the repository: that the constructor of RTPTimeInitializer, in   *)
(* jrtplib.lib, asks for the time, that the object timeinit is constructed  *)
(* before main, while there is one thread, and that it asks no more.  The   *)
(* header declares the class and the object.                                *)
MayCall(th) == IF th = Initializer THEN ~constructed ELSE constructed

QueryPerformanceCounter(th) ==
  /\ pc[th] = "idle"
  /\ MayCall(th)
  /\ performancecount' = [performancecount EXCEPT ![th] = count]
  /\ floor' = [floor EXCEPT ![th] = latest]
  /\ Goto(th, "test")
  /\ UNCHANGED <<count, statics, constructed, starttime, elapsed, latest,
                 startcount>>

TestInited(th) ==
  /\ pc[th] = "test"
  /\ Goto(th, IF inited THEN "calculate" ELSE "mark")
  /\ UNCHANGED <<count, statics, constructed, performancecount, starttime,
                 elapsed, history>>

(* Mutant: the flag stays unset.                                            *)
MarkNothing(th) ==
  /\ pc[th] = "mark"
  /\ Goto(th, "frequency")
  /\ UNCHANGED <<count, statics, constructed, performancecount, starttime,
                 elapsed, history>>

(* The flag is set before what it announces.                                *)
MarkInited(th) ==
  /\ pc[th] = "mark"
  /\ inited' = TRUE
  /\ Goto(th, "frequency")
  /\ UNCHANGED <<count, performancefrequency, microseconds, initmicroseconds,
                 constructed, performancecount, starttime, elapsed, history>>

QueryPerformanceFrequency(th) ==
  /\ pc[th] = "frequency"
  /\ performancefrequency' = Frequency
  /\ Goto(th, "systemtime")
  /\ UNCHANGED <<count, inited, microseconds, initmicroseconds, constructed,
                 performancecount, starttime, elapsed, history>>

(* Mutant: the time is not brought from its own epoch to 1970.              *)
GetSystemTimeEpoch(th) ==
  /\ pc[th] = "systemtime"
  /\ microseconds' \in {w + NTPOffset * Million : w \in WallTimes}
  /\ Goto(th, "initmicroseconds")
  /\ UNCHANGED <<count, inited, performancefrequency, initmicroseconds,
                 constructed, performancecount, starttime, elapsed, history>>

(* The system clock may have been set to any time.                          *)
GetSystemTime(th) ==
  /\ pc[th] = "systemtime"
  /\ microseconds' \in WallTimes
  /\ Goto(th, "initmicroseconds")
  /\ UNCHANGED <<count, inited, performancefrequency, initmicroseconds,
                 constructed, performancecount, starttime, elapsed, history>>

SetInitMicroseconds(th) ==
  /\ pc[th] = "initmicroseconds"
  /\ initmicroseconds' =
       CalculateMicroseconds(performancecount[th], performancefrequency)
  /\ Goto(th, "calculate")
  /\ UNCHANGED <<count, inited, performancefrequency, microseconds, constructed,
                 performancecount, starttime, elapsed, history>>

(* What CurrentTime returns to a thread that read the counter a.            *)
TimeAt(a) ==
  LET emulate_microseconds == CalculateMicroseconds(a, performancefrequency)
      microdiff == (emulate_microseconds - initmicroseconds) % LongRange
      now == (microseconds + microdiff) % LongRange
  IN  [sec |-> (now \div Million) % WordRange, microsec |-> now % Million]

(* The call returns.  recvPackets keeps the first time and subtracts it     *)
(* from every later one.                                                    *)
Calculate(th) ==
  LET now == TimeAt(performancecount[th]) IN
  /\ pc[th] = "calculate"
  /\ IF th = Receiver
     THEN IF starttime = NoTime
          THEN /\ starttime' = now
               /\ startcount' = performancecount[th]
               /\ UNCHANGED elapsed
          ELSE /\ elapsed' = Minus(now, starttime)
               /\ UNCHANGED <<starttime, startcount>>
     ELSE UNCHANGED <<starttime, startcount, elapsed>>
  /\ constructed' = (constructed \/ th = Initializer)
  /\ latest' = IF Value(now) > latest THEN Value(now) ELSE latest
  /\ floor' = [floor EXCEPT ![th] = 0]
  /\ performancecount' = [performancecount EXCEPT ![th] = 0]
  /\ Goto(th, "idle")
  /\ UNCHANGED <<count, statics>>

-----------------------------------------------------------------------------
Init ==
  /\ count = 0
  /\ inited = FALSE
  /\ performancefrequency = 0
  /\ microseconds = 0
  /\ initmicroseconds = 0
  /\ constructed = FALSE
  /\ pc = [th \in Threads |-> "idle"]
  /\ performancecount = [th \in Threads |-> 0]
  /\ starttime = NoTime
  /\ elapsed = Zero
  /\ latest = 0
  /\ floor = [th \in Threads |-> 0]
  /\ startcount = 0

Next ==
  \/ Tick
  \/ \E th \in Threads :
       \/ QueryPerformanceCounter(th)
       \/ TestInited(th)
       \/ MarkInited(th)
       \/ QueryPerformanceFrequency(th)
       \/ GetSystemTime(th)
       \/ SetInitMicroseconds(th)
       \/ Calculate(th)

Spec == Init /\ [][Next]_vars

-----------------------------------------------------------------------------
(* No thread divides by a frequency that another one has yet to set: the    *)
(* flag that says so is set first, and only the order of construction       *)
(* before main keeps a second thread from seeing it too early.              *)
NoDivisionByZero ==
  \A th \in Threads :
    pc[th] \in {"initmicroseconds", "calculate"} => performancefrequency # 0

(* No call returns an earlier time than one that was over when it began,    *)
(* by whatever thread, however the system clock was set in between.         *)
NeverGoesBack ==
  [][\A th \in Threads :
       pc[th] = "calculate" /\ pc'[th] = "idle" =>
         floor[th] <= Value(TimeAt(performancecount[th]))]_vars

(* What recvPackets takes for the time since its start is that time, by the *)
(* counter, to less than a microsecond.                                     *)
ElapsedIsExact ==
  [][pc[Receiver] = "calculate" /\ pc'[Receiver] = "idle" /\ starttime # NoTime
       => LET ticks == performancecount[Receiver] - startcount
              error == Value(elapsed') * Frequency - ticks * Million
          IN  - Frequency < error /\ error < Frequency]_vars
=============================================================================
