-------------------------------- MODULE RTPTime --------------------------------
(***************************************************************************)
(* The values of class RTPTime, a number of seconds in a 32-bit word and a  *)
(* number of microseconds, and the operators on them.  The word and the     *)
(* second are parameters, so that TLC can look at all times.                *)
(***************************************************************************)
EXTENDS Integers

CONSTANTS
  WordRange,  (* the number of values of a uint32_t                        *)
  Million,    (* microseconds in a second                                  *)
  NTPOffset   (* RTP_NTPTIMEOFFSET, the seconds from 1900 to 1970          *)

(* Two second's fractions fit into a word.                                  *)
ASSUME RTPTimeAssumption ==
  /\ WordRange \in Nat
  /\ Million \in Nat \ {0}
  /\ 2 * Million <= WordRange
  /\ NTPOffset \in 0 .. WordRange - 1

Word == 0 .. WordRange - 1

(* The times the operators are meant for: less than a second of fraction.   *)
Times == [sec : Word, microsec : 0 .. Million - 1]

Zero == [sec |-> 0, microsec |-> 0]

(* A time as a number of microseconds.                                      *)
Value(t) == t.sec * Million + t.microsec

-----------------------------------------------------------------------------
(* Mutant: the second that is borrowed is not taken off.                    *)
MinusNoBorrow(s, t) ==
  [sec |-> (s.sec - t.sec) % WordRange,
   microsec |-> s.microsec - t.microsec +
                (IF t.microsec > s.microsec THEN Million ELSE 0)]

(* operator-=                                                               *)
Minus(s, t) ==
  LET borrow == t.microsec > s.microsec IN
  [sec |-> (s.sec - t.sec - (IF borrow THEN 1 ELSE 0)) % WordRange,
   microsec |-> s.microsec - t.microsec + (IF borrow THEN Million ELSE 0)]

(* operator+=                                                               *)
Plus(s, t) ==
  LET carry == s.microsec + t.microsec >= Million IN
  [sec |-> (s.sec + t.sec + (IF carry THEN 1 ELSE 0)) % WordRange,
   microsec |-> s.microsec + t.microsec - (IF carry THEN Million ELSE 0)]

(* operator<, operator>, operator<= and operator>=                          *)
Less(s, t) ==
  s.sec < t.sec \/ (s.sec = t.sec /\ s.microsec < t.microsec)

Greater(s, t) ==
  s.sec > t.sec \/ (s.sec = t.sec /\ s.microsec > t.microsec)

LessEqual(s, t) ==
  s.sec < t.sec \/ (s.sec = t.sec /\ s.microsec <= t.microsec)

GreaterEqual(s, t) ==
  s.sec > t.sec \/ (s.sec = t.sec /\ s.microsec >= t.microsec)

(* RTPTime(double) of the number n / d of seconds.                          *)
FromDouble(n, d) ==
  [sec |-> (n \div d) % WordRange, microsec |-> ((n % d) * Million) \div d]

(* GetNTPTime: seconds since 1900, and a fraction in units of a word's      *)
(* range.  The seconds wrap in 2036.  The rounding of the double does not   *)
(* move the whole part of the fraction.                                     *)
GetNTPTime(t) ==
  [msw |-> (t.sec + NTPOffset) % WordRange,
   lsw |-> (t.microsec * WordRange) \div Million]

(* RTPTime(RTPNTPTime): what is before 1970 becomes zero.                   *)
FromNTPTime(n) ==
  IF n.msw < NTPOffset
  THEN Zero
  ELSE [sec |-> n.msw - NTPOffset,
        microsec |-> (n.lsw * Million) \div WordRange]

-----------------------------------------------------------------------------
(* The sum of two times is a time again, that of the sum of the numbers up  *)
(* to the wrap of the seconds; and so is the difference.                    *)
ExactPlus(s, t) ==
  /\ Plus(s, t) \in Times
  /\ Value(Plus(s, t)) = (Value(s) + Value(t)) % (WordRange * Million)

ExactMinus(s, t) ==
  /\ Minus(s, t) \in Times
  /\ Value(Minus(s, t)) = (Value(s) - Value(t)) % (WordRange * Million)

(* The four comparisons order times as their numbers are ordered.           *)
ExactOrder(s, t) ==
  /\ Less(s, t) <=> Value(s) < Value(t)
  /\ Greater(s, t) <=> Value(s) > Value(t)
  /\ LessEqual(s, t) <=> Value(s) <= Value(t)
  /\ GreaterEqual(s, t) <=> Value(s) >= Value(t)

(* To NTP and back loses at most a microsecond, until the seconds since     *)
(* 1900 wrap; from then on a time comes back as zero.                       *)
NTPRoundTrip(t) ==
  LET back == FromNTPTime(GetNTPTime(t)) IN
  IF t.sec + NTPOffset < WordRange
  THEN back \in Times /\ Value(t) - Value(back) \in {0, 1}
  ELSE back = Zero
=============================================================================
