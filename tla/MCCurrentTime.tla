----------------------------- MODULE MCCurrentTime -----------------------------
(* Seconds of five microseconds, a counter of seven ticks per second that    *)
(* runs for twelve ticks, which is one second and three microseconds, and a  *)
(* system clock that may be set forward or back.                             *)
EXTENDS CurrentTime

(* The operators on all pairs of times of the instance.                     *)
ASSUME \A s, t \in Times : ExactPlus(s, t) /\ ExactOrder(s, t)
ASSUME \A t \in Times : NTPRoundTrip(t)
=============================================================================
