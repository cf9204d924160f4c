--------------------------- MODULE MCBookingEngine ---------------------------
(***************************************************************************)
(* Small businesses for BookingEngine.  A day is six units long, so that   *)
(* starts 2 and 3 are on day 0 and can clash, and 8 is on day 1.           *)
(***************************************************************************)
EXTENDS BookingEngine, FiniteSets, TLC

DayLength == 6
MCDayOf(t) == t \div DayLength
MCDays == 0 .. 1
MCShapes == {[dur |-> 1, before |-> 0, after |-> 1]}

\* These businesses close around midnight.
ASSUME OverlapsShareADay

Symmetry == Permutations(Calls) \cup Permutations(Bookings)

=============================================================================
