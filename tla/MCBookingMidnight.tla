-------------------------- MODULE MCBookingMidnight --------------------------
(***************************************************************************)
(* A business that is open at midnight: days are six units long, and what  *)
(* is booked at 5 still blocks the first unit of the next day: here        *)
(* OverlapsShareADay is false.                                             *)
(***************************************************************************)
EXTENDS BookingEngine

DayLength == 6
MCDayOf(t) == t \div DayLength
MCDays == 0 .. 1
MCShapes == {[dur |-> 1, before |-> 0, after |-> 1]}
=============================================================================
