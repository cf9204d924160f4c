--------------------------- MODULE BookingCalendar ---------------------------
(***************************************************************************)
(* What the booking engine promises to everyone who reads the calendar,    *)
(* with no transactions, locks or clocks in it: a booking is placed, moved *)
(* or freed in one indivisible step, and whoever places it is told when it *)
(* lands on another live booking.  BookingEngine is shown to implement     *)
(* this specification, and the modules that use the engine through its     *)
(* results only build on it.                                               *)
(***************************************************************************)
EXTENDS Integers

CONSTANTS
    Bookings,   \* booking ids
    Slots       \* blocked intervals, records with integer fields from and until

ASSUME SlotsAreIntervals ==
    Slots \subseteq [from : Int, until : Int]

VARIABLES
    state,      \* Bookings -> "free" (no row) | "live" | "gone" (cancelled, missed)
    slot,       \* Bookings -> the interval the booking blocks
    told        \* Bookings -> whether its last placement was reported as overlapping

calendarVars == <<state, slot, told>>

Overlap(x, y) == x.from < y.until /\ x.until > y.from

\* The types of the calendar.
CalendarTypeOK ==
    /\ state \in [Bookings -> {"free", "live", "gone"}]
    /\ slot \in [Bookings -> Slots]
    /\ told \in [Bookings -> BOOLEAN]

CalendarInit ==
    /\ state = [b \in Bookings |-> "free"]
    /\ slot \in [Bookings -> Slots]
    /\ told = [b \in Bookings |-> FALSE]

Clear(b, s) ==
    \A other \in Bookings \ {b} : state[other] = "live" => ~Overlap(slot[other], s)

\* A booking is created at s, or moved there; t is what the caller is told.
Place(b, s, t) ==
    /\ t \/ Clear(b, s)
    /\ state' = [state EXCEPT ![b] = IF @ = "free" THEN "live" ELSE @]
    /\ slot' = [slot EXCEPT ![b] = s]
    /\ told' = [told EXCEPT ![b] = t]

\* Cancelled, or recorded as a no-show: the slot is given back for good.
Free(b) ==
    /\ state[b] # "free"
    /\ state' = [state EXCEPT ![b] = "gone"]
    /\ UNCHANGED <<slot, told>>

CalendarNext ==
    \E b \in Bookings :
        \/ \E s \in Slots, t \in BOOLEAN : Place(b, s, t)
        \/ Free(b)

CalendarSpec == CalendarInit /\ [][CalendarNext]_calendarVars

-----------------------------------------------------------------------------
\* Two live bookings overlap only if the one placed last was reported as
\* overlapping: nobody is double-booked without someone having been told.
CalendarNoSilentOverlap ==
    \A a, b \in Bookings :
        /\ a # b
        /\ state[a] = "live" /\ state[b] = "live"
        /\ Overlap(slot[a], slot[b])
        => told[a] \/ told[b]
=============================================================================
