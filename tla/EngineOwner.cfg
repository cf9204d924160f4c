CONSTANTS
    Bookings = {b1, b2}
    Calls = {c1, c2, c3}
    NoCall = NoCall
    NoBooking = NoBooking
    Starts = {2, 3, 8}
    Shapes <- MCShapes
    Days <- MCDays
    DayOf <- MCDayOf
    CancelWindow = 1
    MaxClock = 3
    Kinds = {"create", "reschedule", "cancel", "noShow", "confirm", "seen", "allSeen"}
SPECIFICATION Spec
SYMMETRY Symmetry
INVARIANT TypeOK
INVARIANT NoSilentOverlap
PROPERTY GoneStaysGone
PROPERTY RevisionAdvances
PROPERTY CustomerChangeIsFlagged
PROPERTY VerdictHoldsUnlessChanged
PROPERTY ImplementsCalendar
CHECK_DEADLOCK FALSE
