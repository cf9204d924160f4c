\* Three calls on two days, each of them fairly scheduled; no symmetry, for liveness.
CONSTANTS
    Bookings = {b1, b2, b3}
    Calls = {c1, c2, c3}
    NoCall = NoCall
    NoBooking = NoBooking
    Starts = {2, 8}
    Shapes <- MCShapes
    Days <- MCDays
    DayOf <- MCDayOf
    CancelWindow = 1
    MaxClock = 1
    Kinds = {"create", "reschedule", "cancel"}
SPECIFICATION FairSpec
PROPERTY EveryCallEnds
CHECK_DEADLOCK FALSE
