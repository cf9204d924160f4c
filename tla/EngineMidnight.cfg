\* Two customers book on either side of midnight.
CONSTANTS
    Bookings = {b1, b2}
    Calls = {c1, c2}
    NoCall = NoCall
    NoBooking = NoBooking
    Starts = {5, 6}
    Shapes <- MCShapes
    Days <- MCDays
    DayOf <- MCDayOf
    CancelWindow = 1
    MaxClock = 1
    Kinds = {"create"}
SPECIFICATION Spec
INVARIANT NoSilentOverlap
CHECK_DEADLOCK FALSE
