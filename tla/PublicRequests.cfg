\* Three requests of two numbers, a cap of one, and a customer the owner must confirm.
CONSTANTS
    Bookings = {b1, b2}
    Slots <- MCSlots
    Phones = {p1, p2}
    NoPhone = NoPhone
    NoBooking = NoBooking
    Requests = {r1, r2, r3}
    Cap = 1
    Notice = 0
    ConfirmNew = TRUE
    MaxClock = 2
SPECIFICATION Spec
SYMMETRY Symmetry
INVARIANT TypeOK
INVARIANT OverlapsAreTheOwners
INVARIANT CapHoldsUnlessExcused
PROPERTY BlockedBooksNothing
PROPERTY ScreenedUnlessInserted
CHECK_DEADLOCK FALSE
