\* A booking, its cancellation, and one drain; nothing fails.
CONSTANTS
    Bookings = {b1}
    Channels = {email}
    Requests = {r1, r2}
    Drains = {d1}
    Starts = {2}
    RemindersOn = TRUE
    Lead = 1
    Limit = 1
    MaxClock = 1
    MaxFaults = 0
SPECIFICATION Spec
SYMMETRY Symmetry
PROPERTY NoReminderOnceCancelled
CHECK_DEADLOCK FALSE
