CONSTANTS
    Bookings = {b1}
    Channels = {email}
    Requests = {r1, r2}
    Drains = {d1}
    Starts = {2, 3}
    RemindersOn = TRUE
    Lead = 1
    Limit = 2
    MaxClock = 2
    MaxFaults = 1
SPECIFICATION FairSpec
INVARIANT TypeOK
INVARIANT QueueMatchesCalendar
INVARIANT SentMeansReceived
PROPERTY HandledStaysHandled
PROPERTY DueIsHandled
CHECK_DEADLOCK FALSE
