\* One request, two changes to the schedule, one appointment of the owner's.
CONSTANTS
    LastDate = 1
    WeekdayOf <- MCWeekdayOf
    DayEnd = 4
    ChangeAt = 1
    SpecialDates = {0}
    FirstHours <- MCFirstHours
    Ranges <- MCRanges
    Services <- MCServices
    Granularity = 1
    Notice = 1
    MaxAdvance = 0
    Moments <- MCMoments
    Requests = {r1}
    r1 = r1
    None = None
    MaxWrites = 2
    MaxOwned = 1
SPECIFICATION Spec
INVARIANT TypeOK
INVARIANT OfferedAsDefined
INVARIANT RowsOverlapOnlyByRace
INVARIANT BookedInsideHours
INVARIANT OfferedIsNotFlagged
CHECK_DEADLOCK FALSE
