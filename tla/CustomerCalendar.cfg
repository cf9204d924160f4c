\* Seven taps on either page, one rival booking, one fault.
CONSTANTS
    cut = cut
    colour = colour
    Services = {cut, colour}
    Open <- MCOpen
    LastDay = 3
    DaysPerMonth = 2
    Managed = cut
    ManagedDay = 1
    None = None
    MaxTaps = 7
    MaxRivals = 1
    MaxFaults = 1
    MaxClock = 1
SPECIFICATION FairSpec




INVARIANT SelectedDayIsOnScreen
CHECK_DEADLOCK FALSE
