\* Two attempts in two units of time, six checks, and room for two of three keys.
CONSTANTS
    Addresses = {a1, a2, a3}
    Unknown = Unknown
    Junk = Junk
    Hops = 1
    Headers <- MCHeaders
    Limit = 2
    Window = 2
    MaxKeys = 2
    MaxClock = 6
    MaxChecks = 6
SPECIFICATION Spec
SYMMETRY Symmetry
INVARIANT TypeOK
INVARIANT LimitHolds
PROPERTY RetryIsExact
PROPERTY DropOnlyWhenFull
PROPERTY CountedByPeer
CHECK_DEADLOCK FALSE
