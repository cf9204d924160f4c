SPECIFICATION Spec
CONSTANTS
  Services = {1, 2, 3}
  FirstServices = {1, 3}
  HoursKinds <- MCHoursKinds
  Texts = {1, 2}
  MaxCalls = 2
  MaxRivals = 1
  None = None
INVARIANT TypeOK
INVARIANT OwnWritesAreShown
INVARIANT ButtonsTellTheTruth
 
PROPERTY ClosesForItsOwnCall
CHECK_DEADLOCK FALSE
