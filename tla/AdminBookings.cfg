SPECIFICATION Spec
CONSTANTS
  Bookings = {1, 2, 3}
  First <- MCFirst
  Slots = {1, 2}
  Questions = {"cancel"}
  TTL = 0
  MaxNow = 1
  MaxCalls = 2
  MaxOthers = 1
  None = None
PROPERTY NoRevert
PROPERTY OverlapIsChosen
CHECK_DEADLOCK FALSE
