SPECIFICATION Spec
CONSTANTS
  Message = {reply, notice, lost, other}
  Pinned = {reply}
  Unreachable = {lost}
  OtherChannel = {other}
  Malformed = {}
  Prefetch = 2
  MaxAttempts = 3
  MaxFaults = 4
  MaxEnds = 1
INVARIANTS NothingLost CopiesExplained GivenUpLate
PROPERTIES EveryMessageSettles
CHECK_DEADLOCK FALSE
