SPECIFICATION ScanSpec
CONSTANTS
  NSources = 2
  MaxEntries <- MCMaxEntries
  PageSize = 2
  RunBudget = 1
  NotifyLimit = 1
  MaxFaults = 1
  MaxExpiries = 1
  MaxSwitches = 1
INVARIANTS AnnouncedPerClaim NotificationsBounded RelevantIsKept
PROPERTIES EveryoneIsPolled
