SPECIFICATION FairSpec
CONSTANTS
  NTurns = 3
  MinEntries = 2
  MaxLen = 3
  MaxFacts = 2
  FactOf <- MCFactOf
  IdleTicks = 2
  StateTtl = 1
  FaultKinds = {"crash"}
  MaxFaults = 1
  Nobody = Nobody
  Worker = Worker
  Scan = Scan
  Cli = Cli
  Orphan = Orphan
PROPERTIES
  NextScanRetries
