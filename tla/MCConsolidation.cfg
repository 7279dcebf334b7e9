SPECIFICATION FairSpec
CONSTANTS
  NTurns = 3
  MinEntries = 2
  MaxLen = 3
  MaxFacts = 2
  FactOf <- MCFactOf
  IdleTicks = 1
  StateTtl = 1
  FaultKinds = {"crash", "failure", "redis", "embed", "expiry"}
  MaxFaults = 2
  Nobody = Nobody
  Worker = Worker
  Scan = Scan
  Cli = Cli
  Orphan = Orphan
INVARIANTS
  NoTurnForgotten
  FactsBeforeSummary
  ThinkingExpires
PROPERTIES
  SwapsWorthwhile
  EventuallyConsolidated
