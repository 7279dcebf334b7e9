SPECIFICATION LockFairSpec
CONSTANTS
  batch = batch
  poller = poller
  sleeper = sleeper
  k1 = k1
  k2 = k2
  k3 = k3
  k4 = k4
  NoToken = NoToken
  Client <- MCClient
  Token <- MCToken
  TtlOf <- MCTtlOf
INVARIANTS
  LeaseOwnsKey
  MutualExclusion
PROPERTIES
  NeverStuck
