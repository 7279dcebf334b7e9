SPECIFICATION FairSpec
CONSTANTS
  NMessages = 2
  Malformed = {}
  ann = ann
  bob = bob
  direct = direct
  group = group
  t1 = t1
  t2 = t2
  t3 = t3
  User = {ann}
  Chat = {direct}
  UserOf <- OneUserOf
  ChatOf <- OneChatOf
  Task = {t1, t2}
  Prefetch = 2
  MaxRetries = 1
  FaultKinds = {"crash", "stop", "failure", "expiry", "reconnect"}
  MaxFaults = 1
  Nobody = Nobody
  Poller = Poller
  Sleeper = Sleeper
  Orphan = Orphan
PROPERTIES
  EventuallySettled
