SPECIFICATION Spec
CONSTANTS
  NMessages = 2
  Malformed = {}
  ann = ann
  bob = bob
  direct = direct
  group = group
  t1 = t1
  t2 = t2
  t3 = t3
  User = {ann}
  Chat = {direct, group}
  UserOf <- OneUserOf
  ChatOf <- TwoChatOf
  Task = {t1, t2}
  Prefetch = 2
  MaxRetries = 2
  FaultKinds = {}
  MaxFaults = 0
  Nobody = Nobody
  Poller = Poller
  Sleeper = Sleeper
  Orphan = Orphan
INVARIANT ReplyReachesItsChat
