SPECIFICATION Spec
CONSTANTS
  g1 = g1
  g2 = g2
  group = group
  direct = direct
  Turn = {g1, g2, d1, other}
  Chat = {group, direct}
  ChatOf <- MCChatOf
  Pinned = {g1, g2}
  Unreachable = {}
  OtherChannel = {other}
  Prefetch = 2
  MaxFaults = 1
  MaxEnds = 1
INVARIANTS TypingEnds ShownWhileTyping
PROPERTIES EveryStopHandled
CHECK_DEADLOCK FALSE
