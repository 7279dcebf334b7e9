SPECIFICATION Spec
CONSTANTS
  Web = {w1}
  Guest = {d1, d2}
  Telegram = {t1, t2}
  Code = {c1, c2}
  Request = {q1}
  Command = {m1, m2}
  Batch = {b1}
  MaxTurns = 1
  MaxFaults = 1
  MaxCrashes = 1
  Unused = Unused
  Gone = Gone
  Unbound = Unbound
  NoAccount = NoAccount
  NoCode = NoCode
INVARIANTS CodeUsedOnce TurnsFollow LinkedMeansBound NothingLeftBehind
SYMMETRY LinkSymmetry
CHECK_DEADLOCK FALSE
