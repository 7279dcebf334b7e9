SPECIFICATION Spec
CONSTANTS
  u1 = u1
  r1 = r1
  r2 = r2
  r3 = r3
  g1 = g1
  g2 = g2
  q1 = q1
  q2 = q2
  q3 = q3
  Update = {u1}
  Record = {r1, r2, r3}
  Group = {g1, g2}
  GroupOf <- MCGroupOf
  Agendas <- MCAgendas
  QueueSize = 2
  BatchSize = 2
  Ephemeral = TRUE
  HeartbeatTtl = 3
  MaxStarts = 2
  Absent = Absent
  STOP = STOP
  Request = {q1, q2, q3}
  SubjectOf <- MCSubjectOf
  HealthyAge = 2
  Ttl = 1
  StaleTtl = 2
  NegativeTtl = 1
  LoadTimeout = 1
  Nobody = Nobody
INVARIANTS CountsAreReal NothingHeldWhenDown ShownIsRecent HealthyMeansAlive
CHECK_DEADLOCK FALSE
