SPECIFICATION Spec
CONSTANTS
  h1 = h1
  h2 = h2
  u1 = u1
  ra = ra
  rb = rb
  a1 = a1
  a2 = a2
  c1 = c1
  c2 = c2
  c3 = c3
  Host = {h1, h2}
  User = {u1}
  Rid = {ra, rb}
  Admin = {a1, a2}
  Client = {c1, c2, c3}
  None = None
  Absent = Absent
  MaxBreaks = 1
SYMMETRY Exchanges
INVARIANTS
  EndedSessionsServeNobody
  UnboundSessionsEnd
PROPERTIES
  RidIsBoundOnce
CHECK_DEADLOCK FALSE
