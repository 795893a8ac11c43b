SPECIFICATION FairSpec
CONSTANTS
  o1 = o1
  e1 = e1
  admin = admin
  b1 = b1
  b2 = b2
  r1 = r1
  r2 = r2
  c1 = c1
  Owner = {o1}
  Evaluator = {e1, admin}
  Admin = {admin}
  Observer = {b1, b2}
  Review = {r1}
  Case = {c1}
  Asked <- Asks
  None = None
  MaxVersion <- Versions
  MaxLate = 1
  MaxBroken = 1
INVARIANTS
  LedgersVerify
  EventsTellSaves
PROPERTIES
  SavesTakeTurns
  CallsEnd
CHECK_DEADLOCK FALSE
