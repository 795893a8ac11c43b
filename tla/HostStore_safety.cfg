SPECIFICATION FairSpec
CONSTANTS
  c1 = c1
  c2 = c2
  p1 = p1
  k1 = k1
  Request = {c1, c2, p1}
  CaseSave = {c1, c2}
  Versioned = {p1}
  Key = {k1}
  KeyOf <- OneKey
  Driver = {"memory", "file"}
  None = None
  MaxCrashes = 1
  MaxFaults = 1
INVARIANTS
  TypeOK
  EventsVerify
  AuditsVerifyUntilUndone
  AcknowledgedIsDurable
  BatchesAreWhole
PROPERTIES
  PutOffIsWritten
CHECK_DEADLOCK FALSE
