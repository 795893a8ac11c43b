SPECIFICATION FairSpec
CONSTANTS
  a = a
  b = b
  c1 = c1
  c2 = c2
  r1 = r1
  r2 = r2
  Case = {c1}
  Revision = {a, b}
  FirstContent = a
  Runner = {r1}
  None = None
  MaxAttempts = 2
  PollInterval = 1
  StaleAfter = 9
  UniqueEvents = TRUE
  Faults = {"retrieval", "store", "loss"}
  MaxFaults = 1
  MaxContents = 3
  MaxTime = 1
INVARIANTS
  CompletedRunsReviewed
  UnavailableHasCause
  DueSlotIsOpen
PROPERTIES
  DueSourceIsPolled
