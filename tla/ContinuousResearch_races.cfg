SPECIFICATION Spec
CONSTANTS
  a = a
  b = b
  c1 = c1
  c2 = c2
  r1 = r1
  r2 = r2
  Case = {c1, c2}
  Revision = {a}
  FirstContent = a
  Runner = {r1, r2}
  None = None
  MaxAttempts = 2
  PollInterval = 1
  StaleAfter = 0
  UniqueEvents = TRUE
  Faults = {"store", "loss", "late"}
  MaxFaults = 1
  MaxContents = 1
  MaxTime = 1
SYMMETRY CaseAndRunnerSymmetry
INVARIANTS
  CandidatesLinked
PROPERTIES
  StartedAtKept
  ReviewRequiredSticks
