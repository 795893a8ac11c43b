SPECIFICATION Spec
CONSTANTS
  j1 = j1
  j2 = j2
  c1 = c1
  c2 = c2
  w1 = w1
  w2 = w2
  p1 = p1
  p2 = p2
  drain1 = drain1
  Job = {j1}
  Client = {c1, c2}
  Worker = {w1}
  Loop = {p1, drain1}
  PollLoop = {p1}
  OwnerOf <- OwnerOfDrain
  Keys <- SharedKeys
  Mortal = {w1}
  NoOwner = NoOwner
  NoJob = NoJob
  MaxAttempts = 3
  RetryBase = 1
  LeaseTicks = 2
  MaxJobs = 2
  StepTicks = 2
  MaxErrors = 1
PROPERTIES
  OnlyRacingPutReopens
