SPECIFICATION FairSpec
CONSTANTS
  j1 = j1
  j2 = j2
  c1 = c1
  c2 = c2
  w1 = w1
  w2 = w2
  p1 = p1
  p2 = p2
  drain1 = drain1
  Job = {j1, j2}
  Client = {c1, c2}
  Worker = {w1, w2}
  Loop = {p1, p2}
  PollLoop = {p1, p2}
  OwnerOf <- OwnerOfPoll
  Keys <- OwnKeys
  Mortal = {w1}
  NoOwner = NoOwner
  NoJob = NoJob
  MaxAttempts = 2
  RetryBase = 1
  LeaseTicks = 3
  MaxJobs = 2
  StepTicks = 1
  MaxErrors = 1
PROPERTIES
  EveryJobSettles
