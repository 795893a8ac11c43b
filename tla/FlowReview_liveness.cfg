SPECIFICATION FairSpec
CONSTANTS
  f1 = f1
  f2 = f2
  a1 = a1
  a2 = a2
  r1 = r1
  r2 = r2
  h1 = h1
  h2 = h2
  v1 = v1
  v2 = v2
  None = None
  Flow = {f1}
  Actor = {a1}
  Request = {r1, r2}
  Host = {h1}
  Review = {v1, v2}
  Faulty <- AllButSave
  MaxFaults = 2
  MaxBoots = 2
INVARIANTS
  OneWitness
  WitnessIsSaved
  ReplaysConverge
PROPERTIES
  IntentIsSettled
