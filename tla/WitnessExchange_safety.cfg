SPECIFICATION Spec
CONSTANTS
  w1 = w1
  w2 = w2
  i1 = i1
  i2 = i2
  i3 = i3
  Witness = {w1, w2}
  NodeId = {i1, i2, i3}
  MaxNodes = 3
  MaxWire = 2
  MaxList = 3
  MaxMishaps = 2
SYMMETRY Symmetry
INVARIANTS
  DagsVerify
  ReconcileIgnoresOrder
CHECK_DEADLOCK FALSE
