SPECIFICATION Spec
CONSTANTS
  CallIds = {c1, c2, c3}
  NoCall = NoCall
  KeepText = 1
  KeepTools = 1
  MaxRows = 5
SYMMETRY CallSymmetry
INVARIANT ScansAgree
INVARIANT UnitCompactionRendersValid
CHECK_DEADLOCK FALSE
