SPECIFICATION Spec
CONSTANTS
  Keys = {x, y}
  Values = {empty, one}
  Empty = empty
  Absent = absent
  MaxTxns = 3
SYMMETRY Symmetry
INVARIANTS TypeOK ValidReadsCurrent DoomedByConflict
PROPERTY SerialSpec
CHECK_DEADLOCK FALSE
