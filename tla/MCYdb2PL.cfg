\* Three keys, two values, three transactions.  The pool has one thread per
\* transaction, just enough for all of them to wait.
SPECIFICATION Spec
CONSTANTS
  Keys = {x, y, z}
  Values = {empty, one}
  Empty = empty
  Absent = absent
  Workers = 3
  MaxTxns = 3
SYMMETRY Symmetry
VIEW WithoutHistory
INVARIANTS TypeOK LocksOwned DegreeIsInDegree DetectionExact NoDeadlock
PROPERTY SerialSpec
CHECK_DEADLOCK FALSE
