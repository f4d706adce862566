\* Two accounts, two transactions with three updates, a checkpoint, and a crash
\* besides the one the invariants suppose in every state.
SPECIFICATION Spec
CONSTANTS
  Accounts = {a, b}
  Values = {v, w}
  Absent = absent
  MaxTid = 2
  MaxUpdates = 3
  MaxCheckpoints = 1
  MaxCrashes = 1
SYMMETRY Symmetry
CONSTRAINT Dumped
INVARIANTS   OneOutcome
CHECK_DEADLOCK FALSE
