\* A holder of the lock, the writer before it, and one lookup.
SPECIFICATION Spec
CONSTANTS
  Clients = {a, b, c}
  Values = {empty, one}
  Empty = empty
  Nobody = nobody
  MaxLookups = 1
SYMMETRY Symmetry
CONSTRAINT Unmixed
INVARIANTS TypeOK Coherent NotLost KeepsWritingAlone RequiredHasItem
