SPECIFICATION Spec
CONSTANTS
  Clients = {a, b, c}
  Threads = {t, u}
SYMMETRY Symmetry
INVARIANTS TypeOK MutualExclusion HolderIsFront RevokedOnce RetryIsTaken
PROPERTY ServiceSpec
