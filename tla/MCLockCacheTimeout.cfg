SPECIFICATION SpecT
CONSTANTS
  Clients = {a, b}
  Threads = {t}
INVARIANT MutualExclusion
