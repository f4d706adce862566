\* One thread per client: contention is between clients only.
SPECIFICATION FairSpec
CONSTANTS
  Clients = {a, b, c}
  Threads = {t}
PROPERTY ClientServed
