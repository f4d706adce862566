\* Two threads per client share the condition variable of the lock.
SPECIFICATION FairSpec
CONSTANTS
  Clients = {a, b}
  Threads = {t, u}
PROPERTY ClientServed
