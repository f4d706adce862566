\* The second sender fails while the poll thread is on its way to write_cb.
SPECIFICATION Spec
CONSTANTS
  Senders = {s1, s2}
  Owner = owner
  Nobody = nobody
  PduSize = 2
  Window = 1
  MaxIncoming = 2
INVARIANTS WriteCbAlive
CHECK_DEADLOCK FALSE
