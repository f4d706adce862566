\* Two threads send over a socket that holds less than a PDU.
SPECIFICATION Spec
CONSTANTS
  Senders = {s1, s2}
  Owner = owner
  Nobody = nobody
  PduSize = 2
  Window = 1
  MaxIncoming = 2
INVARIANTS TypeOK PdusWhole SendTellsTheTruth DeletedUnused NobodyForgotten
PROPERTIES SendReturns CloseNoticed
CHECK_DEADLOCK FALSE
