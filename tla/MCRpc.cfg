\* Calls that may give up, one restart.
SPECIFICATION Spec
CONSTANTS
  MaxXid = 4
  MaxRestarts = 1
INVARIANTS TypeOK AtMostOnce ReplyKept XidRepExact PatientNotRefused
CHECK_DEADLOCK FALSE
