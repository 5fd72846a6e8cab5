\* Nothing fails, and a message sent while the server connects is dropped.
CONSTANTS
  Msgs = {a}
  Faults = FALSE
  MaxGone = 0
  None = None
SPECIFICATION Spec
INVARIANTS
  SentIsWritten
CHECK_DEADLOCK FALSE
