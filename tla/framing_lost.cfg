\* Two messages that arrive in one read: the second is dropped.
CONSTANTS
  MaxMsgs = 2
  MaxEnds = 0
  KeepsBuffer = FALSE
SPECIFICATION Spec
INVARIANTS
  ArrivedIsHandled
CHECK_DEADLOCK FALSE
