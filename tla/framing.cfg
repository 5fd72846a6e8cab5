\* Client side: five messages, one reconnect with the old streambuf.
CONSTANTS
  MaxMsgs = 5
  MaxEnds = 1
  KeepsBuffer = TRUE
SPECIFICATION Spec
INVARIANTS
  GarbledLinesHaveACause
  LoneMessageArrives
PROPERTIES
  ReadsLineByLine
CHECK_DEADLOCK FALSE
