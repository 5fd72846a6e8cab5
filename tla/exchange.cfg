\* Two messages over a connection that may fail and that the peer ends twice, with
\* clocks at most a second apart.
CONSTANTS
  Msgs = {a, b}
  Faults = TRUE
  MaxGone = 2
  None = None
  Window = 1
  MaxSkew = 1
SPECIFICATION XFairSpec
INVARIANTS
  ExchangeAccounted
  OneReaderIfOneConnect
  ConnectedServerReads
  QuietSendIsWritten
  LossHasCause
PROPERTIES
  PromiseKept
  CallConcludes
  LinesAreFramed
CHECK_DEADLOCK FALSE
