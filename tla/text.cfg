\* Every message cut at every byte, behind every start of another, and texts of
\* other implementations.
CONSTANTS
  Payloads <- MCPayloads
  TornPayloads <- MCTornPayloads
  MaxPiece = 6
  Foreign <- MCForeign
SPECIFICATION Spec
INVARIANTS
  WholeMessageSurvives
  SignatureSurvives
  ValueArrives
  GarbledIsRejected
  PassedOnUnchanged
CHECK_DEADLOCK FALSE
