\* Texts of other implementations, numbers beyond the doubles among them.
CONSTANTS
  Payloads = {}
  TornPayloads = {}
  MaxPiece = 0
  Foreign <- MCForeign
SPECIFICATION Spec
INVARIANT ParsedCanBePassedOn
CHECK_DEADLOCK FALSE
