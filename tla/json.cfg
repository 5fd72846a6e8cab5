\* Two values of one plugin, one key, arrays of up to two elements; values in values.
CONSTANTS
  Handles = {h1, h2}
  Keys = {k1}
  Types = {"string", "int"}
  Arriving <- SomeArriving
  MaxLen = 2
  GivenValue = GivenValue
  HandleNumber = HandleNumber
  None = None
  Addresses = {1,2,3,4,5,6,7,8,9,10}
  Place <- FirstFree
SPECIFICATION MSpec
SYMMETRY Symmetry
VIEW UpToNames
INVARIANTS
  ThrowsOnlyIfMisused
  EachCellOwnedOnce
  HeapHoldsValues
PROPERTIES
  KeepsPromise
CHECK_DEADLOCK FALSE
