\* A broadcast after the lookup of an unknown name.
CONSTANTS
  Plugins = {p1}
  Handles = {h1, h2}
  Ids = {i1, i2}
  Callbacks = {c1, c2}
  Methods = {}
  Params = {}
  Names = {n1}
  Objs = {s1}
  MaxBatch = 2
  None = None
  Absent = Absent
  NullPtr = NullPtr
SPECIFICATION Spec
INVARIANTS
  BroadcastReachesServers
CHECK_DEADLOCK FALSE
