\* One call that may be sent again, two requests, bodies of two replies, and
\* method and parameters to set.  No symmetry: the property is a liveness one.
CONSTANTS
  Plugins = {p1}
  Handles = {h1}
  Ids = {i1, i2}
  Callbacks = {c1}
  Methods = {m1}
  Params = {a1}
  Names = {n1}
  Objs = {s1}
  MaxBatch = 2
  None = None
  Absent = Absent
  NullPtr = NullPtr
SPECIFICATION FairSpec
PROPERTIES
  ResultReachesPlugin
CHECK_DEADLOCK FALSE
