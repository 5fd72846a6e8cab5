\* Two requests at work at a time, of every shape the checks tell apart, for two
\* plugins that come and go and register one method with either of two types.
CONSTANTS
  m1 = m1
  Plugins = {p1, p2}
  MethodNames = {m1}
  Types <- SomeTypes
  Lines <- SomeLines
  Reqs = {q1, q2}
  Contexts = {x1, x2}
  Values = {v1, v2}
  None = None
SPECIFICATION Spec
SYMMETRY Symmetry
INVARIANTS
  CalledOnlyIfAuthorised
  RespondedOnce
  NoRequestLost
  ResultFromItsContext
  LiveContextWaits
CHECK_DEADLOCK FALSE
