\* Two calls, two requests, bodies of two replies, one plugin; every native.
CONSTANTS
  Plugins = {p1}
  Handles = {h1, h2}
  Ids = {i1, i2}
  Callbacks = {c1, c2}
  Methods = {}
  Params = {}
  Names = {n1}
  Objs = {s1}
  MaxBatch = 2
  None = None
  Absent = Absent
  NullPtr = NullPtr
SPECIFICATION Spec
SYMMETRY Symmetry
INVARIANTS
  AnsweredOnce
  NeverForgotten
  AnswerReleasesCall
  DanglingOnlyIfMisused
  NoUseAfterFreeIfUsedOnce
  AnswerReachesItsCallback
CHECK_DEADLOCK FALSE
