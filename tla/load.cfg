\* Two loads of any files, with servers added and removed at any point of a frame.
CONSTANTS
  n1 = n1
  n2 = n2
  Names = {n1, n2}
  Objs = {s1, s2, s3}
  Absent = Absent
  NullPtr = NullPtr
  NotGiven = NotGiven
  NotAnAddress = NotAnAddress
  Files <- MCFiles
  TakenElsewhere <- MCTakenElsewhere
  MaxLoads = 2
  MaxBacklog = 1
  MaxAccepts = 1
SPECIFICATION FairSpec
INVARIANTS
  EachServicePolledOnce
  KnownServersArePolled
  FaultOnlyByAddInLoop
  ConfiguredServersKnown
  KnownHasSource
PROPERTIES
  EveryServicePolled
  ListensUntilAcceptFails
CHECK_DEADLOCK FALSE
