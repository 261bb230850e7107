SPECIFICATION Spec
CONSTANTS
  p1 = p1
  p2 = p2
  p3 = p3
  Pids <- ThreePids
  Codes <- ZeroOne
  StopCode = 148
  MaxJobs = 3
  Interactive = FALSE
  Monitor = FALSE
  Pipefail = TRUE
  TopRuns <- QuietRuns
  BodyRuns <- WaitOnly
  TrapRuns <- Nothing
  MayStop = FALSE
  ForkMayFail = FALSE
  MaxStages = 2
  MaxSignals = 0
  MaxDepth = 4
SYMMETRY PidSymmetry
INVARIANTS WaitTellsTheTruth ChildrenAccounted
PROPERTY WaitAllWaits
