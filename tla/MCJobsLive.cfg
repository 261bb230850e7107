SPECIFICATION FairSpec
CONSTANTS
  p1 = p1
  p2 = p2
  p3 = p3
  Pids <- TwoPids
  Codes <- ZeroOne
  StopCode = 148
  MaxJobs = 2
  Interactive = FALSE
  Monitor = FALSE
  Pipefail = TRUE
  TopRuns <- ScriptRuns
  BodyRuns <- Nothing
  TrapRuns <- JobsOnly
  MayStop = FALSE
  ForkMayFail = TRUE
  MaxStages = 2
  MaxSignals = 1
  MaxDepth = 3
PROPERTY CommandsEnd
