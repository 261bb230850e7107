SPECIFICATION Spec
CONSTANTS
  p1 = p1
  p2 = p2
  p3 = p3
  Pids <- TwoPids
  Codes <- JustZero
  StopCode = 148
  MaxJobs = 3
  Interactive = TRUE
  Monitor = TRUE
  Pipefail = TRUE
  TopRuns <- TerminalRuns
  BodyRuns <- Nothing
  TrapRuns <- AsyncOnly
  MayStop = TRUE
  ForkMayFail = TRUE
  MaxStages = 2
  MaxSignals = 1
  MaxDepth = 3
SYMMETRY PidSymmetry
INVARIANTS TypeOK JobNumbers HeldJobsLive
PROPERTY JobsLiveAndEnd
