SPECIFICATION Spec
CONSTANTS
  p1 = p1
  p2 = p2
  p3 = p3
  Pids <- TwoPids
  Codes <- ZeroOne
  StopCode = 148
  MaxJobs = 2
  Interactive = FALSE
  Monitor = FALSE
  Pipefail = TRUE
  TopRuns <- QuietRuns
  BodyRuns <- AsyncOnly
  TrapRuns <- Nothing
  MayStop = TRUE
  ForkMayFail = TRUE
  MaxStages = 2
  MaxSignals = 1
  MaxDepth = 3
SYMMETRY PidSymmetry
INVARIANTS StagesStayChildren NoStrayChildren UnknownPidIs127
PROPERTIES SignalsDoNotCorruptStatus WaitAllWaits
