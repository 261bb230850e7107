SPECIFICATION MCSpec
CONSTANTS
  Jobs <- SedJobs
  Backups <- Tilde
  MaxAppends = 8
  MaxStreams = 2
  XRuns <- XargsRuns
  Statuses = {0, 1, 123}
  Shell <- Background
  LaterRuns <- NextRuns
  Pids = {1, 2}
  MaxParallel = 2
  Vocabularies <- ManyPatterns
  CacheMax = 8
  Calls <- ManyCalls
  LaterCalls <- SameShell
INVARIANTS RecordsKept EditsWhereAddressed InPlaceIsSafe ArgumentsAccounted SearchesFindTheMeant MCContextIsExact SelectionIsReported
PROPERTY StreamsEnd
