SPECIFICATION MCSpec
CONSTANTS
  Jobs <- DeviatingJobs
  Backups <- Tilde
  MaxAppends = 8
  MaxStreams = 2
  XRuns <- FailingRuns
  Statuses = {0, 1, 123}
  Shell <- Background
  LaterRuns <- NoRuns
  Pids = {1, 2}
  MaxParallel = 2
  Vocabularies <- NoRuns
  CacheMax = 8
  Calls <- NoRuns
  LaterCalls <- NoRuns
INVARIANT MCStatusTellsFailure
