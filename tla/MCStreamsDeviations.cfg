SPECIFICATION MCSpec
CONSTANTS
  Jobs <- DeviatingJobs
  Backups <- Tilde
  MaxAppends = 3
  MaxStreams = 2
  XRuns <- SharedRuns
  Statuses = {0, 1, 123}
  Shell <- Background
  LaterRuns <- NoRuns
  Pids = {1, 2}
  MaxParallel = 2
  Vocabularies <- FewPatterns
  CacheMax = 2
  Calls <- FewCalls
  LaterCalls <- SameShell
INVARIANTS MCOutputStaysApart MCNoTextDropped MCReplacedInFull MCShellChildKept
INVARIANTS MCNothingAdrift MCNothingUnread MCSlotsAreChildren
INVARIANTS MCLongestIsFound MCFoundAnywhere MCWordsAreFound MCPiecesAreMatches MCEscapesAreOneThing MCCacheIsExact
INVARIANTS MCPrefilterChangesNothing MCSeparatorsAreGaps MCQuietTellsTheTruth MCAlwaysCounts
INVARIANTS MCErrorsAreTold MCPrintedIsTold
