SPECIFICATION Spec
CONSTANTS
  Fds <- Twelve
  Files <- AllFiles
  SaveBase = 10
  ScriptFds <- InOutFive
  Opens <- FileOutFive
  Dups <- DupOut
  Closes <- InOnly
  Kinds <- DeviatingKinds
  Interactive = FALSE
  ScriptOnStdin = FALSE
  MaxRedirs = 1
  MaxDepth = 4
  MaxForks = 1
INVARIANTS CopiesParked FailedNeverRuns
PROPERTIES PipesConnect UnsavedWasClosed
