SPECIFICATION Spec
CONSTANTS
  Vocabularies <- Deviating
  Operands <- Three
  MaxLevel = 2
  MaxCallDepth = 1
  NonLexical = FALSE
  Pipefail = FALSE
  MaxSignals = 1
  MaxDepth = 4
INVARIANT EntryStatusHolds
PROPERTIES BreaksLeaveTheirLoop ErrexitStops ErrexitSpares ExitTrapRuns EvalExitsForItsOwn
