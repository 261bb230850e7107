SPECIFICATION Spec
CONSTANTS
  Vocabularies <- AllScripts
  Operands <- Three
  MaxLevel = 2
  MaxCallDepth = 1
  NonLexical = FALSE
  Pipefail = FALSE
  MaxSignals = 1
  MaxDepth = 4
PROPERTIES CountersFollowNesting ErrexitIsExact ExitTrapRuns SignalsAreTransparent
