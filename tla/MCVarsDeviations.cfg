SPECIFICATION Spec
CONSTANTS
  Names <- TwoNames
  Values <- Digits
  Scripts <- Deviating
  MaxDepth = 3
INVARIANTS ChildSeesCurrent EnvironRestored PrefixIsTemporary AppletLeavesNoTrace
PROPERTIES OnlyOperandsExported
CHECK_DEADLOCK FALSE
