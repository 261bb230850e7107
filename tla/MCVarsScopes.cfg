SPECIFICATION Spec
CONSTANTS
  Names <- TwoNames
  Values <- Digits
  Scripts <- AllScripts
  MaxDepth = 3
INVARIANTS ScriptEnvironInStep PrefixesEnd
PROPERTY AssignmentsAlone
CHECK_DEADLOCK FALSE
