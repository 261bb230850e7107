SPECIFICATION MCSpec
CONSTANTS
  Keywords = {"if"}
  SpecialBuiltins = {"eval"}
  RegularBuiltins = {"cd"}
  Applets = {"cp"}
  Dirs = {"p", "q"}
  PathValues <- Paths
  DefaultPath <- SystemPath
  Texts <- DeviatingTexts
  Words <- DeviatingWords
  Worlds <- DeviatingWorlds
INVARIANTS ShortCircuits ShiftAssignsShift EqualityBindsLess MalformedIsDiagnosed ParametersAreOperands QuotedNeverGlobs EmptyParametersStay MarkersStayInside MCCacheFollowsPath MCTypeFollowsSearch
CHECK_DEADLOCK FALSE
