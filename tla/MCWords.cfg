SPECIFICATION MCSpec
CONSTANTS
  Keywords = {"if"}
  SpecialBuiltins = {"eval"}
  RegularBuiltins = {"cd"}
  Applets = {"cp"}
  Dirs = {"p", "q"}
  PathValues <- Paths
  DefaultPath <- SystemPath
  Texts <- AllTexts
  Words <- AllWords
  Worlds <- AllWorlds
INVARIANT ValuesAreTheLanguages
INVARIANT ExpandsAsPosix
INVARIANT CommandsAreFound
CHECK_DEADLOCK FALSE
