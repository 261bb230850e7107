SPECIFICATION MCSpec
CONSTANTS
  Ops <- FileRuns
  Mount <- M
  MaxDepth = 4
  Finds <- FindRuns
  MaxNames = 4
  SkipDirs <- Dirs0
  SkipFiles <- Files0
  SkipExts <- Exts0
  ModulePaths <- OneAndBoth
  Libraries <- Libraries0
  Requests <- Requests0
  ModuleDirs <- Dirs1
  FirstFree = 3
  MaxHeld = 2
  MaxTime = 2
  MaxChanges = 2
INVARIANTS ContentSurvives DoesWhatWasAsked ExpressionsHold WalkIsSound ModulesAreTheFiles
PROPERTY ToolsEnd
