SPECIFICATION MCSpec
CONSTANTS
  Ops <- DeviatingOps
  Mount <- M
  MaxDepth = 4
  Finds <- DeviatingFinds
  MaxNames = 4
  SkipDirs <- Dirs0
  SkipFiles <- Files0
  SkipExts <- Exts0
  ModulePaths <- OneAndBoth
  Libraries <- Libraries0
  Requests <- Requests0
  ModuleDirs <- Dirs1
  FirstFree = 3
  MaxHeld = 3
  MaxTime = 2
  MaxChanges = 1
INVARIANTS MCSuccessIsAlwaysComplete MCDestinationKept MCNoClobberHoldsForLinks MCFindsExactly MCKnowsFollow MCFollowsIfAsked MCRootedAtTopOnly MCNegativeMeansNobody MCNewModulesArePickedUp MCDescriptorsNeverCollide
