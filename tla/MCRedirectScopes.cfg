SPECIFICATION Spec
CONSTANTS
  Fds <- Roomy
  Files <- AllFiles
  SaveBase = 10
  ScriptFds <- OutAndFour
  Opens <- FileOutFour
  Dups <- DupOutFour
  Closes <- OutOnly
  Kinds <- ScopeKinds
  Interactive = FALSE
  ScriptOnStdin = TRUE
  MaxRedirs = 2
  MaxDepth = 3
  MaxForks = 1
INVARIANTS SavedCopiesLive CopiesStayPrivate
PROPERTY RedirectionsAreScoped
