SPECIFICATION Spec
CONSTANTS
  Fds <- Roomy
  Files <- AllFiles
  SaveBase = 10
  ScriptFds <- InOutThree
  Opens <- FileInThree
  Dups <- DupInThree
  Closes <- None
  Kinds <- PipeKinds
  Interactive = TRUE
  ScriptOnStdin = FALSE
  MaxRedirs = 2
  MaxDepth = 3
  MaxForks = 1
PROPERTIES RedirectionsAreScoped PipesConnect
