CONSTANTS
  Host <- MCHost
  MaxVersion = 2
  MaxCommands = 4
  MaxFailures = 1
SPECIFICATION Spec
INVARIANTS ComposeUsesWholeFiles
PROPERTIES ReadyHasItsTables CleanupIsComplete
CHECK_DEADLOCK FALSE
