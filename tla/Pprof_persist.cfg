SPECIFICATION Spec
CONSTANTS
  Threads = {"main"}
  Main = "main"
  Ids <- ModelIds
  MainIsInstrumented = TRUE
  UseDb = FALSE
  UseFile = TRUE
  ExecuteAtexit = TRUE
  Gaps <- ModelGaps
  MaxEnters <- ModelMaxEnters
INVARIANTS
  AllPersisted
CHECK_DEADLOCK FALSE
