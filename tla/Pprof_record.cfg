SPECIFICATION Spec
CONSTANTS
  Threads = {"main", "worker"}
  Main = "main"
  Ids <- ModelIds
  MainIsInstrumented = TRUE
  UseDb = TRUE
  UseFile = TRUE
  ExecuteAtexit = TRUE
  Gaps <- ModelGaps
  MaxEnters <- ModelMaxEnters
INVARIANTS
  TypeOK
  SingleThreadComplete
  RawTimeCovered
  SimpleTimeCovered
  ScopsWithinTotal
PROPERTIES
  ImplementsProfileLog
CHECK_DEADLOCK FALSE
