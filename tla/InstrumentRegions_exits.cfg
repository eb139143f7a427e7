SPECIFICATION Spec
CHECK_DEADLOCK FALSE
CONSTANTS
  Functions <- Guarded
  Reasons <- Logs
  MaxOpen = 4
INVARIANT AllEntriesAndExits
