SPECIFICATION Spec
CHECK_DEADLOCK FALSE
CONSTANTS
  Functions <- AllFunctions
  Reasons <- Logs
  MaxOpen = 4
INVARIANTS TypeOK Predictable LargestKept StackMatchesNesting
