SPECIFICATION Spec
CHECK_DEADLOCK FALSE
CONSTANTS
  Functions <- Plain
  Reasons <- Logs
  MaxOpen = 4
INVARIANT RejectedShareBlocks
