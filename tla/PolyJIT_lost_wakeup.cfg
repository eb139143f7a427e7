SPECIFICATION FairSpec
CONSTANTS
  Callers = {c1}
  p1 = p1
  p2 = p2
  v2 = v2
  v1 = v1
  Protos = {p1, p2}
  Vals = {v1}
  Workload <- OneValueWorkload
  Hashes = {1}
  Names = {1, 2}
  Hash <- ConstantHash
  NameOf <- DistinctNames
  Recompile = TRUE
  RehashSizes = {}
  MaxCalls = 1
PROPERTIES
  BlockedIsDelivered
CHECK_DEADLOCK FALSE
