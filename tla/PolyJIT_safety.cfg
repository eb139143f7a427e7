SPECIFICATION Spec
CONSTANTS
  Callers = {c1, c2}
  p1 = p1
  p2 = p2
  v1 = v1
  v2 = v2
  Protos = {p1, p2}
  Vals = {v1, v2}
  Workload <- ModelWorkload
  Hashes = {1, 2}
  Names = {1, 2}
  Hash <- ModelHash
  NameOf <- DistinctNames
  Recompile = TRUE
  RehashSizes = {1}
  MaxCalls = 3
SYMMETRY CallerSymmetry
INVARIANTS
  TypeOK
  CacheSound
  RunsFittingCode
  EngineOnce
  StartNotLost
  BlockedIsServed
PROPERTIES
  ImplementsScopCall
  RequestSurvives
  CacheStable
CHECK_DEADLOCK FALSE
