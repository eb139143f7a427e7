SPECIFICATION FairSpec
CONSTANTS
  Units = {"m1", "m2"}
  Args = {"a", "b"}
  Globals = {"g", "g1"}
  Names = {"g", "g1", "n", "g2"}
  Suffixed <- ModelSuffixed
  Sources <- ModelSources
  Counters <- ModelCounters
  MaxFunctions = 6
  Recompile = TRUE
  CollectRegressionTests = TRUE
INVARIANTS
  TypeOK
  SlotsMatchPrototype
  PrototypeClosed
  RunsAsBefore
  CallsArrive
  TestsCollected
  DuplicatesOverlap
PROPERTIES
  PassEnds
