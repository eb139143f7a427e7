SPECIFICATION FairSpec
CONSTANTS
  Processes = {"nested", "cut", "empty"}
  Recorded <- ModelRecorded
  Analyses = {"a1", "a2"}
  RunIds = {0, 1}
INVARIANTS
  TypeOK
  RunKept
  MetricsOfWholeProcesses
PROPERTIES
  AnalysisEnds
  GroupKept
CHECK_DEADLOCK FALSE
