CONSTANTS
  Apps = {"main", "app"}
  Main = "main"
  Generator = "generator"
  Workers <- ModelWorkers
  Modules <- ModelModules
  Address <- ModelAddress
  LoopVariable = 33
  IdBits = 4
  Program <- ModelProgram
SPECIFICATION Spec
INVARIANTS TypeOK MarkersFollowCalls EntersMeetTheirExits LikwidReady MainRegionMeasured
CHECK_DEADLOCK FALSE
