SPECIFICATION Spec
CONSTANTS
  w1 = w1
  w2 = w2
  None = None
  NoTask = NoTask
  NodeId = 2
  OtherId = 3
  MaxInFlight = 1
  MaxTasks = 2
  HasObject = TRUE
  Codes <- MCCodes
  Waiters <- MCWaiters
  Overlap = FALSE
  Budgets <- MCScenarios
INVARIANTS
  TypeOK
  HeartbeatTellsState
  NoStrayTask
  WaitsReportTruly
PROPERTIES
  MasterLearnsState
  WaitsEnd
CHECK_DEADLOCK FALSE
