SPECIFICATION Spec
CONSTANTS
  e1 = e1
  e2 = e2
  w1 = w1
  w2 = w2
  NoError = NoError
  AnyCode = AnyCode
  Nobody = Nobody
  Codes <- MCCodes
  Awaited <- MCAwaited
  Waiters <- MCWaiters
  Budgets <- MCScenarios
INVARIANTS
  WaitsTellTheTruth
  ActiveAreUnreset
PROPERTIES
  EmcyWaitsEnd
CHECK_DEADLOCK FALSE
