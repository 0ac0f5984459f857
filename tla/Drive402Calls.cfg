SPECIFICATION Spec
CONSTANTS
  None = None
  Ways <- MCWays
  MaxMoves = 1
INVARIANTS
  OneStepTooFar
  CalmCallsSucceed
PROPERTIES
  DriveCallsEnd
