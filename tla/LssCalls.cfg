SPECIFICATION Spec
CONSTANTS
  s1 = s1
  s2 = s2
  n1 = n1
  BadId = BadId
  Unset = Unset
  None = None
  Parts = 2
  Bits = 2
  Slaves <- MCSlaves
  NodeIds <- MCNodeIds
  Population <- MCPopulation
  Wanted <- MCWanted
  MaxCalls = 3
  MaxLost = 1
INVARIANTS
  FoundIsSelected
  ScanFindsLowest
  ReportsAreTrue
CHECK_DEADLOCK FALSE
