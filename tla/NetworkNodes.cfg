SPECIFICATION Spec
CONSTANTS
  netA = netA
  netB = netB
  r1 = r1
  r2 = r2
  l1 = l1
  NoCan = NoCan
  NoNet = NoNet
  Nets <- MCNets
  Nodes <- MCNodes
  Ids <- MCIds
  Local <- MCLocal
  IdOf <- MCIdOf
  FrameIds <- MCFrameIds
  Budgets <- MCScenarios
  MaxBuses = 3
INVARIANTS
  TypeOK
  SubscribedWhereAtHome
  ListsItsNodes
  EachIsCalledOnce
  ConnectedMeansReading
SYMMETRY MCSymmetry
CHECK_DEADLOCK FALSE
