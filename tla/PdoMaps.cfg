SPECIFICATION Spec
CONSTANTS
  Byte = 2
  None = None
  Small = Small
  Wide = Wide
  Strange = Strange
  Objects = {Small, Wide, Strange}
  Known = {Small, Wide}
  Signed = {Wide}
  Size <- MCSize
  Messages = {{}, {0, 2, 3}}
  Waiters = {w1, w2}
  Slots = 3
  CobIds = {1, 2}
  Kinds = {"lax", "strict", "fixed"}
  Lengths = {1, 3}
  Contents <- MCContents
  Budgets <- MCBudgets
INVARIANTS
  PdoWaitsTellTheTruth
  ReadsAsWritten
  AgreeAfterSuccess
  OnlyWholeSetups
CHECK_DEADLOCK FALSE
