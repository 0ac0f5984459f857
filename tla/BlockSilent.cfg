SPECIFICATION Spec
CONSTANTS
  Segments = 5
  MaxBlkSize = 3
  MaxTrouble = 1
  CrcChoices = {FALSE}
INVARIANTS
  UploadIsWhole
CHECK_DEADLOCK FALSE
