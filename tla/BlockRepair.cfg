SPECIFICATION Spec
CONSTANTS
  Segments = 5
  MaxBlkSize = 3
  MaxTrouble = 3
  CrcChoices = {TRUE, FALSE}
INVARIANTS
  TypeOK
  CheckedUploadIsWhole
  DownloadStoresWhole
  OneGapIsRepaired
PROPERTIES
  TransfersEnd
CHECK_DEADLOCK FALSE
