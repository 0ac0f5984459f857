SPECIFICATION Spec
CONSTANTS
  a = a
  b = b
  m = m
  b1 = b1
  b2 = b2
  b3 = b3
  b4 = b4
  b5 = b5
  c1 = c1
  c2 = c2
  c3 = c3
  Bytes <- MCBytes
  Dictionary <- MCObjects
  Readable <- MCObjects
  NoValue = NoValue
  NoObject = NoObject
  NoBuffer = NoBuffer
  NoCall = NoCall
  NoRequest = NoRequest
  SegLen = 2
  ExpLen = 1
  Values <- MCValues
  Objects <- MCObjects
  Writable <- MCObjects
  InitialValue <- MCInitial
  Width <- MCWidth
  MaxRetries = 2
  MaxLosses = 2
  MaxSendFailures = 2
  Prompt = TRUE
  MaxCalls = 2
  MaxLocalWrites = 1
INVARIANTS
  TypeOK
  UploadReadsOneValue
  DownloadStored
  InStep
  UploadStoresNothing
  OneOutstanding
PROPERTIES
  CallsEnd
CHECK_DEADLOCK FALSE
