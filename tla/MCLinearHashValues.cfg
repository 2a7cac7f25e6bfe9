SPECIFICATION Spec
CONSTANTS
  Keys <- MCKeys
  Values <- MCValues
  KeyInt <- MCKeyInt
  Blank <- MCBlank
  InitialSize = 1
  SplitThreshold = 85
  RecordsPerBucket = 2
  MaxRecords = 4
  MaxFile = 5
INVARIANTS
  NoValueLost
