SPECIFICATION FairSpec
CONSTANTS
  Desc = {d1, d2}
  Workers = {w1, w2}
  MaxPackets = 4
  MaxBatch = 2
CHECK_DEADLOCK FALSE
INVARIANTS
  CallsAreSerial
  BatchesAreInOrder
  OperationFindsData
  DataHasOperation
PROPERTY
  AllHandled
