SPECIFICATION FairSpec
CONSTANTS
  Descs = {1, 2}
  Threads = {t1, t2}
  None = None
  FMaxBufferSizeForChannel = 3
  MaxMessages = 4
  MaxBatch = 2
  t1 = t1
  t2 = t2
INVARIANT OneSender
INVARIANT DataHasSender
INVARIANT BufferIsExact
INVARIANT SentInOrder
PROPERTY AllSettled
CHECK_DEADLOCK FALSE
