SPECIFICATION Spec
CONSTANTS
  Descs = {1, 2}
  Threads = {t1, t2}
  None = None
  FMaxBufferSizeForChannel = 2
  MaxMessages = 1
  MaxBatch = 2
  t1 = t1
  t2 = t2
INVARIANT NoSilentLoss
CHECK_DEADLOCK FALSE
