SPECIFICATION Spec
CONSTANTS
  Workers = {w1, w2}
  Offsets = {o1, o2}
  None = None
  RingSize = 2
  RECV_BUFFER_SIZE = 1
  CounterMod = 3
  MaxMessages = 3
  w1 = w1
  w2 = w2
  o1 = o1
  o2 = o2
INVARIANT SequenceIsKept
CHECK_DEADLOCK FALSE
