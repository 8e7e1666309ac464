SPECIFICATION FairSpec
CONSTANTS
  Workers = {w1}
  Offsets = {o1, o2}
  None = None
  RingSize = 2
  RECV_BUFFER_SIZE = 1
  CounterMod = 3
  MaxMessages = 3
  w1 = w1
  w2 = w2
  o1 = o1
  o2 = o2
INVARIANT SequenceIsKept
INVARIANT InfoFitsData
INVARIANT DeliveredInOrder
INVARIANT BuffersAreCounted
PROPERTY AllSettled
CHECK_DEADLOCK FALSE
