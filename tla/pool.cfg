\* Two threads, the second one added, and a thread in MWaitFor.
SPECIFICATION FairSpec
CONSTANTS
  Ops = {1, 2}
  Immediate = {2}
  Threads = {t1, t2}
  FirstThreads = {t1}
  Waiters = {x1}
  None = None
  MaxQueue = 2
  t1 = t1
  t2 = t2
  x1 = x1
INVARIANTS
  JoinIsSafe
  InvokedIsExact
  SleepersHaveWork
PROPERTIES
  LowerWaitsForImmediate
  CancelTerminates
  OperationsAreTaken
CHECK_DEADLOCK FALSE
