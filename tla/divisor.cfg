SPECIFICATION Spec
CONSTANTS
  Links = 3
  Limit <- LimitOfLink
  Header = 1
  CustomerMax = 1
  CounterMod = 12
  Sizes = {1, 2, 5, 8, 10, 24}
  MaxPackets = 2
  MaxLost = 2
  MaxBatch = 3
INVARIANT EntireUnlessUneven
INVARIANT OneFate
INVARIANT NothingIsForgotten
