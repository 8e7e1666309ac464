SPECIFICATION FairSpec
CONSTANTS
  a = a
  b = b
  c = c
  x = x
  Kernels = {a, b, c}
  Customers = {x}
  Links = {"ab", "ab2", "bc", "ac", "ax"}
  Ends <- NetEnds
  INVALID = "none"
  Worlds <- StormWorlds
PROPERTY
  ExchangeEnds
CHECK_DEADLOCK FALSE
