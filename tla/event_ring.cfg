SPECIFICATION SpecEraseInLap
CONSTANTS
  FArraySize = 3
  UintMax = 7
  EVENT_RESERV = 1
  Data = {d1, d2}
  Control = {c1, c2}
  NoEvent = NoEvent
INVARIANTS
  CountWithinArray
  CountCoversData
  ControlIsNotStarved
PROPERTY
  RingIsFifo
  EraseIsExact
