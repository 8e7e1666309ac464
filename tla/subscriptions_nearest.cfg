\* A nearest demand after its last sender has gone.
SPECIFICATION Spec
CONSTANTS
  Clients <- MCClients
  Local <- MCLocal
  NameOf <- MCNameOf
  Messages <- MCMessages
  Children <- MCChildren
  Wishes <- MCWishes
  Kinships <- MCKinships
  MaxDiffs = 2
INVARIANT NearestIsServed
CHECK_DEADLOCK FALSE
