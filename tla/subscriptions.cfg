\* What is kept by differences against what the demands ask for.
SPECIFICATION Spec
CONSTANTS
  Clients <- MCClients
  Local <- MCLocal
  NameOf <- MCNameOf
  Messages <- MCMessages
  Children <- MCChildren
  Wishes <- MCWishes
  Kinships <- MCKinships
  MaxDiffs = 2
INVARIANTS
  CallbacksAreExact
  NearestOnly
  RegistrarsDoNotCount
  PublishersAreTold
  AbortsOnlyByInheritance
\* A kernel that was aborted takes no further step.
CHECK_DEADLOCK FALSE
