CONSTANTS
  Main = main
  Consumer = {c1}
  Library = library
  MaxArrivals = 3
  Null = null

SPECIFICATION FairSpec

INVARIANTS
  ConsumedInOrder
  FreedInUseOnlyIfExposed

PROPERTY LossEndsWait

CHECK_DEADLOCK FALSE
