CONSTANTS
  Reader = {r1, r2}
  Writer = {w1, w2}
  Item = {i1, i2}
  InitCap = 2
  Capacity = {0, 1, 3}
  Null = Null

SPECIFICATION Spec
SYMMETRY QueueSymmetry

INVARIANTS
  NotAllAsleep
  ItemIsAnnounced
  PlaceIsAnnounced

PROPERTIES
  ImplementsFifo

CHECK_DEADLOCK FALSE
