CONSTANTS
  Reader = {r1}
  Writer = {w1}
  Item = {i1, i2}
  InitCap = 2
  Capacity = {1}
  Null = Null

SPECIFICATION FairSpec

PROPERTIES
  ImplementsFairFifo

CHECK_DEADLOCK FALSE
