CONSTANTS
  Main = main
  User = {u1}
  Library = {l1}
  Token = {t1, t2}
  Kind = {}
  MaxOpen = 2
  Null = Null

SPECIFICATION Spec
SYMMETRY TokenSymmetry

INVARIANTS
  PendingAccounted
  ContextsAlive
  SleepersSignalled
  DeliveryIsLast
  ReturnedIsListed
  ResultIsAnswer

CHECK_DEADLOCK FALSE
