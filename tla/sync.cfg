CONSTANTS
  Main = main
  User = {}
  Library = {l1}
  Token = {t1, t2}
  Kind = {"SUBSCRIBE"}
  MaxOpen = 2
  Null = Null

SPECIFICATION SyncFairSpec

INVARIANTS
  SuccessIsAnswer
  ResetWhenAnswered
  LentNotOpen
  WaitsForAnswer

PROPERTIES
  SyncCallEnds
  LimitedCallEnds

CHECK_DEADLOCK FALSE
