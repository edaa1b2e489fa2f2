CONSTANTS
  Main = main
  User = {u1}
  Library = {l1, l2}
  Token = {t1}
  Kind = {"SUBSCRIBE"}
  MaxOpen = 2
  Null = Null

SPECIFICATION FairSpec

PROPERTIES
  CompletionWakes
  PendingEmpties

CHECK_DEADLOCK FALSE
