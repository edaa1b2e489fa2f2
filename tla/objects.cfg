SPECIFICATION Spec
CONSTANTS
  Object = {o1, o2, o3}
  Block = {b1, b2, b3}
  Shared = {s1}
  Empty = empty
  SslString = {trustStore}
  Text = {x1}
  Scenario <- Scenarios
  Null = null
SYMMETRY Symmetric
INVARIANTS HandledPointersOwn WillNeverNull BlocksOwnedOnce UncopiedIsWhole
PROPERTY OnlyPropertiesLeak
