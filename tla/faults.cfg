CONSTANTS
  c1 = c1
  c2 = c2
  u1 = u1
  w1 = w1
  h1 = h1
  h2 = h2
  Client = {c1}
  Server = Server
  LocalIp = c1
  Public = Public
  Path = {p1}
  MarkedPath = {p1}
  Word = {u1, w1}
  InfoLine <- TwoUsers
  NoUser = NoUser
  Nobody = Nobody
  Null = Null
  Handler = {h1}
  PublicKeyFile = {"key", "other", "missing"}
  HasKeyFile <- AllKeyFiles
  LateClients = FALSE
  MaxFaults = 2
  MaxServerRuns = 2
  MaxClientRuns = 2
  MaxReq = 1

SPECIFICATION Spec

INVARIANTS
  RegisteredAreHeard
  ConnectedWorkersHaveKey
  OnlyKeysInstalled
  KeyInstalledOnce

CHECK_DEADLOCK FALSE
