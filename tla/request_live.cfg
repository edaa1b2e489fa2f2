CONSTANTS
  c1 = c1
  c2 = c2
  u1 = u1
  w1 = w1
  h1 = h1
  h2 = h2
  Client = {c1}
  Server = Server
  LocalIp = other
  Public = Public
  Path = {p1, p2}
  MarkedPath = {p2}
  Word = {u1, w1}
  InfoLine <- BothLines
  NoUser = NoUser
  Nobody = Nobody
  Null = Null
  Handler = {h1, h2}
  PublicKeyFile = {"key"}
  HasKeyFile <- AllKeyFiles
  LateClients = TRUE
  MaxFaults = 0
  MaxServerRuns = 1
  MaxClientRuns = 1
  MaxReq = 1

SPECIFICATION FairSpec

PROPERTIES
  RequestIsAnswered

CHECK_DEADLOCK FALSE
