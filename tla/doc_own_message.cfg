CONSTANTS
  c1 = c1
  c2 = c2
  u1 = u1
  w1 = w1
  h1 = h1
  h2 = h2
  Client = {c1, c2}
  Server = Server
  LocalIp = other
  Public = Public
  Path = {p1}
  MarkedPath = {}
  Word = {u1, w1}
  InfoLine <- UserOnly
  NoUser = NoUser
  Nobody = Nobody
  Null = Null
  Handler = {h1, h2}
  PublicKeyFile = {"key"}
  HasKeyFile <- AllKeyFiles
  LateClients = FALSE
  MaxFaults = 0
  MaxServerRuns = 1
  MaxClientRuns = 1
  MaxReq = 1

SPECIFICATION Spec
SYMMETRY HandlerSymmetry

INVARIANTS
  HandlesOwnMessage

CHECK_DEADLOCK FALSE
