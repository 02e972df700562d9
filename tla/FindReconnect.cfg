SPECIFICATION Spec
CONSTANTS
  k1 = k1  k2 = k2  k3 = k3
  Clients = {"a"}
  Conns = {k1, k2}
  Hellos <- LastingA
  Publishes <- OneTopic
  Subscribes <- SharedT
  PubAcks = {}
  Controls = {}
  CredentialsFile <- MCCredentials
  AllowAnonymous = FALSE
  BridgeEnabled = FALSE
  PidMod = 3
  MaxPackets = 2
  MaxRestarts = 1
  DbMayFail = FALSE
  WriterMayFail = FALSE
PROPERTIES
  ReconnectKeepsInTransit
CHECK_DEADLOCK FALSE
