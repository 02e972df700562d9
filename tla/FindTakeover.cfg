SPECIFICATION Spec
CONSTANTS
  k1 = k1  k2 = k2  k3 = k3
  Clients = {"a"}
  Conns = {k1, k2}
  Hellos <- CleanHellos
  Publishes <- NoMsgs
  Subscribes <- NoSubs
  PubAcks = {}
  Controls = {}
  CredentialsFile <- MCCredentials
  AllowAnonymous = FALSE
  BridgeEnabled = FALSE
  PidMod = 3
  MaxPackets = 0
  MaxRestarts = 0
  DbMayFail = FALSE
  WriterMayFail = FALSE
PROPERTIES
  SessionOutlivesPredecessor
CHECK_DEADLOCK FALSE
