SPECIFICATION Spec
CONSTANTS
  k1 = k1  k2 = k2  k3 = k3
  Clients = {"a", "b"}
  Conns = {k1, k2}
  Hellos <- GroupHellos
  Publishes <- OneTopic
  Subscribes <- SharedT
  PubAcks = {}
  Controls = {}
  CredentialsFile <- MCCredentials
  AllowAnonymous = FALSE
  BridgeEnabled = FALSE
  PidMod = 3
  MaxPackets = 3
  MaxRestarts = 0
  DbMayFail = FALSE
  WriterMayFail = FALSE
PROPERTIES
  SharedGroupServed
CHECK_DEADLOCK FALSE
