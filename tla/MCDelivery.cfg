SPECIFICATION Spec
CONSTANTS
  k1 = k1  k2 = k2  k3 = k3
  Clients = {"a", "b"}
  Conns = {k1, k2, k3}
  Hellos <- WithRefused
  Publishes <- WithDenied
  Subscribes <- Overlapping
  PubAcks = {1}
  Controls = {}
  CredentialsFile <- MCCredentials
  AllowAnonymous = FALSE
  BridgeEnabled = TRUE
  PidMod = 3
  MaxPackets = 3
  MaxRestarts = 0
  DbMayFail = FALSE
  WriterMayFail = FALSE
INVARIANTS
  TypeOK
  PacketIdCycle
  AuthorizedDelivery
PROPERTIES
  AckMeansDelivered
SYMMETRY ConnSymmetry
VIEW WithoutDb
CHECK_DEADLOCK FALSE
