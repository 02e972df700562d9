SPECIFICATION Spec
CONSTANTS
  k1 = k1  k2 = k2  k3 = k3
  Clients = {"a"}
  Conns = {k1, k2}
  Hellos <- AnonHellos
  Publishes <- OtherQos
  Subscribes <- PlainT
  PubAcks = {}
  Controls = {"PINGREQ", "DISCONNECT", "BAD_WILL"}
  CredentialsFile <- NoFile
  AllowAnonymous = TRUE
  BridgeEnabled = FALSE
  PidMod = 3
  MaxPackets = 2
  MaxRestarts = 1
  DbMayFail = TRUE
  WriterMayFail = TRUE
INVARIANTS
  RegisteredIsLive
PROPERTIES
  AckMeansDelivered
SYMMETRY ConnSymmetry
CHECK_DEADLOCK FALSE
