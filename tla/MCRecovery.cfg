SPECIFICATION FairSpec
CONSTANTS
  k1 = k1  k2 = k2  k3 = k3
  Clients = {"a"}
  Conns = {k1, k2}
  Hellos <- LastingA
  Publishes <- OneTopic
  Subscribes <- SharedT
  PubAcks = {}
  Controls = {}
  CredentialsFile <- MCCredentials
  AllowAnonymous = FALSE
  BridgeEnabled = FALSE
  PidMod = 3
  MaxPackets = 3
  MaxRestarts = 2
  DbMayFail = FALSE
  WriterMayFail = FALSE
INVARIANTS
  AuthorizedDelivery
  SubscriptionsDurable
  SavedWell
CONSTRAINT InTurn
PROPERTIES
  InTransitKept
  SubscriptionGetsSaved
  BootCompletes
CHECK_DEADLOCK FALSE
