SPECIFICATION FairSpec
CHECK_DEADLOCK FALSE
CONSTANTS
  Scripts <- MCOneClient
  Transports = {"ws"}
  Chunks <- MCChunks
  Rooms <- MCRooms
  Denied <- MCDenied
  MaxDeliveries = 0
PROPERTIES RepliesArrive
