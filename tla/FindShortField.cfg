SPECIFICATION Spec
CHECK_DEADLOCK FALSE
CONSTANTS
  Scripts <- MCShortField
  Transports = {"tcp"}
  Chunks <- MCChunks
  Rooms <- MCRooms
  Denied <- MCDenied
  MaxDeliveries = 0
PROPERTIES AllCompletePacketsProcessed
