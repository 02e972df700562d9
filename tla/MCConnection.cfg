SPECIFICATION FairSpec
\* A connection that has ended takes no step.
CHECK_DEADLOCK FALSE
CONSTANTS
  Scripts <- MCScripts
  Transports = {"tcp", "ws"}
  Chunks <- MCChunks
  Rooms <- MCRooms
  Denied <- MCDenied
  MaxDeliveries = 1
INVARIANTS TypeOK ScriptDecodes AnswersInOrder OnlyPipelinedWaits OnlyWillPanics
PROPERTIES StreamHandledInOrder EverythingHandled TcpRepliesArrive
