SPECIFICATION FairSpec
\* Once everything is published and forwarded, nothing is left to do.
CHECK_DEADLOCK FALSE
CONSTANTS
  LocalClients <- MCLocalClients
  Topics <- MCTopics
  MaxLocal = 3
  MaxRemote = 2
  MaxFailures = 4
INVARIANTS TypeOK
PROPERTIES ForwardedInOrder RoutedInOrder QueuedIsForwarded QueueDrains Reconnects
