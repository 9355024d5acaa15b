\* Four connections for two places, while one thread stops the server.
SPECIFICATION FairSpec
CONSTANTS
  Connections = {c1, c2, c3, c4}
  Stoppers = {s1}
  Acceptor = acceptor
  MaxSessions = 2
INVARIANTS
  TypeOK
  LiveWithinLimit
  TableBounded
  SlotRemains
  StoppedLeavesNothing
PROPERTY
  StopTerminates
