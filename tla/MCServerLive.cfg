CONSTANTS
  Conns = {c1, c2, c3}
  MaxConnections = 2
  Backlog = 2
SPECIFICATION LeavingSpec
PROPERTIES
  ShutdownCompletes
  ServedTasksEnd
  MaxConnectionsIsTransient
  BacklogDrains
  ImplementsFairLife
