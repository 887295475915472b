CONSTANTS
  Conns = {c1, c2}
  MaxConnections = 1
  Backlog = 2
SPECIFICATION Spec
INVARIANTS
  SocketsClosedWhenDone
