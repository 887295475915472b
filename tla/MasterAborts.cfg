CONSTANTS
  Servers = {s1, s2}
  Panicky = {}
  Conns = {c1}
  MaxConnections = 1
SPECIFICATION Spec
INVARIANTS
  MasterWaitsForServers
