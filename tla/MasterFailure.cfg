CONSTANTS
  Servers = {s1, s2}
  Panicky = {}
  Conns = {c1}
  MaxConnections = 1
SPECIFICATION FairSpec
PROPERTIES
  FailureStopsEveryServer
