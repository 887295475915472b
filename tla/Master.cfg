CONSTANTS
  Servers = {s1, s2, s3}
  Panicky = {s1, s2}
  Conns = {c1, c2}
  MaxConnections = 1
SPECIFICATION FairSpec
INVARIANTS
  TypeOK
  NoServerOutlivesMaster
  AllAddressesOrNone
PROPERTIES
  FailuresAreIsolated
  ServersImplementLife
  ShutdownEndsMaster
