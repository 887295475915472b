CONSTANTS
  Conns = {c1, c2, c3, c4}
  MaxConnections = 2
  Backlog = 2
SPECIFICATION Spec
SYMMETRY ConnSymmetry
INVARIANTS
  TypeOK
  PermitsConserved
  PublishedStateIsTrue
  NoUseAfterFree
  AckHasReceiver
PROPERTIES
  ImplementsLife
  ServesExchanges
