CONSTANTS
  Malformed = Malformed
  Unweighted = Unweighted
  Absent = Absent
  DefaultUri = DefaultUri
  Api = Api
  MaxKeys = 5
  ListenValues <- MCListenValues
  MatchValues <- MCMatchValues
  ForwardValues <- MCForwardValues
  ServeValues <- MCServeValues
  UriValues <- MCUriValues
  NameValues <- MCNameValues
  ConnectionsValues <- MCConnectionsValues
SPECIFICATION Spec
INVARIANTS
  TypeOK
  MixesAreRejected
  AcceptedAsWritten
  RejectedForAReason
  AcceptedCanSchedule
