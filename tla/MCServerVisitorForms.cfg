CONSTANTS
  Malformed = Malformed
  Unweighted = Unweighted
  Absent = Absent
  DefaultUri = DefaultUri
  Api = Api
  MaxKeys = 3
  ListenValues <- MCListenValues
  MatchValues <- MCMatchValues
  ForwardValues <- MCForwardValues
  ServeValues <- MCServeValues
  UriValues <- MCUriValues
  NameValues <- MCNameValues
  ConnectionsValues <- MCConnectionsValues
SPECIFICATION Spec
INVARIANTS
  DocumentedFormsAccepted
