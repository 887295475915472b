CONSTANTS
  Requests = {r1, r2}
  b1 = b1
  b2 = b2
  p1 = p1
  p2 = p2
  Listeners = {l1, l2}
  Names = {rxh, unfit}
  UnfitNames = {unfit}
  Hops = {p1, p2}
  Hosts <- MCHosts
  Heads <- MCHeads
  Unreadable = Unreadable
  Absent = Absent
  Uris <- MCUris
  PrefixesOf <- MCPrefixes
  Patterns <- MCPatterns
SPECIFICATION FairSpec
INVARIANTS
  TypeOK
  UpgradesAgree
  TurnsFollowRequests
  ForwardedChain
PROPERTIES
  UpstreamsAreReleased
  AnswersExchanges
