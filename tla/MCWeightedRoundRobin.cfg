CONSTANTS
  Elements = {a1, a2}
  Threads = {t1, t2}
  UsizeModulus = 8
  MaxCalls = 12
  BackendLists <- MCBackendLists
SPECIFICATION Spec
INVARIANTS
  TypeOK
  TurnsVisitEveryEntry
  TurnsFollowWeights
  NobodyStarves
  AnswersMatchTickets
  FirstTurnInConfigOrder
