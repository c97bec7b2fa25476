SPECIFICATION FairSpec
CONSTANTS
  p1 = p1
  p2 = p2
  p3 = p3
  w1 = w1
  w2 = w2
  w3 = w3
  Providers <- ThreeProviders
  group <- PairAndOne
  Workers <- ThreeWorkers
  providerOf <- OneEach
  todo = 2
  chanSize = 1
  maxCheckNoConn = 1
  DeadWorkersRounds = 1
CHECK_DEADLOCK FALSE
INVARIANTS
  CountsExact
  GivesUpRightly
PROPERTIES
  SessionEnds
