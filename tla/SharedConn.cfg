SPECIFICATION FairSpec
CONSTANTS
  w1 = w1
  w2 = w2
  r1 = r1
  r2 = r2
  r3 = r3
  Workers <- TwoWorkers
  Routines <- ThreeRoutines
  workerOf <- TwoAndOne
  Checkers <- OneChecker
  Clients <- TwoAndOneClients
  MaxConns = 2
  DialParallel = 1
  MaxConnErrors = 1
  Proxy = FALSE
CHECK_DEADLOCK FALSE
INVARIANTS
  ConnsAccounted
  SessionNeverWaits
PROPERTIES
  TokenComes
  SessionEnds
