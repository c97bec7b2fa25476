SPECIFICATION ProxySpec
CONSTANTS
  c1 = c1
  c2 = c2
  c3 = c3
  Clients <- ThreeClients
  MaxConns = 2
  DialParallel = 1
  MaxConnErrors = 2
  Proxy = TRUE
SYMMETRY Symmetry
CHECK_DEADLOCK FALSE
INVARIANTS
  ProxyConnsExact
  PoolBounded
