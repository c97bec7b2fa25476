SPECIFICATION FairSpec
CONSTANTS
  Listeners = {tcp, tls}
  Conns = {c1, c2, c3}
  Versions = {1, 2}
  MaxConns <- OneThenTwo
  proxyMaxPreAuth = 1
  LoginTimeout = 2
CHECK_DEADLOCK FALSE
INVARIANTS
  CountersExact
PROPERTIES
  LoginWithinLimits
  
  SessionsExpire
