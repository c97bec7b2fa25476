SPECIFICATION FairSpec
CONSTANTS
  c1 = c1
  c2 = c2
  Sessions <- Clients
  providerList <- TwoGroups
  Commands <- ReaderAndFetcher
  MaxNum = 1
  Held <- HeldByA
  Late <- LateAtB
  negCacheMax = 2
  negCacheTTL = 1
  MaxTicks = 2
  MaxCommands <- TwoAndOne
CHECK_DEADLOCK FALSE
INVARIANTS
  StateExact
  RepliesRight

  
