SPECIFICATION FairSpec
CONSTANTS
  c1 = c1
  c2 = c2
  c3 = c3
  r1 = r1
  r2 = r2
  i1 = i1
  i2 = i2
  i3 = i3
  None = None
  Lockers <- ThreeLockers
  Returners <- TwoReturners
  Items <- ThreeItems
  MemValue = 0
  MaxCalls = 1
CHECK_DEADLOCK FALSE
INVARIANTS
  SlotsConserved
  OneWaiterPerItem
  NoLostWakeup
PROPERTIES
  ImplementsService
  EveryCallReturns
  StopEndsWait
