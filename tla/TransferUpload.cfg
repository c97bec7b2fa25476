SPECIFICATION FairSpec
CONSTANTS
  a = a
  b = b
  c = c
  i1 = i1
  i2 = i2
  segmentList <- OneItem
  Providers <- ABC
  group <- Pair
  NoDownload = {}
  NoUpload = {}
  Ihave <- BC
  Post <- OnlyA
  MemMax = 1
  ChanSize = 1
  cacheON = TRUE
  DlMode = ""
  CloseLimit = 3
  MaxItemFails = 3
  Flaky <- OnlyB
  Checked <- FoundOrNot
  Replies = {"220","430","451","badcrc","ok","437","refused"}
CHECK_DEADLOCK FALSE
INVARIANTS
  ItemsAccounted
  DeadHoldsNoSlot
PROPERTIES
  QuitLeavesNoSlot
  
