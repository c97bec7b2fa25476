SPECIFICATION Spec
CONSTANTS
  a = a
  b = b
  c = c
  i1 = i1
  i2 = i2
  segmentList <- TwoItems
  Providers <- ABC
  group <- Pair
  NoDownload <- OnlyB
  NoUpload = {}
  Ihave <- BC
  Post = {}
  MemMax = 1
  ChanSize = 1
  cacheON = FALSE
  DlMode = "all"
  CloseLimit = 3
  MaxItemFails = 3
  Flaky = {}
  Checked <- MissingOnC
  Replies = {"220", "436", "437", "ok"}
CHECK_DEADLOCK FALSE
INVARIANTS
  ItemsAccounted
