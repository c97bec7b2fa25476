SPECIFICATION FairSpec
CONSTANTS
  p1 = p1
  name = name
  w1 = w1
  w2 = w2
  segmentList <- OneSegment
  FileOf <- NameOf
  Writers <- TwoWriters
  ChanSize = 1
  YencDelParts = TRUE
  MaxSessions = 2
CHECK_DEADLOCK FALSE
INVARIANTS
  PartsReady
PROPERTIES
  
  MergedHasParts
  SessionEnds
