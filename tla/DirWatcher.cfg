SPECIFICATION FairWatchSpec
CONSTANTS
  x = x
  y = y
  Names <- TwoNames
  MaxWrites = 3
  MaxStarts = 2
INVARIANTS
  WatcherConsistent
PROPERTIES
  FilesKept
  StopEnds
  AllTaken
