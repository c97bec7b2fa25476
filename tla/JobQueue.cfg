SPECIFICATION FairSpec
CONSTANTS
  h1 = h1
  h2 = h2
  Handlers <- TwoHandlers
  Uploaders <- OneUploader
  MaxJobs = 3
  maxPendingJobs = 2
  maxFinishedJobs = 1
  SessThreshold = 1
INVARIANTS
  QueueConsistent
PROPERTIES
  JobsGoForward
  StopEndsJob
  EveryJobEnds
  SignalExits
