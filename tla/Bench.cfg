CONSTANTS
  Options <- FewOptions
  Levels <- TwoLevels
  NumRequests = 2
  MaxScrapes = 1
  MaxAttempts = 2
SPECIFICATION FairSpec
INVARIANTS
  LabelsAgree
  TimelineNumbered
  InFlightBounded
  RunExplains
  NewestFirst
  PeaksAreOwn
PROPERTY
  BenchEnds
CHECK_DEADLOCK FALSE
