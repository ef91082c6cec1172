CONSTANTS
  NumRequests = 3
  Concurrency = 2
  MaxAttempts = 2
SPECIFICATION FairSpec
INVARIANTS
  SummaryIsComplete
  PartialIsBacked
  OneReport
  RowsExplained
  SlotsKept
PROPERTIES
  ImplementsProfileFiles
  AttemptEnds
CHECK_DEADLOCK FALSE
