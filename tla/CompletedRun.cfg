CONSTANTS
  Contracts = {"default", "custom", "missing", "invalid"}
  Peers = {"live_complete", "live_incomplete"}
  MaxDefects = 1
  MaxStarts = 4
SPECIFICATION Spec
INVARIANTS
  LiveMeantQuorum
  TwoRoundsSettle
PROPERTY
  FirstReportRefuses
CHECK_DEADLOCK FALSE
