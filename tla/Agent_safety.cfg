CONSTANTS
  MaxCycles = 2
  MaxPreemptions = 1
  MaxFaults = 1
  Every = 1
  Modes = {"off", "dry_run", "live"}
  Allowlist = {"throttle_concurrency"}
  HasReplay = TRUE
  LocalBrain = TRUE
SPECIFICATION Spec
INVARIANTS
  ChargedOnce
  ReportedOnce
  HealthyBaseline
PROPERTY
  QuietAfterShutdown
CHECK_DEADLOCK FALSE
