CONSTANTS
  MaxCycles = 2
  MaxPreemptions = 1
  MaxFaults = 1
  Every = 1
  Modes = {"off", "dry_run", "live"}
  Allowlist = {"throttle_concurrency", "drain_and_recycle"}
  HasReplay = FALSE
  LocalBrain = TRUE
SPECIFICATION Spec
INVARIANT NoDuplicateInvestigation
CHECK_DEADLOCK FALSE
