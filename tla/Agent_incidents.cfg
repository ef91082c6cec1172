CONSTANTS
  MaxCycles = 2
  MaxPreemptions = 0
  MaxFaults = 1
  Every = 0
  Modes = {"live"}
  Allowlist = {"throttle_concurrency", "drain_and_recycle"}
  HasReplay = TRUE
  LocalBrain = FALSE
SPECIFICATION FairSpec
INVARIANT
  ActuationSafe
PROPERTIES
  ImplementsIncidents
  IncidentJudged
  ActionVerified
CHECK_DEADLOCK FALSE
