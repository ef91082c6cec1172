CONSTANT
  MaxLaunches = 2
SPECIFICATION FairSpec
INVARIANTS
  LeaderReaped
  KilledIsRecorded
  ArtifactsAgree
PROPERTIES
  CommandEnds
  LeaderGoes
  ImplementsEngines
CHECK_DEADLOCK FALSE
