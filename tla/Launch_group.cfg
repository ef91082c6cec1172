CONSTANT
  MaxLaunches = 1
SPECIFICATION FairSpec
PROPERTY
  GroupGoes
CHECK_DEADLOCK FALSE
