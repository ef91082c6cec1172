CONSTANTS
  f1 = f1
  f2 = f2
  Follower <- TwoFollowers
  Rank <- TwoFollowers
  RankOf <- OwnRank
  Policies = {"ok"}
  LeaderOptIn = {TRUE}
  BufferSeconds = 0
  StaleAfter = 0
  MaxSnapshots = 2
  MaxFaults = 1
  LateRequests = FALSE
  JoinTimeouts = FALSE
  EagerThreads = TRUE
SPECIFICATION Spec
PROPERTY ImplementsLatestView
SYMMETRY Interchangeable
