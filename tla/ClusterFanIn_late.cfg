CONSTANTS
  f1 = f1
  f2 = f2
  Follower <- OneFollower
  Rank <- OneFollower
  RankOf <- OwnRank
  Policies = {"ok", "bad_token", "no_opt_in"}
  LeaderOptIn = {TRUE, FALSE}
  BufferSeconds = 1
  StaleAfter = 1
  MaxSnapshots = 2
  MaxFaults = 2
  LateRequests = TRUE
  JoinTimeouts = FALSE
  EagerThreads = FALSE
SPECIFICATION Spec
PROPERTY LatestKept
