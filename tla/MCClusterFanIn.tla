--------------------------- MODULE MCClusterFanIn ---------------------------
(* Instances of ClusterFanIn for TLC. *)
EXTENDS ClusterFanIn, TLC
CONSTANTS f1, f2

TwoFollowers == {f1, f2}
OneFollower  == {f1}

\* Every follower reports a rank of its own; the rank is named by its follower,
\* so that followers with their ranks are interchangeable.
OwnRank == [f \in Follower |-> f]

Interchangeable == Permutations(Follower)
=============================================================================
