----------------------------- MODULE LatestView -----------------------------
(***************************************************************************)
(* What the fan-in promises, without buffers, threads, requests or time:   *)
(* for every follower the leader shows nothing or a snapshot the follower  *)
(* took, and goes forward only, except that it may forget everything.      *)
(***************************************************************************)
EXTENDS Naturals

CONSTANT Follower

VARIABLES
  taken,  \* snapshots each follower has taken so far
  view    \* the snapshot the leader shows for it, 0 for none

vars == <<taken, view>>

Init ==
  /\ taken = [f \in Follower |-> 0]
  /\ view = [f \in Follower |-> 0]

Take(f) ==
  /\ taken' = [taken EXCEPT ![f] = @ + 1]
  /\ UNCHANGED view

Publish(f) ==
  /\ \E n \in view[f] + 1 .. taken[f] : view' = [view EXCEPT ![f] = n]
  /\ UNCHANGED taken

Forget ==
  /\ view' = [f \in Follower |-> 0]
  /\ UNCHANGED taken

Next == Forget \/ \E f \in Follower : Take(f) \/ Publish(f)

Spec == Init /\ [][Next]_vars
=============================================================================
