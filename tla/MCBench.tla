------------------------------ MODULE MCBench ------------------------------
(* An instance of Bench for TLC. *)
EXTENDS Bench

TwoLevels == <<1, 2>>

\* A configuration for each kind of level, one of them without scrapes.
FewOptions ==
  {[command |-> "replay", scrape |-> TRUE, arrival |-> "gather", deadline |-> FALSE,
    giant |-> TRUE, customers |-> TRUE, storm |-> FALSE],
   [command |-> "kvcast", scrape |-> TRUE, arrival |-> "arrivals", deadline |-> TRUE,
    giant |-> FALSE, customers |-> TRUE, storm |-> TRUE],
   [command |-> "cold-start", scrape |-> FALSE, arrival |-> "batches", deadline |-> TRUE,
    giant |-> FALSE, customers |-> TRUE, storm |-> FALSE]}
=============================================================================
