----------------------------- MODULE ProfileFiles -----------------------------
(***************************************************************************)
(* What the files of `inferguard request-profile` promise, without         *)
(* processes, tasks, buffers or signals.  An attempt starts its rows       *)
(* afresh.  It then records each request at most once, in the rows, and    *)
(* reports on itself at most once: with a summary, when every request is   *)
(* in the rows, or with a partial result, which no row is missing from.    *)
(***************************************************************************)
EXTENDS Naturals

CONSTANT Requests

VARIABLES
  fileOf,   \* the attempt that the rows are of, 0 before the first
  file,     \* how often each request is in the rows
  summary,  \* the summary: the attempt it is of, or 0, and its rows
  partial   \* the partial result: likewise

vars == <<fileOf, file, summary, partial>>

Report == [of |-> 0, rows |-> [r \in Requests |-> 0]]

Init ==
  /\ fileOf = 0
  /\ file = [r \in Requests |-> 0]
  /\ summary = Report
  /\ partial = Report

Begin ==
  /\ fileOf' > fileOf
  /\ file' = [r \in Requests |-> 0]
  /\ UNCHANGED <<summary, partial>>

\* What is recorded late, after the partial result, is in it.
Record ==
  /\ summary.of # fileOf
  /\ file' \in [Requests -> 0 .. 1]
  /\ \A r \in Requests :
       /\ file[r] <= file'[r]
       /\ partial.of = fileOf => file'[r] <= partial.rows[r]
  /\ UNCHANGED <<fileOf, summary, partial>>

Summarise ==
  /\ fileOf # 0 /\ partial.of # fileOf
  /\ \A r \in Requests : file[r] = 1
  /\ summary' = [of |-> fileOf, rows |-> file]
  /\ UNCHANGED <<fileOf, file, partial>>

Interrupt ==
  /\ fileOf # 0 /\ summary.of # fileOf /\ partial.of # fileOf
  /\ \E rows \in [Requests -> 0 .. 1] :
       /\ \A r \in Requests : file[r] <= rows[r]
       /\ partial' = [of |-> fileOf, rows |-> rows]
  /\ UNCHANGED <<fileOf, file, summary>>

Next == Begin \/ Record \/ Summarise \/ Interrupt

Spec == Init /\ [][Next]_vars
=============================================================================
