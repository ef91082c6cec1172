------------------------------ MODULE Incidents ------------------------------
(***************************************************************************)
(* What the agent promises to whoever reads its memory or owns the engine, *)
(* without its event loop, tasks, calls and failures.  Incidents are       *)
(* stored once and in order.  The engine is changed for the latest one     *)
(* only, and once at most by each kind of action.  Several judges may      *)
(* write the resolution of an incident, each of them once: the             *)
(* verification of an action that changed the engine, if its effect is     *)
(* measurable, and the outcome of the replay or of the resolution check.   *)
(* When none is open any more, all about the incident is final.            *)
(***************************************************************************)
EXTENDS Naturals

CONSTANTS
  Cycle,      \* numbers of the incidents there may be
  Kind,       \* the kinds of actions that may change the engine
  Measurable  \* those whose effect the verification can tell

VARIABLES
  memory,      \* the incidents stored so far
  changed,     \* how often each action was applied for each
  resolution,  \* the resolution of each
  open         \* the judges that may still write it

vars == <<memory, changed, resolution, open>>

Judge == Kind \cup {"outcome"}
Verdict == {"effective", "ineffective"}

Init ==
  /\ memory = {}
  /\ changed = [a \in Cycle \X Kind |-> 0]
  /\ resolution = [c \in Cycle |-> "none"]
  /\ open = [c \in Cycle |-> {}]

Latest(c) == \A d \in memory : d <= c

Store(c) ==
  /\ c \notin memory /\ Latest(c)
  /\ memory' = memory \cup {c}
  /\ open' = [open EXCEPT ![c] = Judge]
  /\ UNCHANGED <<changed, resolution>>

\* Its verification has not been made yet, and may be made later.
Change(c, k) ==
  /\ c \in memory /\ Latest(c)
  /\ changed[<<c, k>>] = 0 /\ k \in open[c]
  /\ changed' = [changed EXCEPT ![<<c, k>>] = 1]
  /\ UNCHANGED <<memory, resolution, open>>

Decide(c, j) ==
  /\ j \in open[c]
  /\ j # "outcome" => j \in Measurable /\ changed[<<c, j>>] = 1
  /\ \E v \in Verdict : resolution' = [resolution EXCEPT ![c] = v]
  /\ open' = [open EXCEPT ![c] = @ \ {j}]
  /\ UNCHANGED <<memory, changed>>

\* A judge finds nothing, fails, or is cancelled.
GiveUp ==
  /\ open' \in [Cycle -> SUBSET Judge]
  /\ \A c \in Cycle : open'[c] \subseteq open[c]
  /\ UNCHANGED <<memory, changed, resolution>>

Next ==
  \/ \E c \in Cycle : \/ Store(c)
                      \/ \E k \in Kind : Change(c, k)
                      \/ \E j \in Judge : Decide(c, j)
  \/ GiveUp

Spec == Init /\ [][Next]_vars
=============================================================================
