------------------------------- MODULE Engines -------------------------------
(***************************************************************************)
(* What `inferguard launch-engine` promises to the owner of the engines    *)
(* and to the reader of healthcheck.json, without registries, handlers,    *)
(* waits and failures.  A launch starts one engine at most and holds it    *)
(* until it lets go.  While it does, and then only, it may tell its own    *)
(* engine to end, and kill it if it was told before.  It judges once at    *)
(* most, before it lets go of an engine: `healthy' only if it told it      *)
(* nothing, `failed' only if the engine has ended or never was.            *)
(***************************************************************************)
EXTENDS Naturals

CONSTANT MaxLaunches  \* how many launches there may be

VARIABLES
  launch,   \* the current launch
  engine,   \* per launch: its engine
  told,     \* per launch: what the engine was told
  held,     \* the engine of the current launch is still its own
  verdict   \* the last verdict, and the launch it is of

vars == <<launch, engine, told, held, verdict>>

Launches == 1 .. MaxLaunches

Init ==
  /\ launch = 1
  /\ engine = [l \in Launches |-> "none"]
  /\ told = [l \in Launches |-> "none"]
  /\ held = FALSE
  /\ verdict = [launch |-> 0, status |-> "none"]

Begin ==
  /\ ~held
  /\ launch' = launch + 1
  /\ launch' \in Launches
  /\ UNCHANGED <<engine, told, held, verdict>>

Start ==
  /\ engine[launch] = "none" /\ verdict.launch < launch
  /\ engine' = [engine EXCEPT ![launch] = "up"]
  /\ held' = TRUE
  /\ UNCHANGED <<launch, told, verdict>>

Tell(signal) ==
  /\ held /\ engine[launch] = "up"
  /\ told[launch] = IF signal = "kill" THEN "term" ELSE "none"
  /\ told' = [told EXCEPT ![launch] = signal]
  /\ UNCHANGED <<launch, engine, held, verdict>>

End(l) ==
  /\ engine[l] = "up"
  /\ engine' = [engine EXCEPT ![l] = "gone"]
  /\ UNCHANGED <<launch, told, held, verdict>>

Judge(status) ==
  /\ verdict.launch < launch
  /\ engine[launch] # "none" => held
  /\ status = "healthy" => told[launch] = "none"
  /\ status = "failed" => engine[launch] # "up"
  /\ verdict' = [launch |-> launch, status |-> status]
  /\ UNCHANGED <<launch, engine, told, held>>

LetGo ==
  /\ held /\ held' = FALSE
  /\ UNCHANGED <<launch, engine, told, verdict>>

Next ==
  \/ Begin \/ Start \/ LetGo
  \/ \E signal \in {"term", "kill"} : Tell(signal)
  \/ \E status \in {"healthy", "failed"} : Judge(status)
  \/ \E l \in Launches : End(l)

Spec == Init /\ [][Next]_vars
=============================================================================
