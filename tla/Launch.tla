------------------------------- MODULE Launch -------------------------------
(***************************************************************************)
(* `inferguard launch-engine`: one process that spawns an inference        *)
(* engine, waits until it answers, records what it saw and returns, with   *)
(* the shared signal handler that may interrupt it between any two steps,  *)
(* and the processes of the engine.  An operator repeats a launch in the   *)
(* same output directory: the files and engines of earlier launches stay.  *)
(*                                                                         *)
(* An engine is a process group: a leader, which subprocess.Popen knows,   *)
(* and the workers the leader has started.  The handler runs on the thread *)
(* it interrupts, so that pc stands still from the signal on.              *)
(***************************************************************************)
EXTENDS Naturals

CONSTANT MaxLaunches  \* how often the operator runs the command

ASSUME LaunchesAssumption == MaxLaunches \in Nat \ {0}

Launches == 1 .. MaxLaunches

VARIABLES
  launch,        \* the number of the current run of the command
  tool,          \* what its process is doing, or how it ended
  pc,            \* the next step of launch()
  handler,       \* the next step of _shared_shutdown_handler
  result,        \* healthcheck.status
  process,       \* the local of that name is set
  children,      \* the process is in _CHILD_PROCESSES
  producers,     \* partial_path is in _PARTIAL_RESULT_PRODUCERS
  leader,        \* per launch: the leader of the engine's process group
  workers,       \* per launch: its other members
  sent,          \* per launch: the strongest signal sent to the group
  command,       \* command.json: the launch it is of
  partial,       \* partial_results.json: the launch it is of, or 0
  health,        \* healthcheck.json: the launch it is of, or 0, and its status
  unwritten      \* history: this launch failed to write a file

toolVars == <<tool, pc, handler, result, process>>
registryVars == <<children, producers>>
engineVars == <<leader, workers, sent>>
fileVars == <<command, partial, health, unwritten>>
vars == <<launch, toolVars, registryVars, engineVars, fileVars>>

-----------------------------------------------------------------------------

Ended == tool \in {"returned", "raised", "interrupted", "forced", "killed"}

At(label) == tool = "running" /\ pc = label
Handling(label) == tool = "handling" /\ handler = label

\* A new process of the command: its registries are empty.
Init ==
  /\ launch = 1
  /\ tool = "running"
  /\ pc = "prepare"
  /\ handler = "none"
  /\ result = "none"
  /\ process = FALSE
  /\ children = FALSE
  /\ producers = FALSE
  /\ leader = [l \in Launches |-> "none"]
  /\ workers = [l \in Launches |-> "none"]
  /\ sent = [l \in Launches |-> "none"]
  /\ command = 0
  /\ partial = 0
  /\ health = [launch |-> 0, status |-> "none"]
  /\ unwritten = FALSE

Relaunch ==
  /\ Ended
  /\ launch < MaxLaunches
  /\ launch' = launch + 1
  /\ tool' = "running"
  /\ pc' = "prepare"
  /\ handler' = "none"
  /\ result' = "none"
  /\ process' = FALSE
  /\ children' = FALSE
  /\ producers' = FALSE
  /\ unwritten' = FALSE
  /\ UNCHANGED <<engineVars, command, partial, health>>

-----------------------------------------------------------------------------
\* launch()

Goto(label) == pc' = label /\ UNCHANGED <<launch, tool, handler>>

\* command.json and engine_version.json are written.
Prepare ==
  /\ At("prepare")
  /\ Goto("register_partial")
  /\ command' = launch
  /\ UNCHANGED <<result, process, registryVars, engineVars, partial, health,
                 unwritten>>

\* Writing one of them raises; command.json may have been replaced.
PrepareFails ==
  /\ At("prepare")
  /\ tool' = "raised"
  /\ command' \in {command, launch}
  /\ unwritten' = TRUE
  /\ UNCHANGED <<launch, pc, handler, result, process, registryVars, engineVars,
                 partial, health>>

\* A mutant of RegisterPartial: the producer is not registered.
RegisterPartialForgets ==
  /\ At("register_partial")
  /\ Goto("spawn")
  /\ UNCHANGED <<result, process, registryVars, engineVars, fileVars>>

RegisterPartial ==
  /\ At("register_partial")
  /\ producers' = TRUE
  /\ Goto("spawn")
  /\ UNCHANGED <<result, process, children, engineVars, fileVars>>

\* external_launch: nothing is spawned.
SkipSpawn ==
  /\ At("spawn")
  /\ Goto("healthcheck")
  /\ UNCHANGED <<result, process, registryVars, engineVars, fileVars>>

Spawn ==
  /\ At("spawn")
  /\ process' = TRUE
  /\ leader' = [leader EXCEPT ![launch] = "up"]
  /\ workers' = [workers EXCEPT ![launch] = "up"]
  /\ Goto("register_child")
  /\ UNCHANGED <<result, registryVars, sent, fileVars>>

\* Popen raises: the launch has failed without a process.
SpawnFails ==
  /\ At("spawn")
  /\ result' = "failed"
  /\ Goto("write_health")
  /\ UNCHANGED <<process, registryVars, engineVars, fileVars>>

RegisterChild ==
  /\ At("register_child")
  /\ children' = TRUE
  /\ Goto("healthcheck")
  /\ UNCHANGED <<result, process, producers, engineVars, fileVars>>

\* run_healthcheck ends, if it does: the deadline is tested between two requests
\* to /v1/models, and each request, the canary's stream too, has a timeout per
\* read only, so that an endpoint which keeps sending holds it for ever.  It asks
\* the endpoint only: what it finds is independent of the process just spawned.
Healthcheck ==
  /\ At("healthcheck")
  /\ \/ result' = "healthy" /\ Goto("write_health")
     \/ /\ result' = "failed"
        /\ Goto(IF process THEN "terminate" ELSE "write_health")
  /\ UNCHANGED <<process, registryVars, engineVars, fileVars>>

Signal(s) ==
  /\ sent' = [sent EXCEPT ![launch] = IF @ = "kill" THEN @ ELSE s]
  /\ UNCHANGED <<leader, workers>>

\* _terminate_process: SIGTERM to the group unless its leader has ended.
Terminate ==
  /\ At("terminate")
  /\ IF leader[launch] = "gone"
     THEN Goto("unregister_failed") /\ UNCHANGED engineVars
     ELSE Goto("wait") /\ Signal("term")
  /\ UNCHANGED <<result, process, registryVars, fileVars>>

\* process.wait returns: the leader has ended.
Waited ==
  /\ At("wait") \/ At("wait_killed")
  /\ leader[launch] = "gone"
  /\ Goto("unregister_failed")
  /\ UNCHANGED <<result, process, registryVars, engineVars, fileVars>>

\* A mutant of WaitTimesOut: an engine that ignores SIGTERM is left to itself.
WaitTimesOutGivesUp ==
  /\ At("wait")
  /\ leader[launch] = "up"
  /\ Goto("unregister_failed")
  /\ UNCHANGED <<result, process, registryVars, engineVars, fileVars>>

WaitTimesOut ==
  /\ At("wait")
  /\ leader[launch] = "up"
  /\ Signal("kill")
  /\ Goto("wait_killed")
  /\ UNCHANGED <<result, process, registryVars, fileVars>>

\* The second TimeoutExpired leaves launch().
KillTimesOut ==
  /\ At("wait_killed")
  /\ leader[launch] = "up"
  /\ tool' = "raised"
  /\ UNCHANGED <<launch, pc, handler, result, process, registryVars, engineVars,
                 fileVars>>

\* A mutant of UnregisterFailed: the producer goes with the process.
UnregisterFailedForgetsLaunch ==
  /\ At("unregister_failed")
  /\ children' = FALSE
  /\ producers' = FALSE
  /\ Goto("write_health")
  /\ UNCHANGED <<result, process, engineVars, fileVars>>

UnregisterFailed ==
  /\ At("unregister_failed")
  /\ children' = FALSE
  /\ Goto("write_health")
  /\ UNCHANGED <<result, process, producers, engineVars, fileVars>>

WriteHealth ==
  /\ At("write_health")
  /\ health' = [launch |-> launch, status |-> result]
  /\ Goto("unregister_partial")
  /\ UNCHANGED <<result, process, registryVars, engineVars, command, partial,
                 unwritten>>

\* atomic_write_text raises and keeps the file as it was.
WriteHealthFails ==
  /\ At("write_health")
  /\ tool' = "raised"
  /\ unwritten' = TRUE
  /\ UNCHANGED <<launch, pc, handler, result, process, registryVars, engineVars,
                 command, partial, health>>

UnregisterPartial ==
  /\ At("unregister_partial")
  /\ producers' = FALSE
  /\ Goto("unregister_child")
  /\ UNCHANGED <<result, process, children, engineVars, fileVars>>

UnregisterChild ==
  /\ At("unregister_child")
  /\ children' = FALSE
  /\ Goto("return")
  /\ UNCHANGED <<result, process, producers, engineVars, fileVars>>

Return ==
  /\ At("return")
  /\ tool' = "returned"
  /\ UNCHANGED <<launch, pc, handler, result, process, registryVars, engineVars,
                 fileVars>>

\* In run_healthcheck, between two signals.
Asking == At("healthcheck")

Main ==
  \/ Prepare \/ PrepareFails \/ RegisterPartial \/ SkipSpawn \/ Spawn \/ SpawnFails
  \/ RegisterChild
  \/ Healthcheck \/ Terminate \/ Waited \/ WaitTimesOut \/ KillTimesOut
  \/ UnregisterFailed \/ WriteHealth \/ WriteHealthFails
  \/ UnregisterPartial \/ UnregisterChild \/ Return

-----------------------------------------------------------------------------
\* _shared_shutdown_handler

\* SIGINT or SIGTERM.  The streams that the handler flushes first are none of
\* this command's.
SignalArrives ==
  /\ tool = "running"
  /\ tool' = "handling"
  /\ handler' = "write"
  /\ UNCHANGED <<launch, pc, result, process, registryVars, engineVars, fileVars>>

\* A second signal: os._exit.
SecondSignal ==
  /\ tool = "handling"
  /\ tool' = "forced"
  /\ UNCHANGED <<launch, pc, handler, result, process, registryVars, engineVars,
                 fileVars>>

HandlerGoto(label) == handler' = label /\ UNCHANGED <<launch, tool, pc, result, process>>

\* write_registered_partial_results; a file that cannot be written is logged.
WritePartial ==
  /\ Handling("write")
  /\ HandlerGoto("terminate")
  /\ \/ ~producers /\ UNCHANGED <<partial, unwritten>>
     \/ producers /\ partial' = launch /\ UNCHANGED unwritten
     \/ producers /\ unwritten' = TRUE /\ UNCHANGED partial
  /\ UNCHANGED <<registryVars, engineVars, command, health>>

\* terminate_registered_processes.
TerminateRegistered ==
  /\ Handling("terminate")
  /\ IF children /\ leader[launch] = "up"
     THEN HandlerGoto("wait") /\ Signal("term") /\ UNCHANGED children
     ELSE HandlerGoto("exit") /\ children' = FALSE /\ UNCHANGED engineVars
  /\ UNCHANGED <<producers, fileVars>>

HandlerWaited ==
  /\ Handling("wait") \/ Handling("wait_killed")
  /\ leader[launch] = "gone"
  /\ children' = FALSE
  /\ HandlerGoto("exit")
  /\ UNCHANGED <<producers, engineVars, fileVars>>

\* A mutant of HandlerWaitTimesOut: the timeout is logged, without SIGKILL.
HandlerNeverKills ==
  /\ Handling("wait")
  /\ leader[launch] = "up"
  /\ children' = FALSE
  /\ HandlerGoto("exit")
  /\ UNCHANGED <<producers, engineVars, fileVars>>

\* A mutant of HandlerWaitTimesOut: SIGTERM is sent again, without end.
HandlerWaitsOn ==
  /\ Handling("wait")
  /\ leader[launch] = "up"
  /\ Signal("term")
  /\ HandlerGoto("wait")
  /\ UNCHANGED <<registryVars, fileVars>>

HandlerWaitTimesOut ==
  /\ Handling("wait")
  /\ leader[launch] = "up"
  /\ Signal("kill")
  /\ HandlerGoto("wait_killed")
  /\ UNCHANGED <<registryVars, fileVars>>

\* The second TimeoutExpired is logged.
HandlerKillTimesOut ==
  /\ Handling("wait_killed")
  /\ leader[launch] = "up"
  /\ children' = FALSE
  /\ HandlerGoto("exit")
  /\ UNCHANGED <<producers, engineVars, fileVars>>

\* SystemExit is not an Exception: launch() is left as it stands.
HandlerExits ==
  /\ Handling("exit")
  /\ tool' = "interrupted"
  /\ UNCHANGED <<launch, pc, handler, result, process, registryVars, engineVars,
                 fileVars>>

Handler ==
  \/ WritePartial \/ TerminateRegistered \/ HandlerWaited \/ HandlerWaitTimesOut
  \/ HandlerKillTimesOut \/ HandlerExits

-----------------------------------------------------------------------------
\* The processes

\* The command itself is killed (SIGKILL, out of memory).
ToolKilled ==
  /\ ~Ended
  /\ tool' = "killed"
  /\ UNCHANGED <<launch, pc, handler, result, process, registryVars, engineVars,
                 fileVars>>

\* A leader may end at any time; its workers may outlive it.
LeaderEnds(l) ==
  /\ leader[l] = "up"
  /\ leader' = [leader EXCEPT ![l] = "gone"]
  /\ UNCHANGED <<launch, toolVars, registryVars, workers, sent, fileVars>>

WorkersEnd(l) ==
  /\ workers[l] = "up"
  /\ workers' = [workers EXCEPT ![l] = "gone"]
  /\ UNCHANGED <<launch, toolVars, registryVars, leader, sent, fileVars>>

Next ==
  \/ Relaunch \/ Main \/ SignalArrives \/ SecondSignal \/ Handler \/ ToolKilled
  \/ \E l \in Launches : LeaderEnds(l) \/ WorkersEnd(l)

Spec == Init /\ [][Next]_vars

\* The command runs, its waits for the engine end at their deadlines, and what
\* SIGKILL is sent to ends.  What SIGTERM is sent to may ignore it, and the
\* endpoint may keep run_healthcheck for ever.
FairSpec ==
  /\ Spec
  /\ WF_vars(Main /\ ~Asking)
  /\ WF_vars(Handler)
  /\ \A l \in Launches : WF_vars(sent[l] = "kill" /\ (LeaderEnds(l) \/ WorkersEnd(l)))

-----------------------------------------------------------------------------
\* What must hold

MainSteps ==
  {"prepare", "register_partial", "spawn", "register_child", "healthcheck",
   "terminate", "wait", "wait_killed", "unregister_failed", "write_health",
   "unregister_partial", "unregister_child", "return"}
Process == {"none", "up", "gone"}

\* Type correctness of the command's state.
TypeOK ==
  /\ launch \in Launches
  /\ tool \in {"running", "handling", "returned", "raised", "interrupted", "forced",
              "killed"}
  /\ pc \in MainSteps
  /\ handler \in {"none", "write", "terminate", "wait", "wait_killed", "exit"}
  /\ result \in {"none", "healthy", "failed"}
  /\ process \in BOOLEAN
  /\ children \in BOOLEAN
  /\ producers \in BOOLEAN
  /\ leader \in [Launches -> Process]
  /\ workers \in [Launches -> Process]
  /\ sent \in [Launches -> {"none", "term", "kill"}]
  /\ command \in 0 .. MaxLaunches
  /\ partial \in 0 .. MaxLaunches
  /\ health \in [launch : 0 .. MaxLaunches, status : {"none", "healthy", "failed"}]
  /\ unwritten \in BOOLEAN

\* A command that one signal interrupted leaves the leader of its engine only
\* in two places: before register_child_process has been told of it, and after
\* a healthy launch has handed it over.  (What was sent SIGKILL is ending.)
LeaderReaped ==
  tool = "interrupted" /\ leader[launch] = "up" =>
    \/ sent[launch] = "kill"
    \/ pc = "register_child"
    \/ pc = "return" /\ result = "healthy"

\* An engine the command has signalled is on record as failed or interrupted,
\* even if the command is killed while it waits for the engine to end; but for
\* the step between the two unregister calls, where healthcheck.json says
\* healthy and the handler terminates the engine all the same.
KilledIsRecorded ==
  /\ tool = "returned" \/ handler \in {"wait", "wait_killed", "exit"}
  /\ sent[launch] # "none"
  /\ ~unwritten
  => \/ partial = launch
     \/ health = [launch |-> launch, status |-> "failed"]
     \/ pc = "unregister_child"

\* Artifacts in one directory that are of different launches are explained: the
\* last launch was interrupted, and once it had registered its producer,
\* partial_results.json says so.
ArtifactsAgree ==
  /\ tool \in {"returned", "interrupted"}
  /\ ~unwritten
  /\ command # health.launch
  => /\ tool = "interrupted"
     /\ partial = launch \/ pc \in {"prepare", "register_partial"}

\* What launch() returns is on record and agrees with what it did to the
\* engine: the leader of one that failed has ended, and one that is healthy
\* was sent no signal.
ResultMatchesEngine ==
  tool = "returned" =>
    /\ health = [launch |-> launch, status |-> result]
    /\ result = "failed" => leader[launch] # "up"
    /\ result = "healthy" => sent[launch] = "none"

\* The command may still signal the engine it has started.
Holds ==
  /\ process /\ pc # "return"
  /\ tool = "running" \/ (tool = "handling" /\ handler # "exit")

\* Whatever is interrupted, killed or cannot be written: a launch signals its
\* own engine only, SIGKILL after SIGTERM, never once it has let go of it; and
\* its one verdict is true of the engine when it is recorded.
Contract == INSTANCE Engines WITH
  engine <- leader, told <- sent, verdict <- health, held <- Holds
ImplementsEngines == Contract!Spec

\* The strengthening that makes these inductive.

\* Which steps the handler has taken, given how the command stands.
HandlerInStep ==
  /\ tool \in {"running", "returned", "raised"} => handler = "none"
  /\ tool = "handling" => handler # "none"
  /\ tool = "interrupted" => handler = "exit"
  /\ tool = "returned" => pc = "return"

\* What is registered at each step of launch().
Registered ==
  /\ producers <=> pc \notin {"prepare", "register_partial", "unregister_child", "return"}
  /\ children => process /\ handler # "exit" /\ pc \notin {"register_child", "return"}
  /\ process /\ handler # "exit" =>
       \/ children
       \/ pc \in {"register_child", "return"}
       \/ /\ result = "failed"
          /\ pc \in {"write_health", "unregister_partial", "unregister_child"}
  /\ pc \in {"prepare", "register_partial", "spawn"} => ~process
  /\ pc = "register_child" => process

\* The engine of this launch exists once Popen has returned, those of later
\* ones do not, and a leader is up, or was.
Spawned ==
  /\ process <=> leader[launch] # "none"
  /\ sent[launch] # "none" => process
  /\ \A l \in Launches : l > launch => leader[l] = "none" /\ sent[l] = "none"

\* launch() signals only what has failed, and sees it end.
Outcome ==
  /\ pc \in {"prepare", "register_partial", "spawn", "register_child", "healthcheck"} =>
       result = "none"
  /\ pc \in {"terminate", "wait", "wait_killed", "unregister_failed"} =>
       result = "failed" /\ process
  /\ pc \in {"write_health", "unregister_partial", "unregister_child", "return"} =>
       result # "none"
  /\ handler \in {"none", "write"} /\ result # "failed" => sent[launch] = "none"
  /\ result = "failed" /\ leader[launch] = "up" =>
       pc \in {"terminate", "wait", "wait_killed"}
  /\ pc \in {"wait", "wait_killed"} => sent[launch] # "none"

\* What the handler has done by the time of each of its steps.
HandlerDone ==
  /\ handler \in {"terminate", "wait", "wait_killed", "exit"} /\ producers /\ ~unwritten =>
       partial = launch
  /\ handler = "wait_killed" => sent[launch] = "kill"
  /\ handler \in {"wait", "wait_killed"} => children /\ sent[launch] # "none"
  /\ handler = "exit" /\ leader[launch] = "up" =>
       \/ sent[launch] = "kill"
       \/ pc = "register_child"
       \/ pc = "return" /\ result = "healthy"
  /\ handler = "terminate" /\ result # "failed" => sent[launch] = "none"
  /\ pc = "return" /\ result = "healthy" => sent[launch] = "none"

\* Which launches the files are of.
Files ==
  /\ pc # "prepare" => command = launch
  /\ pc \in {"unregister_partial", "unregister_child", "return"} =>
       health = [launch |-> launch, status |-> result]
  /\ pc \notin {"unregister_partial", "unregister_child", "return"} =>
       health.launch < launch

\* The inductive invariant.
IInv ==
  /\ TypeOK
  /\ HandlerInStep
  /\ Registered
  /\ Spawned
  /\ Outcome
  /\ HandlerDone
  /\ Files

\* The command ends, whatever the engine and the signals do, as each wait for the
\* engine has a deadline; only an endpoint whose answer never ends can hold it.
CommandEnds == <>[]Asking \/ (~Ended ~> Ended)

\* The leader of a registered engine ends after a signal, even if it ignores
\* SIGTERM, unless a second signal or SIGKILL ends the handler first.
LeaderGoes ==
  \A l \in Launches :
    launch = l /\ tool = "handling" /\ children ~>
      leader[l] # "up" \/ (launch = l /\ tool \in {"forced", "killed"})

\* CHANGELOG.md:53: "updated shared SIGTERM/SIGINT cleanup to terminate
\* registered process groups, preventing orphan vLLM/SGLang workers".
GroupGoes ==
  \A l \in Launches :
    launch = l /\ tool = "handling" /\ children ~>
      workers[l] # "up" \/ (launch = l /\ tool \in {"forced", "killed"})
=============================================================================
