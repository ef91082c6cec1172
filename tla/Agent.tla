-------------------------------- MODULE Agent --------------------------------
(***************************************************************************)
(* The agent loop of agent.py: watch and run_once, with the background     *)
(* tasks they start: one verification for each applied action, one         *)
(* resolution check for each incident, and the periodic investigation.     *)
(*                                                                         *)
(* Everything runs in one event loop, so that code between two awaits is   *)
(* one step; each await is a step boundary, where the background tasks run *)
(* and the agent may be stopped.  `phase' names the await at which the     *)
(* main coroutine stands; awaits in a row are one phase when the code      *)
(* between them changes nothing the model has.                             *)
(*                                                                         *)
(* Redis and Vector are configured.  Delays are not timed: the             *)
(* verification delay is configuration and replays take minutes, so that   *)
(* tasks may finish in any order.                                          *)
(*                                                                         *)
(* An incident has the number of the cycle that found it.  The inline      *)
(* investigation of cycle c is 2c, the one watch starts after it 2c + 1.   *)
(***************************************************************************)
EXTENDS Integers, FiniteSets

CONSTANTS
  MaxCycles,       \* bound on the cycles of watch
  MaxPreemptions,  \* bound on what the engine's preemption counter reaches
  MaxFaults,       \* bound on failed calls
  Every,           \* proactive_cycle_every
  Modes,           \* the actuation modes a process may have
  Allowlist,       \* actuation_allowlist: the types of actions that are executed
  HasReplay,       \* has_replay
  LocalBrain       \* brain_mode = "local"

ActionType ==
  {"recommend_compaction", "throttle_concurrency", "flush_session_radix",
   "drain_and_recycle"}

ASSUME ConstantsAssumption ==
  /\ MaxCycles \in Nat
  /\ MaxPreemptions \in Nat
  /\ MaxFaults \in Nat
  /\ Every \in Nat
  /\ Modes \in SUBSET {"off", "dry_run", "live"}
  /\ Allowlist \in SUBSET ActionType
  /\ HasReplay \in BOOLEAN
  /\ LocalBrain \in BOOLEAN

Cycle == 1 .. MaxCycles

\* An action that may be executed: its incident and its type.
Action == Cycle \X Allowlist

VARIABLES
  mode,         \* actuation_mode of this process
  preemptions,  \* the engine's counter, preemptions_total
  occurred,     \* history: preemptions since the agent's first scrape
  restarted,    \* history: did the engine restart, and its counter with it?
  phase,        \* the await the main coroutine is at
  cycle,        \* cycles of watch so far
  snapshot,     \* the snapshot run_once has scraped and not yet examined, or None
  last,         \* _last_preemptions, or Unknown as long as there is no _last_snapshot
  charged,      \* history: preemptions given as reasons of an anomaly
  advisories,   \* _last_proactive_advisories: the investigation they are of, or 0
  running,      \* investigations in flight
  baseline,     \* cycle whose replay is _replay_baseline, or 0
  replay,       \* the verdict of the incident's replay validation, in run_once
  stored,       \* Vector: incidents with a row
  resolution,   \* Vector: resolution_effective of each incident
  reported,     \* the investigation each report shows, or 0
  todo,         \* the rules whose actions run_once has yet to execute
  outcome,      \* what became of the action run_once has just executed
  webhook,      \* how often the actuation endpoint has applied each action
  verify,       \* the _verify_action task of each action
  check,        \* the _check_resolution task of each incident
  faults        \* failed calls so far

engineVars == <<preemptions, occurred, restarted>>
loopVars   == <<cycle, snapshot, last, charged>>
brainVars  == <<advisories, running>>
replayVars == <<baseline, replay>>
memoryVars == <<stored, resolution>>
actionVars == <<mode, todo, outcome, webhook>>
taskVars   == <<verify, check>>
vars == <<engineVars, phase, loopVars, brainVars, replayVars, memoryVars, reported,
          actionVars, taskVars, faults>>

None == [pressure |-> FALSE, preemptions |-> -1]
Unknown == -1

Inline(c) == 2 * c
Background(c) == 2 * c + 1
Investigation == 2 .. 2 * MaxCycles + 1
IsBackground(i) == i % 2 = 1

At(p) == phase = p
Goto(p) == phase' = p
Fault == faults < MaxFaults /\ faults' = faults + 1

-----------------------------------------------------------------------------
(* The engine: preemptions happen, and a restart resets their counter. *)

\* Nothing but the next scrape sees what the engine does between two of them,
\* so that it does it just before.

Preempt ==
  /\ At("scrape")
  /\ preemptions < MaxPreemptions
  /\ preemptions' = preemptions + 1
  /\ occurred' = IF last = Unknown THEN 0 ELSE occurred + 1
  /\ UNCHANGED <<restarted, phase, loopVars, brainVars, replayVars, memoryVars,
                 reported, actionVars, taskVars, faults>>

RestartEngine ==
  /\ At("scrape")
  /\ ~restarted
  /\ preemptions' = 0
  /\ restarted' = TRUE
  /\ UNCHANGED <<occurred, phase, loopVars, brainVars, replayVars, memoryVars,
                 reported, actionVars, taskVars, faults>>

-----------------------------------------------------------------------------
(* run_once up to the detection *)

StartCycle ==
  /\ At("idle")
  /\ cycle < MaxCycles
  /\ cycle' = cycle + 1
  /\ Goto("scrape")
  /\ UNCHANGED <<engineVars, snapshot, last, charged, brainVars, replayVars, memoryVars,
                 reported, actionVars, taskVars, faults>>

\* A failed scrape is an error report, which drains no advisories.
Scrape ==
  /\ At("scrape")
  /\ \/ /\ \E p \in BOOLEAN :
             snapshot' = [pressure |-> p, preemptions |-> preemptions]
        /\ Goto("store_snapshot")
        /\ UNCHANGED faults
     \/ /\ Fault
        /\ Goto("yielded")
        /\ UNCHANGED snapshot
  /\ UNCHANGED <<engineVars, cycle, last, charged, brainVars, replayVars, memoryVars,
                 reported, actionVars, taskVars>>

\* detect_anomalies: preemptions since the previous scrape.
Delta == IF last = Unknown THEN 0 ELSE snapshot.preemptions - last

\* What detect_anomalies and detect_rlm_anomalies find: a level above its
\* threshold, or new preemptions.
IsAnomaly == snapshot.pressure \/ Delta > 0

\* A mutant of Detect: the last snapshot is kept on the path of an anomaly.
DetectKeepsLast ==
  /\ At("store_snapshot")
  /\ charged' = IF Delta > 0 THEN charged + Delta ELSE charged
  /\ last' = IF IsAnomaly THEN last ELSE snapshot.preemptions
  /\ snapshot' = None
  /\ Goto(IF IsAnomaly THEN "diagnose" ELSE "save_healthy")
  /\ UNCHANGED <<engineVars, cycle, brainVars, replayVars, memoryVars,
                 reported, actionVars, taskVars, faults>>

\* The last snapshot is replaced before the first await that follows.
Detect ==
  /\ At("store_snapshot")
  /\ charged' = IF Delta > 0 THEN charged + Delta ELSE charged
  /\ last' = snapshot.preemptions
  /\ snapshot' = None
  /\ Goto(IF IsAnomaly THEN "diagnose" ELSE "save_healthy")
  /\ UNCHANGED <<engineVars, cycle, brainVars, replayVars, memoryVars,
                 reported, actionVars, taskVars, faults>>

-----------------------------------------------------------------------------
(* run_once on a healthy snapshot *)

\* A mutant of Report: the advisories are shown, not drained.
ReportKeepsAdvisories ==
  /\ reported' = [reported EXCEPT ![cycle] = advisories]
  /\ UNCHANGED advisories
  /\ Goto("yielded")

\* _drain_proactive_advisories, into the report of the cycle.
Report ==
  /\ reported' = [reported EXCEPT ![cycle] = advisories]
  /\ advisories' = 0
  /\ Goto("yielded")

SaveHealthy ==
  /\ At("save_healthy")
  /\ \/ /\ HasReplay /\ baseline = 0
        /\ Goto("capture")
        /\ UNCHANGED <<advisories, reported>>
     \/ ~(HasReplay /\ baseline = 0) /\ Report
  /\ UNCHANGED <<engineVars, loopVars, running, replayVars, memoryVars,
                 actionVars, taskVars, faults>>

\* _capture_replay_baseline: a failed replay is tried again at the next
\* healthy cycle.
CaptureBaseline ==
  /\ At("capture")
  /\ \/ /\ baseline' = cycle
        /\ Goto("log_baseline")
        /\ UNCHANGED <<advisories, reported, faults>>
     \/ Fault /\ Report /\ UNCHANGED baseline
  /\ UNCHANGED <<engineVars, loopVars, running, replay, memoryVars, actionVars, taskVars>>

LogBaseline ==
  /\ At("log_baseline")
  /\ Report
  /\ UNCHANGED <<engineVars, loopVars, running, replayVars, memoryVars,
                 actionVars, taskVars, faults>>

-----------------------------------------------------------------------------
(* run_once on an anomaly *)

\* The diagnosis, then store_incident: the row in Vector.
StoreIncident ==
  /\ At("diagnose")
  /\ stored' = stored \cup {cycle}
  /\ Goto("save_incident")
  /\ UNCHANGED <<engineVars, loopVars, brainVars, replayVars, resolution, reported,
                 actionVars, taskVars, faults>>

\* The rules of decide_safe_actions in their order: compaction, throttling
\* under KV pressure, flushing, throttling in a preemption storm, draining.
TypeOf ==
  <<"recommend_compaction", "throttle_concurrency", "flush_session_radix",
    "throttle_concurrency", "drain_and_recycle">>
Rule == DOMAIN TypeOf

\* The rules that may fire together, on whatever snapshot: pressure with
\* preemptions (2) and thrashing (3) are reasons for compaction too.
Firing == {fired \in SUBSET Rule : 2 \in fired \/ 3 \in fired => 1 \in fired}

\* A mutant of Added: two rules may propose the same action.
AddedTwice(fired) == fired

\* add: of two rules with the same type of action the first one counts.
Added(fired) ==
  {r \in fired : \A q \in fired : q < r => TypeOf[q] # TypeOf[r]}

\* is_eligible
Eligible(rules) == {r \in rules : mode # "off" /\ TypeOf[r] \in Allowlist}

IsFirst(r, rules) == r \in rules /\ \A q \in rules : r <= q

\* The action of a rule, in the incident of this cycle.
ActionOf(r) == <<cycle, TypeOf[r]>>

\* After the actions an investigation is run inline when there are no
\* advisories yet.
AfterActions ==
  \/ /\ LocalBrain /\ advisories = 0
     /\ running' = running \cup {Inline(cycle)}
     /\ Goto("investigate")
  \/ /\ ~(LocalBrain /\ advisories = 0)
     /\ Goto("validate")
     /\ UNCHANGED running

\* The incident's event, its metrics and the agent's state go to Redis; then
\* decide_safe_actions.  The first action is executed, or it is not eligible
\* and only logged, or there is none.
Decide ==
  /\ At("save_incident")
  /\ \E fired \in Firing :
       /\ todo' = Eligible(Added(fired))
       /\ \/ /\ \E r \in todo' : IsFirst(r, Added(fired))
             /\ Goto("execute")
             /\ UNCHANGED running
          \/ /\ \E r \in Added(fired) \ todo' : IsFirst(r, Added(fired))
             /\ Goto("log_safe_action")
             /\ UNCHANGED running
          \/ fired = {} /\ AfterActions
  /\ UNCHANGED <<mode, outcome, webhook, engineVars, loopVars, advisories, replayVars,
                 memoryVars, reported, taskVars, faults>>

\* ActionExecutor.execute of the next action.  A lost reply looks like a lost
\* request.
Execute ==
  /\ At("execute")
  /\ \E r \in todo :
       /\ IsFirst(r, todo)
       /\ \/ /\ mode = "dry_run"
             /\ outcome' = "dry_run"
             /\ UNCHANGED <<webhook, faults>>
          \/ /\ mode = "live"
             /\ outcome' = "applied"
             /\ webhook' = [webhook EXCEPT ![ActionOf(r)] = @ + 1]
             /\ UNCHANGED faults
          \/ /\ mode = "live"
             /\ outcome' = "rejected"
             /\ UNCHANGED <<webhook, faults>>
          \/ /\ mode = "live"
             /\ Fault
             /\ outcome' = "error"
             /\ webhook' \in {webhook, [webhook EXCEPT ![ActionOf(r)] = @ + 1]}
  /\ Goto("log_execution")
  /\ UNCHANGED <<mode, todo, engineVars, loopVars, brainVars, replayVars, memoryVars,
                 reported, taskVars>>

\* The action in hand has been logged, and its verification is started or not.
Executed(r, isVerified) ==
  /\ IsFirst(r, todo)
  /\ verify' = IF isVerified THEN [verify EXCEPT ![ActionOf(r)] = "sleeping"] ELSE verify
  /\ todo' = todo \ {r}

\* A mutant of LogExecution: an action whose reply was lost is verified too.
LogExecutionVerifiesErrors ==
  /\ At("log_execution")
  /\ \E r \in todo : Executed(r, outcome \in {"applied", "error"})
  /\ outcome' = "none"
  /\ Goto("log_safe_action")
  /\ UNCHANGED <<mode, webhook, engineVars, loopVars, brainVars, replayVars, memoryVars,
                 reported, check, faults>>

\* A mutant of LogExecution: no task is started.
LogExecutionForgets ==
  /\ At("log_execution")
  /\ \E r \in todo : Executed(r, FALSE)
  /\ outcome' = "none"
  /\ Goto("log_safe_action")
  /\ UNCHANGED <<mode, webhook, engineVars, loopVars, brainVars, replayVars, memoryVars,
                 reported, check, faults>>

\* The event is logged first; only then is an applied action's verification
\* started.
LogExecution ==
  /\ At("log_execution")
  /\ \E r \in todo : Executed(r, outcome = "applied")
  /\ outcome' = "none"
  /\ Goto("log_safe_action")
  /\ UNCHANGED <<mode, webhook, engineVars, loopVars, brainVars, replayVars, memoryVars,
                 reported, check, faults>>

\* The action, and those after it that are not eligible, are logged; then the
\* next one is executed.
LogSafeAction ==
  /\ At("log_safe_action")
  /\ \/ todo # {} /\ Goto("execute") /\ UNCHANGED running
     \/ todo = {} /\ AfterActions
  /\ UNCHANGED <<engineVars, loopVars, advisories, replayVars, memoryVars, reported,
                 actionVars, taskVars, faults>>

\* proactive_cycle to its end: what it found, or nothing, replaces the
\* advisories there are.  A remote brain is not implemented and finds nothing.
Investigated(i) ==
  /\ running' = running \ {i}
  /\ \/ LocalBrain /\ advisories' = i
     \/ advisories' = 0

\* wait_for(self.proactive_cycle(), 45): the result, or a cancellation.
InvestigateInline ==
  /\ At("investigate")
  /\ \/ Investigated(Inline(cycle))
     \/ running' = running \ {Inline(cycle)} /\ UNCHANGED advisories
  /\ Goto("validate")
  /\ UNCHANGED <<engineVars, loopVars, replayVars, memoryVars, reported,
                 actionVars, taskVars, faults>>

\* A mutant of Validate: a replay is judged though there is no baseline.
ValidateWithoutBaseline ==
  /\ At("validate")
  /\ \/ HasReplay /\ replay' \in {"effective", "ineffective"}
     \/ replay' = "none"
  /\ Goto("conclude")
  /\ UNCHANGED <<engineVars, loopVars, brainVars, baseline, memoryVars, reported,
                 actionVars, taskVars, faults>>

\* _replay_validate: a comparison has a verdict only if there is a baseline.
\* Whatever fails in it is logged, and there is no verdict.
Validate ==
  /\ At("validate")
  /\ \/ HasReplay /\ baseline # 0 /\ replay' \in {"effective", "ineffective"}
     \/ replay' = "none"
  /\ Goto("conclude")
  /\ UNCHANGED <<engineVars, loopVars, brainVars, baseline, memoryVars, reported,
                 actionVars, taskVars, faults>>

\* A mutant of ConcludeLater: a configured replay is taken for a verdict.
ConcludeLaterUnlessReplayed ==
  /\ At("conclude")
  /\ replay = "none"
  /\ check' = IF HasReplay THEN check ELSE [check EXCEPT ![cycle] = "sleeping"]
  /\ Report
  /\ UNCHANGED <<engineVars, loopVars, running, replayVars, memoryVars,
                 actionVars, verify, faults>>

\* No verdict yet: a task is to check the resolution later.
ConcludeLater ==
  /\ At("conclude")
  /\ replay = "none"
  /\ check' = [check EXCEPT ![cycle] = "sleeping"]
  /\ Report
  /\ UNCHANGED <<engineVars, loopVars, running, replayVars, memoryVars,
                 actionVars, verify, faults>>

\* update_incident_resolution writes Vector, where a failure is swallowed ...
Resolve(c, verdict) ==
  \/ resolution' = [resolution EXCEPT ![c] = verdict] /\ UNCHANGED faults
  \/ Fault /\ UNCHANGED resolution

\* ... and then the event in Redis.
ConcludeNow ==
  /\ At("conclude")
  /\ replay # "none"
  /\ Resolve(cycle, replay)
  /\ Goto("log_resolution")
  /\ UNCHANGED <<engineVars, loopVars, brainVars, replayVars, stored, reported,
                 actionVars, taskVars>>

\* The event of the resolution; the cycle is over.
LogResolution ==
  /\ At("log_resolution")
  /\ Report
  /\ replay' = "none"
  /\ UNCHANGED <<engineVars, loopVars, running, baseline, memoryVars,
                 actionVars, taskVars, faults>>

\* Awaits whose exceptions run_once does not catch: they end watch.
Unguarded ==
  {"store_snapshot", "save_healthy", "log_baseline", "diagnose", "save_incident",
   "log_execution", "log_safe_action", "log_resolution"}

\* The coroutine ends, and its list of actions with it.
Leave ==
  /\ Goto("ended")
  /\ todo' = {}
  /\ outcome' = "none"

Raise ==
  /\ phase \in Unguarded
  /\ Fault
  /\ Leave
  /\ UNCHANGED <<mode, webhook, engineVars, loopVars, brainVars, replayVars, memoryVars,
                 reported, taskVars>>

-----------------------------------------------------------------------------
(* watch *)

\* After the report is yielded, every Every-th cycle starts an investigation
\* unless the previous one is still running.
\* (Without a snapshot proactive_cycle returns at once.)
BackgroundDue ==
  /\ Every > 0
  /\ cycle % Every = 0
  /\ last # Unknown
  /\ \A i \in running : ~IsBackground(i)

AfterYield ==
  /\ At("yielded")
  /\ running' = IF BackgroundDue THEN running \cup {Background(cycle)} ELSE running
  /\ Goto("idle")
  /\ UNCHANGED <<engineVars, loopVars, advisories, replayVars, memoryVars, reported,
                 actionVars, taskVars, faults>>

InvestigateBackground ==
  /\ \E i \in running : IsBackground(i) /\ Investigated(i)
  /\ UNCHANGED <<engineVars, phase, loopVars, replayVars, memoryVars, reported,
                 actionVars, taskVars, faults>>

\* The consumer of watch goes away, or its task is cancelled at an await.
Stop ==
  /\ phase \notin {"ended", "down"}
  /\ Leave
  /\ running' = running \ {Inline(cycle)}
  /\ UNCHANGED <<mode, webhook, engineVars, loopVars, advisories, replayVars, memoryVars,
                 reported, taskVars, faults>>

Pending(task) == task \in {"sleeping", "improved", "regressed"}
Cancelled(tasks) ==
  [k \in DOMAIN tasks |-> IF Pending(tasks[k]) THEN "cancelled" ELSE tasks[k]]

\* A mutant of Shutdown: the verifications are not tracked.
ShutdownForgetsVerifications ==
  /\ At("ended")
  /\ check' = Cancelled(check)
  /\ running' = {}
  /\ Goto("down")
  /\ UNCHANGED <<engineVars, loopVars, advisories, replayVars, memoryVars, reported,
                 actionVars, verify, faults>>

\* shutdown: every tracked task is cancelled and awaited.
Shutdown ==
  /\ At("ended")
  /\ verify' = Cancelled(verify)
  /\ check' = Cancelled(check)
  /\ running' = {}
  /\ Goto("down")
  /\ UNCHANGED <<engineVars, loopVars, advisories, replayVars, memoryVars, reported,
                 actionVars, faults>>

-----------------------------------------------------------------------------
(* The background tasks *)

Measurable == {"throttle_concurrency"}

\* ActionExecutor.verify: sleep, scrape, and compare if the action is one whose
\* effect can be told.  Otherwise, and if the scrape fails, _verify_action logs
\* "unchanged" or "error", and that is all.
VerifyScrape(a) ==
  /\ verify[a] = "sleeping"
  /\ \/ /\ a[2] \in Measurable
        /\ verify' \in {[verify EXCEPT ![a] = "improved"],
                        [verify EXCEPT ![a] = "regressed"]}
     \/ verify' = [verify EXCEPT ![a] = "done"]
  /\ UNCHANGED <<engineVars, phase, loopVars, brainVars, replayVars, memoryVars,
                 reported, actionVars, check, faults>>

\* _verify_action: log the result, and resolve the incident by it.
VerifyResolve(a) ==
  /\ \/ verify[a] = "improved" /\ Resolve(a[1], "effective")
     \/ verify[a] = "regressed" /\ Resolve(a[1], "ineffective")
  /\ verify' = [verify EXCEPT ![a] = "done"]
  /\ UNCHANGED <<engineVars, phase, loopVars, brainVars, replayVars, stored,
                 reported, actionVars, check>>

\* _check_resolution: sleep, scrape, load the incident's metrics, compare and
\* write.  If one of them fails it gives up without a trace.
CheckResolution(c) ==
  /\ check[c] = "sleeping"
  /\ \E verdict \in {"effective", "ineffective"} : Resolve(c, verdict)
  /\ check' = [check EXCEPT ![c] = "done"]
  /\ UNCHANGED <<engineVars, phase, loopVars, brainVars, replayVars, stored,
                 reported, actionVars, verify>>

-----------------------------------------------------------------------------

Init ==
  /\ mode \in Modes
  /\ preemptions = 0
  /\ occurred = 0
  /\ restarted = FALSE
  /\ phase = "idle"
  /\ cycle = 0
  /\ snapshot = None
  /\ last = Unknown
  /\ charged = 0
  /\ advisories = 0
  /\ running = {}
  /\ baseline = 0
  /\ replay = "none"
  /\ stored = {}
  /\ resolution = [c \in Cycle |-> "none"]
  /\ reported = [c \in Cycle |-> 0]
  /\ todo = {}
  /\ outcome = "none"
  /\ webhook = [a \in Action |-> 0]
  /\ verify = [a \in Action |-> "none"]
  /\ check = [c \in Cycle |-> "none"]
  /\ faults = 0

\* The steps of the main coroutine.
MainStep ==
  \/ StartCycle \/ Scrape \/ Detect
  \/ SaveHealthy \/ CaptureBaseline \/ LogBaseline
  \/ StoreIncident \/ Decide \/ Execute \/ LogExecution \/ LogSafeAction
  \/ InvestigateInline \/ Validate
  \/ ConcludeLater \/ ConcludeNow \/ LogResolution
  \/ AfterYield

Verification(a) == VerifyScrape(a) \/ VerifyResolve(a)

Next ==
  \/ MainStep
  \/ Raise
  \/ InvestigateBackground
  \/ \E a \in Action : Verification(a)
  \/ \E c \in Cycle : CheckResolution(c)
  \/ Stop
  \/ Shutdown
  \/ Preempt
  \/ RestartEngine

Spec == Init /\ [][Next]_vars

\* The event loop runs whatever is ready: coroutines, tasks and timers, and
\* the finally clause that calls shutdown.
Fairness ==
  /\ WF_vars(MainStep)
  /\ WF_vars(InvestigateBackground)
  /\ WF_vars(Shutdown)
  /\ \A a \in Action : WF_vars(Verification(a))
  /\ \A c \in Cycle : WF_vars(CheckResolution(c))

FairSpec == Spec /\ Fairness

-----------------------------------------------------------------------------
(* Properties *)

Phase == Unguarded \cup
  {"idle", "scrape", "capture", "execute", "investigate", "validate", "conclude",
   "yielded", "ended", "down"}

\* Type correctness of the agent's state.
TypeOK ==
  /\ mode \in {"off", "dry_run", "live"}
  /\ preemptions \in Nat
  /\ occurred \in Nat
  /\ restarted \in BOOLEAN
  /\ phase \in Phase
  /\ cycle \in Cycle \cup {0}
  /\ snapshot \in [pressure : BOOLEAN, preemptions : Nat] \cup {None}
  /\ last \in Nat \cup {Unknown}
  /\ charged \in Nat
  /\ advisories \in Investigation \cup {0}
  /\ running \in SUBSET Investigation
  /\ baseline \in Cycle \cup {0}
  /\ replay \in {"none", "effective", "ineffective"}
  /\ stored \in SUBSET Cycle
  /\ resolution \in [Cycle -> {"none", "effective", "ineffective"}]
  /\ reported \in [Cycle -> Investigation \cup {0}]
  /\ todo \in SUBSET Rule
  /\ outcome \in {"none", "dry_run", "applied", "rejected", "error"}
  /\ webhook \in [Action -> Nat]
  /\ verify \in [Action ->
       {"none", "sleeping", "improved", "regressed", "done", "cancelled"}]
  /\ check \in [Cycle -> {"none", "sleeping", "done", "cancelled"}]
  /\ faults \in 0 .. MaxFaults

\* A preemption is the reason of one anomaly at most, whatever cycles fail or
\* find nothing; and as long as the engine does not restart, every preemption
\* between the first scrape and the last one has been.
ChargedOnce ==
  /\ charged <= occurred
  /\ ~restarted /\ last # Unknown =>
       charged + (preemptions - last) = occurred

\* The advisories of an investigation are in one report at most.
ReportedOnce ==
  \A c, d \in Cycle : c # d /\ reported[c] = reported[d] => reported[c] = 0

\* The actuation endpoint changes the engine in live mode only, for an
\* incident that is in memory; and only what it applied is verified.
ActuationSafe ==
  /\ \A a \in Action : webhook[a] > 0 => mode = "live" /\ a[1] \in stored
  /\ \A a \in Action : verify[a] # "none" => webhook[a] > 0

\* An incident is judged by its replay only against the replay of an earlier
\* cycle, one that found the engine healthy.
HealthyBaseline ==
  /\ baseline \notin stored
  /\ phase \in {"conclude", "log_resolution"} /\ replay # "none" =>
       baseline \in 1 .. cycle - 1

\* The strengthening that makes these inductive.

\* Phases of an anomalous cycle once its incident is in memory, and of a cycle
\* that has stored none and captured no baseline (yet).
Incident ==
  {"save_incident", "execute", "log_execution", "log_safe_action", "investigate",
   "validate", "conclude", "log_resolution"}
Acting == {"execute", "log_execution", "log_safe_action"}
Unstored == {"scrape", "store_snapshot", "save_healthy", "capture", "diagnose"}

\* What an anomaly is charged with did occur since the last scrape.
ChargesOccurred ==
  /\ last = Unknown => charged = 0 /\ occurred = 0
  /\ last # Unknown => charged + (preemptions - last) <= occurred
  /\ ~restarted => last <= preemptions
  /\ At("store_snapshot") => snapshot # None /\ snapshot.preemptions = preemptions

\* Incidents and the baseline are of different, earlier or current cycles.
CyclesApart ==
  /\ phase \notin {"idle", "ended", "down"} => cycle # 0
  /\ \A c \in stored : c <= cycle
  /\ phase \in Unstored \cup {"log_baseline"} => cycle \notin stored
  /\ phase \in Incident => cycle \in stored
  /\ baseline <= cycle
  /\ phase \in Unstored \cup Incident => baseline # cycle

\* No action is applied twice: the ones still to execute are eligible, of
\* different types, and nothing has been done about them; the one in hand has
\* been sent and not verified.
FreshActions ==
  /\ \A a \in Action : webhook[a] <= 1
  /\ todo # {} => phase \in Acting
  /\ phase \in {"execute", "log_execution"} => todo # {}
  /\ outcome # "none" => At("log_execution")
  /\ \A r \in todo : mode # "off" /\ TypeOf[r] \in Allowlist
  /\ \A q, r \in todo : TypeOf[q] = TypeOf[r] => q = r
  /\ At("save_incident") => \A a \in Action : a[1] = cycle => webhook[a] = 0
  /\ \A r \in todo :
       IF At("log_execution") /\ IsFirst(r, todo)
       THEN /\ verify[ActionOf(r)] = "none"
            /\ outcome = "applied" => webhook[ActionOf(r)] > 0
       ELSE webhook[ActionOf(r)] = 0

\* The investigations there have been when the main coroutine is at a phase.
LastInvestigation ==
  IF phase \in {"idle", "ended", "down"} THEN Background(cycle)
  ELSE IF phase \in {"investigate", "validate", "conclude", "log_resolution", "yielded"}
       THEN Inline(cycle)
       ELSE Inline(cycle) - 1

\* An investigation is in flight, or its advisories are waiting, or a report
\* has shown them.
InOnePlace ==
  /\ At("investigate") => Inline(cycle) \in running
  /\ advisories \notin running
  /\ \A c \in Cycle :
       reported[c] # 0 => reported[c] \notin running /\ reported[c] # advisories
  /\ \A i \in running : i <= LastInvestigation
  /\ advisories <= LastInvestigation \/ advisories = 0
  /\ \A c \in Cycle : reported[c] <= LastInvestigation \/ reported[c] = 0

\* An incident is not checked before its cycle has concluded, and no effect is
\* told of an action that has no measure.
FreshIncident ==
  /\ \A a \in Action : verify[a] \in {"improved", "regressed"} => a[2] \in Measurable
  /\ \A c \in Cycle : check[c] # "none" => c \in stored
  /\ phase \in Incident => check[cycle] = "none"

\* Shutdown has left no task.
NoTaskLeft ==
  At("down") =>
    /\ running = {}
    /\ \A a \in Action : ~Pending(verify[a])
    /\ \A c \in Cycle : ~Pending(check[c])

\* The inductive invariant.
IInv ==
  /\ TypeOK
  /\ ChargedOnce
  /\ ChargesOccurred
  /\ CyclesApart
  /\ HealthyBaseline
  /\ ActuationSafe
  /\ FreshActions
  /\ InOnePlace
  /\ ReportedOnce
  /\ FreshIncident
  /\ NoTaskLeft

\* After shutdown nothing is written and nothing is done to the engine: no
\* task of the agent survives it.
QuietAfterShutdown ==
  [][At("down") => UNCHANGED <<memoryVars, actionVars, taskVars, brainVars>>]_vars

\* The judges that may still write the resolution of an incident: the tasks that
\* verify its actions, running or yet to be started, and the replay, or the
\* task that checks the resolution.
OpenJudges(c) ==
  {t \in Allowlist :
     \/ Pending(verify[<<c, t>>])
     \/ c = cycle /\ At("save_incident")
     \/ c = cycle /\ \E r \in todo : TypeOf[r] = t}
  \cup
  {j \in {"outcome"} :
     \/ Pending(check[c])
     \/ c = cycle /\ phase \in Incident \ {"log_resolution"}}

\* Whatever rules fire together, and whatever is interleaved, fails or is
\* cancelled, the engine is changed once at most by each type of action for an
\* incident, and its resolution is written once at most by each of its judges;
\* what is written when none is left stays.
Log == INSTANCE Incidents WITH
  Kind <- Allowlist,
  memory <- stored, changed <- webhook, open <- [c \in Cycle |-> OpenJudges(c)]
ImplementsIncidents == Log!Spec

\* A comment of run_once (agent.py:257-258) says of the inline investigation:
\* "this path still fires every N cycles from watch(), so we guard with a
\* 'buffer is empty' check to avoid duplicating work".
NoDuplicateInvestigation == \A i, j \in running : i = j

\* Without faults every incident in memory is judged in the end, unless the
\* agent is stopped: by its replay, or by its resolution check.
IncidentJudged ==
  \A c \in Cycle :
    c \in stored ~> \/ resolution[c] # "none"
                    \/ faults > 0
                    \/ phase \in {"ended", "down"}

IsApplied(a) ==
  /\ At("log_execution")
  /\ outcome = "applied"
  /\ \E r \in todo : IsFirst(r, todo) /\ a = ActionOf(r)

\* An action known to be applied is verified in the end, even if the calls of
\* other steps fail, unless the agent is stopped or run_once raises.
ActionVerified ==
  \A a \in Action :
    IsApplied(a) ~> verify[a] = "done" \/ phase \in {"ended", "down"}
=============================================================================
