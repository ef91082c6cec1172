# InferGuard in TLA+

TLA+ modules, TLC runs and TLAPS proofs for the stateful parts of InferGuard
(`src/src/inferguard/`): the leader/follower fan-in of the multi-node daemon,
the monitoring agent with its background tasks, the engine launcher and the
request profiler with the shared signal handler, the benchmark with its metrics
timeline, and the directory of a job from the tools that collect evidence to the
commands that publish a verdict on it.
`PROJECT.json` lists the components, runs, mutants, hazards and theorems, and maps
each definition to the lines it models.

## 1. The system

InferGuard watches LLM inference servers (vLLM, SGLang). One package holds three
kinds of program:

- an *agent* that scrapes an engine, detects anomalies, stores incidents, may
  call an actuation webhook, and judges later whether things got better;
- a *daemon* that samples an endpoint, alone or as one of many followers that
  send their snapshots to a leader;
- *command-line tools* that launch an engine, collect metrics, run requests and
  benchmarks, and judge the artifacts ("publishable", "refused", ...).

| Component | State | Operations | Talks to | What is hard | What must hold |
|---|---|---|---|---|---|
| Fan-in, `harness/cluster_daemon.py` | follower: sequence, buffer, stop event, thread handle; leader: record per rank | start/stop of server and follower, heartbeat, drain, receive | HTTP between daemons; `/metrics` scrapes | threads over one deque, lost requests and replies, late handlers, crashes | nothing lost and in order unless a thread was abandoned, leader catches up, silence is noticed |
| Agent, `agent.py`, `executor.py` | last snapshot and counters, advisories, replay baseline, tracked tasks | `run_once`, `watch`, `shutdown`, three kinds of background task | engine (scrape), Redis, Vector, webhook, brain | interleaving at every await, failures between two awaits, cancellation | each preemption charged once, advisories reported once, each type of action applied once at most for an incident, only applied actions verified, incidents judged, quiet after shutdown |
| Memory, `memory.py` | rows in Vector, stream and keys in Redis | store, update, query | Upstash REST | partial failure of a pair of writes | rows exist before they are updated |
| Telemetry, `harness/telemetry.py` | state file, token file, process-local state, pending payloads | enable, grant, disable, queue | files shared by processes | crash between two files, stale process state | no payload without consent, hard disable wins |
| IO and shutdown, `io.py`, `cli.py` | registries of streams, partial results, child processes | register, unregister, signal handler | every long-running tool | a signal at any point | no engine outlives the tool, partial results are complete files |
| Launch, `launch_engine/` | child process, log streams, health | start, poll, terminate | IO registries | the gap between Popen and register | an unhealthy engine is terminated |
| Profiling, `request_profile/`, `bench/client.py` | queue or semaphore, rows, row stream | workers or arrivals, recording, summary | engine, IO registries | a signal between two steps of recording, failures of one task, repeated attempts in one directory | each request once, slots kept, a summary is complete, a partial result misses nothing |
| Benchmark, `bench/runner.py` | requests in flight, rows, scrapes observed, the numbering of the timeline | levels with gather, batches or arrivals; collector; labels; summary, report, run | engine | two tasks that count the same scrapes, three writers of one timeline, a failure between two files, repetition in one directory | labels tell what the timeline has, numbering without gap, a run.json vouches for the rest |
| Collection, `collect_metrics/` | sample streams, phases | sampling loop, phases | engine, IO registries | deadlines, summaries on interrupt | as for profiling |
| Gates, `validate/`, `diagnose_bottleneck/`, `report_completed/` | the directory of a job | validate, diagnose, report | files of all the tools | evidence that changes while it is read, verdicts that outlive it, a contract that asks for the report itself | a published verdict was true of the evidence; the analysis comes to rest |
| Pure functions: `safe_actions.py`, `harness/permissions.py`, `classify_failures/` | none | decision functions | | precedence of rules | refusals are never weakened |

Interaction: the agent owns its memory store, executor and brain client and calls
them at awaits of its single event loop. The daemons share nothing but HTTP. The
command-line tools share the registries of `io.py` within one process and files
between processes. `PROJECT.json` lists the remaining parts (parsers, renderers,
tables, test doubles) with the reason each is not modelled.

## 2. Modules

| Module | Models | Extends / uses |
|---|---|---|
| `ClusterFanIn` | `harness/cluster_daemon.py` | `LatestView` as abstract specification |
| `LatestView` | what the fan-in promises to a reader of the leader's metrics | |
| `MCClusterFanIn` | instances for TLC | `ClusterFanIn` |
| `ClusterFanInProofs` | theorems | `ClusterFanIn` |
| `Agent` | `agent.py`, `executor.py`, the parts of `memory.py` and `metrics.py` it calls | `Incidents` as abstract specification |
| `Incidents` | what the agent promises to a reader of its memory and to the owner of the engine | |
| `AgentProofs` | theorems | `Agent` |
| `Launch` | `launch()`, the registries of `io.py`, the signal handler of `cli.py` | `Engines` as abstract specification |
| `Engines` | what a launch promises to the owner of the engine and the reader of its verdict | |
| `LaunchProofs` | theorems | `Launch` |
| `LatestViewProofs` | the refinement of `LatestView`, as a theorem | `ClusterFanInProofs` |
| `RequestProfile` | `run_request_profile`, the stream and partial-result registries, the signal handler | `ProfileFiles` as abstract specification |
| `ProfileFiles` | what rows, summary and partial result promise to a reader of the directory | |
| `RequestProfileProofs` | theorems | `RequestProfile` |
| `CompletedRun` | `validate/`, and what `diagnose_bottleneck/`, `report_completed/`, `launch_engine/`, `request_profile/` and `collect_metrics/` read and write of one job | |
| `CompletedRunProofs` | theorems | `CompletedRun` |
| `Bench` | `bench/runner.py`, and what it calls of `bench/client.py` and `utils/jsonl.py` | |
| `MCBench` | an instance for TLC | `Bench` |
| `BenchProofs` | theorems | `Bench` |

### ClusterFanIn

`buffer[f]`, `sequence[f]`, `stopEvent[f]`, `handle[f]` are `_buffer`, `_sequence`,
`_stop_event` and `_follower_thread` of follower `f`; `records[r]` is `_followers`
of the leader. `pc[f][t]` says where heartbeat thread `t` is:

    top -> number -> append -> drain -> post -> replied -> pop -> drain ... -> wait -> top

`top` is the while condition of `_heartbeat_loop`. A snapshot is counted
(`_sequence += 1`, `CountSnapshot`), gets its number when the payload is built
(`NumberSnapshot`, the number is then `inHand` of the thread), and is appended after
`daemon.snapshot()` has collected (`AppendSnapshot`): no lock is held, so that another
thread may do any of this in between. `drain` is the top of the loop in
`_drain_buffer`, `post` an HTTP request on its way, `replied` an answer on its way
back, `pop` the `popleft` that follows a 202. A thread ends in `off` (it saw the
stop event) or `dead` (PermissionError, IndexError). There are two thread slots
because `stop_follower` may give up on a thread that `start_follower` then joins
with a second one. With two threads numbers may be appended out of order or twice;
the properties of the buffer and of deliveries speak of processes whose threads were
always joined (`~abandoned`), and `LatestView` of runs without a join that timed out.
The prune that precedes an append is one step with it, which two pruning threads of an
abandoned process would break; no property speaks of that buffer.

A request keeps the policy (token, opt-in) it was sent with: a late one is judged by
the policy of its sender at the time, which `late` carries.

Snapshots are numbered over all processes of a follower (`base` counts the ones of
earlier processes), so that a restart, which sets `_sequence` back to 0, can be
told from a snapshot that is really old. Time is relative: each entry and record
has an age, saturated one above the bound it is compared with.

History variables: `accepted` (answered 202), `expired` (pruned), `abandoned` (a
join of this process timed out).

### Agent

The agent is one event loop. `phase` names the await at which the coroutine of
`watch`/`run_once` stands; the step that leaves a phase is all the code up to the
next await. Awaits in a row are one phase when the code between them changes
nothing the model has (the diagnosis and the Vector upsert; the incident's event,
metrics and state in Redis). Background tasks are functions of the incident
(`verify`, `check`) or a set of investigations in flight (`running`); they step
whenever the loop is at an await. `Raise` is an exception of an await that
`run_once` does not guard, `Stop` a consumer that leaves or a cancellation.

`decide_safe_actions` returns what its five rules give, on whatever snapshot
(`Firing`: pressure with preemptions, and thrashing, bring the compaction advisory
too), each type once (`Added`) although two rules propose `throttle_concurrency`.
`todo` is what is left of the eligible ones: the loop executes,
logs and tracks one after the other, with awaits in between, so that the verification
of the first runs beside the execution of the second. `outcome` is what the code knows
of the action in hand; `webhook` counts what the engine was really told, per incident
and type. `Allowlist` is the operator's: actions outside of it are not eligible,
and only logged.

Incidents are numbered by the cycle that found them. Delays (180 s for the
resolution check, the configured verification delay, 45 s and 300 s of wait_for)
are not timed; tasks may finish in any order.

`Incidents` is the same without event loop, tasks, calls and failures: an incident
is stored once and in order, each kind of action changes the engine for the latest
one only and once at most, and each judge writes a resolution once at most. Every
kind of action brings a judge, its verification; the replay and the resolution check
share one more, because a cycle that replays starts no check. Whoever comes last is
believed: the code has no order between the judges, and neither has `Incidents`. In
the refinement (`Log` in `Agent`) `memory` is `stored`, `changed` is `webhook`, and
`OpenJudges` is the set of judges that some task, or the coroutine itself, may still
be.

### Launch

`pc` is the next step of `launch()`, `handler` the next step of
`_shared_shutdown_handler`, which runs on the same thread: while `tool` is
`handling`, `pc` stands still. `children` and `producers` are the two registries
of `io.py` (one process has at most one engine and one producer). The engine is a
process group: `leader[l]` is what `Popen` knows, `workers[l]` the rest, and
`sent[l]` the strongest signal the group was sent. `run_healthcheck` is a choice
between its results: it asks the endpoint, never the process. It may also never end:
its deadline is tested between two requests for `/v1/models` only, and each request,
the canary's stream in particular, has a timeout per read. `Asking` is that state.

`Relaunch` runs the command again in the same directory: the registries are
empty, the files and the engines of earlier launches stay. `command`, `partial`
and `health` hold the number of the launch each file is of.

A signal is taken at any step boundary. Two signals within the first statements
of the handler, before it has set `_SIGNAL_ALREADY_HANDLED`, are not told apart
from one.

`Engines` is the same without registries, handler, waits and failures: a launch
starts one engine at most, may tell it to end and then kill it while it holds it, and
records one verdict, `healthy` of an engine it told nothing and `failed` of one that
has ended or never was. It speaks of leaders only, which is what the code waits for;
workers are the subject of `launch_group`. That a launch may tell an engine to end
after its verdict, as long as it holds it, is what the code does (a signal between
`write_health` and `return`). In the refinement (`Contract` in `Launch`) `held` is
`Holds`: the process is set, and neither `launch()` nor the handler is past its last
use of it. Letting go is then the return, the end of the handler, or any end of the
command.

### RequestProfile

`pc` is the next step of `run_request_profile`; `handler` is as in `Launch`, and
here too nothing else moves while `tool` is `handling`. In `requests`, the steps
belong to tasks: `state[r]` is `queued` (its arrival is yet to come), `waiting`
(in the queue of the closed loop, or for the semaphore), `flight`, `done` or
`failed`. `record_metric` has no await, so one task at most records at a time:
`recording` is its request and `stage` how far it has come. A row is first
appended to `rows`, then written (`buffer`), then flushed (`file`); a signal may
come between any two.

Both arrival modes are a number of slots. What ends hands its slot to the first
request that waits (`EndTask`): a worker takes the next from the queue, a task
releases the semaphore. The one difference is an exception out of `record_metric`,
which ends a worker with its slot but releases a semaphore. `gather` raises the
first exception to its caller, and the event loop then cancels the rest; in a
Poisson run that waits for the last arrival, because `gather` does
(`RequestsFail`).

`Rerun` repeats the command in the same directory. The rows start afresh; the
summary and the partial result of earlier attempts stay until they are replaced,
so `fileOf`, `summary.of` and `partial.of` name the attempt each is of.
`unwritten` remembers that this attempt failed to write something.

### Bench

`pc` is the next step of `_run_benchmark` and `collector` that of the task
`MetricsTimelineCollector._run`. At `level` the dispatcher of the level creates
tasks (`Gather`, `Batch`, `Arrive`, until `Deadline`), and a request is `ready` (its
task has not reached `stream_chat`, be it for the semaphore), in `flight` or `done`.
All of this is one event loop, so that a step is the code between two awaits.

A scrape that reaches nobody does not fail: `scrape()` of `disagg/adapters.py`
returns a snapshot with an error in it, which the collector appends, counts and
observes as any other (`Snapshots`). Its row has the kind `unreachable`; no peaks
are read from it. What does raise is metrics that cannot be parsed, or the append
(`ScrapeFails`).

`_apply_measured_kv_labels` compares times: a row is measured if a snapshot was
observed between the start and the end of its request. The model has no clock; what
stands for a time is the number of snapshots observed by then (`begun`, `ended`),
which is all that the comparison tells apart. `during` in a row of the timeline is
history: the requests that were in flight when it was taken. That the two agree is
`LabelsAgree`.

`of` names the attempt each file is of, `file` the labels in `metrics.jsonl`,
`summary` the attempt of `summary.json` and what it says (which rows it counts,
whether there is a timeline, whose peaks); `older` says that the timeline still
holds live scrapes of earlier attempts, and `timeline` the rows of this one.
`captured` is `captured_count`, from which the giant prefill and the customers
number on.

A failure may be any file that cannot be opened, an append of rows that stops half
way (`AppendFails`, the one failure inside the `try` with its `finally`), a scrape
that raises, or a signal.

### CompletedRun

`dir` holds what the commands can tell apart of each file: absent, dead (nothing
live in it) or live. Rows and the two metric timelines are one value each. The
tools `launch`, `profile` and `collect` start (which resets what they write),
write, and end or are interrupted, at any time; each may be started again.

`reader`, `step`, `live`, `downgraded` and `blame` are a validation on its way: it
looks for live evidence in the order of `_has_live_evidence`, stopping at the
first that is not, then checks the required paths, then reads each file again for
the downgrades. `validate-completed` writes `dir.validation`; `report-completed`
repeats it, or validates for itself if there is none (`Report`). A job without a
directory (`~dir.made`) is looked at no further.

`dir.blamed` is what the validation report says of the job's launch.
`diagnose-bottleneck` takes it only for the job whose id is that of its bundle
(`dir.named`). That id comes from `requests_summary.json` first, where it is the
`--job-id` of `request-profile` or else a random one, so that the end of a profile
decides it anew (`EndProfile`); before, it is the name of the directory or what the
operator profile says. An id given to `request-profile` is assumed not to be that of
another job of the plan.

Chosen at the start, and for good: the contract, defects of the results root, and the
statuses of the other jobs of the plan (`peers`, among those of `Peers`; none means
that the job is alone). Whether the directory exists and has the name of its job is
chosen too. `MaxDefects` bounds how much of this is out of the ordinary together. `report-completed` writes into the directory of a job only if the
job is alone (`ReportElsewhere`). The commands are used with their default output
directories.

`moment` is a history variable: whether the quorum of `docs/ARCHITECTURE.md` held
at some moment since the validation began. It is `disturbed` once a tool is
started: starting resets evidence, and nothing in the code forbids it.

## 3. Runs

| Run | Question | Bounds | Result |
|---|---|---|---|
| `fanin_safety` | In a process whose threads were always joined: does the buffer stay ordered, is anything lost, is delivery in order? | 1 follower, 2 snapshots, 2 faults, ages up to 2, all policies and both opt-ins | holds, 1.1M states |
| `fanin_live` | Does the buffer drain, the leader catch up, silence show, that of a thread ended by PermissionError included? | as above without join timeouts; threads step before the clock | holds, 117k states |
| `fanin_fleet` | Do two followers with their own ranks implement `LatestView`? | 2 followers, symmetric, 1 fault | holds, 725k states |
| `fanin_late` | Is the record the latest? (docstring) | as fanin_safety, no join timeouts | violated |
| `agent_safety` | Are preemptions charged once, advisories reported once, is the baseline healthy, nothing done after shutdown? | 2 cycles, 1 preemption, 1 fault, all modes, 1 type allowed, replay and local brain | holds, 800k states |
| `agent_incidents` | Is `Incidents` implemented, what changes the engine, are incidents judged and actions verified? | 2 cycles, 1 fault, live mode, 2 types allowed, replay | holds, 117k states |
| `agent_dup` | Does the buffer-is-empty guard avoid a second investigation? (comment) | as agent_safety, no replay | violated |
| `launch_safety` | Is an engine ever left behind, is what was done to it on record, does the command end, if its healthcheck does? Is `Engines` implemented? | 2 launches, any number of faults | holds, 78k states |
| `launch_group` | Does a registered process group end? (changelog) | 1 launch | violated |
| `profile` | Do rows, summary and partial result agree, are slots kept, do attempts end, and is `ProfileFiles` implemented? | 3 requests, 2 slots, 2 attempts, any number of faults | holds, 82k states |
| `completed_run` | Was a verdict of live_complete true of the evidence, and does the analysis come to rest? | the default contract and 1 thing out of the ordinary (another contract or none, a defect, other jobs, live or incomplete, another name of the directory), 4 starts of tools | holds, 5.6M states |
| `bench` | Are labels and numbering right and requests in flight bounded; what do the files say of one another after failures and repetitions; does every attempt end? | 2 levels (1 and 2), 2 requests, 1 snapshot of a live or an unreachable engine, 2 attempts, a configuration for each kind of level | holds, 629k states |

Why the bounds are enough. Two snapshots make an order, and the second stands for
all later ones: over an empty buffer it is taken again. Two faults allow a lost
reply and a restart, or a join that times out and a lost request, which are the
pairs the known hazards need. One second of `buffer_seconds` gives three ages:
young, at the bound, beyond it. In the agent two cycles give a healthy cycle before
an anomalous one (baseline, counters), and an investigation of one cycle that is in
flight in the next; the second engine restart or preemption would repeat the first.
Two types that are allowed make the loop over the actions of an incident go round,
with the verification of the first beside the second; one of them has a measure of
its effect and the other has none, as the rest. A second launch meets the files of a
first one in every state, and a third would meet nothing else. Three requests over
two slots leave one that waits while two are in flight, of which one may fail and
the other record; a second attempt meets the files of a first one in every state.
Four starts run each tool once and one of them again, during a validation or after a
verdict; a second defect gives no verdict that one does not, and what is out of the
ordinary is tried one by one, for the theorems are about every combination. Of the
statuses of other jobs one lets a run be live_complete and one does not; the rest
say only in which way it falls short. A snapshot and two requests of a benchmark may
begin and end in every order; two levels make a next level, with the first narrower
than the trace; a level with a deadline issues `NumRequests` at most, where the code
goes through the trace again, which gives a row per request as the first pass does.
The three configurations are one for each kind of level (gather with a giant
prefill, arrivals of a retry storm, batches without scrapes); a second attempt meets
what each of them left. All these bounds are lifted by the proofs, for the constants
are arbitrary there.

Deadlock is checked in the fan-in runs. The agent really stops (`down` after
`shutdown`), and so do the last launch, the last attempts and the tools of a run,
so their configurations switch the deadlock check off.

Fairness. Fan-in: heartbeat threads and the HTTP server are live threads of a
process, so their steps are weakly fair; a POST to a server that listens is answered
unless a fault occurs, and faults are finite; time passes (strongly fair, because it
may be disabled by threads that are about to step). Crashes, restarts and
`start`/`stop` calls have no fairness, except that the leader's server is started
again. Agent: the event loop runs what is ready, so the main coroutine, each task
and the final `shutdown` are weakly fair; `Stop`, `Raise` and the engine are not.
Launch: the command and its handler run, and every wait for the engine has a
deadline; a request of the healthcheck has none (see `Launch`), so that no fairness
takes the command out of it, and `CommandEnds` excepts a command that stays there; a
process that was sent SIGKILL ends. A process that was sent SIGTERM need not, and
signals have no fairness. Profile: the command and its handler run, arrivals come at
their times, and the endpoint ends each answer. The last is an assumption about the
environment: the timeout of the client is per read, so that an answer that comes in
drops is bounded by nothing in the code. Bench: the loop runs what is ready, batches
and arrivals are created and deadlines come, and an answer and a scrape end by the
same assumption, for the timeouts of both clients are per read
(`disagg/adapters.py:207`). Signals and failures have no fairness. `BenchEnds` needs
each of these: `stop` waits for the collector, which may be in a scrape or asleep.

### Findings

1. `fanin_late`: `FollowerRecord` is documented as the latest snapshot of a rank,
   but `receive_snapshot` stores whatever arrives. A POST that timed out at the
   client and is handled late replaces a newer snapshot.
2. `agent_dup`: the comment at `agent.py:257` takes an empty advisory buffer for
   "no investigation is done elsewhere"; it is empty while one is in flight.
3. `launch_group`: the changelog promises that registered process groups are
   terminated. `terminate_registered_processes` looks at the leader only: workers
   of a leader that has ended are sent nothing, and workers that ignore SIGTERM
   are not sent SIGKILL once the leader has ended.

What `LeaderReaped` has to except is worth knowing too: a signal between `Popen`
and `register_child_process` leaves a running engine, and one between the two
unregister calls terminates an engine that was just recorded as healthy
(`KilledIsRecorded`). Likewise in `RequestProfile`: a signal between the
replacement of the rows and the registration of the producer, or between the end
of its registration and the summary, leaves rows that neither a summary nor a
partial result explains (`RowsExplained`), and a partial result may count one row
that no file has (`PartialIsBacked`).

In `Bench`, what `NewestFirst` and `PeaksAreOwn` leave open may surprise too. A
failed or interrupted attempt registers no partial result, and leaves the summary,
report and run of the attempt before it next to its own rows. An attempt without a
metrics URL appends to the timeline of the one before, and the retry storm takes its
peaks from all of that. A timeline that holds nothing but customer rows counts as a
metrics timeline (`present`) although nothing was scraped. So does one of unreachable
snapshots, and the rows in flight meanwhile are "measured" although nothing was
(`LabelsAgree` says which snapshots count, not that they measure anything).

`CompletedRun` shows what may surprise an operator, though no document denies it:

- The default contract requires `report/operator_recommendation.json`, which is
  what `report-completed` is about to write. The first report of a job is
  therefore never `live_complete` (`FirstReportRefuses`); the second round of
  `validate-completed` and `report-completed` may be (`TwoRoundsSettle`).
- With several jobs in the plan the report goes to `<results-root>/report`, where
  the default contract does not look: no round makes such a run `live_complete`
  unless each job is given its report by `--output-dir`.
- `report-completed` and `diagnose-bottleneck` take a validation report of any
  age. Until the next validation the diagnosis may blame a launch that has since
  succeeded, as "measured".
- An external launch has no logs. Under the default contract that downgrades the
  `launch` claim, and a healthy engine is diagnosed `model_launch_bound`, if the id of
  the bundle is that of the job. After a `request-profile` without `--job-id` it is
  not, and the same directory is diagnosed otherwise: the blame of the validation is
  ignored, also that of a launch that did fail.

Differences between documents and code that were met on the way and that no run
covers:

- `CHANGELOG.md:191` promises five minutes of buffering and a replay on reconnect;
  two heartbeat threads over one buffer may lose a snapshot (see `NothingLost` in
  section 4, which excepts them).
- `docs/SPEC.md:428` has the KV pressure of kvcast "always labeled" as inferred; a
  row in flight during a scrape is relabelled "measured", as `CHANGELOG.md:249` says
  of all bench commands. That entry speaks of an in-window scrape; a scrape that
  reached nobody relabels as well (`bench/runner.py:385`).
- `docs/CLI_REFERENCE.md:671` calls the levels of a benchmark concurrency levels;
  without `--duration-seconds` all requests of the trace are sent at once at every
  level, and a sweep over levels repeats one load. `InFlightBounded` excepts this.
- `CHANGELOG.md:51` and `CONTRIBUTING.md:99` have "measured" only for a run that is
  live_complete; the capacity envelope of the report is "measured" also if
  find-cliffs downgraded every cliff (`report_completed/sections.py:253`), because
  `find_cliffs/detectors.py:547` gives its summary no claim status.
- `docs/ARCHITECTURE.md:82` lets a required path be "explicitly downgraded";
  overrides only add downgrades and replace none.
- `docs/telemetry/spec.md:370` has disable delete pending payloads;
  `harness/telemetry.py` keeps pending payloads.

## 4. Proofs

`ClusterFanInProofs` proves, for all values of the constants that satisfy
`ConstantsAssumption` (any followers, ranks, bounds, policies):

- `TypeCorrect`: `Spec => []TypeOK`;
- `Invariant`: `Spec => []IInv`;
- `BufferIsSorted`, `DeliverySafe`, `DeliveryInOrder`: the parts of `IInv` that
  state the promises.

`NothingLost` is not inductive: a thread between its 202 and its `popleft` must be
known to hold an accepted snapshot (`PopAccepted`) that is the head of the buffer
(`HeadPosted`), which needs that no other thread drains it (`OneThread`). That the
buffer is in order, although a snapshot is counted, numbered and appended in three
steps, needs that a number in hand is the last one and newer than the buffer
(`FreshInHand`). `NoGaps` needs that the snapshots before the head are gone for good
(`OldestFirst` with `NoneFromTheFuture`), and that requests handled late were posted
in that situation (`LateInOrder`). The properties hold only for a process whose
threads were always joined: `stop_follower` gives up after a timeout and forgets the
thread, `start_follower` clears the event that would have ended it, and of two
threads on one deque one may append before the other what it counted after it, or
remove a snapshot the other never sent.

The proof goes by one lemma per kind of step, three of them for the taking of a
snapshot. Lemmas on the buffer (`PrunedKeeps`,
`AppendKeeps`, `TailKeeps`) say what pruning, appending and popping do to order and
contents; `Frame` and `MoveInv` cover the steps that leave the buffer alone.

`AgentProofs` proves `Spec => []IInv` for any number of cycles, preemptions and
faults and every configuration, and from it the safety properties that
`agent_safety` and `agent_incidents` check, the action property `QuietAfterShutdown`
included.

`ChargedOnce` needs to know that charges never exceed what occurred since the last
scrape, and that the snapshot in hand is the counter (`ChargesOccurred`).
`HealthyBaseline` needs that a cycle captures a baseline or stores an incident,
never both (`CyclesApart`). `ActuationSafe` needs that what is known to be applied
was applied (`AppliedInWebhook`). That the loop applies no type twice needs that what
is left of it holds each type once (lemma `AddedOnce`) and was not applied yet
(`FreshActions`). `ReportedOnce` needs that an investigation is in
flight, in the buffer or in a report, and in one of these only, and that none has a
number beyond the ones started (`InOnePlace`); the inline investigation 2c and the
background one 2c + 1 keep their numbers apart (lemma `Parity`).
`QuietAfterShutdown` needs `NoTaskLeft`. There is one lemma per part of the
invariant, with a case per action that can disturb it.

`IncidentsAreAsPromised` proves the refinement of `Incidents`. Storing an incident
opens its judges; the webhook is called for the incident in hand, which is the
latest, and for a type that was not executed yet; a verification, a replay or a
resolution check decides; every other step stutters or closes judges (`GiveUp`). The
invariant contributes that a verification runs only for what the engine was changed
for, that it tells an effect only of a type that has a measure, and that no task is
left of an incident not yet stored (`FreshIncident`).

`LaunchProofs` proves `Spec => []IInv` for any number of launches, and from it the
three safety properties of `launch_safety` and `ResultMatchesEngine`. The invariant
says what is registered at each step (`Registered`), that the engine exists once
`Popen` has returned (`Spawned`), that only a failed launch signals its engine and
sees it end (`Outcome`), what the handler has done at each of its steps
(`HandlerDone`), and which launch each file is of (`Files`). There is one lemma for
the steps of `launch()`, one for those of the handler and one for everything else.
`ResultMatchesEngine` is proved only. The run checks the refinement instead, which
says the same of every launch that records a verdict, at the moment it does.

`EnginesAreAsPromised` proves the refinement of `Engines`. A step that leaves engines
and record alone stutters or lets go (`Unseen`); a signal is the first, the second, or
one the engine has had before (`Signalled`), as when the handler starts over on an
engine that `launch()` is already waiting for; the step that writes
`healthcheck.json` is the verdict. The invariant contributes that whoever waits has
sent SIGTERM, and that no verdict of this launch is on record before that step.

`LatestViewProofs` proves that the fan-in implements `LatestView` for any number of
followers, if every follower has a rank of its own, no request is handled after its
client gave up and no join gives up on a live thread (`Undisturbed`; the run
`fanin_late` shows what the first may do). The invariant it adds to
the one of `ClusterFanInProofs` is that what the leader shows of a follower is never
ahead of what is still in its buffer (`NotAhead`): a POST carries the head, which
nothing in the buffer precedes. Every step then takes a snapshot, publishes one
that is newer, forgets all (a crash of the leader), or leaves both alone.

`RequestProfileProofs` proves `Spec => []IInv` for any number of requests, slots and
attempts, and from it the four properties of the files. The invariant follows each
row from `rows` through `buffer` to `file` (`RowAccounted`), says what is registered
at each step (`Registered`), what the tasks may be (`Tasks`) and which attempt each
file is of (`Files`). `SlotsAreKept` has an invariant of its own (`SlotsInv`), over
the set of slots held: an arrival adds an element, the end of a task exchanges one
for another or removes it, and a worker that ends with an exception keeps it.
`FilesAreAsPromised` proves the refinement of `ProfileFiles`: truncation begins an
attempt, a flush records, and everything else stutters but the two reports, whose
conditions in `ProfileFiles` follow from `Files` and `RowAccounted`.

`CompletedRunProofs` proves the four properties of `completed_run` for every set of
contracts and of statuses of other jobs, and any number of defects and starts. For
`LiveMeant`, `Observed` says that while no tool is started what a validation has
seen stays true, except that the launch that was at work may end as failed; the
second look at `healthcheck.json` is what makes up for that exception. `FirstReport`
needs that a validation without a report in the directory is downgraded once its
paths are checked (`AskedFor`). `Settles` is about the functions alone: after one
round all that is derived is there (`AfterARound`), so that the second decides by
the evidence, which rounds leave alone (`SameEvidence`), and a third repeats it. A
launch without its artifacts is then blamed exactly if the ids agree
(`BlamesLaunch`).

`BenchProofs` proves `Spec => []IInv` for any levels, requests, snapshots and
attempts, and from it every safety property of `bench`. None of the properties is
inductive. `LabelsAgree` speaks of rows in a file, `Windows` of the level that runs:
a snapshot is taken of exactly the requests that began before it and did not end
before it. That needs the count of observed snapshots to be the length of the
timeline as long as levels run (`Counted`), and that a later level has no snapshot
yet; when a level is labelled, `Windows` becomes `LabelsAgree` for it.
`TimelineNumbered` needs `Counted` for the writers that number on. `RunExplains`
needs which requests a level has created (`Tasks`), which rows are in memory and in
the file (`RowsOfLevels`), and which attempt each file is of at each step
(`FilesOf`). `PeaksAreOwn` needs `FreshTimeline`. A bound on the batch, not only on
what is in flight, makes `InFlightBounded` inductive (`Bounded`). There is one lemma
per part of the invariant, and the lemmas on `Append` and concatenation
(`AppendRow`, `ExtendRows`, `ExtendNumbers`, `ExtendDuring`) are used by several.

All proofs assume only the `ASSUME` of the module they are about. The type and
inductive invariants (`TypeOK`, `IInv`) are proved and therefore not repeated by the
runs, but for the one of the fan-in; to check one on an instance, add it to the
configuration of its module.

Only model-checked: the liveness properties (`BufferDrains`, `CatchesUp`,
`SilenceIsNoticed`, `IncidentJudged`, `ActionVerified`, `CommandEnds`, `LeaderGoes`,
`AttemptEnds`, `BenchEnds`), which are out of the prover's reach.

## 5. Not modelled

In the fan-in: payload validation other than opt-in and token (a well-formed
follower is never answered 400), token file permissions, the metrics text. In the
agent: configurations without Redis or Vector, the contents of advisories and canary
outcomes, the vote of the metric comparisons (each is a choice among its results),
and a second agent on the same memory. Components without a module are listed in
`PROJECT.json`. In the launcher: building the command line, the contents of the
artifacts, and a port that is shared by several engines. In the profiler: parsing of
the input, the numbers in rows and summary. In a completed run: plans that cannot be
read, overrides other than to not_proven (which are the defect "evidence"), checks
for several nodes and InfiniBand, the rules of the diagnosis after the missing
inputs (whose results are one value, and the LMCache rule before them with it), the
sections of the report other than the executive verdict, find-cliffs and
compute-cost; rows and timelines are read in one step each, a contract of the
operator's asks for none of the modelled files, and commands other than a validation
are atomic. `failure_classification`, which the default contract asks for, is part
of the defect "evidence". In a benchmark: the contents of answers and summaries,
warm-up and idle windows (which delay or mark rows), a write that fails half way
other than the append of rows, and the bridge to AgentX (`agentx_bridge.py`). The
rows of customers repeat scrapes by position (`rows[: sequence + 1]`); only their
number is modelled.

Hazards that were met and have no property (those whose steps the models have are
hazards without properties in `PROJECT.json`, with the reason):

- `agent.py:160`, `agent.py:237`, `executor.py:48`: a preemption charged to an incident
  that an exception keeps from being stored, an action applied just before an exception
  ends the agent, an applied action whose answer is lost. `ChargedOnce` and
  `ActionVerified` bound or except these, and do not detect them.
- `agent.py:453`: an investigation may replace advisories nobody has reported;
  `ReportedOnce` is about reporting twice.
- `agent.py:489`: the check of an incident looks once, and decides nothing if that fails.
- `launch_engine/healthcheck.py:185`: an endpoint that drips bytes keeps the canary open.
- `bench/runner.py:385`, `bench/runner.py:364`: snapshots of an engine that is down, and
  timelines of earlier attempts, count as measurements.

- `cluster_daemon.py:475`: without a rank in the environment every follower reports
  rank 0, and they overwrite one another's record. Ranks are a constant of the model,
  and `Undisturbed` asks for different ones.
- `agent.py:278`: the canary outcome in a resolution may be of an earlier incident;
  advisories have no content in the model.
- `mcp_server.py:41`: a one-shot scan shuts the agent down before its checks and
  verifications can run. The model has this as `Stop`, and `IncidentJudged` excuses it.
- `launch_engine/healthcheck.py:38`: the healthcheck asks the endpoint, never the
  process; another server on the port makes a launch healthy.
- `launch_engine/__init__.py:209`: if `healthcheck.json` cannot be written, a healthy
  engine runs on without a record (`WriteHealthFails`; the properties except it).
- `bench/runner.py:1423`: the evictions of a customer row are cut at its number in the
  timeline, which does not begin at 0 once there are scrapes.

## 6. Plan

1. `ClusterFanIn`, `LatestView`, `ClusterFanInProofs`: done.
2. `Agent`, `AgentProofs`: done.
3. `Launch`, `LaunchProofs`: done.
4. `RequestProfile`, `ProfileFiles`, `RequestProfileProofs`: done.
5. `CompletedRun`, `CompletedRunProofs`, `LatestViewProofs`: done.
6. `Bench`, `BenchProofs`, `Incidents` and `Engines` with their refinements: done.
7. Left: `Telemetry`, consent states over the state file, the token file and the
   environment of several processes, with crashes between the writes; property: no
   payload without a token that was present when it was permitted, and a hard
   disable wins. Bounds: two clients, one grant, one disable, one crash.
8. Left: `DaemonMode`, the pid file and the state file of daemon start, stop and
   status, with two daemons.
9. Left: `Gates`, the tables of safe actions and permissions as functions against a
   declarative definition of their precedence.
