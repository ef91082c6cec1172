-------------------------------- MODULE Bench --------------------------------
(***************************************************************************)
(* `inferguard bench replay | kvcast | kv-stress | cold-start`: one event  *)
(* loop that sends the requests of one concurrency level after another,    *)
(* while a background task scrapes the engine into metrics_timeline.jsonl. *)
(* After each level its rows are labelled with what the scrapes saw and    *)
(* appended to metrics.jsonl; summary.json, report.md and run.json follow  *)
(* at the end, in this order.                                              *)
(*                                                                         *)
(* With --force the command is repeated in the same directory (without it  *)
(* a directory that is not empty is refused, and nothing changes).  The    *)
(* rows then start afresh, everything else stays until it is replaced, the *)
(* timeline of an earlier attempt even longer: an attempt that does not    *)
(* scrape appends to it.                                                   *)
(*                                                                         *)
(* A request of a level is its sequence number.  What an answer says, and  *)
(* whether it is a failure, is left out: each gives one row.               *)
(***************************************************************************)
EXTENDS Naturals, Sequences, FiniteSets

CONSTANTS
  Options,       \* the configurations an operator may ask for
  Levels,        \* concurrency_levels
  NumRequests,   \* the requests of the trace; bounds those of a timed level too
  MaxScrapes,    \* bound: the snapshots of an attempt
  MaxAttempts    \* bound: how often the operator runs the command

ASSUME LevelsAssumption == Levels \in Seq(Nat \ {0}) /\ Levels # <<>>
ASSUME RequestsAssumption == NumRequests \in Nat \ {0}
ASSUME ScrapesAssumption == MaxScrapes \in Nat
ASSUME AttemptsAssumption == MaxAttempts \in Nat \ {0}

Level == 1 .. Len(Levels)
Requests == 1 .. NumRequests

VARIABLES
  attempt,    \* the number of the current run of the command
  config,     \* its BenchConfig
  tool,       \* what its process is doing, or how it ended
  pc,         \* the next step of _run_benchmark
  failing,    \* an exception is on its way out of the loop over the levels
  level,      \* the level that runs
  open,       \* the dispatcher of the level has not come to its end
  issued,     \* how many requests the level has created a task for
  task,       \* per request: where its task is
  begun,      \* per request: how many scrapes had been observed when it began
  ended,      \* likewise when it ended
  metrics,    \* the metrics in memory: per level and request its label
  collector,  \* the next step of MetricsTimelineCollector._run
  stopping,   \* stop_event is set
  observed,   \* the length of observed_perf_times
  captured,   \* captured_count
  older,      \* the timeline holds live scrapes of earlier attempts
  timeline,   \* the rows that this attempt has put into it
  of,         \* per file: the attempt it is of, or 0
  file,       \* the rows of metrics.jsonl
  summary     \* summary.json: the attempt it is of, and what it says

toolVars == <<attempt, config, tool, pc, failing>>
levelVars == <<level, open, issued, task, begun, ended>>
collectorVars == <<collector, stopping, observed, captured>>
timelineVars == <<older, timeline>>
fileVars == <<of, file, summary>>
vars == <<toolVars, levelVars, metrics, collectorVars, timelineVars, fileVars>>

-----------------------------------------------------------------------------

\* What the options of the commands and _validate_config admit.  "gather" is
\* one pass over the trace, "batches" repeats it until a deadline, and
\* "arrivals" are the Poisson arrivals and the retry storm.
Configurations ==
  {c \in [command : {"replay", "kvcast", "cold-start"},
          scrape : BOOLEAN, arrival : {"gather", "batches", "arrivals"},
          deadline : BOOLEAN, giant : BOOLEAN, customers : BOOLEAN,
          storm : BOOLEAN] :
     /\ c.arrival = "gather" => ~c.deadline
     /\ c.arrival = "batches" => c.deadline
     /\ c.giant => c.command = "replay"
     /\ c.command # "replay" => c.customers
     /\ c.command = "cold-start" => c.arrival = "batches"
     /\ c.storm => c.command = "kvcast" /\ c.arrival = "arrivals" /\ c.deadline}

ASSUME OptionsAssumption == Options \subseteq Configurations

Labels == {"none", "inferred", "measured", "unlabelled"}
Files == {"config", "requests", "metrics", "report", "run"}

Ended == tool \in {"returned", "raised", "interrupted"}

At(label) == tool = "running" /\ pc = label
Goto(label) == pc' = label /\ UNCHANGED <<attempt, config, tool, failing>>

Ready == {r \in Requests : task[r] = "ready"}
InFlight == {r \in Requests : task[r] = "flight"}
Pending == Ready \cup InFlight

NoRows == [l \in Level |-> [r \in Requests |-> "none"]]
Recorded(rows) == {p \in Level \X Requests : rows[p[1]][p[2]] # "none"}
NoTasks == [r \in Requests |-> "none"]
NoTimes == [r \in Requests |-> 0]

\* The giant prefill is sent at the first level only.
LevelSize(l) ==
  IF config.giant /\ l > 1 /\ NumRequests > 1 THEN NumRequests - 1 ELSE NumRequests

Init ==
  /\ attempt = 1
  /\ config \in Options
  /\ tool = "running"
  /\ pc = "write_config"
  /\ failing = FALSE
  /\ level = 1 /\ open = FALSE /\ issued = 0
  /\ task = NoTasks /\ begun = NoTimes /\ ended = NoTimes
  /\ metrics = NoRows
  /\ collector = "off" /\ stopping = FALSE /\ observed = 0 /\ captured = 0
  /\ older = FALSE /\ timeline = <<>>
  /\ of = [f \in Files |-> 0]
  /\ file = NoRows
  /\ summary = [of |-> 0, rows |-> {}, present |-> FALSE, peaks |-> {}]

\* The rows with metrics in them; those of an unreachable engine have none.
ScrapedRows == {i \in DOMAIN timeline : timeline[i].kind = "scrape"}

Rerun ==
  /\ Ended
  /\ attempt < MaxAttempts
  /\ attempt' = attempt + 1
  /\ config' \in Options
  /\ tool' = "running"
  /\ pc' = "write_config"
  /\ failing' = FALSE
  /\ level' = 1 /\ open' = FALSE /\ issued' = 0
  /\ task' = NoTasks /\ begun' = NoTimes /\ ended' = NoTimes
  /\ metrics' = NoRows
  /\ collector' = "off" /\ stopping' = FALSE /\ observed' = 0 /\ captured' = 0
  /\ older' = (older \/ ScrapedRows # {})
  /\ timeline' = <<>>
  /\ UNCHANGED fileVars

-----------------------------------------------------------------------------
\* _run_benchmark, up to the first level

Written(f) == of' = [of EXCEPT ![f] = attempt] /\ UNCHANGED <<file, summary>>

WriteConfig ==
  /\ At("write_config")
  /\ Goto("empty_requests")
  /\ Written("config")
  /\ UNCHANGED <<levelVars, metrics, collectorVars, timelineVars>>

EmptyRequests ==
  /\ At("empty_requests")
  /\ Goto("empty_metrics")
  /\ of' = [of EXCEPT !["requests"] = 0]
  /\ UNCHANGED <<levelVars, metrics, collectorVars, timelineVars, file, summary>>

\* A mutant of EmptyMetrics: the rows of the attempt before stay.
EmptyMetricsKeeps ==
  /\ At("empty_metrics")
  /\ Goto("append_requests")
  /\ UNCHANGED <<levelVars, metrics, collectorVars, timelineVars, fileVars>>

EmptyMetrics ==
  /\ At("empty_metrics")
  /\ Goto("append_requests")
  /\ of' = [of EXCEPT !["metrics"] = attempt]
  /\ file' = NoRows
  /\ UNCHANGED <<levelVars, metrics, collectorVars, timelineVars, summary>>

AppendRequests ==
  /\ At("append_requests")
  /\ Goto("start_timeline")
  /\ Written("requests")
  /\ UNCHANGED <<levelVars, metrics, collectorVars, timelineVars>>

\* A mutant of StartTimeline: the collector appends to what is there.
StartTimelineAppends ==
  /\ At("start_timeline")
  /\ Goto("begin_level")
  /\ collector' = IF config.scrape THEN "top" ELSE collector
  /\ UNCHANGED <<levelVars, metrics, stopping, observed, captured, timelineVars, fileVars>>

\* MetricsTimelineCollector.start: without a URL the timeline is left alone.
StartTimeline ==
  /\ At("start_timeline")
  /\ Goto("begin_level")
  /\ IF config.scrape
     THEN /\ older' = FALSE /\ timeline' = <<>>
          /\ collector' = "top"
     ELSE UNCHANGED <<timelineVars, collector>>
  /\ UNCHANGED <<levelVars, metrics, stopping, observed, captured, fileVars>>

-----------------------------------------------------------------------------
\* A level: the dispatcher and the tasks it creates

BeginLevel ==
  /\ At("begin_level")
  /\ Goto("level")
  /\ open' = TRUE /\ issued' = 0
  /\ task' = NoTasks /\ begun' = NoTimes /\ ended' = NoTimes
  /\ UNCHANGED <<level, metrics, collectorVars, timelineVars, fileVars>>

\* Tasks for the next n requests.
Issue(n) ==
  /\ issued' = issued + n
  /\ task' = [r \in Requests |-> IF issued < r /\ r <= issued + n THEN "ready" ELSE task[r]]
  /\ UNCHANGED <<level, begun, ended, toolVars, metrics, collectorVars, timelineVars, fileVars>>

\* Without a duration: one gather, whatever the concurrency.
Gather ==
  /\ At("level") /\ open /\ config.arrival = "gather"
  /\ Issue(LevelSize(level))
  /\ open' = FALSE

\* With a duration: batches of the size of the level, each after the end of the
\* one before.  A smaller batch is one that the deadline cuts short.
Batch ==
  /\ At("level") /\ open /\ config.arrival = "batches"
  /\ Pending = {}
  /\ \E n \in 1 .. Levels[level] :
       /\ issued + n <= NumRequests
       /\ Issue(n)
       /\ open' = (n = Levels[level])

\* _run_poisson_level and _run_retry_storm_level: a task for each arrival.
Arrive ==
  /\ At("level") /\ open /\ config.arrival = "arrivals"
  /\ issued < LevelSize(level)
  /\ Issue(1)
  /\ open' = (config.deadline \/ issued + 1 < LevelSize(level))

Deadline ==
  /\ At("level") /\ open /\ config.deadline
  /\ config.arrival = "batches" => Pending = {}
  /\ open' = FALSE
  /\ UNCHANGED <<toolVars, level, issued, task, begun, ended, metrics, collectorVars,
                 timelineVars, fileVars>>

Began(r) ==
  /\ task' = [task EXCEPT ![r] = "flight"]
  /\ begun' = [begun EXCEPT ![r] = observed]
  /\ UNCHANGED <<toolVars, level, open, issued, ended, metrics, collectorVars,
                 timelineVars, fileVars>>

\* A mutant of Begin: the semaphore is not taken.
BeginUnbounded ==
  /\ At("level")
  /\ \E r \in Ready : Began(r)

\* The tasks begin in the order of their creation.  Those of arrivals wait for
\* the semaphore of the level first.
Begin ==
  /\ At("level")
  /\ config.arrival = "arrivals" => Cardinality(InFlight) < Levels[level]
  /\ \E r \in Ready :
       /\ \A q \in Ready : r <= q
       /\ Began(r)

\* stream_chat returns, with an answer or with a failure; it never raises.
Finish ==
  /\ At("level")
  /\ \E r \in InFlight :
       /\ task' = [task EXCEPT ![r] = "done"]
       /\ ended' = [ended EXCEPT ![r] = observed]
  /\ UNCHANGED <<toolVars, level, open, issued, begun, metrics, collectorVars,
                 timelineVars, fileVars>>

LevelDone ==
  /\ At("level") /\ ~open /\ Pending = {}
  /\ Goto("append_metrics")
  /\ UNCHANGED <<levelVars, metrics, collectorVars, timelineVars, fileVars>>

\* A mutant of Label: the scrape before the request counts for it.
LabelFromBefore(r) ==
  IF task[r] # "done" THEN "none"
  ELSE IF config.command = "cold-start" THEN "unlabelled"
  ELSE IF \E o \in 1 .. observed : begun[r] <= o /\ o <= ended[r] THEN "measured"
  ELSE "inferred"

\* _apply_measured_kv_labels: a scrape was observed while the request was in
\* flight.  The rows of a cold start have no label to replace.
Label(r) ==
  IF task[r] # "done" THEN "none"
  ELSE IF config.command = "cold-start" THEN "unlabelled"
  ELSE IF \E o \in 1 .. observed : begun[r] < o /\ o <= ended[r] THEN "measured"
  ELSE "inferred"

LevelRows == [r \in Requests |-> Label(r)]

AppendMetrics ==
  /\ At("append_metrics")
  /\ metrics' = [metrics EXCEPT ![level] = LevelRows]
  /\ file' = [file EXCEPT ![level] = LevelRows]
  /\ IF level < Len(Levels)
     THEN Goto("begin_level") /\ level' = level + 1
     ELSE Goto("stop") /\ UNCHANGED level
  /\ UNCHANGED <<open, issued, task, begun, ended, collectorVars, timelineVars, of, summary>>

\* A mutant of AppendFails: the exception is swallowed with the rows.
AppendFailsQuietly ==
  /\ At("append_metrics")
  /\ Goto("stop")
  /\ UNCHANGED <<levelVars, metrics, collectorVars, timelineVars, fileVars>>

\* The append fails: some of the rows may have reached the file.  The finally
\* clause stops the collector before the exception leaves.
AppendFails ==
  /\ At("append_metrics")
  /\ pc' = "stop" /\ failing' = TRUE
  /\ metrics' = [metrics EXCEPT ![level] = LevelRows]
  /\ \E n \in 0 .. NumRequests :
       file' = [file EXCEPT ![level] = [r \in Requests |-> IF r <= n THEN Label(r) ELSE "none"]]
  /\ UNCHANGED <<attempt, config, tool, levelVars, collectorVars, timelineVars, of, summary>>

-----------------------------------------------------------------------------
\* The collector

\* What a row was taken of is history: the requests in flight at that moment.
Row(seq, kind, during) == [seq |-> seq, kind |-> kind, during |-> during]
TimelineRows ==
  [seq : Nat, kind : {"scrape", "unreachable", "giant", "customer"},
   during : SUBSET (Level \X Requests)]

\* scrape() does not raise for an endpoint that is down or answers with an error:
\* it returns a snapshot that says so.
Snapshots == {"scrape", "unreachable"}

Collect == tool = "running" /\ UNCHANGED <<toolVars, levelVars, metrics, fileVars>>

CollectorTop ==
  /\ Collect /\ collector = "top"
  /\ IF stopping THEN collector' = "off"
     ELSE captured < MaxScrapes /\ collector' = "scraping"
  /\ UNCHANGED <<stopping, observed, captured, timelineVars>>

\* The snapshot arrives, and is not looked at.  Row, observation and count follow
\* without an await.
Scraped ==
  /\ Collect /\ collector = "scraping"
  /\ collector' = "waiting"
  /\ \E kind \in Snapshots :
       timeline' = Append(timeline, Row(captured, kind, {level} \X InFlight))
  /\ observed' = observed + 1
  /\ captured' = captured + 1
  /\ UNCHANGED <<stopping, older>>

\* The metrics cannot be parsed, or the append raises: printed and forgotten.
ScrapeFails ==
  /\ Collect /\ collector = "scraping"
  /\ collector' = "waiting"
  /\ UNCHANGED <<stopping, observed, captured, timelineVars>>

\* The interval is over, or stop_event is set.
Wake ==
  /\ Collect /\ collector = "waiting"
  /\ collector' = "top"
  /\ UNCHANGED <<stopping, observed, captured, timelineVars>>

-----------------------------------------------------------------------------
\* _run_benchmark, after the last level

\* A mutant of Stop: the event is not set.
StopForgets ==
  /\ At("stop")
  /\ Goto("stopping")
  /\ UNCHANGED <<levelVars, metrics, collectorVars, timelineVars, fileVars>>

Stop ==
  /\ At("stop")
  /\ Goto("stopping")
  /\ stopping' = TRUE
  /\ UNCHANGED <<levelVars, metrics, collector, observed, captured, timelineVars, fileVars>>

Stopped ==
  /\ At("stopping") /\ collector = "off"
  /\ IF failing
     THEN tool' = "raised" /\ UNCHANGED <<attempt, config, pc, failing>>
     ELSE Goto("giant")
  /\ UNCHANGED <<levelVars, metrics, collectorVars, timelineVars, fileVars>>

\* n rows that number on from captured_count.
Extended(kind, n) ==
  timeline \o [i \in 1 .. n |-> Row(captured + i - 1, kind, {})]

\* A mutant of AppendGiant: captured_count does not move.
AppendGiantUncounted ==
  /\ At("giant")
  /\ Goto("customers")
  /\ IF config.giant THEN timeline' = Extended("giant", 3) ELSE UNCHANGED timeline
  /\ UNCHANGED <<levelVars, metrics, collectorVars, older, fileVars>>

AppendGiant ==
  /\ At("giant")
  /\ Goto("customers")
  /\ IF config.giant
     THEN timeline' = Extended("giant", 3) /\ captured' = captured + 3
     ELSE UNCHANGED <<timeline, captured>>
  /\ UNCHANGED <<levelVars, metrics, collector, stopping, observed, older, fileVars>>

\* One row per metric, behind a count that is not kept.
AppendCustomers ==
  /\ At("customers")
  /\ Goto("write_summary")
  /\ IF config.customers /\ Recorded(metrics) # {}
     THEN /\ timeline' = Extended("customer", Cardinality(Recorded(metrics)))
          /\ captured' = IF captured > 1 THEN captured ELSE 1
     ELSE UNCHANGED <<timeline, captured>>
  /\ UNCHANGED <<levelVars, metrics, collector, stopping, observed, older, fileVars>>

\* _retry_storm_summary reads the peaks from all of the timeline.
Peaks ==
  (IF older THEN {"older"} ELSE {}) \cup (IF ScrapedRows # {} THEN {"own"} ELSE {})

WriteSummary ==
  /\ At("write_summary")
  /\ Goto("write_report")
  /\ summary' = [of |-> attempt, rows |-> Recorded(metrics), present |-> captured > 0,
                 peaks |-> IF config.storm THEN Peaks ELSE {}]
  /\ UNCHANGED <<levelVars, metrics, collectorVars, timelineVars, of, file>>

WriteReport ==
  /\ At("write_report")
  /\ Goto("write_run")
  /\ Written("report")
  /\ UNCHANGED <<levelVars, metrics, collectorVars, timelineVars>>

WriteRun ==
  /\ At("write_run")
  /\ tool' = "returned"
  /\ Written("run")
  /\ UNCHANGED <<attempt, config, pc, failing, levelVars, metrics, collectorVars, timelineVars>>

\* A file cannot be opened for writing and stays as it was; the exception leaves
\* at once.  (A write that fails half way is left out.)
CannotWrite ==
  /\ \E label \in {"write_config", "empty_requests", "empty_metrics", "append_requests",
                   "start_timeline", "giant", "customers", "write_summary",
                   "write_report", "write_run"} : At(label)
  /\ tool' = "raised"
  /\ UNCHANGED <<attempt, config, pc, failing, levelVars, metrics, collectorVars,
                 timelineVars, fileVars>>

\* SIGINT or SIGTERM: the handler raises SystemExit, asyncio.run cancels all tasks.
Interrupt ==
  /\ tool = "running"
  /\ tool' = "interrupted"
  /\ UNCHANGED <<attempt, config, pc, failing, levelVars, metrics, collectorVars,
                 timelineVars, fileVars>>

-----------------------------------------------------------------------------

Prepare == WriteConfig \/ EmptyRequests \/ EmptyMetrics \/ AppendRequests \/ StartTimeline
Dispatch == BeginLevel \/ Gather \/ Batch \/ Arrive \/ Deadline \/ LevelDone
Answering == Begin \/ Finish
Scraping == CollectorTop \/ Scraped \/ ScrapeFails \/ Wake
Conclude ==
  Stop \/ Stopped \/ AppendGiant \/ AppendCustomers \/ WriteSummary \/ WriteReport \/ WriteRun

Next ==
  \/ Prepare \/ Dispatch \/ Answering \/ AppendMetrics \/ AppendFails
  \/ Scraping \/ Conclude \/ CannotWrite \/ Interrupt \/ Rerun

\* The loop runs what is ready of the coroutine, the requests and the collector:
\* arrivals and deadlines come; that an answer ends, and a scrape, is an assumption,
\* as in RequestProfile: the timeouts of the client are for each read.
Fairness ==
  /\ WF_vars(Prepare \/ Dispatch \/ AppendMetrics \/ Conclude)
  /\ WF_vars(Answering)
  /\ WF_vars(Scraping)

Spec == Init /\ [][Next]_vars
FairSpec == Spec /\ Fairness

-----------------------------------------------------------------------------
\* Properties

\* Every variable keeps its type.
TypeOK ==
  /\ attempt \in 1 .. MaxAttempts
  /\ config \in Configurations
  /\ tool \in {"running", "returned", "raised", "interrupted"}
  /\ pc \in {"write_config", "empty_requests", "empty_metrics", "append_requests",
            "start_timeline", "begin_level", "level", "append_metrics", "stop", "stopping",
            "giant", "customers", "write_summary", "write_report", "write_run"}
  /\ failing \in BOOLEAN /\ open \in BOOLEAN /\ stopping \in BOOLEAN /\ older \in BOOLEAN
  /\ level \in Level
  /\ issued \in 0 .. NumRequests
  /\ task \in [Requests -> {"none", "ready", "flight", "done"}]
  /\ begun \in [Requests -> 0 .. MaxScrapes]
  /\ ended \in [Requests -> 0 .. MaxScrapes]
  /\ metrics \in [Level -> [Requests -> Labels]]
  /\ collector \in {"off", "top", "scraping", "waiting"}
  /\ observed \in 0 .. MaxScrapes
  /\ captured \in Nat
  /\ timeline \in Seq(TimelineRows)
  /\ of \in [Files -> 0 .. MaxAttempts]
  /\ file \in [Level -> [Requests -> Labels]]
  /\ summary \in [of : 0 .. MaxAttempts, rows : SUBSET (Level \X Requests),
                  present : BOOLEAN, peaks : SUBSET {"older", "own"}]

\* CHANGELOG.md:249: a row of metrics.jsonl is labelled "measured" exactly if the
\* timeline has a snapshot that was taken while the request was in flight, be it
\* that of an engine that answered or of an unreachable one.  The label is given
\* after the level, from counts that two tasks took.
LabelsAgree ==
  of["metrics"] = attempt /\ config.command # "cold-start" =>
    \A l \in Level, r \in Requests :
      file[l][r] # "none" =>
        (file[l][r] = "measured" <=>
           \E i \in DOMAIN timeline : <<l, r>> \in timeline[i].during)

\* The rows that an attempt puts into the timeline are numbered without gap or
\* repetition, although three writers number them.
TimelineNumbered == \A i \in DOMAIN timeline : timeline[i].seq = i - 1

\* With a deadline or with arrivals, no more requests are in flight than the
\* level allows, and a batch begins only after the one before.
InFlightBounded ==
  config.arrival # "gather" => Cardinality(InFlight) <= Levels[level]

\* A run.json speaks for everything else: what it names is of the same attempt,
\* the summary counts the rows of metrics.jsonl and knows whether there is a
\* timeline, and without a deadline no request of any level is missing.
RunExplains ==
  of["run"] = attempt =>
    /\ \A f \in Files : of[f] = attempt
    /\ summary.of = attempt
    /\ summary.rows = Recorded(file)
    /\ summary.present <=> timeline # <<>>
    /\ ~config.deadline =>
         \A l \in Level : \A r \in 1 .. LevelSize(l) : file[l][r] # "none"

\* Whatever failed and whatever was repeated: a file is never newer than one that
\* is written before it.  (requests.jsonl may be empty.)
NewestFirst ==
  /\ of["run"] <= of["report"] /\ of["report"] <= summary.of
  /\ summary.of <= of["metrics"] /\ of["metrics"] <= of["config"]
  /\ of["requests"] # 0 => summary.of <= of["requests"]

\* Peaks of another attempt come into a summary only if the attempt of the
\* summary did not scrape.
PeaksAreOwn ==
  summary.of = attempt /\ config.scrape => "older" \notin summary.peaks

\* Every attempt ends.
BenchEnds == tool = "running" ~> Ended

-----------------------------------------------------------------------------
\* The inductive invariant behind the properties

Before == {"write_config", "empty_requests", "empty_metrics", "append_requests",
           "start_timeline"}
Running == {"begin_level", "level", "append_metrics", "stop", "stopping"}
After == {"giant", "customers", "write_summary", "write_report", "write_run"}
Unwritten == {"begin_level", "level", "append_metrics"}

\* One count for three: the collector keeps them in step until it is off.
Counted ==
  /\ pc \in Before => timeline = <<>> /\ observed = 0 /\ captured = 0
  /\ pc \in Before \cup After => collector = "off"
  /\ pc \in Running => observed = captured /\ observed = Len(timeline)
  /\ pc \in {"giant", "customers"} => captured = Len(timeline)
  /\ pc \in After => (captured > 0 <=> timeline # <<>>)
  /\ collector = "scraping" => captured < MaxScrapes

\* The tasks of a level are a beginning of its requests, and all of them are done
\* when it is over.
Tasks ==
  /\ pc \in {"level", "append_metrics"} =>
       /\ \A r \in Requests : task[r] = "none" <=> issued < r
       /\ ~open /\ ~config.deadline => issued = LevelSize(level)
       /\ open /\ config.arrival = "gather" => issued = 0
  /\ pc # "level" => Pending = {}
  /\ pc = "append_metrics" => ~open

\* The scrapes taken of a request are those between its begin and its end.
Windows ==
  /\ \A r \in Requests : begun[r] <= observed /\ ended[r] <= observed
  /\ \A i \in DOMAIN timeline :
       /\ pc \in {"level", "append_metrics"} =>
            \A r \in Requests :
              <<level, r>> \in timeline[i].during <=>
                /\ task[r] \in {"flight", "done"}
                /\ begun[r] < i
                /\ task[r] = "done" => i <= ended[r]
       /\ pc = "begin_level" => \A r \in Requests : <<level, r>> \notin timeline[i].during
       /\ \A l \in Level, r \in Requests : level < l => <<l, r>> \notin timeline[i].during

\* The rows of the levels before this one are in the file, the others are not.
RowsOfLevels ==
  /\ pc \in {"append_requests", "start_timeline"} => file = NoRows
  /\ pc \in Before => metrics = NoRows /\ level = 1
  /\ pc \in Running =>
       \A l \in Level : level < l \/ (level = l /\ pc \in Unwritten) =>
         \A r \in Requests : file[l][r] = "none"
  /\ pc \in Running \cup After /\ ~failing => metrics = file
  /\ pc \in Running \cup After /\ ~failing /\ ~config.deadline =>
       \A l \in Level : l < level \/ pc \notin Unwritten =>
         \A r \in 1 .. LevelSize(l) : file[l][r] # "none"
  /\ failing => pc \in {"stop", "stopping"}
  /\ pc \in {"stop", "stopping"} /\ ~failing => level = Len(Levels)

\* Which attempt each file is of.
FilesOf ==
  /\ \A f \in Files : of[f] <= attempt
  /\ of["config"] = attempt <=> pc # "write_config"
  /\ of["metrics"] = attempt <=>
       pc \notin {"write_config", "empty_requests", "empty_metrics"}
  /\ of["requests"] = attempt <=> pc \in (Running \cup After \cup {"start_timeline"})
  /\ summary.of <= attempt
  /\ summary.of = attempt <=> pc \in {"write_report", "write_run"}
  /\ of["report"] = attempt <=> pc = "write_run"
  /\ of["run"] = attempt <=> tool = "returned"
  /\ tool = "returned" => pc = "write_run"

\* What a summary says of its own attempt.
Summarised ==
  summary.of = attempt =>
    /\ summary.rows = Recorded(file)
    /\ summary.present <=> timeline # <<>>

\* Starting to scrape removes what earlier attempts scraped.
FreshTimeline == config.scrape /\ pc \notin Before => ~older

\* The bound on requests in flight, and on the whole of a batch.
Bounded ==
  /\ InFlightBounded
  /\ config.arrival = "batches" => Cardinality(Pending) <= Levels[level]

IInv ==
  /\ TypeOK /\ Counted /\ Tasks /\ Windows /\ RowsOfLevels /\ FilesOf /\ Summarised
  /\ FreshTimeline /\ Bounded
  /\ LabelsAgree /\ TimelineNumbered /\ NewestFirst /\ PeaksAreOwn

=============================================================================
