---------------------------- MODULE RequestProfile ----------------------------
(***************************************************************************)
(* `inferguard request-profile`: one process that sends every request of   *)
(* its input to an endpoint, appends one row per answer to                 *)
(* requests_profile.jsonl and writes requests_summary.json at the end,     *)
(* with the shared signal handler that may interrupt it between any two    *)
(* steps.  An operator repeats an attempt in the same output directory:    *)
(* the rows start afresh, the summary and the partial result of earlier    *)
(* attempts stay until they are replaced.                                  *)
(*                                                                         *)
(* The requests run as asyncio tasks: in a closed loop a fixed number of   *)
(* workers take them from a queue, in a Poisson run a task is created for  *)
(* each at its arrival time and waits for a semaphore.  Both are a number  *)
(* of slots: what ends hands its slot to the first request that waits, and *)
(* in the closed loop all of them wait from the outset.                    *)
(***************************************************************************)
EXTENDS Naturals, FiniteSets

CONSTANTS
  NumRequests,   \* the requests of the input
  Concurrency,   \* how many of them may be in flight
  MaxAttempts    \* how often the operator runs the command

ASSUME RequestsAssumption == NumRequests \in Nat \ {0}
ASSUME ConcurrencyAssumption == Concurrency \in Nat \ {0}
ASSUME AttemptsAssumption == MaxAttempts \in Nat \ {0}

Requests == 1 .. NumRequests

VARIABLES
  attempt,    \* the number of the current run of the command
  mode,       \* arrival_mode of that run
  tool,       \* what its process is doing, or how it ended
  pc,         \* the next step of run_request_profile
  handler,    \* the next step of _shared_shutdown_handler
  state,      \* per request: where its task is
  recording,  \* the request whose row record_metric is recording, or 0
  stage,      \* how far record_metric has come with it
  rows,       \* the rows of the process: how many each request has
  buffer,     \* those that rows_handle has not passed to the file
  failing,    \* an exception is on its way out of run_request_profile
  streams,    \* rows_handle is in _JSONL_STREAMS
  producers,  \* partial_path is in _PARTIAL_RESULT_PRODUCERS
  fileOf,     \* requests_profile.jsonl: the attempt it is of, or 0,
  file,       \* and how many rows each request has in it
  summary,    \* requests_summary.json: the attempt it is of, or 0, and its rows
  partial,    \* partial_results.json: likewise
  unwritten   \* history: this attempt failed to write a file

toolVars == <<attempt, mode, tool, pc, handler>>
taskVars == <<state, recording, stage, rows>>
registryVars == <<streams, producers>>
rowsVars == <<buffer, fileOf, file>>
reportVars == <<summary, partial>>
vars == <<toolVars, taskVars, registryVars, rowsVars, reportVars, failing, unwritten>>

-----------------------------------------------------------------------------

Ended == tool \in {"returned", "raised", "interrupted", "forced", "killed"}

At(label) == tool = "running" /\ pc = label
Handling(label) == tool = "handling" /\ handler = label
Goto(label) == pc' = label /\ UNCHANGED <<attempt, mode, tool, handler>>
InState(s) == {r \in Requests : state[r] = s}

NoRows == [r \in Requests |-> 0]
Report == [of |-> 0, rows |-> NoRows]

\* A new process of the command.
Init ==
  /\ attempt = 1
  /\ mode \in {"closed_loop", "poisson"}
  /\ tool = "running"
  /\ pc = "truncate"
  /\ handler = "none"
  /\ state = [r \in Requests |-> "queued"]
  /\ recording = 0
  /\ stage = "none"
  /\ rows = NoRows
  /\ buffer = NoRows
  /\ failing = FALSE
  /\ streams = FALSE
  /\ producers = FALSE
  /\ fileOf = 0
  /\ file = NoRows
  /\ summary = Report
  /\ partial = Report
  /\ unwritten = FALSE

Rerun ==
  /\ Ended
  /\ attempt < MaxAttempts
  /\ attempt' = attempt + 1
  /\ mode' \in {"closed_loop", "poisson"}
  /\ tool' = "running"
  /\ pc' = "truncate"
  /\ handler' = "none"
  /\ state' = [r \in Requests |-> "queued"]
  /\ recording' = 0
  /\ stage' = "none"
  /\ rows' = NoRows
  /\ buffer' = NoRows
  /\ failing' = FALSE
  /\ streams' = FALSE
  /\ producers' = FALSE
  /\ unwritten' = FALSE
  /\ UNCHANGED <<fileOf, file, reportVars>>

-----------------------------------------------------------------------------
\* run_request_profile, up to the requests

\* A mutant of Truncate: the rows of earlier attempts are appended to.
TruncateForgets ==
  /\ At("truncate")
  /\ Goto("register_partial")
  /\ fileOf' = attempt
  /\ UNCHANGED <<taskVars, registryVars, buffer, file, reportVars, failing, unwritten>>

\* atomic_write_text of no rows.
Truncate ==
  /\ At("truncate")
  /\ Goto("register_partial")
  /\ fileOf' = attempt
  /\ file' = NoRows
  /\ UNCHANGED <<taskVars, registryVars, buffer, reportVars, failing, unwritten>>

\* A file cannot be opened or replaced, and stays as it was.
Raises ==
  /\ At("truncate") \/ At("write_summary")
  /\ tool' = "raised"
  /\ unwritten' = TRUE
  /\ UNCHANGED <<attempt, mode, pc, handler, taskVars, registryVars, rowsVars,
                 reportVars, failing>>

\* A mutant of RegisterPartial: the producer is not registered.
RegisterPartialForgets ==
  /\ At("register_partial")
  /\ Goto("open")
  /\ UNCHANGED <<taskVars, registryVars, rowsVars, reportVars, failing, unwritten>>

RegisterPartial ==
  /\ At("register_partial")
  /\ producers' = TRUE
  /\ Goto("open")
  /\ UNCHANGED <<taskVars, streams, rowsVars, reportVars, failing, unwritten>>

\* rows_path is opened for appending and registered.
Open ==
  /\ At("open")
  /\ streams' = TRUE
  /\ Goto("start")
  /\ UNCHANGED <<taskVars, producers, rowsVars, reportVars, failing, unwritten>>

OpenFails ==
  /\ At("open")
  /\ failing' = TRUE
  /\ unwritten' = TRUE
  /\ Goto("unregister_partial")
  /\ UNCHANGED <<taskVars, registryVars, rowsVars, reportVars>>

-----------------------------------------------------------------------------
\* asyncio.run(_profile_requests(...))

\* The workers of a closed loop take the first requests; those of a Poisson run
\* are yet to arrive.
Start ==
  /\ At("start")
  /\ IF mode = "closed_loop"
     THEN state' = [r \in Requests |-> IF r <= Concurrency THEN "flight" ELSE "waiting"]
     ELSE UNCHANGED state
  /\ Goto("requests")
  /\ UNCHANGED <<recording, stage, rows, registryVars, rowsVars, reportVars, failing,
                 unwritten>>

\* A mutant of Arrive: the semaphore has one slot more.
ArriveBeyond(r) ==
  /\ At("requests") /\ stage = "none"
  /\ state[r] = "queued"
  /\ \A q \in InState("queued") : r <= q
  /\ state' = [state EXCEPT ![r] =
       IF Cardinality(InState("flight")) <= Concurrency THEN "flight" ELSE "waiting"]
  /\ UNCHANGED <<toolVars, recording, stage, rows, registryVars, rowsVars, reportVars,
                 failing, unwritten>>

\* _run_poisson creates the task of the next arrival, which takes the semaphore
\* if it can.
Arrive(r) ==
  /\ At("requests") /\ stage = "none"
  /\ state[r] = "queued"
  /\ \A q \in InState("queued") : r <= q
  /\ state' = [state EXCEPT ![r] =
       IF Cardinality(InState("flight")) < Concurrency THEN "flight" ELSE "waiting"]
  /\ UNCHANGED <<toolVars, recording, stage, rows, registryVars, rowsVars, reportVars,
                 failing, unwritten>>

\* _run_one_request returns a metric, of a failure too, and record_metric
\* appends its row to those of the process.
Answer(r) ==
  /\ At("requests") /\ stage = "none"
  /\ state[r] = "flight"
  /\ recording' = r
  /\ stage' = "appended"
  /\ rows' = [rows EXCEPT ![r] = @ + 1]
  /\ UNCHANGED <<toolVars, state, registryVars, rowsVars, reportVars, failing, unwritten>>

WriteRow ==
  /\ At("requests") /\ stage = "appended"
  /\ stage' = "buffered"
  /\ buffer' = [buffer EXCEPT ![recording] = @ + 1]
  /\ UNCHANGED <<toolVars, state, recording, rows, registryVars, fileOf, file, reportVars,
                 failing, unwritten>>

Flushed == [r \in Requests |-> file[r] + buffer[r]]

\* A mutant of EndTask: a task that ends keeps its slot.
EndTaskKeepsSlot(s, handOver) ==
  /\ recording' = 0
  /\ stage' = "none"
  /\ state' = [state EXCEPT ![recording] = s]

\* The task whose row is recorded ends; its slot goes to the first that waits.
EndTask(s, handOver) ==
  /\ recording' = 0
  /\ stage' = "none"
  /\ IF handOver /\ InState("waiting") # {}
     THEN \E q \in InState("waiting") :
            /\ \A p \in InState("waiting") : q <= p
            /\ state' = [state EXCEPT ![recording] = s, ![q] = "flight"]
     ELSE state' = [state EXCEPT ![recording] = s]

FlushRow ==
  /\ At("requests") /\ stage = "buffered"
  /\ file' = Flushed
  /\ buffer' = NoRows
  /\ EndTask("done", TRUE)
  /\ UNCHANGED <<toolVars, rows, registryVars, fileOf, reportVars, failing, unwritten>>

\* write or flush raises.  The task ends with the exception: so does a worker of
\* the closed loop, which takes no other request, and a task of the Poisson run
\* releases the semaphore.
RowFails ==
  /\ At("requests") /\ stage \in {"appended", "buffered"}
  /\ failing' = TRUE
  /\ unwritten' = TRUE
  /\ EndTask("failed", mode = "poisson")
  /\ UNCHANGED <<toolVars, rows, registryVars, rowsVars, reportVars>>

RequestsEnd ==
  /\ At("requests")
  /\ \A r \in Requests : state[r] = "done"
  /\ Goto("close")
  /\ UNCHANGED <<taskVars, registryVars, rowsVars, reportVars, failing, unwritten>>

\* A mutant of RequestsFail: the exceptions of the tasks are collected.
RequestsFailIgnored ==
  /\ At("requests") /\ stage = "none" /\ failing
  /\ mode = "poisson" => InState("queued") = {}
  /\ failing' = FALSE
  /\ Goto("close")
  /\ UNCHANGED <<taskVars, registryVars, rowsVars, reportVars, unwritten>>

\* gather raises the exception of a task; what is still in flight is cancelled.
\* _run_poisson gathers when the last request has arrived, not before.
RequestsFail ==
  /\ At("requests") /\ stage = "none" /\ failing
  /\ mode = "poisson" => InState("queued") = {}
  /\ Goto("close")
  /\ UNCHANGED <<taskVars, registryVars, rowsVars, reportVars, failing, unwritten>>

-----------------------------------------------------------------------------
\* run_request_profile, after the requests

\* The stream is unregistered and closed, which passes on what is buffered.
Close ==
  /\ At("close")
  /\ streams' = FALSE
  /\ Goto("unregister_partial")
  /\ buffer' = NoRows
  /\ \/ file' = Flushed /\ UNCHANGED <<failing, unwritten>>
     \/ UNCHANGED file /\ failing' = TRUE /\ unwritten' = TRUE
  /\ UNCHANGED <<taskVars, producers, fileOf, reportVars>>

\* A mutant of UnregisterPartial: the producer stays registered.
UnregisterPartialForgets ==
  /\ At("unregister_partial")
  /\ pc' = "write_summary"
  /\ tool' = IF failing THEN "raised" ELSE "running"
  /\ UNCHANGED <<attempt, mode, handler, taskVars, registryVars, rowsVars, reportVars,
                 failing, unwritten>>

UnregisterPartial ==
  /\ At("unregister_partial")
  /\ producers' = FALSE
  /\ pc' = "write_summary"
  /\ tool' = IF failing THEN "raised" ELSE "running"
  /\ UNCHANGED <<attempt, mode, handler, taskVars, streams, rowsVars, reportVars, failing,
                 unwritten>>

WriteSummary ==
  /\ At("write_summary")
  /\ summary' = [of |-> attempt, rows |-> rows]
  /\ Goto("return")
  /\ UNCHANGED <<taskVars, registryVars, rowsVars, partial, failing, unwritten>>

Return ==
  /\ At("return")
  /\ tool' = "returned"
  /\ UNCHANGED <<attempt, mode, pc, handler, taskVars, registryVars, rowsVars, reportVars,
                 failing, unwritten>>

Main ==
  \/ Truncate \/ Raises \/ RegisterPartial \/ Open \/ OpenFails \/ Start
  \/ WriteRow \/ FlushRow \/ RowFails \/ RequestsEnd \/ RequestsFail
  \/ Close \/ UnregisterPartial \/ WriteSummary \/ Return

-----------------------------------------------------------------------------
\* _shared_shutdown_handler.  It runs on the thread that it interrupts, so that
\* neither pc nor a task moves from the signal on.

SignalArrives ==
  /\ tool = "running"
  /\ tool' = "handling"
  /\ handler' = "flush"
  /\ UNCHANGED <<attempt, mode, pc, taskVars, registryVars, rowsVars, reportVars, failing,
                 unwritten>>

\* A second signal: os._exit.
SecondSignal ==
  /\ tool = "handling"
  /\ tool' = "forced"
  /\ UNCHANGED <<attempt, mode, pc, handler, taskVars, registryVars, rowsVars, reportVars,
                 failing, unwritten>>

HandlerGoto(label) == handler' = label /\ UNCHANGED <<attempt, mode, tool, pc>>

\* A mutant of FlushStreams: the partial result is written at once.
FlushStreamsForgets ==
  /\ Handling("flush")
  /\ HandlerGoto("write")
  /\ UNCHANGED <<taskVars, registryVars, rowsVars, reportVars, failing, unwritten>>

\* flush_jsonl_streams; a stream that cannot be flushed is logged.
FlushStreams ==
  /\ Handling("flush")
  /\ HandlerGoto("write")
  /\ \/ ~streams /\ UNCHANGED <<buffer, file, unwritten>>
     \/ streams /\ file' = Flushed /\ buffer' = NoRows /\ UNCHANGED unwritten
     \/ streams /\ unwritten' = TRUE /\ UNCHANGED <<buffer, file>>
  /\ UNCHANGED <<taskVars, registryVars, fileOf, reportVars, failing>>

\* write_registered_partial_results; a file that cannot be written is logged.
WritePartial ==
  /\ Handling("write")
  /\ HandlerGoto("exit")
  /\ \/ ~producers /\ UNCHANGED <<partial, unwritten>>
     \/ producers /\ partial' = [of |-> attempt, rows |-> rows] /\ UNCHANGED unwritten
     \/ producers /\ unwritten' = TRUE /\ UNCHANGED partial
  /\ UNCHANGED <<taskVars, registryVars, rowsVars, summary, failing>>

\* SystemExit leaves run_request_profile: the tasks are cancelled, which records
\* nothing, and closing rows_handle passes on what is buffered, if it can.
HandlerExits ==
  /\ Handling("exit")
  /\ tool' = "interrupted"
  /\ buffer' = NoRows
  /\ file' \in {file, Flushed}
  /\ UNCHANGED <<attempt, mode, pc, handler, taskVars, registryVars, fileOf, reportVars,
                 failing, unwritten>>

Handler == FlushStreams \/ WritePartial \/ HandlerExits

\* SIGKILL, or out of memory.
Killed ==
  /\ ~Ended
  /\ tool' = "killed"
  /\ UNCHANGED <<attempt, mode, pc, handler, taskVars, registryVars, rowsVars, reportVars,
                 failing, unwritten>>

Next ==
  \/ Rerun \/ Main \/ SignalArrives \/ SecondSignal \/ Handler \/ Killed
  \/ \E r \in Requests : Arrive(r) \/ Answer(r)

Spec == Init /\ [][Next]_vars

\* The process runs, the arrivals come at their times, and the endpoint ends
\* each answer (the timeout of the client is per read: it does not bound an
\* answer that comes in drops).
FairSpec ==
  /\ Spec
  /\ WF_vars(Main)
  /\ WF_vars(Handler)
  /\ \A r \in Requests : WF_vars(Arrive(r)) /\ WF_vars(Answer(r))

-----------------------------------------------------------------------------
\* What must hold

Steps ==
  {"truncate", "register_partial", "open", "start", "requests", "close",
   "unregister_partial", "write_summary", "return"}
BeforeRequests == {"truncate", "register_partial", "open", "start"}
AfterRequests == {"close", "unregister_partial", "write_summary", "return"}
Reports == [of : 0 .. MaxAttempts, rows : [Requests -> 0 .. 1]]

\* Type correctness; that no count exceeds one says that no request is recorded
\* twice, whichever slots pass from task to task.
TypeOK ==
  /\ attempt \in 1 .. MaxAttempts
  /\ mode \in {"closed_loop", "poisson"}
  /\ tool \in {"running", "handling", "returned", "raised", "interrupted", "forced",
              "killed"}
  /\ pc \in Steps
  /\ handler \in {"none", "flush", "write", "exit"}
  /\ state \in [Requests -> {"queued", "waiting", "flight", "done", "failed"}]
  /\ recording \in 0 .. NumRequests
  /\ stage \in {"none", "appended", "buffered"}
  /\ rows \in [Requests -> 0 .. 1]
  /\ buffer \in [Requests -> 0 .. 1]
  /\ failing \in BOOLEAN
  /\ streams \in BOOLEAN
  /\ producers \in BOOLEAN
  /\ fileOf \in 0 .. MaxAttempts
  /\ file \in [Requests -> 0 .. 1]
  /\ summary \in Reports
  /\ partial \in Reports
  /\ unwritten \in BOOLEAN

\* A summary beside rows of the same attempt is of all requests, and the rows
\* hold each of them once, however the tasks, failures and signals interleaved.
SummaryIsComplete ==
  fileOf # 0 /\ summary.of = fileOf =>
    \A r \in Requests : file[r] = 1 /\ summary.rows[r] = 1

\* A partial result beside rows of the same attempt misses none of them; if all
\* could be written and the process was left to exit, it counts at most one row
\* more, that record_metric was about to write when the signal arrived.
PartialIsBacked ==
  fileOf # 0 /\ partial.of = fileOf =>
    \A r \in Requests :
      /\ file[r] <= partial.rows[r]
      /\ tool = "interrupted" /\ ~unwritten /\ pc # "truncate" /\ file[r] # partial.rows[r] =>
           r = recording /\ stage = "appended"

\* No attempt has both.
OneReport == fileOf # 0 => ~(summary.of = fileOf /\ partial.of = fileOf)

\* An attempt that returned, or that one signal interrupted, has one of them:
\* rows beside the summary of an earlier attempt are explained by a partial
\* result.  The exceptions are a signal between the replacement of the rows and
\* the registration of the producer, and one between the end of its registration
\* and the summary.
RowsExplained ==
  /\ tool \in {"returned", "interrupted"}
  /\ ~unwritten
  /\ pc \notin {"truncate", "register_partial", "write_summary"}
  => summary.of = attempt \/ partial.of = attempt

\* As many requests are in flight as there are slots while one waits, and never
\* more: whatever ends passes its slot on, and only a worker of the closed loop
\* takes its slot with it when a row cannot be written.
SlotsKept ==
  LET lost == IF mode = "closed_loop" THEN Cardinality(InState("failed")) ELSE 0
      held == Cardinality(InState("flight")) + lost
  IN  held <= Concurrency /\ (InState("waiting") # {} => held = Concurrency)

\* The strengthening that makes these inductive.

\* Which steps the handler has taken, given how the command stands.
HandlerInStep ==
  /\ tool \in {"running", "returned", "raised"} => handler = "none"
  /\ tool = "handling" => handler # "none"
  /\ tool = "interrupted" => handler = "exit"
  /\ tool = "returned" => pc = "return"

\* What is registered at each step.
Registered ==
  /\ producers <=> pc \in {"open", "start", "requests", "close", "unregister_partial"}
  /\ streams <=> pc \in {"start", "requests", "close"}
  /\ ~streams => buffer = NoRows

\* The tasks exist while asyncio.run does, and one of them at most records.
Tasks ==
  /\ pc \in BeforeRequests => \A r \in Requests : state[r] = "queued"
  /\ recording # 0 <=> stage # "none"
  /\ recording # 0 => state[recording] = "flight" /\ pc = "requests"
  /\ failing => unwritten
  /\ pc \in AfterRequests /\ ~failing => \A r \in Requests : state[r] = "done"
  /\ pc = "return" \/ (pc = "write_summary" /\ tool # "raised") => ~failing

\* Where the row of a request is.
RowAccounted(r) ==
  /\ rows[r] = IF r = recording \/ state[r] \in {"done", "failed"} THEN 1 ELSE 0
  /\ pc # "truncate" => file[r] + buffer[r] <= rows[r]
  /\ pc # "truncate" /\ state[r] = "done" => file[r] = 1
  /\ r = recording /\ stage = "appended" => file[r] + buffer[r] = 0
  /\ r = recording /\ stage = "buffered" /\ (tool = "running" \/ ~unwritten) =>
       file[r] + buffer[r] = 1
  /\ state[r] = "failed" => unwritten

RowsAccounted == \A r \in Requests : RowAccounted(r)

\* Which attempts the files are of, and what the handler has done.
Files ==
  /\ pc = "truncate" => fileOf < attempt
  /\ pc # "truncate" => fileOf = attempt
  /\ summary.of <= fileOf
  /\ partial.of <= fileOf
  /\ pc # "truncate" => (summary.of = attempt <=> pc = "return")
  /\ pc # "truncate" /\ partial.of = attempt => handler = "exit" /\ producers /\ partial.rows = rows
  /\ handler \in {"write", "exit"} /\ ~unwritten => buffer = NoRows
  /\ handler = "exit" /\ ~unwritten /\ producers => partial.of = attempt

\* The inductive invariant.
IInv ==
  /\ TypeOK
  /\ HandlerInStep
  /\ Registered
  /\ Tasks
  /\ RowsAccounted
  /\ Files
  /\ SummaryIsComplete
  /\ PartialIsBacked
  /\ OneReport

\* The files are those of ProfileFiles, through every run of the command.
Promise == INSTANCE ProfileFiles
ImplementsProfileFiles == Promise!Spec

\* Every attempt ends, whichever row cannot be written and however the slots
\* pass: neither the semaphore nor the end of a worker strands a request.
AttemptEnds == ~Ended ~> Ended
=============================================================================
