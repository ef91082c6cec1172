----------------------------- MODULE CompletedRun -----------------------------
(***************************************************************************)
(* The directory of one job, from the commands that collect evidence to    *)
(* the ones that publish a verdict on it.  launch-engine, request-profile  *)
(* and collect-metrics write evidence while they run, any of them may be   *)
(* run again, and nothing keeps the operator from validating meanwhile.    *)
(* validate-completed, diagnose-bottleneck and report-completed are run    *)
(* one after the other, in any order; each reads what the others left.     *)
(*                                                                         *)
(* A validation is not a snapshot: it reads every piece of evidence twice, *)
(* once for the live quorum and once for the downgrades, while the tools   *)
(* go on.  report-completed takes the validation report it finds, however  *)
(* old, and validates for itself only if there is none.                    *)
(***************************************************************************)
EXTENDS Naturals, FiniteSets

CONSTANTS
  Contracts,   \* what expected_artifact_contract.json may be
  Peers,       \* what the other jobs of the plan may be found to be
  MaxDefects,  \* how much may be out of the ordinary from the start
  MaxStarts    \* how often the tools are started, all together

\* A contract with the built-in required paths, or one of the operator's that
\* asks for none of the files below, or no contract, or one that is not JSON.
ASSUME ContractsAssumption == Contracts \subseteq {"default", "custom", "missing", "invalid"}
ASSUME PeersAssumption ==
  Peers \subseteq {"live_incomplete", "synthetic_only", "missing_required_artifacts",
                   "not_publishable", "live_complete"}
ASSUME DefectsAssumption == MaxDefects \in Nat
ASSUME StartsAssumption == MaxStarts \in Nat

Tools == {"launch", "profile", "collect"}

\* What may be wrong apart from the evidence of the tools, for good: markers of
\* simulate-gpu; another required file that is missing, or a claim the operator
\* downgraded to not_proven; an artifact of the matrix that is missing.
Defects == {"mimic", "evidence", "matrix"}

\* What a job or a run may be short of live_complete.
Short == {"live_incomplete", "synthetic_only", "missing_required_artifacts", "not_publishable"}
Statuses == Short \cup {"live_complete"}
Executives == {"live_complete", "live_incomplete", "synthetic_only", "not_enough_evidence"}

\* The directory of the job, once it is made: launch/healthcheck.json and the
\* logs of the engine, requests_profile.jsonl and the timelines of metrics/,
\* which are dead while nothing live is in them, the summaries of both, and what
\* is derived from them.  named: the id that diagnose-bottleneck takes the job
\* to have is the one of the validation report.  blamed: the validation report
\* downgrades a launch claim of the job.
Dir == [made       : BOOLEAN,
        named      : BOOLEAN,
        health     : {"absent", "ok", "failed"},
        logs       : BOOLEAN,
        rows       : {"absent", "dead", "live"},
        metrics    : {"absent", "dead", "live"},
        summaries  : SUBSET {"profile", "collect"},
        validation : Statuses \cup {"absent"},
        blamed     : BOOLEAN,
        diagnosis  : {"absent", "launch_bound", "refused", "evaluated"},
        report     : Executives \cup {"absent"}]

VARIABLES
  contract,     \* expected_artifact_contract.json
  defects,      \* what else is wrong with the results root
  peers,        \* the statuses of the other jobs of the plan
  running,      \* the tools at work
  starts,       \* how often one was started
  dir,          \* the files of the job
  reader,       \* the command that is validating, or "none"
  step,         \* what it does next
  live,         \* _has_live_evidence, as far as it has come
  downgraded,   \* so far a path is missing or a claim not proven
  blame,        \* a launch claim is among the downgrades
  moment,       \* history: whether the quorum held during this validation
  basis,        \* history: what a validation report of live_complete rests on
  reportBasis   \* history: likewise for the report

siteVars == <<contract, defects, peers>>
toolVars == <<running, starts, dir>>
readVars == <<reader, step, live, downgraded, blame>>
basisVars == <<basis, reportBasis>>
vars == <<siteVars, toolVars, readVars, moment, basisVars>>

-----------------------------------------------------------------------------
\* What a validation finds

Live(d) == d.rows = "live" /\ d.health = "ok" /\ d.metrics = "live"

\* Without a contract that can be read, no job is looked at.
Looked == contract \in {"default", "custom"}

LaunchMissing(d) == contract = "default" /\ (d.health = "absent" \/ ~d.logs)

InputsMissing(d) ==
  d.rows = "absent" \/ d.metrics = "absent" \/ d.summaries # {"profile", "collect"}

\* With other jobs in the plan report-completed writes to the results root, and
\* not where the default contract looks for the report.
ReportElsewhere == peers # {}

\* A mutant of RequiredMissing: nobody asks for the report.
RequiredMissingButReport(d) ==
  \/ "evidence" \in defects
  \/ LaunchMissing(d)
  \/ contract = "default" /\ (InputsMissing(d) \/ d.diagnosis = "absent")

\* The default contract asks for what is derived too, the report included.
RequiredMissing(d) ==
  \/ "evidence" \in defects
  \/ LaunchMissing(d)
  \/ /\ contract = "default"
     /\ InputsMissing(d) \/ d.diagnosis = "absent" \/ d.report = "absent" \/ ReportElsewhere

NotProven(d) == d.rows = "dead" \/ d.health = "failed" \/ d.metrics = "dead"

\* A job without a directory is looked at no further.
JobStatus(isMade, isLive, isDowngraded) ==
  IF ~isMade THEN "missing_required_artifacts"
  ELSE IF "mimic" \in defects THEN IF isLive THEN "not_publishable" ELSE "synthetic_only"
  ELSE IF isLive /\ ~isDowngraded /\ "matrix" \notin defects
    THEN "live_complete" ELSE "live_incomplete"

\* The status of the run, from the contract, the matrix and all its jobs.
Verdict(isMade, isLive, isDowngraded) ==
  LET jobs == peers \cup {JobStatus(isMade, isLive, isDowngraded)}
  IN  IF contract = "invalid" \/ (Looked /\ "not_publishable" \in jobs)
        THEN "not_publishable"
      ELSE IF ~Looked \/ "matrix" \in defects \/ "missing_required_artifacts" \in jobs
        THEN "missing_required_artifacts"
      ELSE IF "live_incomplete" \in jobs THEN "live_incomplete"
      ELSE IF "synthetic_only" \in jobs THEN "synthetic_only"
      ELSE "live_complete"

\* How report-completed words the status of the run.
Executive(status) ==
  IF status \in {"missing_required_artifacts", "not_publishable"}
    THEN "not_enough_evidence" ELSE status

-----------------------------------------------------------------------------
\* What each command makes of a directory that stays as it is

Validated(d) ==
  [d EXCEPT !.validation = Verdict(d.made, Live(d), RequiredMissing(d) \/ NotProven(d)),
            !.blamed = Looked /\ d.made /\ (LaunchMissing(d) \/ d.health = "failed")]

\* The validation report, whatever its age, blames the launch of the job that has
\* the id of the bundle.
BlamesLaunch(d) == d.named /\ d.blamed

\* A mutant of Diagnosed: once the launch is blamed, it stays blamed.
DiagnosedForGood(d) ==
  [d EXCEPT !.made = TRUE, !.diagnosis =
     IF d.health = "failed" \/ BlamesLaunch(d) \/ d.diagnosis = "launch_bound"
       THEN "launch_bound"
     ELSE IF InputsMissing(d) THEN "refused"
     ELSE "evaluated"]

\* A launch that failed, by its health check or by the validation report, comes
\* first, then the required inputs.
Diagnosed(d) ==
  [d EXCEPT !.made = TRUE, !.diagnosis =
     IF d.health = "failed" \/ BlamesLaunch(d) THEN "launch_bound"
     ELSE IF InputsMissing(d) THEN "refused"
     ELSE "evaluated"]

\* The report of a run with one job goes into its directory.
WithReport(d, status) ==
  [d EXCEPT !.made = @ \/ ~ReportElsewhere, !.report = Executive(status)]

Reported(d) ==
  WithReport(d, IF d.validation = "absent" THEN Validated(d).validation ELSE d.validation)

\* The analysis of a run whose tools have ended, once over.
Round(d) == Reported(Diagnosed(Validated(d)))

\* What ARCHITECTURE.md asks of live_complete, of every job.
OthersComplete == peers \subseteq {"live_complete"}
Quorum(d) == Looked /\ defects = {} /\ OthersComplete /\ Live(d)

\* During a validation: the quorum held at some moment, or not yet, or a tool
\* has been started, so that it is no longer asked.
Moments == {"none", "unheld", "held", "disturbed"}
Observe(d) == IF moment = "unheld" /\ Quorum(d) THEN "held" ELSE moment

-----------------------------------------------------------------------------
\* Nothing is collected yet.  Each defect, each status of other jobs, a directory
\* that has not the name of its job because the plan puts it elsewhere, and a
\* contract that is not the default one count once.
Init ==
  /\ contract \in Contracts
  /\ defects \in SUBSET Defects
  /\ peers \in SUBSET Peers
  /\ dir \in [made : BOOLEAN, named : BOOLEAN, health : {"absent"}, logs : {FALSE},
             rows : {"absent"}, metrics : {"absent"}, summaries : {{}},
             validation : {"absent"}, blamed : {FALSE}, diagnosis : {"absent"},
             report : {"absent"}]
  /\ Cardinality(defects) + Cardinality(peers) + (IF dir.named THEN 0 ELSE 1)
       + (IF contract = "default" THEN 0 ELSE 1) <= MaxDefects
  /\ "mimic" \in defects => dir.made
  /\ running = {}
  /\ starts = 0
  /\ reader = "none"
  /\ step = "none"
  /\ live = FALSE
  /\ downgraded = FALSE
  /\ blame = FALSE
  /\ moment = "none"
  /\ basis = "none"
  /\ reportBasis = "none"

-----------------------------------------------------------------------------
\* The tools that collect evidence

\* Tool starts, and makes its directory, or writes what makes d of the files.
Start(tool, d) ==
  /\ tool \notin running
  /\ starts < MaxStarts
  /\ running' = running \cup {tool}
  /\ starts' = starts + 1
  /\ dir' = [d EXCEPT !.made = TRUE]
  /\ moment' = IF reader = "none" THEN "none" ELSE "disturbed"
  /\ UNCHANGED <<siteVars, readVars, basisVars>>

Write(tool, d, still) ==
  /\ tool \in running
  /\ running' = IF still THEN running ELSE running \ {tool}
  /\ dir' = d
  /\ moment' = Observe(d)
  /\ UNCHANGED <<siteVars, starts, readVars, basisVars>>

\* An engine that is spawned has logs, an external one has none.
StartLaunch == \E spawned \in BOOLEAN : Start("launch", [dir EXCEPT !.logs = @ \/ spawned])
EndLaunch ==
  \E health \in {"ok", "failed"} : Write("launch", [dir EXCEPT !.health = health], FALSE)

\* The rows of an earlier run go, its summary stays.
StartProfile == Start("profile", [dir EXCEPT !.rows = "dead"])
RowAnswered == Write("profile", [dir EXCEPT !.rows = "live"], TRUE)
\* The summary names the job by --job-id, or else by a random id: either goes
\* before the name of the directory.
EndProfile ==
  \E named \in BOOLEAN :
    Write("profile", [dir EXCEPT !.summaries = @ \cup {"profile"}, !.named = named], FALSE)

\* The timelines likewise: live when both have what the quorum asks for, which
\* without DCGM is never.
StartCollect == Start("collect", [dir EXCEPT !.metrics = "dead"])
Scraped == Write("collect", [dir EXCEPT !.metrics = "live"], TRUE)
EndCollect == Write("collect", [dir EXCEPT !.summaries = @ \cup {"collect"}], FALSE)

\* By a signal, an exception or SIGKILL: what has been written stays.
Interrupted == \E tool \in Tools : Write(tool, dir, FALSE)

-----------------------------------------------------------------------------
\* The commands that judge

Judging == UNCHANGED <<siteVars, running, starts>>

\* validate-completed, or report-completed without a validation report.  The
\* rows are the first thing it looks at, for _has_live_evidence, and it looks
\* no further once something is not live.  A validation that ends before it
\* writes its verdict leaves nothing, and might as well not have begun.
BeginValidation(command) ==
  /\ reader = "none"
  /\ reader' = command
  /\ live' = (Looked /\ dir.rows = "live")
  /\ step' = IF live' THEN "health" ELSE IF Looked THEN "paths" ELSE "write"
  /\ downgraded' = FALSE
  /\ blame' = FALSE
  /\ moment' = IF Quorum(dir) THEN "held" ELSE "unheld"
  /\ Judging /\ UNCHANGED <<dir, basisVars>>

Looks(label, next, found) ==
  /\ reader # "none" /\ step = label
  /\ live' = found
  /\ step' = IF found THEN next ELSE "paths"
  /\ Judging /\ UNCHANGED <<dir, reader, downgraded, blame, moment, basisVars>>

LookAtHealth == Looks("health", "metrics", dir.health = "ok")
LookAtMetrics == Looks("metrics", "paths", dir.metrics = "live")

\* The required paths, then what is in the files once more.
Checks(label, next, bad, launch) ==
  /\ reader # "none" /\ step = label
  /\ step' = next
  /\ downgraded' = (downgraded \/ bad)
  /\ blame' = (blame \/ launch)
  /\ Judging /\ UNCHANGED <<dir, reader, live, moment, basisVars>>

\* A mutant of CheckHealth: the first look at healthcheck.json is enough.
CheckHealthOnce == Checks("check_health", "write", FALSE, FALSE)

CheckPaths ==
  \/ dir.made /\ Checks("paths", "check_rows", RequiredMissing(dir), LaunchMissing(dir))
  \/ ~dir.made /\ Checks("paths", "missing", FALSE, FALSE)
CheckRows == Checks("check_rows", "check_health", dir.rows = "dead", FALSE)
CheckHealth ==
  Checks("check_health", "write", dir.health = "failed", dir.health = "failed")

\* The metrics once more, and the verdict.
EndValidation ==
  /\ reader # "none" /\ step \in {"write", "missing"}
  /\ LET status == Verdict(step = "write", live, downgraded \/ dir.metrics = "dead")
         grounds == IF status = "live_complete" THEN moment ELSE "none"
     IN  \/ /\ reader = "validate"
            /\ dir' = [dir EXCEPT !.validation = status, !.blamed = blame]
            /\ basis' = grounds
            /\ UNCHANGED reportBasis
         \/ /\ reader = "report"
            /\ dir' = WithReport(dir, status)
            /\ reportBasis' = grounds
            /\ UNCHANGED basis
  /\ reader' = "none"
  /\ step' = "none"
  /\ live' = FALSE
  /\ downgraded' = FALSE
  /\ blame' = FALSE
  /\ moment' = "none"
  /\ Judging

Validate == BeginValidation("validate")

Diagnose ==
  /\ reader = "none"
  /\ dir' = Diagnosed(dir)
  /\ Judging /\ UNCHANGED <<readVars, moment, basisVars>>

Report ==
  \/ dir.validation = "absent" /\ BeginValidation("report")
  \/ /\ dir.validation # "absent"
     /\ reader = "none"
     /\ dir' = Reported(dir)
     /\ reportBasis' = basis
     /\ Judging /\ UNCHANGED <<readVars, moment, basis>>

Next ==
  \/ StartLaunch \/ EndLaunch
  \/ StartProfile \/ RowAnswered \/ EndProfile
  \/ StartCollect \/ Scraped \/ EndCollect
  \/ Interrupted
  \/ Validate \/ LookAtHealth \/ LookAtMetrics
  \/ CheckPaths \/ CheckRows \/ CheckHealth \/ EndValidation
  \/ Diagnose \/ Report

Spec == Init /\ [][Next]_vars

-----------------------------------------------------------------------------
TypeOK ==
  /\ contract \in Contracts
  /\ defects \subseteq Defects
  /\ peers \subseteq Peers
  /\ running \subseteq Tools
  /\ starts \in 0 .. MaxStarts
  /\ dir \in Dir
  /\ reader \in {"none", "validate", "report"}
  /\ step \in {"none", "health", "metrics", "paths", "check_rows", "check_health", "write",
              "missing"}
  /\ live \in BOOLEAN /\ downgraded \in BOOLEAN /\ blame \in BOOLEAN
  /\ moment \in Moments /\ basis \in Moments /\ reportBasis \in Moments

\* A verdict of live_complete, in the validation report or in the report, was
\* true of the directory at one moment of the validation it comes from, if no
\* tool was started during that validation: although every file is read at a
\* moment of its own, while the tools that were at work write on.
LiveMeantQuorum ==
  /\ dir.validation = "live_complete" => basis \in {"held", "disturbed"}
  /\ dir.report = "live_complete" => reportBasis \in {"held", "disturbed"}

\* With the default contract the first report is never live_complete, whatever
\* the evidence: the contract asks for the report that is being written.
FirstReportRefuses ==
  [][dir.report = "absent" /\ dir'.report = "live_complete" => contract # "default"]_vars

\* Whatever earlier commands left, once the tools have ended two rounds of
\* validate-completed, diagnose-bottleneck and report-completed bring the
\* directory to rest.  The report is then live_complete exactly if the quorum
\* holds and, under the default contract, the tools have written all they
\* write and the job is the only one of its plan; and the launch is blamed
\* exactly if its health check failed or, under the default contract, it left
\* something out and request-profile, if it was run, was given the job's id.
TwoRoundsSettle ==
  running = {} /\ reader = "none" =>
  LET d == Round(Round(dir))
  IN  /\ Round(d) = d
      /\ d.report = "live_complete" <=>
           /\ Quorum(dir)
           /\ contract = "default" =>
                ~LaunchMissing(dir) /\ ~InputsMissing(dir) /\ ~ReportElsewhere
      /\ d.diagnosis = "launch_bound" <=>
           dir.health = "failed" \/ (dir.named /\ LaunchMissing(dir))

-----------------------------------------------------------------------------
\* The inductive invariant.  As long as no tool is started, rows and timelines
\* that were live are live and the health check changes once, when the launch
\* that was at work ends.
AfterMetrics == {"paths", "check_rows", "check_health", "write"}
AfterHealth == {"metrics"} \cup AfterMetrics

Failed == dir.health = "failed" /\ "launch" \notin running

Observed ==
  moment \in {"unheld", "held"} /\ Looked /\ defects = {} /\ OthersComplete /\ live =>
    /\ dir.rows = "live"
    /\ step \in AfterHealth => dir.health = "ok" \/ Failed
    /\ step \in AfterMetrics => dir.metrics = "live" /\ (moment = "held" \/ Failed)
    /\ step = "write" => downgraded \/ moment = "held"

\* Where a validation is: only a contract that can be read has it look, and it
\* looks on while all is live.
Progress ==
  /\ reader = "none" <=> moment = "none"
  /\ step \in {"health", "metrics", "paths", "check_rows", "check_health", "missing"} =>
       Looked
  /\ step \in {"health", "metrics"} => live
  /\ moment = "unheld" => ~Quorum(dir)

\* A validation report of a run that is not looked at blames nothing, and one
\* that is not there neither.
Blames ==
  /\ dir.blamed => Looked /\ dir.validation # "absent"
  /\ blame => Looked

\* What no tool writes is asked for, and the report before the verdict that it
\* repeats.
AskedFor ==
  /\ step \in {"check_rows", "check_health", "write"} /\ Looked =>
       /\ "evidence" \in defects => downgraded
       /\ contract = "default" /\ dir.report = "absent" => downgraded
  /\ contract = "default" /\ dir.report = "absent" => dir.validation # "live_complete"

IInv ==
  /\ TypeOK
  /\ LiveMeantQuorum
  /\ Observed
  /\ Progress
  /\ Blames
  /\ AskedFor
=============================================================================
