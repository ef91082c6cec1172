-------------------------- MODULE CompletedRunProofs --------------------------
(***************************************************************************)
(* What CompletedRun promises, for every set of contracts, any statuses of *)
(* other jobs, any number of defects and any number of starts: the         *)
(* inductive invariant, the moment behind every live_complete, the first   *)
(* report under the default contract, and that two rounds of the analysis  *)
(* bring a directory to rest.                                              *)
(***************************************************************************)
EXTENDS CompletedRun, TLAPS

USE DEF siteVars, toolVars, readVars, basisVars, BlamesLaunch

LEMMA TypeInit == Init => TypeOK
<1> SUFFICES ASSUME Init PROVE TypeOK
  OBVIOUS
<1>1. dir \in Dir
  BY DEF Init, Dir
<1>2. defects \subseteq Defects /\ peers \subseteq Peers /\ contract \in Contracts
  BY DEF Init
<1>3. starts \in 0 .. MaxStarts
  BY StartsAssumption DEF Init
<1> QED
  BY <1>1, <1>2, <1>3 DEF Init, TypeOK, Moments

\* The status of a run is one of those the report knows, and what the report
\* makes of it one of its own.
LEMMA VerdictType ==
  ASSUME TypeOK, NEW isMade \in BOOLEAN, NEW isLive \in BOOLEAN, NEW isDowngraded \in BOOLEAN
  PROVE  Verdict(isMade, isLive, isDowngraded) \in Statuses
  BY DEF Verdict, Statuses, Short

LEMMA ExecutiveType ==
  ASSUME NEW status \in Statuses
  PROVE  Executive(status) \in Executives
  BY DEF Executive, Statuses, Short, Executives

LEMMA ValidationType ==
  ASSUME NEW d \in Dir, NEW status \in Statuses, NEW blamed \in BOOLEAN
  PROVE  [d EXCEPT !.validation = status, !.blamed = blamed] \in Dir
  BY DEF Dir

LEMMA DiagnosisType ==
  ASSUME NEW d \in Dir, NEW diagnosis \in {"launch_bound", "refused", "evaluated"}
  PROVE  [d EXCEPT !.made = TRUE, !.diagnosis = diagnosis] \in Dir
  BY DEF Dir

LEMMA ReportType ==
  ASSUME NEW d \in Dir, NEW status \in Statuses
  PROVE  WithReport(d, status) \in Dir
<1>1. Executive(status) \in Executives
  BY ExecutiveType
<1>2. d.made \in BOOLEAN
  BY DEF Dir
<1>3. (d.made \/ ~ReportElsewhere) \in BOOLEAN
  BY <1>2 DEF ReportElsewhere
<1> QED
  BY <1>1, <1>3 DEF WithReport, Dir

\* What a verdict of live_complete takes.
LEMMA LiveVerdict ==
  ASSUME TypeOK, NEW isMade \in BOOLEAN, NEW isLive \in BOOLEAN, NEW isDowngraded \in BOOLEAN,
         Verdict(isMade, isLive, isDowngraded) = "live_complete"
  PROVE  /\ Looked /\ OthersComplete /\ defects \subseteq {"evidence"}
         /\ isMade /\ isLive /\ ~isDowngraded
<1>1. /\ Looked /\ "matrix" \notin defects
      /\ JobStatus(isMade, isLive, isDowngraded) = "live_complete"
  BY DEF Verdict, JobStatus
<1>2. "mimic" \notin defects /\ isMade /\ isLive /\ ~isDowngraded
  BY <1>1 DEF JobStatus
<1>3. \A status \in Short : status \notin peers
  BY DEF Verdict, Short
<1>4. OthersComplete
  BY <1>3, PeersAssumption DEF TypeOK, Short, OthersComplete
<1> QED
  BY <1>1, <1>2, <1>4 DEF TypeOK, Defects

\* The two commands that end with a verdict.
Final == Verdict(step = "write", live, downgraded \/ dir.metrics = "dead")
Grounds == IF Final = "live_complete" THEN moment ELSE "none"

LEMMA EndCases ==
  ASSUME TypeOK, EndValidation
  PROVE  /\ Final \in Statuses
         /\ \/ /\ dir' = [dir EXCEPT !.validation = Final, !.blamed = blame]
               /\ basis' = Grounds /\ reportBasis' = reportBasis
            \/ /\ dir' = WithReport(dir, Final)
               /\ reportBasis' = Grounds /\ basis' = basis
<1>1. Final \in Statuses
  <2>1. /\ (downgraded \/ dir.metrics = "dead") \in BOOLEAN /\ live \in BOOLEAN
        /\ (step = "write") \in BOOLEAN
    BY DEF TypeOK
  <2> QED
    BY <2>1, VerdictType DEF Final
<1> QED
  BY <1>1 DEF EndValidation, Final, Grounds

\* What a report changes.
LEMMA ReportFields ==
  ASSUME NEW d \in Dir, NEW status
  PROVE  LET e == WithReport(d, status)
         IN  /\ e.named = d.named /\ e.health = d.health /\ e.logs = d.logs /\ e.rows = d.rows
             /\ e.metrics = d.metrics /\ e.summaries = d.summaries
             /\ e.validation = d.validation /\ e.blamed = d.blamed
             /\ e.diagnosis = d.diagnosis /\ e.report = Executive(status)
             /\ e.made = (d.made \/ ~ReportElsewhere)
  BY DEF WithReport, Dir

LEMMA BeginType ==
  ASSUME TypeOK, NEW command \in {"validate", "report"}, BeginValidation(command)
  PROVE  TypeOK'
<1>1. /\ contract' = contract /\ defects' = defects /\ peers' = peers /\ running' = running
      /\ starts' = starts /\ dir' = dir /\ reader' = command /\ downgraded' = FALSE
      /\ blame' = FALSE /\ basis' = basis /\ reportBasis' = reportBasis
  BY DEF BeginValidation, Judging
<1>2. live' \in BOOLEAN
  BY DEF BeginValidation
<1>3. step' \in {"health", "paths", "write"}
  BY DEF BeginValidation
<1>4. moment' \in Moments
  BY DEF BeginValidation, Moments
<1> QED
  BY <1>1, <1>2, <1>3, <1>4 DEF TypeOK

LEMMA StartType ==
  ASSUME TypeOK, NEW tool \in Tools, NEW d \in Dir, Start(tool, d)
  PROVE  TypeOK'
<1>1. dir' \in Dir
  BY DEF Start, Dir
<1>2. running' \subseteq Tools /\ starts' \in 0 .. MaxStarts
  BY StartsAssumption DEF TypeOK, Start
<1>3. moment' \in Moments
  BY DEF Start, Moments
<1> QED
  BY <1>1, <1>2, <1>3 DEF TypeOK, Start

-----------------------------------------------------------------------------
LEMMA TypeStep == TypeOK /\ [Next]_vars => TypeOK'
<1> SUFFICES ASSUME TypeOK, [Next]_vars PROVE TypeOK'
  OBVIOUS
<1> USE StartsAssumption DEF TypeOK, Dir, Statuses, Short, Executives, Moments, Judging
<1>1. CASE StartLaunch
  <2> PICK spawned \in BOOLEAN : Start("launch", [dir EXCEPT !.logs = @ \/ spawned])
    BY <1>1 DEF StartLaunch
  <2>1. [dir EXCEPT !.logs = @ \/ spawned] \in Dir
    OBVIOUS
  <2> QED
    BY <2>1, StartType DEF Tools
<1>2. CASE EndLaunch BY <1>2 DEF EndLaunch, Write, Observe
<1>3. CASE StartProfile
  <2>1. [dir EXCEPT !.rows = "dead"] \in Dir
    OBVIOUS
  <2> QED
    BY <1>3, <2>1, StartType DEF StartProfile, Tools
<1>4. CASE RowAnswered BY <1>4 DEF RowAnswered, Write, Observe
<1>5. CASE EndProfile
  <2> PICK named \in BOOLEAN :
        Write("profile", [dir EXCEPT !.summaries = @ \cup {"profile"}, !.named = named], FALSE)
    BY <1>5 DEF EndProfile
  <2>1. dir' \in Dir
    BY DEF Write
  <2>2. running' \subseteq Tools /\ moment' \in Moments
    BY DEF Write, Observe
  <2> HIDE DEF Dir
  <2> QED
    BY <2>1, <2>2 DEF Write
<1>6. CASE StartCollect
  <2>1. [dir EXCEPT !.metrics = "dead"] \in Dir
    OBVIOUS
  <2> QED
    BY <1>6, <2>1, StartType DEF StartCollect, Tools
<1>7. CASE Scraped BY <1>7 DEF Scraped, Write, Observe
<1>8. CASE EndCollect BY <1>8 DEF EndCollect, Write, Observe
<1>9. CASE Interrupted
  <2> PICK tool \in Tools : Write(tool, dir, FALSE)
    BY <1>9 DEF Interrupted
  <2>1. dir' = dir /\ running' \subseteq Tools /\ moment' \in Moments
    BY DEF Write, Observe
  <2>2. dir' \in Dir
    BY <2>1 DEF Dir
  <2>3. /\ contract' = contract /\ defects' = defects /\ peers' = peers /\ starts' = starts
        /\ reader' = reader /\ step' = step /\ live' = live /\ downgraded' = downgraded
        /\ blame' = blame /\ basis' = basis /\ reportBasis' = reportBasis
    BY DEF Write
  <2> HIDE DEF Dir
  <2> QED
    BY <2>1, <2>2, <2>3
<1>10. CASE Validate BY <1>10, BeginType DEF Validate
<1>11. CASE LookAtHealth BY <1>11 DEF LookAtHealth, Looks
<1>12. CASE LookAtMetrics BY <1>12 DEF LookAtMetrics, Looks
<1>13. CASE CheckPaths
  BY <1>13 DEF CheckPaths, Checks, RequiredMissing, LaunchMissing, InputsMissing
<1>14. CASE CheckRows BY <1>14 DEF CheckRows, Checks
<1>15. CASE CheckHealth BY <1>15 DEF CheckHealth, Checks
<1>16. CASE EndValidation
  <2> HIDE DEF Dir, Statuses, Executives
  <2>1. dir' \in Dir
    <3>1. [dir EXCEPT !.validation = Final, !.blamed = blame] \in Dir
      BY <1>16, EndCases, ValidationType
    <3>2. WithReport(dir, Final) \in Dir
      BY <1>16, EndCases, ReportType
    <3> QED
      BY <1>16, <3>1, <3>2, EndCases
  <2>2. basis' \in Moments /\ reportBasis' \in Moments
    BY <1>16, EndCases DEF Grounds
  <2>3. /\ contract' = contract /\ defects' = defects /\ peers' = peers /\ running' = running
        /\ starts' = starts /\ reader' = "none" /\ step' = "none" /\ live' = FALSE
        /\ downgraded' = FALSE /\ blame' = FALSE /\ moment' = "none"
    BY <1>16 DEF EndValidation
  <2>4. moment' \in Moments
    BY <2>3
  <2>5. /\ contract' \in Contracts /\ defects' \subseteq Defects /\ peers' \subseteq Peers
        /\ running' \subseteq Tools /\ starts' \in 0 .. MaxStarts
    BY <2>3
  <2>6. live' \in BOOLEAN /\ downgraded' \in BOOLEAN /\ blame' \in BOOLEAN
    BY <2>3
  <2>7. /\ reader' \in {"none", "validate", "report"}
        /\ step' \in {"none", "health", "metrics", "paths", "check_rows", "check_health",
                       "write", "missing"}
    BY <2>3
  <2> HIDE DEF Moments
  <2> QED
    BY <2>1, <2>2, <2>4, <2>5, <2>6, <2>7
<1>17. CASE Diagnose
  <2>1. Diagnosed(dir) \in Dir
    <3>1. PICK v \in {"launch_bound", "refused", "evaluated"} :
            Diagnosed(dir) = [dir EXCEPT !.made = TRUE, !.diagnosis = v]
      BY DEF Diagnosed
    <3>2. dir \in Dir
      OBVIOUS
    <3> HIDE DEF Dir, Moments
    <3> QED
      BY <3>1, <3>2, DiagnosisType
  <2> HIDE DEF Dir, Moments
  <2> QED
    BY <1>17, <2>1 DEF Diagnose
<1>18. CASE Report
  <2>1. CASE dir.validation = "absent" /\ BeginValidation("report")
    BY <2>1, BeginType
  <2>2. CASE dir.validation # "absent" /\ dir' = Reported(dir) /\ reportBasis' = basis
             /\ Judging /\ UNCHANGED <<readVars, moment, basis>>
    <3>1. dir.validation \in Statuses
      BY <2>2
    <3>2. dir' = WithReport(dir, dir.validation)
      BY <2>2 DEF Reported
    <3> HIDE DEF Dir, Statuses
    <3>3. dir' \in Dir
      BY <3>1, <3>2, ReportType
    <3> QED
      BY <2>2, <3>3
  <2> QED
    BY <1>18, <2>1, <2>2 DEF Report
<1>19. CASE UNCHANGED vars BY <1>19 DEF vars
<1> QED
  BY <1>1, <1>2, <1>3, <1>4, <1>5, <1>6, <1>7, <1>8, <1>9, <1>10, <1>11, <1>12, <1>13, <1>14,
     <1>15, <1>16, <1>17, <1>18, <1>19 DEF Next

\* A verdict of live_complete needs a run without defects, all of it live at the
\* first look and nothing amiss at the second; then the quorum held in between.
LEMMA LiveMeantQuorumStep == IInv /\ [Next]_vars => LiveMeantQuorum'
<1> SUFFICES ASSUME IInv, [Next]_vars PROVE LiveMeantQuorum'
  OBVIOUS
<1> USE DEF IInv, TypeOK, Dir, Statuses, Short, Executives, Judging, LiveMeantQuorum, Moments, Short
<1>1. CASE StartLaunch BY <1>1 DEF StartLaunch, Start
<1>2. CASE EndLaunch BY <1>2 DEF EndLaunch, Write, Observe
<1>3. CASE StartProfile BY <1>3 DEF StartProfile, Start
<1>4. CASE RowAnswered BY <1>4 DEF RowAnswered, Write, Observe
<1>5. CASE EndProfile BY <1>5 DEF EndProfile, Write, Observe
<1>6. CASE StartCollect BY <1>6 DEF StartCollect, Start
<1>7. CASE Scraped BY <1>7 DEF Scraped, Write, Observe
<1>8. CASE EndCollect BY <1>8 DEF EndCollect, Write, Observe
<1>9. CASE Interrupted BY <1>9 DEF Interrupted, Write, Observe
<1>10. CASE Validate BY <1>10 DEF Validate, BeginValidation
<1>11. CASE LookAtHealth BY <1>11 DEF LookAtHealth, Looks
<1>12. CASE LookAtMetrics BY <1>12 DEF LookAtMetrics, Looks
<1>13. CASE CheckPaths BY <1>13 DEF CheckPaths, Checks
<1>14. CASE CheckRows BY <1>14 DEF CheckRows, Checks
<1>15. CASE CheckHealth BY <1>15 DEF CheckHealth, Checks
<1>16. CASE EndValidation
  <2>1. ASSUME Final = "live_complete" PROVE moment \in {"held", "disturbed"}
    <3>1. /\ Looked /\ OthersComplete /\ defects \subseteq {"evidence"} /\ live /\ ~downgraded
          /\ step = "write"
      BY <2>1, LiveVerdict DEF Final
    <3>2. moment # "none"
      BY <1>16 DEF EndValidation, Progress
    <3>3. defects = {}
      BY <3>1, <3>2 DEF AskedFor
    <3> QED
      BY <3>1, <3>2, <3>3 DEF Observed
  <2>2. Executive(Final) = "live_complete" => Final = "live_complete"
    BY DEF Executive
  <2>3. \/ /\ dir'.validation = Final /\ dir'.report = dir.report
           /\ basis' = Grounds /\ reportBasis' = reportBasis
        \/ /\ dir'.report = Executive(Final) /\ dir'.validation = dir.validation
           /\ reportBasis' = Grounds /\ basis' = basis
    BY <1>16, EndCases DEF WithReport
  <2> HIDE DEF Moments, Dir
  <2> QED
    BY <2>1, <2>2, <2>3 DEF Grounds
<1>17. CASE Diagnose BY <1>17 DEF Diagnose, Diagnosed
<1>18. CASE Report
  <2>1. CASE dir.validation = "absent" /\ BeginValidation("report")
    BY <2>1 DEF BeginValidation
  <2>2. CASE /\ dir.validation # "absent" /\ dir' = Reported(dir)
             /\ reportBasis' = basis /\ basis' = basis
    <3>1. dir' = WithReport(dir, dir.validation)
      BY <2>2 DEF Reported
    <3>2. Executive(dir.validation) = "live_complete" => dir.validation = "live_complete"
      BY DEF Executive
    <3> QED
      BY <2>2, <3>1, <3>2 DEF WithReport
  <2> QED
    BY <1>18, <2>1, <2>2 DEF Report
<1>19. CASE UNCHANGED vars BY <1>19 DEF vars
<1> QED
  BY <1>1, <1>2, <1>3, <1>4, <1>5, <1>6, <1>7, <1>8, <1>9, <1>10, <1>11, <1>12, <1>13, <1>14,
     <1>15, <1>16, <1>17, <1>18, <1>19 DEF Next

\* Only the end of the launch that was at work changes what has been seen.
LEMMA ObservedStep == IInv /\ [Next]_vars => Observed'
<1> SUFFICES ASSUME IInv, [Next]_vars PROVE Observed'
  OBVIOUS
<1> USE DEF IInv, TypeOK, Dir, Statuses, Short, Executives, Judging, Observed, Progress,
            AfterHealth, AfterMetrics, Failed, Quorum, OthersComplete, Live, Looked
<1>1. CASE StartLaunch BY <1>1 DEF StartLaunch, Start
<1>2. CASE EndLaunch BY <1>2 DEF EndLaunch, Write, Observe
<1>3. CASE StartProfile BY <1>3 DEF StartProfile, Start
<1>4. CASE RowAnswered BY <1>4 DEF RowAnswered, Write, Observe
<1>5. CASE EndProfile BY <1>5 DEF EndProfile, Write, Observe
<1>6. CASE StartCollect BY <1>6 DEF StartCollect, Start
<1>7. CASE Scraped BY <1>7 DEF Scraped, Write, Observe
<1>8. CASE EndCollect BY <1>8 DEF EndCollect, Write, Observe
<1>9. CASE Interrupted BY <1>9 DEF Interrupted, Write, Observe
<1>10. CASE Validate BY <1>10 DEF Validate, BeginValidation
<1>11. CASE LookAtHealth BY <1>11 DEF LookAtHealth, Looks
<1>12. CASE LookAtMetrics BY <1>12 DEF LookAtMetrics, Looks
<1>13. CASE CheckPaths BY <1>13 DEF CheckPaths, Checks
<1>14. CASE CheckRows BY <1>14 DEF CheckRows, Checks
<1>15. CASE CheckHealth BY <1>15 DEF CheckHealth, Checks
<1>16. CASE EndValidation BY <1>16 DEF EndValidation
<1>17. CASE Diagnose BY <1>17 DEF Diagnose, Diagnosed
<1>18. CASE Report BY <1>18 DEF Report, BeginValidation, Reported, WithReport
<1>19. CASE UNCHANGED vars BY <1>19 DEF vars
<1> QED
  BY <1>1, <1>2, <1>3, <1>4, <1>5, <1>6, <1>7, <1>8, <1>9, <1>10, <1>11, <1>12, <1>13, <1>14,
     <1>15, <1>16, <1>17, <1>18, <1>19 DEF Next

\* A validation looks in order, and the quorum is noticed when it holds.
LEMMA ProgressStep == IInv /\ [Next]_vars => Progress'
<1> SUFFICES ASSUME IInv, [Next]_vars PROVE Progress'
  OBVIOUS
<1> USE DEF IInv, TypeOK, Dir, Statuses, Short, Executives, Judging, Progress, Moments, Looked,
            Quorum, OthersComplete, Live
<1>1. CASE StartLaunch BY <1>1 DEF StartLaunch, Start
<1>2. CASE EndLaunch BY <1>2 DEF EndLaunch, Write, Observe
<1>3. CASE StartProfile BY <1>3 DEF StartProfile, Start
<1>4. CASE RowAnswered BY <1>4 DEF RowAnswered, Write, Observe
<1>5. CASE EndProfile BY <1>5 DEF EndProfile, Write, Observe
<1>6. CASE StartCollect BY <1>6 DEF StartCollect, Start
<1>7. CASE Scraped BY <1>7 DEF Scraped, Write, Observe
<1>8. CASE EndCollect BY <1>8 DEF EndCollect, Write, Observe
<1>9. CASE Interrupted BY <1>9 DEF Interrupted, Write, Observe
<1>10. CASE Validate BY <1>10 DEF Validate, BeginValidation
<1>11. CASE LookAtHealth BY <1>11 DEF LookAtHealth, Looks
<1>12. CASE LookAtMetrics BY <1>12 DEF LookAtMetrics, Looks
<1>13. CASE CheckPaths BY <1>13 DEF CheckPaths, Checks
<1>14. CASE CheckRows BY <1>14 DEF CheckRows, Checks
<1>15. CASE CheckHealth BY <1>15 DEF CheckHealth, Checks
<1>16. CASE EndValidation BY <1>16 DEF EndValidation
<1>17. CASE Diagnose BY <1>17 DEF Diagnose, Diagnosed
<1>18. CASE Report BY <1>18 DEF Report, BeginValidation, Reported, WithReport
<1>19. CASE UNCHANGED vars BY <1>19 DEF vars
<1> QED
  BY <1>1, <1>2, <1>3, <1>4, <1>5, <1>6, <1>7, <1>8, <1>9, <1>10, <1>11, <1>12, <1>13, <1>14,
     <1>15, <1>16, <1>17, <1>18, <1>19 DEF Next

\* Only a validation of the job blames the launch.
LEMMA BlamesStep == IInv /\ [Next]_vars => Blames'
<1> SUFFICES ASSUME IInv, [Next]_vars PROVE Blames'
  OBVIOUS
<1> USE DEF IInv, TypeOK, Dir, Statuses, Short, Executives, Judging, Blames, Progress, Looked,
            LaunchMissing
<1>1. CASE StartLaunch BY <1>1 DEF StartLaunch, Start
<1>2. CASE EndLaunch BY <1>2 DEF EndLaunch, Write, Observe
<1>3. CASE StartProfile BY <1>3 DEF StartProfile, Start
<1>4. CASE RowAnswered BY <1>4 DEF RowAnswered, Write, Observe
<1>5. CASE EndProfile BY <1>5 DEF EndProfile, Write, Observe
<1>6. CASE StartCollect BY <1>6 DEF StartCollect, Start
<1>7. CASE Scraped BY <1>7 DEF Scraped, Write, Observe
<1>8. CASE EndCollect BY <1>8 DEF EndCollect, Write, Observe
<1>9. CASE Interrupted BY <1>9 DEF Interrupted, Write, Observe
<1>10. CASE Validate BY <1>10 DEF Validate, BeginValidation
<1>11. CASE LookAtHealth BY <1>11 DEF LookAtHealth, Looks
<1>12. CASE LookAtMetrics BY <1>12 DEF LookAtMetrics, Looks
<1>13. CASE CheckPaths BY <1>13 DEF CheckPaths, Checks
<1>14. CASE CheckRows BY <1>14 DEF CheckRows, Checks
<1>15. CASE CheckHealth BY <1>15 DEF CheckHealth, Checks
<1>16. CASE EndValidation
  <2>1. step' = "none" /\ blame' = FALSE /\ contract' = contract
    BY <1>16 DEF EndValidation
  <2>2. Final # "absent"
    BY <1>16, EndCases
  <2>3. \/ dir'.validation = Final /\ dir'.blamed = blame
        \/ dir'.validation = dir.validation /\ dir'.blamed = dir.blamed
    BY <1>16, EndCases DEF WithReport
  <2> HIDE DEF Dir
  <2> QED
    BY <2>1, <2>2, <2>3
<1>17. CASE Diagnose BY <1>17 DEF Diagnose, Diagnosed
<1>18. CASE Report
  <2>1. /\ dir'.validation = dir.validation /\ dir'.blamed = dir.blamed
        /\ contract' = contract
    BY <1>18 DEF Report, BeginValidation, Reported, WithReport
  <2>2. blame' = FALSE \/ blame' = blame
    BY <1>18 DEF Report, BeginValidation
  <2> HIDE DEF Dir
  <2> QED
    BY <2>1, <2>2
<1>19. CASE UNCHANGED vars BY <1>19 DEF vars
<1> QED
  BY <1>1, <1>2, <1>3, <1>4, <1>5, <1>6, <1>7, <1>8, <1>9, <1>10, <1>11, <1>12, <1>13, <1>14,
     <1>15, <1>16, <1>17, <1>18, <1>19 DEF Next

\* While there is no report, the default contract is not met.
LEMMA AskedForStep == IInv /\ [Next]_vars => AskedFor'
<1> SUFFICES ASSUME IInv, [Next]_vars PROVE AskedFor'
  OBVIOUS
<1> USE DEF IInv, TypeOK, Dir, Statuses, Short, Executives, Judging, AskedFor, Looked,
            RequiredMissing, Executive
<1>1. CASE StartLaunch BY <1>1 DEF StartLaunch, Start
<1>2. CASE EndLaunch BY <1>2 DEF EndLaunch, Write, Observe
<1>3. CASE StartProfile BY <1>3 DEF StartProfile, Start
<1>4. CASE RowAnswered BY <1>4 DEF RowAnswered, Write, Observe
<1>5. CASE EndProfile BY <1>5 DEF EndProfile, Write, Observe
<1>6. CASE StartCollect BY <1>6 DEF StartCollect, Start
<1>7. CASE Scraped BY <1>7 DEF Scraped, Write, Observe
<1>8. CASE EndCollect BY <1>8 DEF EndCollect, Write, Observe
<1>9. CASE Interrupted BY <1>9 DEF Interrupted, Write, Observe
<1>10. CASE Validate BY <1>10 DEF Validate, BeginValidation
<1>11. CASE LookAtHealth BY <1>11 DEF LookAtHealth, Looks
<1>12. CASE LookAtMetrics BY <1>12 DEF LookAtMetrics, Looks
<1>13. CASE CheckPaths BY <1>13 DEF CheckPaths, Checks
<1>14. CASE CheckRows BY <1>14 DEF CheckRows, Checks
<1>15. CASE CheckHealth BY <1>15 DEF CheckHealth, Checks
<1>16. CASE EndValidation
  <2>1. step' = "none" /\ contract' = contract
    BY <1>16 DEF EndValidation
  <2>2. Executive(Final) # "absent"
    BY <1>16, EndCases
  <2>3. Final = "live_complete" => Looked /\ ~downgraded /\ step = "write"
    BY LiveVerdict DEF Final
  <2> QED
    BY <1>16, <2>1, <2>2, <2>3, EndCases DEF WithReport
<1>17. CASE Diagnose BY <1>17 DEF Diagnose, Diagnosed
<1>18. CASE Report BY <1>18 DEF Report, BeginValidation, Reported, WithReport
<1>19. CASE UNCHANGED vars BY <1>19 DEF vars
<1> QED
  BY <1>1, <1>2, <1>3, <1>4, <1>5, <1>6, <1>7, <1>8, <1>9, <1>10, <1>11, <1>12, <1>13, <1>14,
     <1>15, <1>16, <1>17, <1>18, <1>19 DEF Next
LEMMA InitIInv == Init => IInv
<1> SUFFICES ASSUME Init PROVE IInv
  OBVIOUS
<1>1. TypeOK
  BY TypeInit
<1>2. LiveMeantQuorum /\ Observed /\ Progress
  BY DEF Init, LiveMeantQuorum, Observed, Progress, AfterHealth, AfterMetrics
<1>3. Blames /\ AskedFor
  BY DEF Init, Blames, AskedFor
<1> QED
  BY <1>1, <1>2, <1>3 DEF IInv

LEMMA StepIInv == IInv /\ [Next]_vars => IInv'
  BY TypeStep, LiveMeantQuorumStep, ObservedStep, ProgressStep, BlamesStep, AskedForStep DEF IInv

\* The invariant of the run, for every set of contracts and every number of
\* defects and starts: every kind of state has its type, and what a validation
\* that no start disturbed has seen is what the files still say.
THEOREM Inductive == Spec => []IInv
<1>1. Init => IInv
  BY InitIInv
<1>2. IInv /\ [Next]_vars => IInv'
  BY StepIInv
<1> QED
  BY <1>1, <1>2, PTL DEF Spec

\* A published live_complete goes back to a moment at which the quorum held.
THEOREM LiveMeant == Spec => []LiveMeantQuorum
<1>1. IInv => LiveMeantQuorum
  BY DEF IInv
<1> QED
  BY <1>1, Inductive, PTL

\* The default contract cannot be met by the first report.
THEOREM FirstReport == Spec => FirstReportRefuses
<1> DEFINE Refuses == dir.report = "absent" /\ dir'.report = "live_complete" => contract # "default"
<1>1. IInv /\ [Next]_vars => [Refuses]_vars
  <2> SUFFICES ASSUME IInv, Next, contract = "default", dir.report = "absent"
               PROVE  dir'.report # "live_complete"
    BY DEF vars
  <2> USE DEF IInv, TypeOK, Dir
  <2>1. CASE EndValidation
    <3>1. step = "write" => downgraded
      BY <2>1 DEF EndValidation, AskedFor, Looked
    <3>2. Final # "live_complete"
      BY <3>1, LiveVerdict DEF Final
    <3>3. Executive(Final) # "live_complete"
      BY <3>2 DEF Executive
    <3> QED
      BY <2>1, <3>3, EndCases DEF WithReport
  <2>2. CASE Report
    <3>1. CASE BeginValidation("report")
      BY <3>1 DEF BeginValidation
    <3>2. CASE dir.validation # "absent" /\ dir' = Reported(dir)
      <4>1. dir'.report = Executive(dir.validation)
        BY <3>2 DEF Reported, WithReport
      <4> QED
        BY <4>1 DEF Executive, AskedFor
    <3> QED
      BY <2>2, <3>1, <3>2 DEF Report
  <2>3. CASE StartLaunch \/ StartProfile \/ StartCollect
    BY <2>3 DEF StartLaunch, StartProfile, StartCollect, Start
  <2>4. CASE EndLaunch \/ RowAnswered \/ EndProfile \/ Scraped \/ EndCollect \/ Interrupted
    BY <2>4 DEF EndLaunch, RowAnswered, EndProfile, Scraped, EndCollect, Interrupted, Write
  <2>5. CASE Validate \/ LookAtHealth \/ LookAtMetrics \/ CheckPaths \/ CheckRows \/ CheckHealth
    BY <2>5 DEF Validate, BeginValidation, LookAtHealth, LookAtMetrics, Looks, CheckPaths,
                CheckRows, CheckHealth, Checks
  <2>6. CASE Diagnose
    BY <2>6 DEF Diagnose, Diagnosed
  <2> QED
    BY <2>1, <2>2, <2>3, <2>4, <2>5, <2>6 DEF Next
<1> QED
  BY <1>1, Inductive, PTL DEF Spec, FirstReportRefuses

-----------------------------------------------------------------------------
\* Two rounds of the analysis

SameEvidence(d, e) ==
  /\ e.named = d.named /\ e.health = d.health /\ e.logs = d.logs /\ e.rows = d.rows
  /\ e.metrics = d.metrics /\ e.summaries = d.summaries

\* What a round leaves alone and what it writes.
LEMMA RoundFields ==
  ASSUME TypeOK, NEW d \in Dir
  PROVE  /\ Round(d) \in Dir
         /\ SameEvidence(d, Round(d))
         /\ Round(d).made = TRUE
         /\ Round(d).validation = Verdict(d.made, Live(d), RequiredMissing(d) \/ NotProven(d))
         /\ Round(d).blamed = (Looked /\ d.made /\ (LaunchMissing(d) \/ d.health = "failed"))
         /\ Round(d).diagnosis =
              IF d.health = "failed" \/ (d.named /\ Round(d).blamed) THEN "launch_bound"
              ELSE IF InputsMissing(d) THEN "refused" ELSE "evaluated"
         /\ Round(d).report = Executive(Round(d).validation)
<1> DEFINE status == Verdict(d.made, Live(d), RequiredMissing(d) \/ NotProven(d))
           blamed == Looked /\ d.made /\ (LaunchMissing(d) \/ d.health = "failed")
           v == [d EXCEPT !.validation = status, !.blamed = blamed]
           diagnosis == IF v.health = "failed" \/ (v.named /\ v.blamed) THEN "launch_bound"
                        ELSE IF InputsMissing(v) THEN "refused" ELSE "evaluated"
           w == [v EXCEPT !.made = TRUE, !.diagnosis = diagnosis]
<1>1. status \in Statuses
  <2>1. /\ Live(d) \in BOOLEAN /\ (RequiredMissing(d) \/ NotProven(d)) \in BOOLEAN
        /\ d.made \in BOOLEAN
    BY DEF Live, Dir
  <2> QED
    BY <2>1, VerdictType
<1>2. blamed \in BOOLEAN
  BY DEF Looked, Dir, LaunchMissing
<1>3. Validated(d) = v
  BY DEF Validated
<1> HIDE DEF status, blamed
<1>4. /\ v \in Dir /\ SameEvidence(d, v) /\ v.validation = status /\ v.blamed = blamed
      /\ v.validation # "absent"
  <2>1. v \in Dir
    <3> HIDE DEF Statuses
    <3> QED
      BY <1>1, <1>2 DEF Dir
  <2>2. SameEvidence(d, v) /\ v.validation = status /\ v.blamed = blamed
    BY DEF Dir, SameEvidence
  <2>3. status # "absent"
    BY <1>1 DEF Statuses, Short
  <2> QED
    BY <2>1, <2>2, <2>3
<1> HIDE DEF v
<1>5. Diagnosed(v) = w
  BY DEF Diagnosed
<1>6. diagnosis \in {"launch_bound", "refused", "evaluated"}
  OBVIOUS
<1> HIDE DEF diagnosis
<1>7. /\ w \in Dir /\ w.made = TRUE /\ SameEvidence(v, w) /\ w.validation = v.validation
      /\ w.blamed = v.blamed /\ w.diagnosis = diagnosis
  <2>1. w \in Dir
    <3>1. v \in Dir
      BY <1>4
    <3> HIDE DEF diagnosis
    <3> QED
      BY <1>6, <3>1, DiagnosisType
  <2>2. v \in Dir
    BY <1>4
  <2>3. w.made = TRUE /\ w.diagnosis = diagnosis
    BY <2>2 DEF Dir
  <2>4. SameEvidence(v, w) /\ w.validation = v.validation /\ w.blamed = v.blamed
    BY <2>2 DEF Dir, SameEvidence
  <2> QED
    BY <2>1, <2>3, <2>4
<1> HIDE DEF w
<1>8. Round(d) = WithReport(w, status)
  BY <1>3, <1>4, <1>5, <1>7 DEF Round, Reported
<1>9. /\ Round(d) \in Dir /\ SameEvidence(w, Round(d)) /\ Round(d).validation = status
      /\ Round(d).blamed = blamed /\ Round(d).diagnosis = diagnosis
      /\ Round(d).report = Executive(status) /\ Round(d).made = TRUE
  <2>1. Round(d) \in Dir
    BY <1>1, <1>7, <1>8, ReportType
  <2>2. w \in Dir /\ w.made = TRUE /\ w.validation = status /\ w.blamed = blamed
        /\ w.diagnosis = diagnosis
    BY <1>4, <1>7
  <2> DEFINE e == WithReport(w, status)
  <2>3. /\ e.named = w.named /\ e.health = w.health /\ e.logs = w.logs /\ e.rows = w.rows
        /\ e.metrics = w.metrics /\ e.summaries = w.summaries
        /\ e.validation = w.validation /\ e.blamed = w.blamed /\ e.diagnosis = w.diagnosis
        /\ e.report = Executive(status) /\ e.made = (w.made \/ ~ReportElsewhere)
    BY <2>2, ReportFields
  <2> HIDE DEF e
  <2>4. Round(d) = e
    BY <1>8 DEF e
  <2> QED
    BY <2>1, <2>2, <2>3, <2>4 DEF SameEvidence
<1>10. diagnosis = IF d.health = "failed" \/ (d.named /\ blamed) THEN "launch_bound"
                   ELSE IF InputsMissing(d) THEN "refused" ELSE "evaluated"
  BY <1>4 DEF SameEvidence, InputsMissing, diagnosis
<1>11. SameEvidence(d, Round(d))
  BY <1>4, <1>7, <1>9 DEF SameEvidence
<1> QED
  BY <1>9, <1>10, <1>11 DEF status, blamed

\* From the first round on, all that is derived is there, and what a validation
\* finds is in the evidence.
Incomplete(d) ==
  \/ "evidence" \in defects
  \/ LaunchMissing(d)
  \/ contract = "default" /\ (InputsMissing(d) \/ ReportElsewhere)
  \/ NotProven(d)

LEMMA AfterARound ==
  ASSUME TypeOK, NEW d \in Dir
  PROVE  (RequiredMissing(Round(d)) \/ NotProven(Round(d))) = Incomplete(d)
<1>1. Round(d).diagnosis # "absent" /\ Round(d).report # "absent"
  <2>1. Round(d).diagnosis \in {"launch_bound", "refused", "evaluated"}
    BY RoundFields
  <2>2. /\ Live(d) \in BOOLEAN /\ (RequiredMissing(d) \/ NotProven(d)) \in BOOLEAN
        /\ d.made \in BOOLEAN
    BY DEF Live, Dir
  <2>3. Round(d).validation \in Statuses
    BY <2>2, RoundFields, VerdictType
  <2>4. Executive(Round(d).validation) # "absent"
    BY <2>3, ExecutiveType DEF Executives
  <2> QED
    BY <2>1, <2>4, RoundFields
<1>2. SameEvidence(d, Round(d))
  BY RoundFields
<1> QED
  BY <1>1, <1>2 DEF RequiredMissing, Incomplete, LaunchMissing, InputsMissing, NotProven,
                    SameEvidence

LEMMA EvidenceDecides ==
  ASSUME NEW d, NEW e, SameEvidence(d, e)
  PROVE  /\ Live(e) = Live(d) /\ LaunchMissing(e) = LaunchMissing(d)
         /\ InputsMissing(e) = InputsMissing(d) /\ Incomplete(e) = Incomplete(d)
  BY DEF SameEvidence, Live, LaunchMissing, InputsMissing, Incomplete, NotProven

LEMMA DirEqual ==
  ASSUME NEW d \in Dir, NEW e \in Dir, SameEvidence(d, e), e.made = d.made, e.validation = d.validation,
         e.blamed = d.blamed, e.diagnosis = d.diagnosis, e.report = d.report
  PROVE  e = d
  BY DEF Dir, SameEvidence

\* The verdict on a job with a directory is live_complete exactly if the run is
\* without defects and the job live and not downgraded.
LEMMA VerdictExact ==
  ASSUME TypeOK, NEW isLive \in BOOLEAN, NEW isDowngraded \in BOOLEAN, "evidence" \notin defects
  PROVE  Verdict(TRUE, isLive, isDowngraded) = "live_complete" <=>
           Looked /\ defects = {} /\ OthersComplete /\ isLive /\ ~isDowngraded
<1>1. ASSUME Verdict(TRUE, isLive, isDowngraded) = "live_complete"
      PROVE  Looked /\ defects = {} /\ OthersComplete /\ isLive /\ ~isDowngraded
  BY <1>1, LiveVerdict
<1>2. ASSUME Looked, defects = {}, OthersComplete, isLive, ~isDowngraded
      PROVE  Verdict(TRUE, isLive, isDowngraded) = "live_complete"
  <2>1. JobStatus(TRUE, isLive, isDowngraded) = "live_complete"
    BY <1>2 DEF JobStatus
  <2> QED
    BY <1>2, <2>1 DEF Verdict, Looked, OthersComplete
<1> QED
  BY <1>1, <1>2

LEMMA TwoRounds == TypeOK => TwoRoundsSettle
<1> SUFFICES ASSUME TypeOK PROVE TwoRoundsSettle
  OBVIOUS
<1> DEFINE one == Round(dir)
           two == Round(one)
           three == Round(two)
<1>1. dir \in Dir
  BY DEF TypeOK
<1>2. one \in Dir /\ one.made = TRUE /\ SameEvidence(dir, one)
  BY <1>1, RoundFields
<1>3. two \in Dir /\ two.made = TRUE /\ SameEvidence(one, two)
  BY <1>2, RoundFields
<1>4. three \in Dir /\ three.made = TRUE /\ SameEvidence(two, three)
  BY <1>3, RoundFields
<1> HIDE DEF three
<1>5. SameEvidence(dir, two)
  BY <1>2, <1>3 DEF SameEvidence
<1>6. two.validation = Verdict(TRUE, Live(dir), Incomplete(dir))
  <2>1. two.validation = Verdict(one.made, Live(one), RequiredMissing(one) \/ NotProven(one))
    BY <1>2, RoundFields DEF two
  <2>2. (RequiredMissing(one) \/ NotProven(one)) = Incomplete(dir)
    BY <1>1, AfterARound DEF one
  <2>3. Live(one) = Live(dir)
    BY <1>2, EvidenceDecides
  <2> QED
    BY <1>2, <2>1, <2>2, <2>3
<1>7. three.validation = Verdict(TRUE, Live(dir), Incomplete(dir))
  <2>1. three.validation = Verdict(two.made, Live(two), RequiredMissing(two) \/ NotProven(two))
    BY <1>3, RoundFields DEF three
  <2>2. (RequiredMissing(two) \/ NotProven(two)) = Incomplete(one)
    BY <1>2, AfterARound DEF two
  <2>3. Live(two) = Live(dir) /\ Incomplete(one) = Incomplete(dir)
    BY <1>2, <1>5, EvidenceDecides
  <2> QED
    BY <1>3, <2>1, <2>2, <2>3
<1>8. two.blamed = (Looked /\ (LaunchMissing(dir) \/ dir.health = "failed"))
  <2>1. two.blamed = (Looked /\ one.made /\ (LaunchMissing(one) \/ one.health = "failed"))
    BY <1>2, RoundFields DEF two
  <2> QED
    BY <2>1, <1>2, EvidenceDecides DEF SameEvidence
<1>9. three.blamed = two.blamed
  <2>1. three.blamed = (Looked /\ two.made /\ (LaunchMissing(two) \/ two.health = "failed"))
    BY <1>3, RoundFields DEF three
  <2> QED
    BY <2>1, <1>3, <1>5, <1>8, EvidenceDecides DEF SameEvidence
<1>10. two.diagnosis = IF dir.health = "failed" \/ (dir.named /\ two.blamed) THEN "launch_bound"
                       ELSE IF InputsMissing(dir) THEN "refused" ELSE "evaluated"
  <2>1. two.diagnosis = IF one.health = "failed" \/ (one.named /\ two.blamed) THEN "launch_bound"
                        ELSE IF InputsMissing(one) THEN "refused" ELSE "evaluated"
    BY <1>2, RoundFields DEF two
  <2> QED
    BY <2>1, <1>2, EvidenceDecides DEF SameEvidence
<1>11. three.diagnosis = two.diagnosis
  <2>1. three.diagnosis = IF two.health = "failed" \/ (two.named /\ three.blamed) THEN "launch_bound"
                          ELSE IF InputsMissing(two) THEN "refused" ELSE "evaluated"
    BY <1>3, RoundFields DEF three
  <2> QED
    BY <2>1, <1>5, <1>9, <1>10, EvidenceDecides DEF SameEvidence
<1>12. two.report = Executive(two.validation) /\ three.report = Executive(three.validation)
  BY <1>2, <1>3, RoundFields DEF two, three
<1> HIDE DEF one, two
<1>13. three = two
  BY <1>3, <1>4, <1>6, <1>7, <1>9, <1>11, <1>12, DirEqual
<1>14. two.report = "live_complete" <=>
         /\ Quorum(dir)
         /\ contract = "default" =>
              ~LaunchMissing(dir) /\ ~InputsMissing(dir) /\ ~ReportElsewhere
  <2>1. two.report = "live_complete" <=> two.validation = "live_complete"
    BY <1>12 DEF Executive
  <2>2. two.validation = "live_complete" <=>
          Looked /\ defects = {} /\ OthersComplete /\ Live(dir) /\ ~Incomplete(dir)
    <3>1. Live(dir) \in BOOLEAN /\ Incomplete(dir) \in BOOLEAN
      BY DEF Live, Incomplete
    <3>2. CASE "evidence" \in defects
      <4>1. Incomplete(dir)
        BY <3>2 DEF Incomplete
      <4> QED
        BY <3>1, <4>1, <1>6, LiveVerdict
    <3>3. CASE "evidence" \notin defects
      BY <3>1, <3>3, <1>6, VerdictExact
    <3> QED
      BY <3>2, <3>3
  <2>3. Live(dir) => ~NotProven(dir)
    BY DEF Live, NotProven
  <2> QED
    BY <2>1, <2>2, <2>3 DEF Quorum, Incomplete, LaunchMissing
<1>15. two.diagnosis = "launch_bound" <=>
         dir.health = "failed" \/ (dir.named /\ LaunchMissing(dir))
  <2>1. LaunchMissing(dir) => Looked
    BY DEF LaunchMissing, Looked
  <2>2. two.blamed => LaunchMissing(dir) \/ dir.health = "failed"
    BY <1>8
  <2>3. LaunchMissing(dir) => two.blamed
    BY <1>8, <2>1
  <2> QED
    BY <1>10, <2>2, <2>3
<1>16. Round(Round(dir)) = two /\ Round(two) = three
  BY DEF one, two, three
<1> QED
  BY <1>13, <1>14, <1>15, <1>16 DEF TwoRoundsSettle

\* Once the tools have ended, the verdict, the diagnosis and the report come to
\* rest after two rounds, at what the evidence says.
THEOREM Settles == Spec => []TwoRoundsSettle
<1>1. IInv => TwoRoundsSettle
  BY TwoRounds DEF IInv
<1> QED
  BY <1>1, Inductive, PTL
=============================================================================
