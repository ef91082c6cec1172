------------------------- MODULE RequestProfileProofs -------------------------
(***************************************************************************)
(* What holds of every run of the command, for any number of requests,     *)
(* slots and attempts: the inductive invariant of module RequestProfile,   *)
(* what follows from it, that no slot is lost or used twice, and that the  *)
(* files are those of ProfileFiles.                                        *)
(***************************************************************************)
EXTENDS RequestProfile, FiniteSetTheorems, TLAPS

\* The frame conditions and the types every step of the proof uses.
USE RequestsAssumption, ConcurrencyAssumption, AttemptsAssumption
USE DEF vars, toolVars, taskVars, registryVars, rowsVars, reportVars, Requests,
        NoRows, Report, Reports, Steps, BeforeRequests, AfterRequests

LEMMA InitInv == Init => IInv
<1> SUFFICES ASSUME Init PROVE IInv
  OBVIOUS
<1>1. TypeOK
  <2>1. NoRows \in [Requests -> 0 .. 1] /\ 0 \in 0 .. MaxAttempts /\ 1 \in 1 .. MaxAttempts
    OBVIOUS
  <2>2. Report \in Reports
    BY <2>1
  <2>3. state \in [Requests -> {"queued", "waiting", "flight", "done", "failed"}]
    BY DEF Init
  <2>4. attempt = 1 /\ fileOf = 0 /\ recording = 0 /\ 0 \in 0 .. NumRequests
    BY DEF Init
  <2> QED BY <2>1, <2>2, <2>3, <2>4 DEF Init, TypeOK
<1>2. HandlerInStep /\ Registered /\ Tasks
  BY DEF Init, HandlerInStep, Registered, Tasks
<1>3. RowsAccounted /\ Files
  BY DEF Init, RowsAccounted, RowAccounted, Files
<1>4. SummaryIsComplete /\ PartialIsBacked /\ OneReport
  BY DEF Init, SummaryIsComplete, PartialIsBacked, OneReport
<1> QED BY <1>1, <1>2, <1>3, <1>4 DEF IInv

\* No count exceeds one.
LEMMA RowCounts ==
  ASSUME TypeOK
  PROVE  \A r \in Requests : file[r] \in {0, 1} /\ buffer[r] \in {0, 1} /\ rows[r] \in {0, 1}
<1>1. 0 .. 1 = {0, 1}
  OBVIOUS
<1> QED BY <1>1 DEF TypeOK

\* What a flush leaves in the file: each request once at most.
LEMMA FlushedRows ==
  ASSUME TypeOK, Registered, RowsAccounted
  PROVE  /\ Flushed \in [Requests -> 0 .. 1]
         /\ NoRows \in [Requests -> 0 .. 1]
<1>1. ASSUME NEW r \in Requests
      PROVE  file[r] + buffer[r] \in 0 .. 1
  <2>1. file[r] \in 0 .. 1 /\ buffer[r] \in 0 .. 1 /\ rows[r] \in 0 .. 1
    BY DEF TypeOK
  <2>2. CASE pc = "truncate"
    <3>1. buffer[r] = 0
      BY <2>2 DEF Registered
    <3> QED BY <2>1, <3>1
  <2>3. CASE pc # "truncate"
    <3>1. file[r] + buffer[r] <= rows[r]
      BY <2>3 DEF RowsAccounted, RowAccounted
    <3> QED BY <2>1, <3>1
  <2> QED BY <2>2, <2>3
<1> QED BY <1>1 DEF Flushed

\* A step of run_request_profile keeps the invariant.
LEMMA MainInv ==
  ASSUME IInv, Main
  PROVE  IInv'
<1> USE DEF IInv, TypeOK, HandlerInStep, Registered, Tasks, RowsAccounted,
            RowAccounted, Files,            SummaryIsComplete, PartialIsBacked, OneReport
<1>1. CASE Truncate
  <2>1. TypeOK'
    BY <1>1 DEF Truncate, At, Goto
  <2>2. HandlerInStep' /\ Registered'
    BY <1>1 DEF Truncate, At, Goto
  <2>3. Tasks'
    BY <1>1 DEF Truncate, At, Goto
  <2>4. RowsAccounted'
    BY <1>1 DEF Truncate, At, Goto
  <2>5. Files'
    BY <1>1 DEF Truncate, At, Goto
  <2>6. SummaryIsComplete' /\ PartialIsBacked' /\ OneReport'
    BY <1>1 DEF Truncate, At, Goto
  <2> QED BY <2>1, <2>2, <2>3, <2>4, <2>5, <2>6
<1>2. CASE Raises
  <2>1. TypeOK'
    BY <1>2 DEF Raises, At
  <2>2. HandlerInStep' /\ Registered'
    BY <1>2 DEF Raises, At
  <2>3. Tasks'
    BY <1>2 DEF Raises, At
  <2>4. RowsAccounted'
    BY <1>2 DEF Raises, At
  <2>5. Files'
    BY <1>2 DEF Raises, At
  <2>6. SummaryIsComplete' /\ PartialIsBacked' /\ OneReport'
    BY <1>2 DEF Raises, At
  <2> QED BY <2>1, <2>2, <2>3, <2>4, <2>5, <2>6
<1>3. CASE RegisterPartial
  <2>1. TypeOK'
    BY <1>3 DEF RegisterPartial, At, Goto
  <2>2. HandlerInStep' /\ Registered'
    BY <1>3 DEF RegisterPartial, At, Goto
  <2>3. Tasks'
    BY <1>3 DEF RegisterPartial, At, Goto
  <2>4. RowsAccounted'
    BY <1>3 DEF RegisterPartial, At, Goto
  <2>5. Files'
    BY <1>3 DEF RegisterPartial, At, Goto
  <2>6. SummaryIsComplete' /\ PartialIsBacked' /\ OneReport'
    BY <1>3 DEF RegisterPartial, At, Goto
  <2> QED BY <2>1, <2>2, <2>3, <2>4, <2>5, <2>6
<1>4. CASE Open
  <2>1. TypeOK'
    BY <1>4 DEF Open, At, Goto
  <2>2. HandlerInStep' /\ Registered'
    BY <1>4 DEF Open, At, Goto
  <2>3. Tasks'
    BY <1>4 DEF Open, At, Goto
  <2>4. RowsAccounted'
    BY <1>4 DEF Open, At, Goto
  <2>5. Files'
    BY <1>4 DEF Open, At, Goto
  <2>6. SummaryIsComplete' /\ PartialIsBacked' /\ OneReport'
    BY <1>4 DEF Open, At, Goto
  <2> QED BY <2>1, <2>2, <2>3, <2>4, <2>5, <2>6
<1>5. CASE OpenFails
  <2>1. TypeOK'
    BY <1>5 DEF OpenFails, At, Goto
  <2>2. HandlerInStep' /\ Registered'
    BY <1>5 DEF OpenFails, At, Goto
  <2>3. Tasks'
    BY <1>5 DEF OpenFails, At, Goto
  <2>4. RowsAccounted'
    BY <1>5 DEF OpenFails, At, Goto
  <2>5. Files'
    BY <1>5 DEF OpenFails, At, Goto
  <2>6. SummaryIsComplete' /\ PartialIsBacked' /\ OneReport'
    BY <1>5 DEF OpenFails, At, Goto
  <2> QED BY <2>1, <2>2, <2>3, <2>4, <2>5, <2>6
<1>6. CASE Start
  <2>1. TypeOK'
    BY <1>6 DEF Start, At, Goto
  <2>2. HandlerInStep' /\ Registered'
    BY <1>6 DEF Start, At, Goto
  <2>3. Tasks'
    BY <1>6 DEF Start, At, Goto
  <2>4. RowsAccounted'
    BY <1>6 DEF Start, At, Goto
  <2>5. Files'
    BY <1>6 DEF Start, At, Goto
  <2>6. SummaryIsComplete' /\ PartialIsBacked' /\ OneReport'
    BY <1>6 DEF Start, At, Goto
  <2> QED BY <2>1, <2>2, <2>3, <2>4, <2>5, <2>6
<1>7. CASE WriteRow
  <2>1. TypeOK'
    <3>1. recording \in Requests /\ file[recording] + buffer[recording] = 0
      BY <1>7 DEF WriteRow
    <3>2. buffer[recording] = 0
      BY <3>1, RowCounts
    <3>3. buffer' \in [Requests -> 0 .. 1]
      BY <1>7, <3>1, <3>2 DEF WriteRow
    <3> QED BY <1>7, <3>3 DEF WriteRow, At
  <2>2. HandlerInStep' /\ Registered'
    BY <1>7 DEF WriteRow, At
  <2>3. Tasks'
    BY <1>7 DEF WriteRow, At
  <2>4. RowsAccounted'
    <3>1. recording \in Requests /\ file[recording] + buffer[recording] = 0
      BY <1>7 DEF WriteRow
    <3>2. file[recording] = 0 /\ buffer[recording] = 0
      BY <3>1, RowCounts
    <3>3. /\ buffer'[recording] = 1
          /\ \A r \in Requests \ {recording} : buffer'[r] = buffer[r]
      BY <1>7, <3>1, <3>2 DEF WriteRow
    <3> QED BY <1>7, <3>1, <3>2, <3>3 DEF WriteRow, At
  <2>5. Files'
    BY <1>7 DEF WriteRow, At
  <2>6. SummaryIsComplete' /\ PartialIsBacked' /\ OneReport'
    BY <1>7 DEF WriteRow, At
  <2> QED BY <2>1, <2>2, <2>3, <2>4, <2>5, <2>6
<1>8. CASE FlushRow
  <2>1. TypeOK'
    <3>1. file' \in [Requests -> 0 .. 1] /\ buffer' \in [Requests -> 0 .. 1]
      BY <1>8, FlushedRows DEF FlushRow
    <3>2. state' \in [Requests -> {"queued", "waiting", "flight", "done", "failed"}]
      BY <1>8 DEF FlushRow, EndTask, InState
    <3> QED BY <1>8, <3>1, <3>2 DEF FlushRow, At, EndTask
  <2>2. HandlerInStep' /\ Registered'
    BY <1>8 DEF FlushRow, At, EndTask, InState, Flushed
  <2>3. Tasks'
    BY <1>8 DEF FlushRow, At, EndTask, InState, Flushed
  <2>4. RowsAccounted'
    <3> SUFFICES ASSUME NEW r \in Requests PROVE RowAccounted(r)'
      BY DEF RowsAccounted
    <3>1. recording \in Requests /\ state[recording] = "flight" /\ pc = "requests"
      BY <1>8 DEF FlushRow
    <3>2. /\ r = recording => state'[r] = "done"
          /\ r # recording => \/ state'[r] = state[r]
                              \/ state[r] = "waiting" /\ state'[r] = "flight"
      BY <1>8, <3>1 DEF FlushRow, EndTask, InState
    <3>3. file'[r] = file[r] + buffer[r] /\ buffer'[r] = 0
      BY <1>8 DEF FlushRow, Flushed
    <3>4. RowAccounted(r)
      OBVIOUS
    <3>5. stage = "buffered" /\ tool = "running" /\ recording' = 0 /\ rows' = rows /\ pc' = pc
          /\ unwritten' = unwritten /\ recording' \notin Requests
      BY <1>8 DEF FlushRow, At, EndTask
    <3>6. state[r] = "done" => file[r] + buffer[r] = 1
      BY <3>1, <3>4, RowCounts
    <3>7. file[r] + buffer[r] <= rows[r] /\ (state[r] = "done" => rows[r] = 1)
      BY <3>1, <3>4
    <3>8. rows[r] = IF r = recording' \/ state'[r] \in {"done", "failed"} THEN 1 ELSE 0
      <4>1. r # recording'
        BY <3>5
      <4>2. CASE r = recording
        BY <3>2, <3>4, <4>1, <4>2
      <4>3. CASE r # recording
        BY <3>2, <3>4, <4>1, <4>3
      <4> QED BY <4>2, <4>3
    <3>9. state'[r] = "done" => file[r] + buffer[r] = 1
      BY <3>2, <3>4, <3>5, <3>6
    <3>10. state'[r] = "failed" => unwritten
      <4>1. state[r] = "failed" => unwritten
        BY <3>4
      <4>2. state'[r] = "failed" => state[r] = "failed"
        BY <3>2
      <4> QED BY <4>1, <4>2
    <3>11. file'[r] + buffer'[r] = file[r] + buffer[r] /\ file'[r] = file[r] + buffer[r]
      BY <3>3, RowCounts
    <3> QED BY <3>5, <3>7, <3>8, <3>9, <3>10, <3>11
  <2>5. Files'
    BY <1>8 DEF FlushRow, At, EndTask, InState, Flushed
  <2>6. SummaryIsComplete' /\ PartialIsBacked' /\ OneReport'
    BY <1>8 DEF FlushRow, At, EndTask, InState, Flushed
  <2> QED BY <2>1, <2>2, <2>3, <2>4, <2>5, <2>6
<1>9. CASE RowFails
  <2>1. TypeOK'
    BY <1>9 DEF RowFails, At, EndTask, InState
  <2>2. HandlerInStep' /\ Registered'
    BY <1>9 DEF RowFails, At, EndTask, InState
  <2>3. Tasks'
    BY <1>9 DEF RowFails, At, EndTask, InState
  <2>4. RowsAccounted'
    BY <1>9 DEF RowFails, At, EndTask, InState
  <2>5. Files'
    BY <1>9 DEF RowFails, At, EndTask, InState
  <2>6. SummaryIsComplete' /\ PartialIsBacked' /\ OneReport'
    BY <1>9 DEF RowFails, At, EndTask, InState
  <2> QED BY <2>1, <2>2, <2>3, <2>4, <2>5, <2>6
<1>10. CASE RequestsEnd
  <2>1. TypeOK'
    BY <1>10 DEF RequestsEnd, At, Goto
  <2>2. HandlerInStep' /\ Registered'
    BY <1>10 DEF RequestsEnd, At, Goto
  <2>3. Tasks'
    BY <1>10 DEF RequestsEnd, At, Goto
  <2>4. RowsAccounted'
    BY <1>10 DEF RequestsEnd, At, Goto
  <2>5. Files'
    BY <1>10 DEF RequestsEnd, At, Goto
  <2>6. SummaryIsComplete' /\ PartialIsBacked' /\ OneReport'
    BY <1>10 DEF RequestsEnd, At, Goto
  <2> QED BY <2>1, <2>2, <2>3, <2>4, <2>5, <2>6
<1>11. CASE RequestsFail
  <2>1. TypeOK'
    BY <1>11 DEF RequestsFail, At, Goto
  <2>2. HandlerInStep' /\ Registered'
    BY <1>11 DEF RequestsFail, At, Goto
  <2>3. Tasks'
    BY <1>11 DEF RequestsFail, At, Goto
  <2>4. RowsAccounted'
    BY <1>11 DEF RequestsFail, At, Goto
  <2>5. Files'
    BY <1>11 DEF RequestsFail, At, Goto
  <2>6. SummaryIsComplete' /\ PartialIsBacked' /\ OneReport'
    BY <1>11 DEF RequestsFail, At, Goto
  <2> QED BY <2>1, <2>2, <2>3, <2>4, <2>5, <2>6
<1>12. CASE Close
  <2>1. TypeOK'
    <3>1. file' \in [Requests -> 0 .. 1] /\ buffer' \in [Requests -> 0 .. 1]
      BY <1>12, FlushedRows DEF Close
    <3> QED BY <1>12, <3>1 DEF Close, At, Goto
  <2>2. HandlerInStep' /\ Registered'
    BY <1>12 DEF Close, At, Goto, Flushed
  <2>3. Tasks'
    BY <1>12 DEF Close, At, Goto, Flushed
  <2>4. RowsAccounted'
    <3> SUFFICES ASSUME NEW r \in Requests PROVE RowAccounted(r)'
      BY DEF RowsAccounted
    <3>1. buffer'[r] = 0 /\ file'[r] \in {file[r], file[r] + buffer[r]}
      BY <1>12 DEF Close, Flushed
    <3>2. recording = 0 /\ recording' = 0 /\ pc = "close" /\ pc' = "unregister_partial"
          /\ state' = state /\ rows' = rows /\ (unwritten => unwritten') /\ r # 0
      BY <1>12 DEF Close, At, Goto
    <3>3. RowAccounted(r)
      OBVIOUS
    <3> QED BY <3>1, <3>2, <3>3, RowCounts
  <2>5. Files'
    BY <1>12 DEF Close, At, Goto, Flushed
  <2>6. SummaryIsComplete' /\ PartialIsBacked' /\ OneReport'
    BY <1>12 DEF Close, At, Goto, Flushed
  <2> QED BY <2>1, <2>2, <2>3, <2>4, <2>5, <2>6
<1>13. CASE UnregisterPartial
  <2>1. TypeOK'
    BY <1>13 DEF UnregisterPartial, At
  <2>2. HandlerInStep' /\ Registered'
    BY <1>13 DEF UnregisterPartial, At
  <2>3. Tasks'
    BY <1>13 DEF UnregisterPartial, At
  <2>4. RowsAccounted'
    BY <1>13 DEF UnregisterPartial, At
  <2>5. Files'
    BY <1>13 DEF UnregisterPartial, At
  <2>6. SummaryIsComplete' /\ PartialIsBacked' /\ OneReport'
    BY <1>13 DEF UnregisterPartial, At
  <2> QED BY <2>1, <2>2, <2>3, <2>4, <2>5, <2>6
<1>14. CASE WriteSummary
  <2>1. TypeOK'
    BY <1>14 DEF WriteSummary, At, Goto
  <2>2. HandlerInStep' /\ Registered'
    BY <1>14 DEF WriteSummary, At, Goto
  <2>3. Tasks'
    BY <1>14 DEF WriteSummary, At, Goto
  <2>4. RowsAccounted'
    BY <1>14 DEF WriteSummary, At, Goto
  <2>5. Files'
    BY <1>14 DEF WriteSummary, At, Goto
  <2>6. SummaryIsComplete' /\ PartialIsBacked' /\ OneReport'
    BY <1>14 DEF WriteSummary, At, Goto
  <2> QED BY <2>1, <2>2, <2>3, <2>4, <2>5, <2>6
<1>15. CASE Return
  <2>1. TypeOK'
    BY <1>15 DEF Return, At
  <2>2. HandlerInStep' /\ Registered'
    BY <1>15 DEF Return, At
  <2>3. Tasks'
    BY <1>15 DEF Return, At
  <2>4. RowsAccounted'
    BY <1>15 DEF Return, At
  <2>5. Files'
    BY <1>15 DEF Return, At
  <2>6. SummaryIsComplete' /\ PartialIsBacked' /\ OneReport'
    BY <1>15 DEF Return, At
  <2> QED BY <2>1, <2>2, <2>3, <2>4, <2>5, <2>6
<1> QED
  BY <1>1, <1>2, <1>3, <1>4, <1>5, <1>6, <1>7, <1>8, <1>9, <1>10, <1>11, <1>12, <1>13, <1>14,
     <1>15 DEF Main

\* A step of the signal handler keeps it.
LEMMA HandlerInv ==
  ASSUME IInv, Handler
  PROVE  IInv'
<1> USE DEF IInv, TypeOK, HandlerInStep, Registered, Tasks, RowsAccounted,
            RowAccounted, Files,            SummaryIsComplete, PartialIsBacked, OneReport
<1>1. CASE FlushStreams
  <2>1. TypeOK'
    <3>1. file' \in [Requests -> 0 .. 1] /\ buffer' \in [Requests -> 0 .. 1]
      BY <1>1, FlushedRows DEF FlushStreams
    <3> QED BY <1>1, <3>1 DEF FlushStreams, Handling, HandlerGoto
  <2>2. HandlerInStep' /\ Registered'
    BY <1>1 DEF FlushStreams, Handling, HandlerGoto, Flushed
  <2>3. Tasks'
    BY <1>1 DEF FlushStreams, Handling, HandlerGoto, Flushed
  <2>4. RowsAccounted'
    <3> SUFFICES ASSUME NEW r \in Requests PROVE RowAccounted(r)'
      BY DEF RowsAccounted
    <3>1. \/ file'[r] = file[r] /\ buffer'[r] = buffer[r]
          \/ file'[r] = file[r] + buffer[r] /\ buffer'[r] = 0
      <4>1. \/ file' = file /\ buffer' = buffer
            \/ file' = Flushed /\ buffer' = NoRows
        BY <1>1 DEF FlushStreams
      <4> QED BY <4>1 DEF Flushed
    <3>2. recording' = recording /\ pc' = pc /\ stage' = stage /\ state' = state /\ rows' = rows
          /\ tool' = tool /\ (unwritten => unwritten')
      BY <1>1 DEF FlushStreams, Handling, HandlerGoto
    <3>3. RowAccounted(r)
      OBVIOUS
    <3> QED BY <3>1, <3>2, <3>3, RowCounts
  <2>5. Files'
    BY <1>1 DEF FlushStreams, Handling, HandlerGoto, Flushed
  <2>6. SummaryIsComplete' /\ PartialIsBacked' /\ OneReport'
    BY <1>1 DEF FlushStreams, Handling, HandlerGoto, Flushed
  <2> QED BY <2>1, <2>2, <2>3, <2>4, <2>5, <2>6
<1>2. CASE WritePartial
  <2>1. TypeOK'
    <3>1. partial' \in Reports
      <4>1. [of |-> attempt, rows |-> rows] \in Reports
        OBVIOUS
      <4> QED BY <1>2, <4>1 DEF WritePartial
    <3> QED BY <1>2, <3>1 DEF WritePartial, Handling, HandlerGoto
  <2>2. HandlerInStep' /\ Registered'
    BY <1>2 DEF WritePartial, Handling, HandlerGoto
  <2>3. Tasks'
    BY <1>2 DEF WritePartial, Handling, HandlerGoto
  <2>4. RowsAccounted'
    BY <1>2 DEF WritePartial, Handling, HandlerGoto
  <2>5. Files'
    BY <1>2 DEF WritePartial, Handling, HandlerGoto
  <2>6. SummaryIsComplete' /\ PartialIsBacked' /\ OneReport'
    <3>1. CASE partial' = partial
      BY <1>2, <3>1 DEF WritePartial, Handling, HandlerGoto
    <3>2. CASE producers /\ partial' = [of |-> attempt, rows |-> rows]
      <4>1. pc # "truncate" /\ fileOf = attempt /\ summary.of # attempt
        BY <3>2
      <4>2. ASSUME NEW r \in Requests PROVE file[r] <= rows[r]
        <5>1. file[r] + buffer[r] <= rows[r]
          BY <4>1
        <5>2. file[r] \in Nat /\ buffer[r] \in Nat /\ rows[r] \in Nat
          BY RowCounts
        <5> QED BY <5>1, <5>2
      <4>3. partial'.of = attempt /\ partial'.rows = rows
        BY <3>2
      <4> QED BY <1>2, <4>1, <4>2, <4>3 DEF WritePartial, Handling, HandlerGoto
    <3> QED BY <1>2, <3>1, <3>2 DEF WritePartial
  <2> QED BY <2>1, <2>2, <2>3, <2>4, <2>5, <2>6
<1>3. CASE HandlerExits
  <2>1. TypeOK'
    <3>1. file' \in [Requests -> 0 .. 1] /\ buffer' \in [Requests -> 0 .. 1]
      BY <1>3, FlushedRows DEF HandlerExits
    <3> QED BY <1>3, <3>1 DEF HandlerExits, Handling
  <2>2. HandlerInStep' /\ Registered'
    BY <1>3 DEF HandlerExits, Handling, Flushed
  <2>3. Tasks'
    BY <1>3 DEF HandlerExits, Handling, Flushed
  <2>4. RowsAccounted'
    <3> SUFFICES ASSUME NEW r \in Requests PROVE RowAccounted(r)'
      BY DEF RowsAccounted
    <3>1. buffer'[r] = 0 /\ file'[r] \in {file[r], file[r] + buffer[r]}
      BY <1>3 DEF HandlerExits, Flushed
    <3>2. ~unwritten => buffer[r] = 0
      BY <1>3 DEF HandlerExits, Handling
    <3>3. recording' = recording /\ pc' = pc /\ stage' = stage /\ state' = state /\ rows' = rows
          /\ tool' = "interrupted" /\ unwritten' = unwritten
      BY <1>3 DEF HandlerExits, Handling
    <3>4. RowAccounted(r)
      OBVIOUS
    <3> QED BY <3>1, <3>2, <3>3, <3>4, RowCounts
  <2>5. Files'
    BY <1>3 DEF HandlerExits, Handling, Flushed
  <2>6. SummaryIsComplete' /\ PartialIsBacked' /\ OneReport'
    BY <1>3 DEF HandlerExits, Handling, Flushed
  <2> QED BY <2>1, <2>2, <2>3, <2>4, <2>5, <2>6
<1> QED BY <1>1, <1>2, <1>3 DEF Handler

\* So do signals, SIGKILL and the next run of the command.
LEMMA ProcessInv ==
  ASSUME IInv, (SignalArrives \/ SecondSignal \/ Killed \/ Rerun)
  PROVE  IInv'
<1> USE DEF IInv, TypeOK, HandlerInStep, Registered, Tasks, RowsAccounted,
            RowAccounted, Files,            SummaryIsComplete, PartialIsBacked, OneReport
<1>1. CASE SignalArrives
  <2>1. TypeOK'
    BY <1>1 DEF SignalArrives
  <2>2. HandlerInStep' /\ Registered'
    BY <1>1 DEF SignalArrives
  <2>3. Tasks'
    BY <1>1 DEF SignalArrives
  <2>4. RowsAccounted'
    BY <1>1 DEF SignalArrives
  <2>5. Files'
    BY <1>1 DEF SignalArrives
  <2>6. SummaryIsComplete' /\ PartialIsBacked' /\ OneReport'
    BY <1>1 DEF SignalArrives
  <2> QED BY <2>1, <2>2, <2>3, <2>4, <2>5, <2>6
<1>2. CASE SecondSignal
  <2>1. TypeOK'
    BY <1>2 DEF SecondSignal
  <2>2. HandlerInStep' /\ Registered'
    BY <1>2 DEF SecondSignal
  <2>3. Tasks'
    BY <1>2 DEF SecondSignal
  <2>4. RowsAccounted'
    BY <1>2 DEF SecondSignal
  <2>5. Files'
    BY <1>2 DEF SecondSignal
  <2>6. SummaryIsComplete' /\ PartialIsBacked' /\ OneReport'
    BY <1>2 DEF SecondSignal
  <2> QED BY <2>1, <2>2, <2>3, <2>4, <2>5, <2>6
<1>3. CASE Killed
  <2>1. TypeOK'
    BY <1>3 DEF Killed, Ended
  <2>2. HandlerInStep' /\ Registered'
    BY <1>3 DEF Killed, Ended
  <2>3. Tasks'
    BY <1>3 DEF Killed, Ended
  <2>4. RowsAccounted'
    BY <1>3 DEF Killed, Ended
  <2>5. Files'
    BY <1>3 DEF Killed, Ended
  <2>6. SummaryIsComplete' /\ PartialIsBacked' /\ OneReport'
    BY <1>3 DEF Killed, Ended
  <2> QED BY <2>1, <2>2, <2>3, <2>4, <2>5, <2>6
<1>4. CASE Rerun
  <2>1. TypeOK'
    <3>1. /\ state' \in [Requests -> {"queued", "waiting", "flight", "done", "failed"}]
          /\ rows' \in [Requests -> 0 .. 1]
          /\ buffer' \in [Requests -> 0 .. 1]
      BY <1>4 DEF Rerun
    <3>2. attempt' \in 1 .. MaxAttempts /\ recording' \in 0 .. NumRequests
      BY <1>4 DEF Rerun
    <3> QED BY <1>4, <3>1, <3>2 DEF Rerun, Ended
  <2>2. HandlerInStep' /\ Registered'
    BY <1>4 DEF Rerun, Ended
  <2>3. Tasks'
    BY <1>4 DEF Rerun, Ended
  <2>4. RowsAccounted'
    BY <1>4 DEF Rerun, Ended
  <2>5. Files'
    BY <1>4 DEF Rerun, Ended
  <2>6. SummaryIsComplete' /\ PartialIsBacked' /\ OneReport'
    BY <1>4 DEF Rerun, Ended
  <2> QED BY <2>1, <2>2, <2>3, <2>4, <2>5, <2>6
<1> QED BY <1>1, <1>2, <1>3, <1>4

\* And the arrivals and answers of the requests.
LEMMA RequestInv ==
  ASSUME IInv, NEW r \in Requests, Arrive(r) \/ Answer(r)
  PROVE  IInv'
<1> USE DEF IInv, TypeOK, HandlerInStep, Registered, Tasks, RowsAccounted,
            RowAccounted, Files, SummaryIsComplete, PartialIsBacked, OneReport
<1>1. CASE Arrive(r)
  <2>1. state' \in [Requests -> {"queued", "waiting", "flight", "done", "failed"}]
    BY <1>1 DEF Arrive
  <2>2. \A q \in Requests : \/ state'[q] = state[q]
                            \/ state[q] = "queued" /\ state'[q] \in {"waiting", "flight"}
    BY <1>1 DEF Arrive
  <2>3. TypeOK' /\ HandlerInStep' /\ Registered'
    BY <1>1, <2>1 DEF Arrive, At
  <2>4. Tasks'
    BY <1>1, <2>2 DEF Arrive, At
  <2>5. RowsAccounted'
    BY <1>1, <2>2 DEF Arrive, At
  <2>6. Files' /\ SummaryIsComplete' /\ PartialIsBacked' /\ OneReport'
    BY <1>1 DEF Arrive, At
  <2> QED BY <2>3, <2>4, <2>5, <2>6
<1>2. CASE Answer(r)
  <2>1. state[r] = "flight" /\ recording = 0 /\ rows[r] = 0
    BY <1>2 DEF Answer
  <2>2. rows' \in [Requests -> 0 .. 1]
    BY <1>2, <2>1 DEF Answer
  <2>3. rows'[r] = 1 /\ \A q \in Requests \ {r} : rows'[q] = rows[q]
    BY <1>2, <2>1 DEF Answer
  <2>4. TypeOK' /\ HandlerInStep' /\ Registered'
    BY <1>2, <2>2 DEF Answer, At
  <2>5. Tasks'
    BY <1>2, <2>1 DEF Answer, At
  <2>6. file[r] = 0 /\ buffer[r] = 0
    <3>1. file[r] + buffer[r] <= 0
      BY <1>2, <2>1 DEF Answer, At
    <3> QED BY <3>1, RowCounts
  <2>7. RowsAccounted'
    BY <1>2, <2>1, <2>3, <2>6, RowCounts DEF Answer, At
  <2>8. Files' /\ SummaryIsComplete' /\ PartialIsBacked' /\ OneReport'
    BY <1>2 DEF Answer, At
  <2> QED BY <2>4, <2>5, <2>7, <2>8
<1> QED BY <1>1, <1>2

LEMMA NextInv == IInv /\ [Next]_vars => IInv'
<1>1. ASSUME IInv, Next PROVE IInv'
  BY <1>1, MainInv, HandlerInv, ProcessInv, RequestInv DEF Next
<1>2. ASSUME IInv, UNCHANGED vars PROVE IInv'
  BY <1>2 DEF IInv, TypeOK, HandlerInStep, Registered, Tasks, RowsAccounted,
              RowAccounted, Files, SummaryIsComplete, PartialIsBacked, OneReport, At
<1> QED BY <1>1, <1>2

\* The inductive invariant: in particular no request is recorded twice, whatever
\* the number of slots and the order of the answers.
THEOREM Inductive == Spec => []IInv
<1> QED BY InitInv, NextInv, PTL DEF Spec

\* A summary beside rows of its attempt is of all requests, each of them once.
THEOREM SummaryCompletes == Spec => []SummaryIsComplete
<1>1. IInv => SummaryIsComplete
  BY DEF IInv
<1> QED BY <1>1, Inductive, PTL

\* A partial result beside rows of its attempt misses none of them and counts at
\* most the one that was being recorded too many.
THEOREM PartialBacked == Spec => []PartialIsBacked
<1>1. IInv => PartialIsBacked
  BY DEF IInv
<1> QED BY <1>1, Inductive, PTL

\* No attempt has both a summary and a partial result.
THEOREM AtMostOneReport == Spec => []OneReport
<1>1. IInv => OneReport
  BY DEF IInv
<1> QED BY <1>1, Inductive, PTL

\* An attempt that returned or was interrupted has one of them, but for the two
\* steps at which its producer is not registered.
THEOREM RowsAreExplained == Spec => []RowsExplained
<1>1. IInv => RowsExplained
  <2> SUFFICES ASSUME IInv, tool \in {"returned", "interrupted"}, ~unwritten,
                      pc \notin {"truncate", "register_partial", "write_summary"}
               PROVE  summary.of = attempt \/ partial.of = attempt
    BY DEF RowsExplained
  <2>1. CASE pc = "return"
    BY <2>1 DEF IInv, Files
  <2>2. CASE pc # "return"
    <3>1. tool = "interrupted" /\ handler = "exit"
      BY <2>2 DEF IInv, HandlerInStep
    <3>2. producers
      BY <2>2 DEF IInv, TypeOK, Registered
    <3> QED BY <3>1, <3>2 DEF IInv, Files
  <2> QED BY <2>1, <2>2
<1> QED BY <1>1, Inductive, PTL

-----------------------------------------------------------------------------
\* The slots.  Those held are counted as one set, so that a step adds, removes or
\* exchanges an element of it.

Held == InState("flight") \cup (IF mode = "closed_loop" THEN InState("failed") ELSE {})

AllTaken == InState("waiting") # {} => Cardinality(Held) = Concurrency

SlotsInv ==
  /\ Cardinality(Held) <= Concurrency
  /\ AllTaken
  /\ mode = "closed_loop" /\ pc = "requests" => InState("queued") = {}

LEMMA SomeRequests ==
  ASSUME NEW S \in SUBSET Requests
  PROVE  IsFiniteSet(S) /\ Cardinality(S) \in Nat
<1>1. IsFiniteSet(Requests)
  BY FS_Interval
<1> QED BY <1>1, FS_Subset, FS_CardinalityType

LEMMA HeldFinite == IsFiniteSet(Held) /\ Cardinality(Held) \in Nat
<1>1. Held \in SUBSET Requests
  BY DEF Held, InState
<1> QED BY <1>1, SomeRequests

LEMMA HeldCounts ==
  Cardinality(Held) =
    Cardinality(InState("flight"))
      + (IF mode = "closed_loop" THEN Cardinality(InState("failed")) ELSE 0)
<1> DEFINE F == InState("flight")
           L == InState("failed")
<1>1. /\ IsFiniteSet(F) /\ Cardinality(F) \in Nat
      /\ IsFiniteSet(L) /\ Cardinality(L) \in Nat
  BY SomeRequests DEF InState
<1>2. F \cap L = {}
  BY DEF InState
<1> HIDE DEF F, L
<1>3. Cardinality(F \cup L) = Cardinality(F) + Cardinality(L)
  BY <1>1, <1>2, FS_Union, FS_EmptySet
<1>4. Held = IF mode = "closed_loop" THEN F \cup L ELSE F
  BY DEF Held, F, L
<1> QED BY <1>1, <1>3, <1>4 DEF F, L

LEMMA SlotsFollow == SlotsInv => SlotsKept
BY HeldCounts DEF SlotsInv, AllTaken, SlotsKept

LEMMA InitSlots == (\A r \in Requests : state[r] = "queued") => Cardinality(Held) = 0 /\ AllTaken
<1> SUFFICES ASSUME \A r \in Requests : state[r] = "queued"
             PROVE  Cardinality(Held) = 0 /\ AllTaken
  OBVIOUS
<1>1. Held = {} /\ InState("waiting") = {}
  BY DEF Held, InState
<1> QED BY <1>1, FS_EmptySet DEF AllTaken

\* A step that leaves the tasks alone.
LEMMA SlotsStutter ==
  ASSUME SlotsInv, UNCHANGED <<state, mode>>,
         pc' = "requests" => pc = "requests"
  PROVE  SlotsInv'
<1>1. Held' = Held /\ \A s : InState(s)' = InState(s)
  BY DEF Held, InState
<1> QED BY <1>1 DEF SlotsInv, AllTaken

\* asyncio.run begins: the closed loop has as many workers as there are requests
\* or slots, whichever are fewer.
LEMMA StartSlots ==
  ASSUME IInv, SlotsInv, Start
  PROVE  SlotsInv'
<1>1. pc = "start" /\ pc' = "requests" /\ mode' = mode
  BY DEF Start, At, Goto
<1>2. \A r \in Requests : state[r] = "queued"
  BY <1>1 DEF IInv, Tasks
<1>3. CASE mode = "closed_loop"
  <2>1. state' = [r \in Requests |-> IF r <= Concurrency THEN "flight" ELSE "waiting"]
    BY <1>3 DEF Start
  <2>2. Held' = {r \in Requests : r <= Concurrency}
    BY <1>1, <1>3, <2>1 DEF Held, InState
  <2>3. InState("queued")' = {} /\ InState("waiting")' = {r \in Requests : ~(r <= Concurrency)}
    BY <2>1 DEF InState
  <2>4. CASE NumRequests <= Concurrency
    <3>1. Held' = 1 .. NumRequests /\ InState("waiting")' = {}
      BY <2>2, <2>3, <2>4
    <3>2. Cardinality(1 .. NumRequests) = NumRequests
      BY FS_Interval
    <3> QED BY <2>3, <2>4, <3>1, <3>2 DEF SlotsInv, AllTaken
  <2>5. CASE Concurrency < NumRequests
    <3>1. Held' = 1 .. Concurrency
      BY <2>2, <2>5
    <3>2. Cardinality(1 .. Concurrency) = Concurrency
      BY FS_Interval
    <3> QED BY <2>3, <3>1, <3>2 DEF SlotsInv, AllTaken
  <2> QED BY <2>4, <2>5
<1>4. CASE mode # "closed_loop"
  <2>1. UNCHANGED <<state, mode>>
    BY <1>1, <1>4 DEF Start
  <2>2. Held' = Held /\ \A s : InState(s)' = InState(s)
    BY <2>1 DEF Held, InState
  <2> QED BY <1>1, <1>4, <2>2 DEF SlotsInv, AllTaken
<1> QED BY <1>3, <1>4

\* An arrival takes a slot, or finds them all taken.
LEMMA ArriveSlots ==
  ASSUME IInv, SlotsInv, NEW r \in Requests, Arrive(r)
  PROVE  SlotsInv'
<1>1. /\ pc = "requests" /\ state[r] = "queued"
      /\ UNCHANGED <<mode, pc>>
      /\ state \in [Requests -> {"queued", "waiting", "flight", "done", "failed"}]
  BY DEF Arrive, At, IInv, TypeOK
<1>2. mode # "closed_loop"
  BY <1>1 DEF SlotsInv, InState
<1>3. Held = InState("flight") /\ Held' = InState("flight")'
  BY <1>1, <1>2 DEF Held
<1>4. r \notin Held
  BY <1>1, <1>3 DEF InState
<1>5. CASE Cardinality(InState("flight")) < Concurrency
  <2>1. state' = [state EXCEPT ![r] = "flight"]
    BY <1>5 DEF Arrive
  <2>2. Held' = Held \cup {r} /\ InState("waiting")' = InState("waiting")
    BY <1>1, <1>3, <2>1 DEF InState
  <2>3. Cardinality(Held') = Cardinality(Held) + 1
    BY <1>4, <2>2, HeldFinite, FS_AddElement
  <2>4. InState("waiting") = {}
    BY <1>3, <1>5, HeldFinite DEF SlotsInv, AllTaken
  <2> QED BY <1>1, <1>2, <1>3, <1>5, <2>2, <2>3, <2>4, HeldFinite DEF SlotsInv, AllTaken
<1>6. CASE ~(Cardinality(InState("flight")) < Concurrency)
  <2>1. state' = [state EXCEPT ![r] = "waiting"]
    BY <1>6 DEF Arrive
  <2>2. Held' = Held
    BY <1>1, <1>3, <2>1 DEF InState
  <2>3. Cardinality(Held) = Concurrency
    BY <1>3, <1>6, HeldFinite DEF SlotsInv
  <2> QED BY <1>1, <1>2, <2>2, <2>3 DEF SlotsInv, AllTaken
<1> QED BY <1>5, <1>6

\* A task ends and passes its slot on, if a request waits for it.
LEMMA SlotPasses ==
  ASSUME IInv, SlotsInv, recording \in Requests, state[recording] = "flight",
         NEW s \in {"done", "failed"}, s = "failed" => mode = "poisson",
         EndTask(s, TRUE), UNCHANGED <<mode, pc>>
  PROVE  SlotsInv'
<1>1. state \in [Requests -> {"queued", "waiting", "flight", "done", "failed"}]
  BY DEF IInv, TypeOK
<1>2. recording \in Held
  BY DEF Held, InState
<1>3. Cardinality(Held \ {recording}) = Cardinality(Held) - 1 /\ IsFiniteSet(Held \ {recording})
  BY <1>2, HeldFinite, FS_RemoveElement
<1>4. InState("queued")' = InState("queued")
  BY <1>1 DEF EndTask, InState
<1>5. CASE InState("waiting") # {}
  <2>1. PICK q \in InState("waiting") : state' = [state EXCEPT ![recording] = s, ![q] = "flight"]
    BY <1>5 DEF EndTask
  <2>2. q \in Requests /\ q # recording /\ q \notin Held
    BY <2>1 DEF InState, Held
  <2>3. Held' = (Held \ {recording}) \cup {q}
    BY <1>1, <2>1, <2>2 DEF Held, InState
  <2>4. Cardinality(Held') = Cardinality(Held)
    <3> DEFINE rest == Held \ {recording}
    <3>1. q \notin rest
      BY <2>2
    <3>2. IsFiniteSet(rest) /\ Cardinality(rest) = Cardinality(Held) - 1
      BY <1>3
    <3> HIDE DEF rest
    <3>3. Cardinality(rest \cup {q}) = Cardinality(rest) + 1
      BY <3>1, <3>2, FS_AddElement
    <3> QED BY <2>3, <3>2, <3>3, HeldFinite DEF rest
  <2> QED BY <1>4, <1>5, <2>4 DEF SlotsInv, AllTaken
<1>6. CASE InState("waiting") = {}
  <2>1. state' = [state EXCEPT ![recording] = s]
    BY <1>6 DEF EndTask
  <2>2. Held' = Held \ {recording} /\ InState("waiting")' = {}
    BY <1>1, <1>6, <2>1 DEF Held, InState
  <2> QED BY <1>3, <1>4, <2>2, HeldFinite DEF SlotsInv, AllTaken
<1> QED BY <1>5, <1>6

\* A worker of the closed loop ends with its slot.
LEMMA SlotLost ==
  ASSUME IInv, SlotsInv, recording \in Requests, state[recording] = "flight",
         mode = "closed_loop", EndTask("failed", FALSE), UNCHANGED <<mode, pc>>
  PROVE  SlotsInv'
<1>1. state \in [Requests -> {"queued", "waiting", "flight", "done", "failed"}]
  BY DEF IInv, TypeOK
<1>2. state' = [state EXCEPT ![recording] = "failed"]
  BY DEF EndTask
<1>3. Held' = Held /\ InState("waiting")' = InState("waiting")
      /\ InState("queued")' = InState("queued")
  BY <1>1, <1>2 DEF Held, InState
<1> QED BY <1>3 DEF SlotsInv, AllTaken

LEMMA NextSlots ==
  ASSUME IInv, SlotsInv, [Next]_vars
  PROVE  SlotsInv'
<1> DEFINE Recorded == /\ recording \in Requests /\ state[recording] = "flight"
                       /\ mode \in {"closed_loop", "poisson"}
<1>1. stage # "none" => Recorded
  BY DEF IInv, TypeOK, Tasks
<1>2. CASE Start
  BY <1>2, StartSlots
<1>3. CASE FlushRow
  <2>1. EndTask("done", TRUE) /\ UNCHANGED <<mode, pc>> /\ Recorded
    BY <1>1, <1>3 DEF FlushRow
  <2> QED BY <2>1, SlotPasses
<1>4. CASE RowFails
  <2>1. EndTask("failed", mode = "poisson") /\ UNCHANGED <<mode, pc>> /\ Recorded
    BY <1>1, <1>4 DEF RowFails
  <2>2. CASE mode = "poisson"
    <3>1. EndTask("failed", TRUE)
      BY <2>1, <2>2 DEF EndTask
    <3> QED BY <2>1, <2>2, <3>1, SlotPasses
  <2>3. CASE mode = "closed_loop"
    <3>1. EndTask("failed", FALSE)
      BY <2>1, <2>3 DEF EndTask
    <3> QED BY <2>1, <2>3, <3>1, SlotLost
  <2> QED BY <2>1, <2>2, <2>3
<1>5. CASE Rerun
  <2>1. pc' = "truncate" /\ \A r \in Requests : state'[r] = "queued"
    BY <1>5 DEF Rerun
  <2>2. Cardinality(Held)' = 0 /\ AllTaken'
    <3>1. Held' = {} /\ InState("waiting")' = {}
      BY <2>1 DEF Held, InState
    <3> QED BY <3>1, FS_EmptySet DEF AllTaken
  <2> QED BY <2>1, <2>2 DEF SlotsInv
<1>6. CASE Truncate \/ Raises \/ RegisterPartial \/ Open \/ OpenFails \/ WriteRow
           \/ RequestsEnd \/ RequestsFail \/ Close \/ UnregisterPartial \/ WriteSummary
           \/ Return
  BY <1>6, SlotsStutter
     DEF Truncate, Raises, RegisterPartial, Open, OpenFails, WriteRow, RequestsEnd,
         RequestsFail, Close, UnregisterPartial, WriteSummary, Return, At, Goto
<1>7. CASE SignalArrives \/ SecondSignal \/ Handler \/ Killed \/ UNCHANGED vars
  BY <1>7, SlotsStutter
     DEF SignalArrives, SecondSignal, Handler, FlushStreams, WritePartial, HandlerExits,
         HandlerGoto, Killed
<1>8. ASSUME NEW r \in Requests, Arrive(r) PROVE SlotsInv'
  BY <1>8, ArriveSlots
<1>9. ASSUME NEW r \in Requests, Answer(r) PROVE SlotsInv'
  BY <1>9, SlotsStutter DEF Answer
<1> QED BY <1>2, <1>3, <1>4, <1>5, <1>6, <1>7, <1>8, <1>9 DEF Next, Main

\* The slots are all taken while a request waits, and never more than there are.
THEOREM SlotsAreKept == Spec => []SlotsKept
<1>1. Init => SlotsInv
  BY InitSlots DEF Init, SlotsInv
<1> QED BY <1>1, Inductive, NextSlots, SlotsFollow, PTL DEF Spec

-----------------------------------------------------------------------------
\* The files are those of ProfileFiles.

LEMMA InitImplements == Init => Promise!Init
  BY DEF Init, Promise!Init, Promise!Report

\* What a step that leaves the reports does to the rows.
LEMMA RecordsImplement ==
  ASSUME IInv, IInv', pc # "truncate", pc' = pc \/ pc = "close",
         UNCHANGED <<attempt, fileOf, summary, partial>>,
         \A r \in Requests : file[r] <= file'[r],
         pc # "return"
  PROVE  Promise!Record
<1>1. fileOf = attempt /\ summary.of # fileOf
  BY DEF IInv, Files
<1>2. file' \in [Requests -> 0 .. 1]
  BY DEF IInv, TypeOK
<1>3. fileOf # 0
  BY <1>1 DEF IInv, TypeOK
<1>4. ASSUME NEW r \in Requests, partial.of = fileOf PROVE file'[r] <= partial.rows[r]
  <2>1. fileOf' # 0 /\ partial'.of = fileOf' /\ partial' = partial
    BY <1>3, <1>4
  <2> QED BY <2>1 DEF IInv, PartialIsBacked
<1> QED BY <1>1, <1>2, <1>4 DEF Promise!Record

LEMMA NextImplements ==
  ASSUME IInv, IInv', [Next]_vars
  PROVE  [Promise!Next]_Promise!vars
<1> USE DEF Promise!vars
<1>1. CASE Truncate
  <2>1. fileOf' > fileOf
    BY <1>1 DEF Truncate, At, IInv, Files, TypeOK
  <2>2. Promise!Begin
    BY <1>1, <2>1 DEF Truncate, Promise!Begin
  <2> QED BY <2>2 DEF Promise!Next
<1>2. CASE FlushRow
  <2>1. \A r \in Requests : file[r] <= file'[r]
    BY <1>2, RowCounts DEF FlushRow, Flushed, IInv
  <2>2. Promise!Record
    BY <1>2, <2>1, RecordsImplement DEF FlushRow, At
  <2> QED BY <2>2 DEF Promise!Next
<1>3. CASE Close
  <2>1. \A r \in Requests : file[r] <= file'[r]
    BY <1>3, RowCounts DEF Close, Flushed, IInv
  <2>2. Promise!Record
    BY <1>3, <2>1, RecordsImplement DEF Close, At, Goto
  <2> QED BY <2>2 DEF Promise!Next
<1>4. CASE FlushStreams
  <2>1. CASE ~streams
    BY <1>4, <2>1 DEF FlushStreams
  <2>2. CASE streams
    <3>1. \A r \in Requests : file[r] <= file'[r]
      BY <1>4, RowCounts DEF FlushStreams, Flushed, IInv
    <3>2. pc \in {"start", "requests", "close"}
      BY <2>2 DEF IInv, Registered
    <3>3. Promise!Record
      BY <1>4, <3>1, <3>2, RecordsImplement DEF FlushStreams, HandlerGoto
    <3> QED BY <3>3 DEF Promise!Next
  <2> QED BY <2>1, <2>2
<1>5. CASE HandlerExits
  <2>1. CASE ~streams
    <3>1. file' = file
      <4>1. buffer = NoRows
        BY <2>1 DEF IInv, Registered
      <4>2. Flushed = [r \in Requests |-> file[r]]
        BY <4>1, RowCounts DEF Flushed, IInv
      <4>3. Flushed = file
        BY <4>2 DEF IInv, TypeOK
      <4> QED BY <1>5, <4>3 DEF HandlerExits
    <3> QED BY <1>5, <3>1 DEF HandlerExits
  <2>2. CASE streams
    <3>1. \A r \in Requests : file[r] <= file'[r]
      BY <1>5, RowCounts DEF HandlerExits, Flushed, IInv
    <3>2. pc \in {"start", "requests", "close"}
      BY <2>2 DEF IInv, Registered
    <3>3. Promise!Record
      BY <1>5, <3>1, <3>2, RecordsImplement DEF HandlerExits
    <3> QED BY <3>3 DEF Promise!Next
  <2> QED BY <2>1, <2>2
<1>6. CASE WriteSummary
  <2>1. pc = "write_summary" /\ ~failing /\ fileOf = attempt /\ partial.of # fileOf /\ fileOf # 0
    BY <1>6 DEF WriteSummary, At, IInv, TypeOK, Registered, Tasks, Files
  <2>2. \A r \in Requests : file[r] = 1 /\ rows[r] = 1
    BY <2>1 DEF IInv, Tasks, RowsAccounted, RowAccounted
  <2>3. rows = file
    BY <2>2 DEF IInv, TypeOK
  <2>4. Promise!Summarise
    BY <1>6, <2>1, <2>2, <2>3 DEF WriteSummary, Promise!Summarise
  <2> QED BY <2>4 DEF Promise!Next
<1>7. CASE WritePartial
  <2>1. CASE partial' = partial
    BY <1>7, <2>1 DEF WritePartial
  <2>2. CASE producers /\ partial' = [of |-> attempt, rows |-> rows]
    <3>1. pc # "truncate" /\ pc # "return" /\ handler = "write"
      BY <1>7, <2>2 DEF WritePartial, Handling, IInv, Registered
    <3>2. fileOf = attempt /\ fileOf # 0 /\ summary.of # fileOf /\ partial.of # fileOf
      BY <3>1 DEF IInv, TypeOK, Files
    <3>3. rows \in [Requests -> 0 .. 1]
      BY DEF IInv, TypeOK
    <3>4. fileOf' = fileOf /\ file' = file /\ partial'.of = fileOf' /\ partial'.rows = rows
      BY <1>7, <2>2, <3>2 DEF WritePartial
    <3>5. \A r \in Requests : file[r] <= rows[r]
      BY <3>2, <3>4 DEF IInv, PartialIsBacked
    <3>6. Promise!Interrupt
      BY <1>7, <2>2, <3>2, <3>3, <3>5 DEF WritePartial, Promise!Interrupt
    <3> QED BY <3>6 DEF Promise!Next
  <2> QED BY <1>7, <2>1, <2>2 DEF WritePartial
<1>8. CASE Raises \/ RegisterPartial \/ Open \/ OpenFails \/ Start \/ WriteRow
  BY <1>8 DEF Raises, RegisterPartial, Open, OpenFails, Start, WriteRow
<1>9. CASE RowFails \/ RequestsEnd \/ RequestsFail \/ UnregisterPartial \/ Return
  BY <1>9 DEF RowFails, RequestsEnd, RequestsFail, UnregisterPartial, Return
<1>10. CASE Rerun \/ SignalArrives \/ SecondSignal \/ Killed
  BY <1>10 DEF Rerun, SignalArrives, SecondSignal, Killed
<1>11. ASSUME NEW r \in Requests, Arrive(r) \/ Answer(r)
       PROVE  UNCHANGED Promise!vars
  BY <1>11 DEF Arrive, Answer
<1>12. CASE UNCHANGED vars
  BY <1>12
<1> QED BY <1>1, <1>2, <1>3, <1>4, <1>5, <1>6, <1>7, <1>8, <1>9, <1>10, <1>11, <1>12
        DEF Next, Main, Handler

\* The files are those of ProfileFiles, through every run of the command.
THEOREM FilesAreAsPromised == Spec => ImplementsProfileFiles
<1> QED BY InitImplements, NextImplements, Inductive, PTL
        DEF Spec, ImplementsProfileFiles, Promise!Spec
=============================================================================
