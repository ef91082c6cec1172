----------------------------- MODULE AgentProofs -----------------------------
(***************************************************************************)
(* TLAPS proofs about Agent, for any number of cycles, preemptions and     *)
(* faults, with and without replay, in every actuation mode.               *)
(***************************************************************************)
EXTENDS Agent, TLAPS

LEMMA InitInv == Init => IInv
<1> SUFFICES ASSUME Init PROVE IInv
  OBVIOUS
<1> USE ConstantsAssumption DEF ConstantsAssumption, Init
<1>1. TypeOK
  <2>1. mode \in {"off", "dry_run", "live"} /\ phase \in Phase
    BY DEF Phase
  <2>2. snapshot \in {None} /\ last \in {Unknown} /\ faults \in 0 .. MaxFaults
    OBVIOUS
  <2>3. /\ cycle \in {0} /\ advisories \in {0} /\ baseline \in {0}
        /\ running \in SUBSET Investigation /\ stored \in SUBSET Cycle
        /\ todo \in SUBSET Rule
    OBVIOUS
  <2>4. /\ resolution \in [Cycle -> {"none", "effective", "ineffective"}]
        /\ reported \in [Cycle -> Investigation \cup {0}]
        /\ webhook \in [Action -> Nat]
    OBVIOUS
  <2>5. /\ verify \in [Action -> {"none", "sleeping", "improved", "regressed", "done",
                                   "cancelled"}]
        /\ check \in [Cycle -> {"none", "sleeping", "done", "cancelled"}]
    OBVIOUS
  <2> QED BY <2>1, <2>2, <2>3, <2>4, <2>5 DEF TypeOK
<1>2. ChargedOnce /\ ChargesOccurred
  BY DEF ChargedOnce, ChargesOccurred, At, Unknown
<1>3. CyclesApart /\ HealthyBaseline
  BY DEF CyclesApart, HealthyBaseline, Unstored, Incident
<1>4. ActuationSafe /\ FreshActions
  BY DEF ActuationSafe, FreshActions, At
<1>5. InOnePlace /\ ReportedOnce
  BY DEF InOnePlace, ReportedOnce, LastInvestigation, Background, At
<1>6. FreshIncident /\ NoTaskLeft
  BY DEF FreshIncident, Incident, NoTaskLeft, At
<1> QED BY <1>1, <1>2, <1>3, <1>4, <1>5, <1>6 DEF IInv

LEMMA Parity ==
  /\ \A c \in Nat : ~IsBackground(Inline(c)) /\ IsBackground(Background(c))
  /\ \A c \in Cycle : Inline(c) \in Investigation /\ Background(c) \in Investigation
BY ConstantsAssumption
   DEF ConstantsAssumption, IsBackground, Inline, Background, Cycle, Investigation

\* The actions of the rules.
LEMMA Typed ==
  /\ Rule \subseteq Nat
  /\ \A c \in Cycle, r \in Rule : TypeOf[r] \in Allowlist => <<c, TypeOf[r]>> \in Action
BY DEF Rule, TypeOf, Action

\* add proposes no type of action twice.
LEMMA AddedOnce ==
  ASSUME NEW fired \in SUBSET Rule
  PROVE  /\ Added(fired) \in SUBSET Rule
         /\ \A q, r \in Added(fired) : TypeOf[q] = TypeOf[r] => q = r
<1>1. Added(fired) \subseteq fired
  BY DEF Added
<1>2. ASSUME NEW q \in Added(fired), NEW r \in Added(fired), TypeOf[q] = TypeOf[r]
      PROVE  q = r
  <2>1. q \in Nat /\ r \in Nat
    BY <1>1, Typed
  <2>2. ~(q < r) /\ ~(r < q)
    BY <1>1, <1>2 DEF Added
  <2> QED BY <2>1, <2>2
<1> QED BY <1>1, <1>2

-----------------------------------------------------------------------------
(* One lemma for each part of the invariant, and in it one case for each   *)
(* action.                                                                 *)

\* Types.
LEMMA NextType ==
  ASSUME TypeOK, CyclesApart, ChargesOccurred, HealthyBaseline, [Next]_vars
  PROVE  TypeOK'
<1> USE ConstantsAssumption DEF TypeOK, Cycle, Phase, Unguarded, None, Unknown,
    CyclesApart, ConstantsAssumption, At, Goto, Fault, engineVars, loopVars, brainVars,
    replayVars, memoryVars, actionVars, taskVars
<1>1. CASE StartCycle
  BY <1>1 DEF StartCycle
<1>2. CASE Scrape
  BY <1>2 DEF Scrape
<1>3. CASE Detect
  <2>1. last' \in Nat \cup {Unknown} /\ charged' \in Nat
    BY <1>3 DEF Detect, Delta
  <2>2. phase' \in Phase /\ snapshot' = None
    BY <1>3 DEF Detect
  <2> QED BY <1>3, <2>1, <2>2 DEF Detect
<1>4. CASE SaveHealthy
  BY <1>4 DEF SaveHealthy, Report
<1>5. CASE CaptureBaseline
  BY <1>5 DEF CaptureBaseline, Report, Fault
<1>6. CASE LogBaseline
  BY <1>6 DEF LogBaseline, Report
<1>7. CASE StoreIncident
  BY <1>7 DEF StoreIncident
<1>8. CASE Decide
  <2>1. todo' \in SUBSET Rule
    BY <1>8, AddedOnce DEF Decide, Firing, Eligible
  <2>2. running' \in SUBSET Investigation /\ phase' \in Phase
    BY <1>8, Parity DEF Decide, AfterActions
  <2> QED BY <1>8, <2>1, <2>2 DEF Decide
<1>9. CASE Execute
  <2>1. PICK r \in todo : webhook' \in {webhook, [webhook EXCEPT ![ActionOf(r)] = @ + 1]}
    BY <1>9 DEF Execute
  <2>2. webhook' \in [Action -> Nat]
    <3> SUFFICES ASSUME webhook' = [webhook EXCEPT ![ActionOf(r)] = @ + 1]
                 PROVE  webhook' \in [Action -> Nat]
      BY <2>1
    <3>1. \A a \in Action : webhook'[a] \in Nat
      OBVIOUS
    <3> QED BY <3>1
  <2>3. faults' \in 0 .. MaxFaults
    BY <1>9 DEF Execute
  <2>4. outcome' \in {"none", "dry_run", "applied", "rejected", "error"}
    BY <1>9 DEF Execute
  <2> QED BY <1>9, <2>2, <2>3, <2>4 DEF Execute
<1>10. CASE LogExecution
  <2>1. todo' \in SUBSET Rule
    BY <1>10 DEF LogExecution, Executed
  <2>2. verify' \in [Action ->
          {"none", "sleeping", "improved", "regressed", "done", "cancelled"}]
    BY <1>10 DEF LogExecution, Executed
  <2> QED BY <1>10, <2>1, <2>2 DEF LogExecution
<1>11. CASE LogSafeAction
  <2>1. running' \in SUBSET Investigation /\ phase' \in Phase
    BY <1>11, Parity DEF LogSafeAction, AfterActions
  <2> QED BY <1>11, <2>1 DEF LogSafeAction
<1>12. CASE InvestigateInline
  <2>1. advisories' \in Investigation \cup {0}
    BY <1>12, Parity DEF InvestigateInline, Investigated
  <2> QED BY <1>12, <2>1 DEF InvestigateInline, Investigated
<1>13. CASE Validate
  BY <1>13 DEF Validate
<1>14. CASE ConcludeLater
  BY <1>14 DEF ConcludeLater, Report
<1>15. CASE ConcludeNow
  <2>1. resolution' \in [Cycle -> {"none", "effective", "ineffective"}]
    BY <1>15 DEF ConcludeNow, Resolve
  <2>2. faults' \in 0 .. MaxFaults
    BY <1>15 DEF ConcludeNow, Resolve
  <2> QED BY <1>15, <2>1, <2>2 DEF ConcludeNow
<1>16. CASE LogResolution
  BY <1>16 DEF LogResolution, Report
<1>17. CASE AfterYield
  <2>1. running' \in SUBSET Investigation
    BY <1>17, Parity DEF AfterYield
  <2> QED BY <1>17, <2>1 DEF AfterYield
<1>18. CASE Raise
  BY <1>18 DEF Raise, Leave, Unguarded
<1>19. CASE InvestigateBackground
  BY <1>19 DEF InvestigateBackground, Investigated
<1>20. CASE Stop
  BY <1>20 DEF Stop, Leave
<1>21. CASE Shutdown
  BY <1>21 DEF Shutdown, Cancelled, Pending
<1>22. CASE Preempt
  BY <1>22 DEF Preempt
<1>23. CASE RestartEngine
  BY <1>23 DEF RestartEngine
<1>24. ASSUME NEW a \in Action, VerifyScrape(a) PROVE TypeOK'
  <2>1. verify' \in [Action ->
          {"none", "sleeping", "improved", "regressed", "done", "cancelled"}]
    BY <1>24 DEF VerifyScrape
  <2> QED BY <1>24, <2>1 DEF VerifyScrape
<1>25. ASSUME NEW a \in Action, VerifyResolve(a) PROVE TypeOK'
  <2>1. verify' \in [Action ->
          {"none", "sleeping", "improved", "regressed", "done", "cancelled"}]
    BY <1>25 DEF VerifyResolve
  <2>2. resolution' \in [Cycle -> {"none", "effective", "ineffective"}]
    BY <1>25 DEF VerifyResolve, Resolve
  <2>3. faults' \in 0 .. MaxFaults
    BY <1>25 DEF VerifyResolve, Resolve
  <2> QED BY <1>25, <2>1, <2>2, <2>3 DEF VerifyResolve
<1>26. ASSUME NEW c \in Cycle, CheckResolution(c) PROVE TypeOK'
  BY <1>26 DEF CheckResolution, Resolve
<1>27. CASE UNCHANGED vars
  BY <1>27 DEF vars
<1> QED
  BY <1>1, <1>2, <1>3, <1>4, <1>5, <1>6, <1>7, <1>8, <1>9, <1>10, <1>11, <1>12, <1>13,
      <1>14, <1>15, <1>16, <1>17, <1>18, <1>19, <1>20, <1>21, <1>22, <1>23, <1>24, <1>25,
      <1>26, <1>27 DEF Next, MainStep, Verification

\* The charges: only a scrape, a detection and the engine touch them.
LEMMA NextCharges ==
  ASSUME TypeOK, ChargedOnce, ChargesOccurred, [Next]_vars
  PROVE  ChargedOnce' /\ ChargesOccurred'
<1> USE DEF TypeOK, ChargedOnce, ChargesOccurred, At, Goto, None, Unknown, engineVars,
    loopVars, brainVars, replayVars, memoryVars, actionVars, taskVars
<1>1. CASE StartCycle
  BY <1>1 DEF StartCycle
<1>2. CASE Scrape
  BY <1>2 DEF Scrape
<1>3. CASE Detect
  BY <1>3 DEF Detect, Delta, IsAnomaly
<1>4. CASE SaveHealthy
  BY <1>4 DEF SaveHealthy, Report
<1>5. CASE CaptureBaseline
  BY <1>5 DEF CaptureBaseline, Report, Fault
<1>6. CASE LogBaseline
  BY <1>6 DEF LogBaseline, Report
<1>7. CASE StoreIncident
  BY <1>7 DEF StoreIncident
<1>8. CASE Decide
  BY <1>8 DEF Decide, AfterActions
<1>9. CASE Execute
  BY <1>9 DEF Execute
<1>10. CASE LogExecution
  BY <1>10 DEF LogExecution, Executed
<1>11. CASE LogSafeAction
  BY <1>11 DEF LogSafeAction, AfterActions
<1>12. CASE InvestigateInline
  BY <1>12 DEF InvestigateInline, Investigated
<1>13. CASE Validate
  BY <1>13 DEF Validate
<1>14. CASE ConcludeLater
  BY <1>14 DEF ConcludeLater, Report
<1>15. CASE ConcludeNow
  BY <1>15 DEF ConcludeNow, Resolve
<1>16. CASE LogResolution
  BY <1>16 DEF LogResolution, Report
<1>17. CASE AfterYield
  BY <1>17 DEF AfterYield, BackgroundDue
<1>18. CASE Raise
  BY <1>18 DEF Raise, Leave, Unguarded
<1>19. CASE InvestigateBackground
  BY <1>19 DEF InvestigateBackground, Investigated
<1>20. CASE Stop
  BY <1>20 DEF Stop, Leave
<1>21. CASE Shutdown
  BY <1>21 DEF Shutdown, Cancelled, Pending
<1>22. CASE Preempt
  BY <1>22 DEF Preempt
<1>23. CASE RestartEngine
  BY <1>23 DEF RestartEngine
<1>24. ASSUME NEW a \in Action, VerifyScrape(a) PROVE ChargedOnce' /\ ChargesOccurred'
  BY <1>24 DEF VerifyScrape
<1>25. ASSUME NEW a \in Action, VerifyResolve(a) PROVE ChargedOnce' /\ ChargesOccurred'
  BY <1>25 DEF VerifyResolve, Resolve
<1>26. ASSUME NEW c \in Cycle, CheckResolution(c) PROVE ChargedOnce' /\ ChargesOccurred'
  BY <1>26 DEF CheckResolution, Resolve
<1>27. CASE UNCHANGED vars
  BY <1>27 DEF vars
<1> QED
  BY <1>1, <1>2, <1>3, <1>4, <1>5, <1>6, <1>7, <1>8, <1>9, <1>10, <1>11, <1>12, <1>13,
      <1>14, <1>15, <1>16, <1>17, <1>18, <1>19, <1>20, <1>21, <1>22, <1>23, <1>24, <1>25,
      <1>26, <1>27 DEF Next, MainStep, Verification

\* Incidents and the baseline.
LEMMA NextCycles ==
  ASSUME TypeOK, CyclesApart, HealthyBaseline, [Next]_vars
  PROVE  CyclesApart' /\ HealthyBaseline'
<1> USE DEF TypeOK, CyclesApart, HealthyBaseline, Unstored, Incident, Cycle, At, Goto,
    engineVars, loopVars, brainVars, replayVars, memoryVars, actionVars, taskVars
<1>1. CASE StartCycle
  BY <1>1 DEF StartCycle
<1>2. CASE Scrape
  BY <1>2 DEF Scrape
<1>3. CASE Detect
  BY <1>3 DEF Detect, Delta, IsAnomaly
<1>4. CASE SaveHealthy
  BY <1>4 DEF SaveHealthy, Report
<1>5. CASE CaptureBaseline
  BY <1>5 DEF CaptureBaseline, Report, Fault
<1>6. CASE LogBaseline
  BY <1>6 DEF LogBaseline, Report
<1>7. CASE StoreIncident
  BY <1>7 DEF StoreIncident
<1>8. CASE Decide
  BY <1>8 DEF Decide, AfterActions
<1>9. CASE Execute
  BY <1>9 DEF Execute
<1>10. CASE LogExecution
  BY <1>10 DEF LogExecution, Executed
<1>11. CASE LogSafeAction
  BY <1>11 DEF LogSafeAction, AfterActions
<1>12. CASE InvestigateInline
  BY <1>12 DEF InvestigateInline, Investigated
<1>13. CASE Validate
  BY <1>13 DEF Validate
<1>14. CASE ConcludeLater
  BY <1>14 DEF ConcludeLater, Report
<1>15. CASE ConcludeNow
  BY <1>15 DEF ConcludeNow, Resolve
<1>16. CASE LogResolution
  BY <1>16 DEF LogResolution, Report
<1>17. CASE AfterYield
  BY <1>17 DEF AfterYield, BackgroundDue
<1>18. CASE Raise
  BY <1>18 DEF Raise, Leave, Unguarded
<1>19. CASE InvestigateBackground
  BY <1>19 DEF InvestigateBackground, Investigated
<1>20. CASE Stop
  BY <1>20 DEF Stop, Leave
<1>21. CASE Shutdown
  BY <1>21 DEF Shutdown, Cancelled, Pending
<1>22. CASE Preempt
  BY <1>22 DEF Preempt
<1>23. CASE RestartEngine
  BY <1>23 DEF RestartEngine
<1>24. ASSUME NEW a \in Action, VerifyScrape(a) PROVE CyclesApart' /\ HealthyBaseline'
  BY <1>24 DEF VerifyScrape
<1>25. ASSUME NEW a \in Action, VerifyResolve(a) PROVE CyclesApart' /\ HealthyBaseline'
  BY <1>25 DEF VerifyResolve, Resolve
<1>26. ASSUME NEW c \in Cycle, CheckResolution(c) PROVE CyclesApart' /\ HealthyBaseline'
  BY <1>26 DEF CheckResolution, Resolve
<1>27. CASE UNCHANGED vars
  BY <1>27 DEF vars
<1> QED
  BY <1>1, <1>2, <1>3, <1>4, <1>5, <1>6, <1>7, <1>8, <1>9, <1>10, <1>11, <1>12, <1>13,
      <1>14, <1>15, <1>16, <1>17, <1>18, <1>19, <1>20, <1>21, <1>22, <1>23, <1>24, <1>25,
      <1>26, <1>27 DEF Next, MainStep, Verification

\* Without actions to execute there is nothing to show of them.
LEMMA Idle ==
  ASSUME TypeOK, ActuationSafe, FreshActions, todo' = {}, outcome' = "none",
         phase' \notin {"save_incident", "execute", "log_execution"},
         UNCHANGED webhook, stored \subseteq stored', UNCHANGED mode,
         \A a \in Action : verify'[a] # "none" => verify[a] # "none"
  PROVE  ActuationSafe' /\ FreshActions'
<1>1. ActuationSafe'
  BY DEF ActuationSafe
<1>2. FreshActions'
  BY DEF FreshActions, At
<1> QED BY <1>1, <1>2

\* A task that ends starts no action and no verification.
LEMMA Same ==
  ASSUME TypeOK, CyclesApart, ActuationSafe, FreshActions,
         UNCHANGED <<phase, mode, todo, outcome, webhook, stored, cycle>>,
         \A a \in Action : verify[a] = "none" => verify'[a] = "none",
         \A a \in Action : verify'[a] = "none" => verify[a] = "none"
  PROVE  ActuationSafe' /\ FreshActions'
<1>1. ActuationSafe'
  BY DEF ActuationSafe
<1>2. \A r \in todo : ActionOf(r)' = ActionOf(r)
  BY DEF ActionOf
<1>3. \A r \in todo : ActionOf(r) \in Action
  <2>1. todo # {} => cycle \in Cycle
    BY DEF FreshActions, Acting, CyclesApart, TypeOK
  <2> QED BY <2>1, Typed DEF FreshActions, ActionOf, TypeOK
<1>4. FreshActions'
  BY <1>2, <1>3 DEF FreshActions, At
<1> QED BY <1>1, <1>4

\* Actions and their verification.
LEMMA NextActuation ==
  ASSUME TypeOK, CyclesApart, ActuationSafe, FreshActions, [Next]_vars
  PROVE  ActuationSafe' /\ FreshActions'
<1> USE DEF At, Goto, Acting, engineVars, loopVars, brainVars, replayVars, memoryVars,
    actionVars, taskVars
<1>1. CASE StartCycle
  <2>1. todo' = {} /\ outcome' = "none"
    BY <1>1 DEF StartCycle, FreshActions, Unguarded
  <2>2. phase' \notin {"save_incident", "execute", "log_execution"}
    BY <1>1 DEF StartCycle
  <2>3. UNCHANGED webhook /\ stored \subseteq stored' /\ UNCHANGED mode
    BY <1>1 DEF StartCycle
  <2>4. \A a \in Action : verify'[a] # "none" => verify[a] # "none"
    BY <1>1 DEF StartCycle
  <2> QED BY <2>1, <2>2, <2>3, <2>4, Idle
<1>2. CASE Scrape
  <2>1. todo' = {} /\ outcome' = "none"
    BY <1>2 DEF Scrape, Fault, FreshActions, Unguarded
  <2>2. phase' \notin {"save_incident", "execute", "log_execution"}
    BY <1>2 DEF Scrape, Fault
  <2>3. UNCHANGED webhook /\ stored \subseteq stored' /\ UNCHANGED mode
    BY <1>2 DEF Scrape, Fault
  <2>4. \A a \in Action : verify'[a] # "none" => verify[a] # "none"
    BY <1>2 DEF Scrape, Fault
  <2> QED BY <2>1, <2>2, <2>3, <2>4, Idle
<1>3. CASE Detect
  <2>1. todo' = {} /\ outcome' = "none"
    BY <1>3 DEF Detect, FreshActions, Unguarded
  <2>2. phase' \notin {"save_incident", "execute", "log_execution"}
    BY <1>3 DEF Detect
  <2>3. UNCHANGED webhook /\ stored \subseteq stored' /\ UNCHANGED mode
    BY <1>3 DEF Detect
  <2>4. \A a \in Action : verify'[a] # "none" => verify[a] # "none"
    BY <1>3 DEF Detect
  <2> QED BY <2>1, <2>2, <2>3, <2>4, Idle
<1>4. CASE SaveHealthy
  <2>1. todo' = {} /\ outcome' = "none"
    BY <1>4 DEF SaveHealthy, Report, FreshActions, Unguarded
  <2>2. phase' \notin {"save_incident", "execute", "log_execution"}
    BY <1>4 DEF SaveHealthy, Report
  <2>3. UNCHANGED webhook /\ stored \subseteq stored' /\ UNCHANGED mode
    BY <1>4 DEF SaveHealthy, Report
  <2>4. \A a \in Action : verify'[a] # "none" => verify[a] # "none"
    BY <1>4 DEF SaveHealthy, Report
  <2> QED BY <2>1, <2>2, <2>3, <2>4, Idle
<1>5. CASE CaptureBaseline
  <2>1. todo' = {} /\ outcome' = "none"
    BY <1>5 DEF CaptureBaseline, Report, Fault, FreshActions, Unguarded
  <2>2. phase' \notin {"save_incident", "execute", "log_execution"}
    BY <1>5 DEF CaptureBaseline, Report, Fault
  <2>3. UNCHANGED webhook /\ stored \subseteq stored' /\ UNCHANGED mode
    BY <1>5 DEF CaptureBaseline, Report, Fault
  <2>4. \A a \in Action : verify'[a] # "none" => verify[a] # "none"
    BY <1>5 DEF CaptureBaseline, Report, Fault
  <2> QED BY <2>1, <2>2, <2>3, <2>4, Idle
<1>6. CASE LogBaseline
  <2>1. todo' = {} /\ outcome' = "none"
    BY <1>6 DEF LogBaseline, Report, FreshActions, Unguarded
  <2>2. phase' \notin {"save_incident", "execute", "log_execution"}
    BY <1>6 DEF LogBaseline, Report
  <2>3. UNCHANGED webhook /\ stored \subseteq stored' /\ UNCHANGED mode
    BY <1>6 DEF LogBaseline, Report
  <2>4. \A a \in Action : verify'[a] # "none" => verify[a] # "none"
    BY <1>6 DEF LogBaseline, Report
  <2> QED BY <2>1, <2>2, <2>3, <2>4, Idle
<1>7. CASE StoreIncident
  <2>1. ActuationSafe'
    BY <1>7 DEF StoreIncident, ActuationSafe
  <2>2. todo' = {} /\ outcome' = "none" /\ phase' = "save_incident"
    BY <1>7 DEF StoreIncident, FreshActions
  <2>3. cycle' = cycle /\ webhook' = webhook /\ cycle \notin stored
    BY <1>7 DEF StoreIncident, CyclesApart, Unstored
  <2>4. \A a \in Action : a[1] = cycle => webhook[a] = 0
    BY <2>3 DEF ActuationSafe, TypeOK
  <2> QED BY <2>1, <2>2, <2>3, <2>4 DEF FreshActions
<1>8. CASE Decide
  <2>1. PICK fired \in Firing : todo' = Eligible(Added(fired))
    BY <1>8 DEF Decide
  <2>2. /\ todo' \subseteq Added(fired) /\ todo' \in SUBSET Rule
        /\ \A q, r \in todo' : TypeOf[q] = TypeOf[r] => q = r
    BY <2>1, AddedOnce DEF Firing, Eligible
  <2>3. \A r \in todo' : mode # "off" /\ TypeOf[r] \in Allowlist
    BY <2>1 DEF Eligible
  <2>4. UNCHANGED <<mode, outcome, webhook, verify, stored, cycle>>
    BY <1>8 DEF Decide
  <2>5. outcome' = "none" /\ phase' \notin {"save_incident", "log_execution"}
    BY <1>8, <2>4 DEF Decide, AfterActions, FreshActions
  <2>6. \A r \in todo' : webhook[ActionOf(r)] = 0
    <3>1. cycle \in Cycle /\ At("save_incident")
      BY <1>8 DEF Decide, CyclesApart, TypeOK
    <3> QED BY <2>2, <2>3, <3>1, Typed DEF FreshActions, ActionOf
  <2>7. phase' = "execute" => todo' # {}
    BY <1>8 DEF Decide, AfterActions
  <2>8. todo' # {} => phase' \in Acting
    <3>1. fired = {} => todo' = {}
      BY <2>1 DEF Eligible, Added
    <3>2. CASE fired # {}
      <4> QED BY <1>8 DEF Decide, Eligible, Added
    <3> QED BY <3>1, <3>2
  <2>9. ActuationSafe'
    BY <2>4 DEF ActuationSafe
  <2> QED BY <2>2, <2>3, <2>4, <2>5, <2>6, <2>7, <2>8, <2>9 DEF FreshActions, ActionOf
<1>9. CASE Execute
  <2>1. PICK r \in todo :
          /\ IsFirst(r, todo)
          /\ \/ webhook' = webhook /\ outcome' # "applied"
             \/ /\ webhook' = [webhook EXCEPT ![ActionOf(r)] = @ + 1]
                /\ mode = "live"
    BY <1>9 DEF Execute
  <2>2. /\ UNCHANGED <<mode, todo, verify, stored, cycle>>
        /\ phase = "execute" /\ phase' = "log_execution"
    BY <1>9 DEF Execute
  <2>3. cycle \in Cycle /\ cycle \in stored
    BY <2>2 DEF CyclesApart, TypeOK, Incident
  <2>4. \A q \in todo : q \in Rule /\ ActionOf(q) \in Action /\ ActionOf(q)[1] = cycle
    BY <2>3, Typed DEF FreshActions, TypeOK, ActionOf
  <2>5. \A q \in todo : q # r => ActionOf(q) # ActionOf(r)
    <3>1. \A q \in todo : q # r => TypeOf[q] # TypeOf[r]
      BY DEF FreshActions
    <3> QED BY <3>1 DEF ActionOf
  <2>6. \A q \in todo : IsFirst(q, todo) => q = r
    <3>1. \A q \in todo : q \in Nat
      BY <2>4, Typed
    <3>2. r \in Nat /\ \A q \in todo : r <= q
      BY <2>1, <3>1 DEF IsFirst
    <3> QED BY <3>1, <3>2 DEF IsFirst
  <2>7. \A q \in todo : webhook[ActionOf(q)] = 0 /\ ActionOf(q)' = ActionOf(q)
    BY <2>2 DEF FreshActions, ActionOf
  <2>8. verify[ActionOf(r)] = "none"
    BY <2>1, <2>4, <2>7 DEF ActuationSafe, TypeOK
  <2>9. \A a \in Action : webhook'[a] = webhook[a] \/ (a = ActionOf(r) /\ mode = "live"
                                                       /\ webhook'[a] = webhook[a] + 1)
    BY <2>1 DEF TypeOK
  <2>10. ActuationSafe'
    BY <2>2, <2>3, <2>4, <2>9 DEF ActuationSafe, TypeOK
  <2>11. outcome' = "applied" => webhook'[ActionOf(r)] > 0
    BY <2>1, <2>4, <2>7 DEF TypeOK
  <2>12. \A q \in todo : q # r => webhook'[ActionOf(q)] = 0
    BY <2>4, <2>5, <2>7, <2>9
  <2>13. \A a \in Action : webhook'[a] <= 1
    BY <2>1, <2>7, <2>9 DEF FreshActions
  <2>14. \A q \in todo :
           IF IsFirst(q, todo)
           THEN verify[ActionOf(q)] = "none"
                /\ (outcome' = "applied" => webhook'[ActionOf(q)] > 0)
           ELSE webhook'[ActionOf(q)] = 0
    BY <2>1, <2>6, <2>8, <2>11, <2>12
  <2>15. todo # {} /\ \A q \in todo : mode # "off" /\ TypeOf[q] \in Allowlist
    BY DEF FreshActions
  <2>16. \A p, q \in todo : TypeOf[p] = TypeOf[q] => p = q
    BY DEF FreshActions
  <2>17. FreshActions'
    BY <2>2, <2>7, <2>13, <2>14, <2>15, <2>16 DEF FreshActions, IsFirst
  <2> QED BY <2>10, <2>17
<1>10. CASE LogExecution
  <2>1. PICK r \in todo : Executed(r, outcome = "applied")
    BY <1>10 DEF LogExecution
  <2>2. /\ UNCHANGED <<mode, webhook, stored, cycle>> /\ outcome' = "none"
        /\ phase = "log_execution" /\ phase' = "log_safe_action"
    BY <1>10 DEF LogExecution
  <2>3. IsFirst(r, todo) /\ todo' = todo \ {r}
    BY <2>1 DEF Executed
  <2>4. \A q \in todo' : ~IsFirst(q, todo)
    BY <2>3, Typed DEF IsFirst, TypeOK
  <2>5. \A q \in todo' : webhook[ActionOf(q)] = 0 /\ ActionOf(q)' = ActionOf(q)
    BY <2>2, <2>3, <2>4 DEF FreshActions, ActionOf
  <2>6. outcome = "applied" => webhook[ActionOf(r)] > 0
    BY <2>2, <2>3 DEF FreshActions
  <2>7. \A a \in Action : verify'[a] # "none" =>
          verify[a] # "none" \/ (a = ActionOf(r) /\ outcome = "applied")
    BY <2>1 DEF Executed, TypeOK
  <2>8. ActuationSafe'
    BY <2>2, <2>6, <2>7 DEF ActuationSafe
  <2> QED BY <2>2, <2>3, <2>5, <2>8 DEF FreshActions
<1>11. CASE LogSafeAction
  <2>1. /\ UNCHANGED <<mode, todo, outcome, webhook, verify, stored, cycle>>
        /\ phase = "log_safe_action"
    BY <1>11 DEF LogSafeAction
  <2>2. \/ todo # {} /\ phase' = "execute"
        \/ todo = {} /\ phase' \in {"investigate", "validate"}
    BY <1>11 DEF LogSafeAction, AfterActions
  <2>3. ActuationSafe'
    BY <2>1 DEF ActuationSafe
  <2> QED BY <2>1, <2>2, <2>3 DEF FreshActions, ActionOf
<1>12. CASE InvestigateInline
  <2>1. todo' = {} /\ outcome' = "none"
    BY <1>12 DEF InvestigateInline, Investigated, FreshActions, Unguarded
  <2>2. phase' \notin {"save_incident", "execute", "log_execution"}
    BY <1>12 DEF InvestigateInline, Investigated
  <2>3. UNCHANGED webhook /\ stored \subseteq stored' /\ UNCHANGED mode
    BY <1>12 DEF InvestigateInline, Investigated
  <2>4. \A a \in Action : verify'[a] # "none" => verify[a] # "none"
    BY <1>12 DEF InvestigateInline, Investigated
  <2> QED BY <2>1, <2>2, <2>3, <2>4, Idle
<1>13. CASE Validate
  <2>1. todo' = {} /\ outcome' = "none"
    BY <1>13 DEF Validate, FreshActions, Unguarded
  <2>2. phase' \notin {"save_incident", "execute", "log_execution"}
    BY <1>13 DEF Validate
  <2>3. UNCHANGED webhook /\ stored \subseteq stored' /\ UNCHANGED mode
    BY <1>13 DEF Validate
  <2>4. \A a \in Action : verify'[a] # "none" => verify[a] # "none"
    BY <1>13 DEF Validate
  <2> QED BY <2>1, <2>2, <2>3, <2>4, Idle
<1>14. CASE ConcludeLater
  <2>1. todo' = {} /\ outcome' = "none"
    BY <1>14 DEF ConcludeLater, Report, FreshActions, Unguarded
  <2>2. phase' \notin {"save_incident", "execute", "log_execution"}
    BY <1>14 DEF ConcludeLater, Report
  <2>3. UNCHANGED webhook /\ stored \subseteq stored' /\ UNCHANGED mode
    BY <1>14 DEF ConcludeLater, Report
  <2>4. \A a \in Action : verify'[a] # "none" => verify[a] # "none"
    BY <1>14 DEF ConcludeLater, Report
  <2> QED BY <2>1, <2>2, <2>3, <2>4, Idle
<1>15. CASE ConcludeNow
  <2>1. todo' = {} /\ outcome' = "none"
    BY <1>15 DEF ConcludeNow, FreshActions, Unguarded
  <2>2. phase' \notin {"save_incident", "execute", "log_execution"}
    BY <1>15 DEF ConcludeNow
  <2>3. UNCHANGED webhook /\ stored \subseteq stored' /\ UNCHANGED mode
    BY <1>15 DEF ConcludeNow
  <2>4. \A a \in Action : verify'[a] # "none" => verify[a] # "none"
    BY <1>15 DEF ConcludeNow
  <2> QED BY <2>1, <2>2, <2>3, <2>4, Idle
<1>16. CASE LogResolution
  <2>1. todo' = {} /\ outcome' = "none"
    BY <1>16 DEF LogResolution, Report, FreshActions, Unguarded
  <2>2. phase' \notin {"save_incident", "execute", "log_execution"}
    BY <1>16 DEF LogResolution, Report
  <2>3. UNCHANGED webhook /\ stored \subseteq stored' /\ UNCHANGED mode
    BY <1>16 DEF LogResolution, Report
  <2>4. \A a \in Action : verify'[a] # "none" => verify[a] # "none"
    BY <1>16 DEF LogResolution, Report
  <2> QED BY <2>1, <2>2, <2>3, <2>4, Idle
<1>17. CASE AfterYield
  <2>1. todo' = {} /\ outcome' = "none"
    BY <1>17 DEF AfterYield, FreshActions, Unguarded
  <2>2. phase' \notin {"save_incident", "execute", "log_execution"}
    BY <1>17 DEF AfterYield
  <2>3. UNCHANGED webhook /\ stored \subseteq stored' /\ UNCHANGED mode
    BY <1>17 DEF AfterYield
  <2>4. \A a \in Action : verify'[a] # "none" => verify[a] # "none"
    BY <1>17 DEF AfterYield
  <2> QED BY <2>1, <2>2, <2>3, <2>4, Idle
<1>18. CASE Raise
  <2>1. todo' = {} /\ outcome' = "none"
    BY <1>18 DEF Raise, Leave, FreshActions, Unguarded
  <2>2. phase' \notin {"save_incident", "execute", "log_execution"}
    BY <1>18 DEF Raise, Leave
  <2>3. UNCHANGED webhook /\ stored \subseteq stored' /\ UNCHANGED mode
    BY <1>18 DEF Raise, Leave
  <2>4. \A a \in Action : verify'[a] # "none" => verify[a] # "none"
    BY <1>18 DEF Raise, Leave
  <2> QED BY <2>1, <2>2, <2>3, <2>4, Idle
<1>19. CASE InvestigateBackground
  <2>1. UNCHANGED <<phase, mode, todo, outcome, webhook, stored, cycle>>
    BY <1>19 DEF InvestigateBackground
  <2>2. \A b \in Action : verify[b] = "none" => verify'[b] = "none"
    BY <1>19 DEF InvestigateBackground, TypeOK
  <2>3. \A b \in Action : verify'[b] = "none" => verify[b] = "none"
    BY <1>19 DEF InvestigateBackground, TypeOK
  <2> QED BY <2>1, <2>2, <2>3, Same
<1>20. CASE Stop
  <2>1. todo' = {} /\ outcome' = "none"
    BY <1>20 DEF Stop, Leave, FreshActions, Unguarded
  <2>2. phase' \notin {"save_incident", "execute", "log_execution"}
    BY <1>20 DEF Stop, Leave
  <2>3. UNCHANGED webhook /\ stored \subseteq stored' /\ UNCHANGED mode
    BY <1>20 DEF Stop, Leave
  <2>4. \A a \in Action : verify'[a] # "none" => verify[a] # "none"
    BY <1>20 DEF Stop, Leave
  <2> QED BY <2>1, <2>2, <2>3, <2>4, Idle
<1>21. CASE Shutdown
  <2>1. todo' = {} /\ outcome' = "none"
    BY <1>21 DEF Shutdown, FreshActions, Unguarded
  <2>2. phase' \notin {"save_incident", "execute", "log_execution"}
    BY <1>21 DEF Shutdown
  <2>3. UNCHANGED webhook /\ stored \subseteq stored' /\ UNCHANGED mode
    BY <1>21 DEF Shutdown
  <2>4. \A a \in Action : verify'[a] # "none" => verify[a] # "none"
    BY <1>21 DEF Shutdown, Cancelled, Pending, TypeOK
  <2> QED BY <2>1, <2>2, <2>3, <2>4, Idle
<1>22. CASE Preempt
  <2>1. todo' = {} /\ outcome' = "none"
    BY <1>22 DEF Preempt, FreshActions, Unguarded
  <2>2. phase' \notin {"save_incident", "execute", "log_execution"}
    BY <1>22 DEF Preempt
  <2>3. UNCHANGED webhook /\ stored \subseteq stored' /\ UNCHANGED mode
    BY <1>22 DEF Preempt
  <2>4. \A a \in Action : verify'[a] # "none" => verify[a] # "none"
    BY <1>22 DEF Preempt
  <2> QED BY <2>1, <2>2, <2>3, <2>4, Idle
<1>23. CASE RestartEngine
  <2>1. todo' = {} /\ outcome' = "none"
    BY <1>23 DEF RestartEngine, FreshActions, Unguarded
  <2>2. phase' \notin {"save_incident", "execute", "log_execution"}
    BY <1>23 DEF RestartEngine
  <2>3. UNCHANGED webhook /\ stored \subseteq stored' /\ UNCHANGED mode
    BY <1>23 DEF RestartEngine
  <2>4. \A a \in Action : verify'[a] # "none" => verify[a] # "none"
    BY <1>23 DEF RestartEngine
  <2> QED BY <2>1, <2>2, <2>3, <2>4, Idle
<1>24. ASSUME NEW a \in Action, VerifyScrape(a) PROVE ActuationSafe' /\ FreshActions'
  <2>1. UNCHANGED <<phase, mode, todo, outcome, webhook, stored, cycle>>
    BY <1>24 DEF VerifyScrape
  <2>2. \A b \in Action : verify[b] = "none" => verify'[b] = "none"
    BY <1>24 DEF VerifyScrape, TypeOK
  <2>3. \A b \in Action : verify'[b] = "none" => verify[b] = "none"
    BY <1>24 DEF VerifyScrape, TypeOK
  <2> QED BY <2>1, <2>2, <2>3, Same
<1>25. ASSUME NEW a \in Action, VerifyResolve(a) PROVE ActuationSafe' /\ FreshActions'
  <2>1. UNCHANGED <<phase, mode, todo, outcome, webhook, stored, cycle>>
    BY <1>25 DEF VerifyResolve
  <2>2. \A b \in Action : verify[b] = "none" => verify'[b] = "none"
    BY <1>25 DEF VerifyResolve, TypeOK
  <2>3. \A b \in Action : verify'[b] = "none" => verify[b] = "none"
    BY <1>25 DEF VerifyResolve, TypeOK
  <2> QED BY <2>1, <2>2, <2>3, Same
<1>26. ASSUME NEW c \in Cycle, CheckResolution(c) PROVE ActuationSafe' /\ FreshActions'
  <2>1. UNCHANGED <<phase, mode, todo, outcome, webhook, stored, cycle>>
    BY <1>26 DEF CheckResolution
  <2>2. \A b \in Action : verify[b] = "none" => verify'[b] = "none"
    BY <1>26 DEF CheckResolution, TypeOK
  <2>3. \A b \in Action : verify'[b] = "none" => verify[b] = "none"
    BY <1>26 DEF CheckResolution, TypeOK
  <2> QED BY <2>1, <2>2, <2>3, Same
<1>27. CASE UNCHANGED vars
  BY <1>27, Same DEF vars
<1> QED
  BY <1>1, <1>2, <1>3, <1>4, <1>5, <1>6, <1>7, <1>8, <1>9, <1>10, <1>11, <1>12, <1>13,
      <1>14, <1>15, <1>16, <1>17, <1>18, <1>19, <1>20, <1>21, <1>22, <1>23, <1>24, <1>25,
      <1>26, <1>27 DEF Next, MainStep, Verification

\* An investigation that begins inline is newer than any there has been.
LEMMA Began ==
  ASSUME TypeOK, CyclesApart, InOnePlace, ReportedOnce,
         phase \in {"save_incident", "log_safe_action"}, AfterActions,
         UNCHANGED <<cycle, advisories, reported>>
  PROVE  InOnePlace' /\ ReportedOnce'
<1>0. /\ cycle \in Cycle /\ running \in SUBSET Investigation
      /\ advisories \in Investigation \cup {0}
      /\ reported \in [Cycle -> Investigation \cup {0}]
  BY DEF TypeOK, CyclesApart
<1> USE <1>0 DEF InOnePlace, ReportedOnce, LastInvestigation, Inline, Background,
    Investigation, Cycle, At, Goto
<1>1. CASE Goto("validate") /\ UNCHANGED running
  BY <1>1
<1>2. CASE Goto("investigate") /\ running' = running \cup {Inline(cycle)}
  <2>1. LastInvestigation = Inline(cycle) - 1 /\ LastInvestigation' = Inline(cycle)
    BY <1>2
  <2> QED BY <1>2, <2>1
<1> QED BY <1>1, <1>2 DEF AfterActions

\* Advisories and reports.
LEMMA NextReports ==
  ASSUME TypeOK, CyclesApart, InOnePlace, ReportedOnce, [Next]_vars
  PROVE  InOnePlace' /\ ReportedOnce'
<1>0. /\ phase \in Phase /\ cycle \in Cycle \cup {0}
      /\ running \in SUBSET Investigation /\ advisories \in Investigation \cup {0}
      /\ reported \in [Cycle -> Investigation \cup {0}] /\ baseline \in Cycle \cup {0}
  BY DEF TypeOK
<1> USE <1>0 DEF CyclesApart, InOnePlace, ReportedOnce, LastInvestigation, Inline,
    Background, Investigation, Cycle, Phase, Unguarded, At, Goto, engineVars, loopVars,
    brainVars, replayVars, memoryVars, actionVars, taskVars
<1>1. CASE StartCycle
  BY <1>1 DEF StartCycle
<1>2. CASE Scrape
  BY <1>2 DEF Scrape
<1>3. CASE Detect
  BY <1>3 DEF Detect, Delta, IsAnomaly
<1>4. CASE SaveHealthy
  <2>1. CASE Report
    BY <1>4, <2>1 DEF SaveHealthy, Report
  <2>2. CASE Goto("capture") /\ UNCHANGED <<advisories, reported>>
    BY <1>4, <2>2 DEF SaveHealthy
  <2> QED BY <1>4, <2>1, <2>2 DEF SaveHealthy
<1>5. CASE CaptureBaseline
  <2>1. CASE Report
    BY <1>5, <2>1 DEF CaptureBaseline, Report
  <2>2. CASE Goto("log_baseline") /\ UNCHANGED <<advisories, reported>>
    BY <1>5, <2>2 DEF CaptureBaseline
  <2> QED BY <1>5, <2>1, <2>2 DEF CaptureBaseline
<1>6. CASE LogBaseline
  BY <1>6 DEF LogBaseline, Report
<1>7. CASE StoreIncident
  BY <1>7 DEF StoreIncident
<1>8. CASE Decide
  <2>1. phase = "save_incident" /\ UNCHANGED <<cycle, advisories, reported>>
    BY <1>8 DEF Decide
  <2>2. CASE phase' \in {"execute", "log_safe_action"} /\ UNCHANGED running
    BY <2>1, <2>2
  <2>3. CASE AfterActions
    BY <2>1, <2>3, Began
  <2> QED BY <1>8, <2>2, <2>3 DEF Decide
<1>9. CASE Execute
  BY <1>9 DEF Execute
<1>10. CASE LogExecution
  BY <1>10 DEF LogExecution, Executed
<1>11. CASE LogSafeAction
  <2>1. phase = "log_safe_action" /\ UNCHANGED <<cycle, advisories, reported>>
    BY <1>11 DEF LogSafeAction
  <2>2. CASE phase' = "execute" /\ UNCHANGED running
    BY <2>1, <2>2
  <2>3. CASE AfterActions
    BY <2>1, <2>3, Began
  <2> QED BY <1>11, <2>2, <2>3 DEF LogSafeAction
<1>12. CASE InvestigateInline
  <2>1. phase' = "validate" /\ phase = "investigate" /\ UNCHANGED <<cycle, reported>>
    BY <1>12 DEF InvestigateInline
  <2>2. LastInvestigation = Inline(cycle) /\ LastInvestigation' = Inline(cycle)
    BY <2>1
  <2>3. running' = running \ {Inline(cycle)}
    BY <1>12 DEF InvestigateInline, Investigated
  <2>4. advisories' = Inline(cycle) \/ advisories' = 0 \/ advisories' = advisories
    BY <1>12 DEF InvestigateInline, Investigated
  <2>5. advisories' = Inline(cycle) => Inline(cycle) \in running
    BY <1>12 DEF InvestigateInline, Investigated
  <2> QED BY <2>1, <2>2, <2>3, <2>4, <2>5
<1>13. CASE Validate
  BY <1>13 DEF Validate
<1>14. CASE ConcludeLater
  BY <1>14 DEF ConcludeLater, Report
<1>15. CASE ConcludeNow
  BY <1>15 DEF ConcludeNow, Resolve
<1>16. CASE LogResolution
  BY <1>16 DEF LogResolution, Report
<1>17. CASE AfterYield
  BY <1>17 DEF AfterYield, BackgroundDue
<1>18. CASE Raise
  BY <1>18 DEF Raise, Leave, Unguarded
<1>19. CASE InvestigateBackground
  <2>1. PICK i \in running : IsBackground(i) /\ Investigated(i)
    BY <1>19 DEF InvestigateBackground
  <2>2. UNCHANGED <<phase, cycle, reported>>
    BY <1>19 DEF InvestigateBackground
  <2>3. LastInvestigation' = LastInvestigation
    BY <2>2
  <2>4. i # Inline(cycle)
    <3> cycle \in Nat
      OBVIOUS
    <3> HIDE DEF Inline
    <3>1. ~IsBackground(Inline(cycle))
      BY Parity
    <3> QED BY <2>1, <3>1
  <2>5. running' = running \ {i} /\ (advisories' = i \/ advisories' = 0)
    BY <2>1 DEF Investigated
  <2> QED BY <2>1, <2>2, <2>3, <2>4, <2>5
<1>20. CASE Stop
  BY <1>20 DEF Stop, Leave
<1>21. CASE Shutdown
  BY <1>21 DEF Shutdown, Cancelled, Pending
<1>22. CASE Preempt
  BY <1>22 DEF Preempt
<1>23. CASE RestartEngine
  BY <1>23 DEF RestartEngine
<1>24. ASSUME NEW a \in Action, VerifyScrape(a) PROVE InOnePlace' /\ ReportedOnce'
  BY <1>24 DEF VerifyScrape
<1>25. ASSUME NEW a \in Action, VerifyResolve(a) PROVE InOnePlace' /\ ReportedOnce'
  BY <1>25 DEF VerifyResolve, Resolve
<1>26. ASSUME NEW c \in Cycle, CheckResolution(c) PROVE InOnePlace' /\ ReportedOnce'
  BY <1>26 DEF CheckResolution, Resolve
<1>27. CASE UNCHANGED vars
  BY <1>27 DEF vars
<1> QED
  BY <1>1, <1>2, <1>3, <1>4, <1>5, <1>6, <1>7, <1>8, <1>9, <1>10, <1>11, <1>12, <1>13,
      <1>14, <1>15, <1>16, <1>17, <1>18, <1>19, <1>20, <1>21, <1>22, <1>23, <1>24, <1>25,
      <1>26, <1>27 DEF Next, MainStep, Verification

\* What has been done about the incident of the cycle.
LEMMA NextFresh ==
  ASSUME TypeOK, CyclesApart, FreshIncident, [Next]_vars
  PROVE  FreshIncident'
<1> USE DEF TypeOK, CyclesApart, FreshIncident, Unstored, Incident, Cycle, At, Goto, engineVars, loopVars, brainVars, replayVars, memoryVars,
    actionVars, taskVars
<1>1. CASE StartCycle
  BY <1>1 DEF StartCycle
<1>2. CASE Scrape
  BY <1>2 DEF Scrape
<1>3. CASE Detect
  BY <1>3 DEF Detect, Delta, IsAnomaly
<1>4. CASE SaveHealthy
  BY <1>4 DEF SaveHealthy, Report
<1>5. CASE CaptureBaseline
  BY <1>5 DEF CaptureBaseline, Report, Fault
<1>6. CASE LogBaseline
  BY <1>6 DEF LogBaseline, Report
<1>7. CASE StoreIncident
  BY <1>7 DEF StoreIncident
<1>8. CASE Decide
  BY <1>8 DEF Decide, AfterActions
<1>9. CASE Execute
  BY <1>9 DEF Execute
<1>10. CASE LogExecution
  BY <1>10 DEF LogExecution, Executed
<1>11. CASE LogSafeAction
  BY <1>11 DEF LogSafeAction, AfterActions
<1>12. CASE InvestigateInline
  BY <1>12 DEF InvestigateInline, Investigated
<1>13. CASE Validate
  BY <1>13 DEF Validate
<1>14. CASE ConcludeLater
  BY <1>14 DEF ConcludeLater, Report
<1>15. CASE ConcludeNow
  BY <1>15 DEF ConcludeNow, Resolve
<1>16. CASE LogResolution
  BY <1>16 DEF LogResolution, Report
<1>17. CASE AfterYield
  BY <1>17 DEF AfterYield, BackgroundDue
<1>18. CASE Raise
  BY <1>18 DEF Raise, Leave, Unguarded
<1>19. CASE InvestigateBackground
  BY <1>19 DEF InvestigateBackground, Investigated
<1>20. CASE Stop
  BY <1>20 DEF Stop, Leave
<1>21. CASE Shutdown
  BY <1>21 DEF Shutdown, Cancelled, Pending
<1>22. CASE Preempt
  BY <1>22 DEF Preempt
<1>23. CASE RestartEngine
  BY <1>23 DEF RestartEngine
<1>24. ASSUME NEW a \in Action, VerifyScrape(a) PROVE FreshIncident'
  BY <1>24 DEF VerifyScrape
<1>25. ASSUME NEW a \in Action, VerifyResolve(a) PROVE FreshIncident'
  BY <1>25 DEF VerifyResolve, Resolve
<1>26. ASSUME NEW c \in Cycle, CheckResolution(c) PROVE FreshIncident'
  BY <1>26 DEF CheckResolution, Resolve
<1>27. CASE UNCHANGED vars
  BY <1>27 DEF vars
<1> QED
  BY <1>1, <1>2, <1>3, <1>4, <1>5, <1>6, <1>7, <1>8, <1>9, <1>10, <1>11, <1>12, <1>13,
      <1>14, <1>15, <1>16, <1>17, <1>18, <1>19, <1>20, <1>21, <1>22, <1>23, <1>24, <1>25,
      <1>26, <1>27 DEF Next, MainStep, Verification

\* Tasks after shutdown.
LEMMA NextTasks ==
  ASSUME TypeOK, NoTaskLeft, [Next]_vars
  PROVE  NoTaskLeft'
<1> USE DEF TypeOK, NoTaskLeft, Pending, At, Goto, engineVars, loopVars, brainVars,
    replayVars, memoryVars, actionVars, taskVars
<1>1. CASE StartCycle
  BY <1>1 DEF StartCycle
<1>2. CASE Scrape
  BY <1>2 DEF Scrape
<1>3. CASE Detect
  BY <1>3 DEF Detect, Delta, IsAnomaly
<1>4. CASE SaveHealthy
  BY <1>4 DEF SaveHealthy, Report
<1>5. CASE CaptureBaseline
  BY <1>5 DEF CaptureBaseline, Report, Fault
<1>6. CASE LogBaseline
  BY <1>6 DEF LogBaseline, Report
<1>7. CASE StoreIncident
  BY <1>7 DEF StoreIncident
<1>8. CASE Decide
  BY <1>8 DEF Decide, AfterActions
<1>9. CASE Execute
  BY <1>9 DEF Execute
<1>10. CASE LogExecution
  BY <1>10 DEF LogExecution, Executed
<1>11. CASE LogSafeAction
  BY <1>11 DEF LogSafeAction, AfterActions
<1>12. CASE InvestigateInline
  BY <1>12 DEF InvestigateInline, Investigated
<1>13. CASE Validate
  BY <1>13 DEF Validate
<1>14. CASE ConcludeLater
  BY <1>14 DEF ConcludeLater, Report
<1>15. CASE ConcludeNow
  BY <1>15 DEF ConcludeNow, Resolve
<1>16. CASE LogResolution
  BY <1>16 DEF LogResolution, Report
<1>17. CASE AfterYield
  BY <1>17 DEF AfterYield, BackgroundDue
<1>18. CASE Raise
  BY <1>18 DEF Raise, Leave, Unguarded
<1>19. CASE InvestigateBackground
  BY <1>19 DEF InvestigateBackground, Investigated
<1>20. CASE Stop
  BY <1>20 DEF Stop, Leave
<1>21. CASE Shutdown
  BY <1>21 DEF Shutdown, Cancelled, Pending
<1>22. CASE Preempt
  BY <1>22 DEF Preempt
<1>23. CASE RestartEngine
  BY <1>23 DEF RestartEngine
<1>24. ASSUME NEW a \in Action, VerifyScrape(a) PROVE NoTaskLeft'
  BY <1>24 DEF VerifyScrape
<1>25. ASSUME NEW a \in Action, VerifyResolve(a) PROVE NoTaskLeft'
  BY <1>25 DEF VerifyResolve, Resolve
<1>26. ASSUME NEW c \in Cycle, CheckResolution(c) PROVE NoTaskLeft'
  BY <1>26 DEF CheckResolution, Resolve
<1>27. CASE UNCHANGED vars
  BY <1>27 DEF vars
<1> QED
  BY <1>1, <1>2, <1>3, <1>4, <1>5, <1>6, <1>7, <1>8, <1>9, <1>10, <1>11, <1>12, <1>13,
      <1>14, <1>15, <1>16, <1>17, <1>18, <1>19, <1>20, <1>21, <1>22, <1>23, <1>24, <1>25,
      <1>26, <1>27 DEF Next, MainStep, Verification

\* After shutdown no action of the agent is left that could write.
LEMMA Quiet ==
  IInv /\ [Next]_vars =>
    (At("down") => UNCHANGED <<memoryVars, actionVars, taskVars, brainVars>>)
<1> SUFFICES ASSUME IInv, [Next]_vars, At("down")
             PROVE  UNCHANGED <<memoryVars, actionVars, taskVars, brainVars>>
  OBVIOUS
<1> USE DEF At, IInv, NoTaskLeft, Pending, memoryVars, actionVars, taskVars, brainVars
<1>1. ~MainStep
  BY DEF MainStep, StartCycle, Scrape, Detect, SaveHealthy, CaptureBaseline, LogBaseline,
         StoreIncident, Decide, Execute, LogExecution, LogSafeAction, InvestigateInline,
         Validate, ConcludeLater, ConcludeNow, LogResolution, AfterYield
<1>2. ~Raise /\ ~Stop /\ ~Shutdown /\ ~Preempt /\ ~RestartEngine
  BY DEF Raise, Unguarded, Stop, Shutdown, Preempt, RestartEngine
<1>3. ~InvestigateBackground
  BY DEF InvestigateBackground
<1>4. /\ \A a \in Action : ~Verification(a)
      /\ \A c \in Cycle : ~CheckResolution(c)
  BY DEF Verification, VerifyScrape, VerifyResolve, CheckResolution
<1>5. UNCHANGED vars
  BY <1>1, <1>2, <1>3, <1>4 DEF Next
<1> QED BY <1>5 DEF vars

LEMMA NextInv == IInv /\ [Next]_vars => IInv'
BY NextType, NextCharges, NextCycles, NextActuation, NextReports,
   NextFresh, NextTasks DEF IInv

\* If no judge opens and nothing is written, it is a step of GiveUp.
LEMMA Shrinking ==
  ASSUME UNCHANGED <<stored, webhook, resolution>>,
         \A c \in Cycle : OpenJudges(c)' \subseteq OpenJudges(c)
  PROVE  Log!Next
<1>1. \A c \in Cycle : OpenJudges(c)' \subseteq Log!Judge
  BY DEF Log!Judge, OpenJudges
<1> HIDE DEF OpenJudges
<1> QED BY <1>1 DEF Log!Next, Log!GiveUp

\* A judge that is open writes its verdict, or fails to, and is open no more.
LEMMA Deciding ==
  ASSUME NEW c \in Cycle, NEW j \in Log!Judge, NEW v \in Log!Verdict,
         j \in OpenJudges(c),
         j # "outcome" => j \in Measurable /\ webhook[<<c, j>>] = 1,
         OpenJudges(c)' = OpenJudges(c) \ {j},
         \A d \in Cycle : d # c => OpenJudges(d)' = OpenJudges(d),
         UNCHANGED <<stored, webhook>>,
         resolution' = [resolution EXCEPT ![c] = v] \/ UNCHANGED resolution
  PROVE  Log!Next
<1>1. CASE UNCHANGED resolution
  <2>1. \A d \in Cycle : OpenJudges(d)' \subseteq OpenJudges(d)
    OBVIOUS
  <2> QED BY <1>1, <2>1, Shrinking
<1>2. CASE resolution' = [resolution EXCEPT ![c] = v]
  <2>1. Log!Decide(c, j)
    BY <1>2 DEF Log!Decide
  <2> QED BY <2>1 DEF Log!Next
<1> QED BY <1>1, <1>2

\* An incident is stored.
LEMMA Storing ==
  ASSUME NEW c \in Cycle, c \notin stored, \A d \in stored : d <= c,
         stored' = stored \cup {c}, UNCHANGED <<webhook, resolution>>,
         OpenJudges(c)' = Log!Judge,
         \A d \in Cycle : d # c => OpenJudges(d)' = OpenJudges(d)
  PROVE  Log!Next
<1>1. Log!Store(c)
  BY DEF Log!Store, Log!Latest
<1> QED BY <1>1 DEF Log!Next

\* Every step stores an incident, changes the engine for it, writes one verdict
\* of a judge that is open, or lets judges give up.
LEMMA NextLog ==
  ASSUME IInv, [Next]_vars
  PROVE  [Log!Next]_Log!vars
<1> USE DEF IInv, TypeOK, CyclesApart, FreshIncident, OpenJudges, Pending, Unstored,
    Incident, Acting, Cycle, At, Goto, engineVars, loopVars, brainVars, replayVars,
    memoryVars, actionVars, taskVars
<1>1. CASE StartCycle
  <2>1. UNCHANGED <<stored, webhook, resolution, verify, check, todo>>
    BY <1>1 DEF StartCycle
  <2>2. phase' = "scrape" /\ todo = {}
    BY <1>1 DEF StartCycle, FreshActions
  <2>3. \A c \in Cycle : OpenJudges(c)' \subseteq OpenJudges(c)
    BY <2>1, <2>2
  <2> QED BY <2>1, <2>3, Shrinking
<1>2. CASE Scrape
  <2>1. UNCHANGED <<stored, webhook, resolution>>
    BY <1>2 DEF Scrape, Fault
  <2>2. \A c \in Cycle : OpenJudges(c)' \subseteq OpenJudges(c)
    BY <1>2 DEF Scrape, Fault
  <2> QED BY <2>1, <2>2, Shrinking
<1>3. CASE Detect
  <2>1. UNCHANGED <<stored, webhook, resolution>>
    BY <1>3 DEF Detect, Delta, IsAnomaly
  <2>2. \A c \in Cycle : OpenJudges(c)' \subseteq OpenJudges(c)
    BY <1>3 DEF Detect, Delta, IsAnomaly
  <2> QED BY <2>1, <2>2, Shrinking
<1>4. CASE SaveHealthy
  <2>1. UNCHANGED <<stored, webhook, resolution>>
    BY <1>4 DEF SaveHealthy, Report
  <2>2. \A c \in Cycle : OpenJudges(c)' \subseteq OpenJudges(c)
    BY <1>4 DEF SaveHealthy, Report
  <2> QED BY <2>1, <2>2, Shrinking
<1>5. CASE CaptureBaseline
  <2>1. UNCHANGED <<stored, webhook, resolution>>
    BY <1>5 DEF CaptureBaseline, Report, Fault
  <2>2. \A c \in Cycle : OpenJudges(c)' \subseteq OpenJudges(c)
    BY <1>5 DEF CaptureBaseline, Report, Fault
  <2> QED BY <2>1, <2>2, Shrinking
<1>6. CASE LogBaseline
  <2>1. UNCHANGED <<stored, webhook, resolution>>
    BY <1>6 DEF LogBaseline, Report
  <2>2. \A c \in Cycle : OpenJudges(c)' \subseteq OpenJudges(c)
    BY <1>6 DEF LogBaseline, Report
  <2> QED BY <2>1, <2>2, Shrinking
<1>7. CASE StoreIncident
  <2>1. PICK c \in Cycle : c = cycle /\ c = cycle'
    BY <1>7 DEF StoreIncident
  <2>2. c \notin stored /\ \A d \in stored : d <= c
    BY <1>7, <2>1 DEF StoreIncident
  <2>3. stored' = stored \cup {c} /\ UNCHANGED <<webhook, resolution>>
    BY <1>7, <2>1 DEF StoreIncident
  <2>4. OpenJudges(c)' = Log!Judge
    BY <1>7, <2>1 DEF StoreIncident, Log!Judge
  <2>5. \A d \in Cycle : d # c => OpenJudges(d)' = OpenJudges(d)
    BY <1>7, <2>1 DEF StoreIncident
  <2> HIDE DEF OpenJudges
  <2> QED BY <2>2, <2>3, <2>4, <2>5, Storing
<1>8. CASE Decide
  <2>1. UNCHANGED <<stored, webhook, resolution, cycle, verify, check>>
    BY <1>8 DEF Decide
  <2>2. phase = "save_incident" /\ phase' # "save_incident"
    BY <1>8 DEF Decide, AfterActions
  <2>3. \A c \in Cycle : OpenJudges(c)' \subseteq OpenJudges(c)
    BY <2>1, <2>2
  <2> QED BY <2>1, <2>3, Shrinking
<1>9. CASE Execute
  <2>1. PICK r \in todo :
          /\ IsFirst(r, todo)
          /\ webhook' \in {webhook, [webhook EXCEPT ![ActionOf(r)] = @ + 1]}
    BY <1>9 DEF Execute
  <2>2. /\ UNCHANGED <<stored, resolution, cycle, verify, check, todo>>
        /\ phase = "execute" /\ phase' = "log_execution"
    BY <1>9 DEF Execute
  <2>3. \A c \in Cycle : OpenJudges(c)' = OpenJudges(c)
    BY <2>2
  <2>4. CASE webhook' = webhook
    BY <2>2, <2>3, <2>4, Shrinking
  <2>5. CASE webhook' = [webhook EXCEPT ![ActionOf(r)] = @ + 1]
    <3>1. PICK c \in Cycle, k \in Allowlist : c = cycle /\ k = TypeOf[r]
      BY <2>2 DEF FreshActions
    <3>2. ActionOf(r) = <<c, k>> /\ <<c, k>> \in Action
      BY <3>1 DEF ActionOf, Action
    <3>3. webhook[<<c, k>>] = 0
      BY <2>2, <3>2 DEF FreshActions
    <3>4. c \in stored /\ (\A d \in stored : d <= c) /\ k \in OpenJudges(c)
      BY <2>2, <3>1
    <3>5. webhook' = [webhook EXCEPT ![<<c, k>>] = 1]
      BY <2>5, <3>2, <3>3
    <3> HIDE DEF OpenJudges
    <3>6. Log!Change(c, k)
      BY <2>2, <2>3, <3>3, <3>4, <3>5 DEF Log!Change, Log!Latest
    <3> QED BY <3>6 DEF Log!Next
  <2> QED BY <2>1, <2>4, <2>5
<1>10. CASE LogExecution
  <2>1. PICK r \in todo : Executed(r, outcome = "applied")
    BY <1>10 DEF LogExecution
  <2>2. /\ UNCHANGED <<stored, webhook, resolution, cycle, check>>
        /\ phase = "log_execution" /\ phase' = "log_safe_action"
    BY <1>10 DEF LogExecution
  <2>3. todo' \subseteq todo
    BY <2>1 DEF Executed
  <2>4. \A a \in Action : verify'[a] = verify[a] \/ a = <<cycle, TypeOf[r]>>
    BY <2>1 DEF Executed, ActionOf
  <2>5. ASSUME NEW c \in Cycle, NEW k \in Allowlist, Pending(verify'[<<c, k>>])
        PROVE  Pending(verify[<<c, k>>]) \/ (c = cycle /\ TypeOf[r] = k)
    BY <2>4, <2>5 DEF Action
  <2>6. \A c \in Cycle : OpenJudges(c)' \subseteq OpenJudges(c)
    BY <2>2, <2>3, <2>5
  <2> QED BY <2>2, <2>6, Shrinking
<1>11. CASE LogSafeAction
  <2>1. UNCHANGED <<stored, webhook, resolution, cycle, verify, check, todo>>
    BY <1>11 DEF LogSafeAction
  <2>2. phase = "log_safe_action" /\ phase' # "save_incident"
    BY <1>11 DEF LogSafeAction, AfterActions
  <2>3. \A c \in Cycle : OpenJudges(c)' \subseteq OpenJudges(c)
    BY <2>1, <2>2
  <2> QED BY <2>1, <2>3, Shrinking
<1>12. CASE InvestigateInline
  <2>1. UNCHANGED <<stored, webhook, resolution>>
    BY <1>12 DEF InvestigateInline
  <2>2. \A c \in Cycle : OpenJudges(c)' \subseteq OpenJudges(c)
    BY <1>12 DEF InvestigateInline
  <2> QED BY <2>1, <2>2, Shrinking
<1>13. CASE Validate
  <2>1. UNCHANGED <<stored, webhook, resolution>>
    BY <1>13 DEF Validate
  <2>2. \A c \in Cycle : OpenJudges(c)' \subseteq OpenJudges(c)
    BY <1>13 DEF Validate
  <2> QED BY <2>1, <2>2, Shrinking
<1>14. CASE ConcludeLater
  <2>1. UNCHANGED <<stored, webhook, resolution>>
    BY <1>14 DEF ConcludeLater, Report
  <2>2. \A c \in Cycle : OpenJudges(c)' \subseteq OpenJudges(c)
    BY <1>14 DEF ConcludeLater, Report
  <2> QED BY <2>1, <2>2, Shrinking
<1>15. CASE ConcludeNow
  <2>1. PICK c \in Cycle : c = cycle /\ c = cycle'
    BY <1>15 DEF ConcludeNow
  <2>2. PICK v \in Log!Verdict :
          resolution' = [resolution EXCEPT ![c] = v] \/ UNCHANGED resolution
    BY <1>15, <2>1 DEF ConcludeNow, Resolve, Log!Verdict
  <2>3. "outcome" \in OpenJudges(c) /\ UNCHANGED <<stored, webhook>>
    BY <1>15, <2>1 DEF ConcludeNow
  <2>4. OpenJudges(c)' = OpenJudges(c) \ {"outcome"}
    <3>1. "outcome" \notin Allowlist
      BY ConstantsAssumption DEF ConstantsAssumption, ActionType
    <3> QED BY <1>15, <2>1, <3>1 DEF ConcludeNow
  <2>5. \A d \in Cycle : d # c => OpenJudges(d)' = OpenJudges(d)
    BY <1>15, <2>1 DEF ConcludeNow
  <2>6. "outcome" \in Log!Judge
    BY DEF Log!Judge
  <2> HIDE DEF OpenJudges
  <2> QED BY <2>2, <2>3, <2>4, <2>5, <2>6, Deciding
<1>16. CASE LogResolution
  <2>1. UNCHANGED <<stored, webhook, resolution>>
    BY <1>16 DEF LogResolution, Report
  <2>2. \A c \in Cycle : OpenJudges(c)' \subseteq OpenJudges(c)
    BY <1>16 DEF LogResolution, Report
  <2> QED BY <2>1, <2>2, Shrinking
<1>17. CASE AfterYield
  <2>1. UNCHANGED <<stored, webhook, resolution>>
    BY <1>17 DEF AfterYield
  <2>2. \A c \in Cycle : OpenJudges(c)' \subseteq OpenJudges(c)
    BY <1>17 DEF AfterYield
  <2> QED BY <2>1, <2>2, Shrinking
<1>18. CASE Raise
  <2>1. UNCHANGED <<stored, webhook, resolution>>
    BY <1>18 DEF Raise, Leave, Unguarded
  <2>2. \A c \in Cycle : OpenJudges(c)' \subseteq OpenJudges(c)
    BY <1>18 DEF Raise, Leave, Unguarded
  <2> QED BY <2>1, <2>2, Shrinking
<1>19. CASE InvestigateBackground
  <2>1. UNCHANGED <<stored, webhook, resolution>>
    BY <1>19 DEF InvestigateBackground
  <2>2. \A c \in Cycle : OpenJudges(c)' \subseteq OpenJudges(c)
    BY <1>19 DEF InvestigateBackground
  <2> QED BY <2>1, <2>2, Shrinking
<1>20. CASE Stop
  <2>1. UNCHANGED <<stored, webhook, resolution>>
    BY <1>20 DEF Stop, Leave
  <2>2. \A c \in Cycle : OpenJudges(c)' \subseteq OpenJudges(c)
    BY <1>20 DEF Stop, Leave
  <2> QED BY <2>1, <2>2, Shrinking
<1>21. CASE Shutdown
  <2>1. UNCHANGED <<stored, webhook, resolution>>
    BY <1>21 DEF Shutdown
  <2>2. /\ \A a \in Action : ~Pending(verify'[a])
        /\ \A c \in Cycle : ~Pending(check'[c])
    BY <1>21 DEF Shutdown, Cancelled
  <2>3. phase' = "down" /\ todo' = {}
    BY <1>21 DEF Shutdown, FreshActions
  <2>4. \A c \in Cycle : OpenJudges(c)' = {}
    BY <2>2, <2>3 DEF Action
  <2> QED BY <2>1, <2>4, Shrinking
<1>22. CASE Preempt
  <2>1. UNCHANGED <<stored, webhook, resolution>>
    BY <1>22 DEF Preempt
  <2>2. \A c \in Cycle : OpenJudges(c)' \subseteq OpenJudges(c)
    BY <1>22 DEF Preempt
  <2> QED BY <2>1, <2>2, Shrinking
<1>23. CASE RestartEngine
  <2>1. UNCHANGED <<stored, webhook, resolution>>
    BY <1>23 DEF RestartEngine
  <2>2. \A c \in Cycle : OpenJudges(c)' \subseteq OpenJudges(c)
    BY <1>23 DEF RestartEngine
  <2> QED BY <2>1, <2>2, Shrinking
<1>24. ASSUME NEW a \in Action, VerifyScrape(a) PROVE [Log!Next]_Log!vars
  <2>1. UNCHANGED <<stored, webhook, resolution, phase, cycle, check, todo>>
    BY <1>24 DEF VerifyScrape
  <2>2. \A b \in Action : Pending(verify'[b]) => Pending(verify[b])
    BY <1>24 DEF VerifyScrape
  <2>3. \A d \in Cycle : OpenJudges(d)' \subseteq OpenJudges(d)
    BY <2>1, <2>2 DEF Action
  <2> QED BY <2>1, <2>3, Shrinking
<1>25. ASSUME NEW a \in Action, VerifyResolve(a) PROVE [Log!Next]_Log!vars
  <2>1. PICK c \in Cycle, k \in Allowlist : a = <<c, k>>
    BY DEF Action
  <2>2. UNCHANGED <<stored, webhook, phase, cycle, check, todo>>
    BY <1>25 DEF VerifyResolve
  <2>3. /\ verify[<<c, k>>] \in {"improved", "regressed"}
        /\ verify' = [verify EXCEPT ![<<c, k>>] = "done"]
    BY <1>25, <2>1 DEF VerifyResolve
  <2>4. k \in Measurable /\ webhook[<<c, k>>] = 1
    BY <2>1, <2>3 DEF ActuationSafe, FreshActions
  <2>5. ~(c = cycle /\ At("save_incident"))
    BY <2>1, <2>4 DEF FreshActions
  <2>6. \A r \in todo : ~(c = cycle /\ TypeOf[r] = k)
    BY <2>3, <2>4 DEF FreshActions, ActionOf
  <2>7. /\ \A b \in Action : b # <<c, k>> => verify'[b] = verify[b]
        /\ ~Pending(verify'[<<c, k>>])
    BY <2>1, <2>3
  <2>8. k \in OpenJudges(c)
    BY <2>3
  <2>9. "outcome" \notin Allowlist
    BY ConstantsAssumption DEF ConstantsAssumption, ActionType
  <2>10. OpenJudges(c)' = OpenJudges(c) \ {k}
    BY <2>2, <2>5, <2>6, <2>7, <2>9 DEF Action
  <2>11. \A d \in Cycle : d # c => OpenJudges(d)' = OpenJudges(d)
    BY <2>2, <2>7 DEF Action
  <2>12. PICK v \in Log!Verdict :
          resolution' = [resolution EXCEPT ![c] = v] \/ UNCHANGED resolution
    BY <1>25, <2>1 DEF VerifyResolve, Resolve, Log!Verdict
  <2>13. k \in Log!Judge
    BY DEF Log!Judge
  <2> HIDE DEF OpenJudges
  <2> QED BY <2>2, <2>4, <2>8, <2>10, <2>11, <2>12, <2>13, Deciding
<1>26. ASSUME NEW c \in Cycle, CheckResolution(c) PROVE [Log!Next]_Log!vars
  <2>1. /\ "outcome" \in OpenJudges(c)
        /\ UNCHANGED <<stored, webhook, phase, cycle, verify, todo>>
    BY <1>26 DEF CheckResolution
  <2>2. "outcome" \notin Allowlist
    BY ConstantsAssumption DEF ConstantsAssumption, ActionType
  <2>3. /\ check[c] = "sleeping" /\ check' = [check EXCEPT ![c] = "done"]
        /\ ~(c = cycle /\ phase \in Incident)
    BY <1>26 DEF CheckResolution
  <2>4. OpenJudges(c)' = OpenJudges(c) \ {"outcome"}
    BY <2>1, <2>2, <2>3
  <2>5. \A d \in Cycle : d # c => OpenJudges(d)' = OpenJudges(d)
    BY <2>1, <2>3
  <2>6. PICK v \in Log!Verdict :
          resolution' = [resolution EXCEPT ![c] = v] \/ UNCHANGED resolution
    BY <1>26 DEF CheckResolution, Resolve, Log!Verdict
  <2>7. "outcome" \in Log!Judge
    BY DEF Log!Judge
  <2> HIDE DEF OpenJudges
  <2> QED BY <2>1, <2>4, <2>5, <2>6, <2>7, Deciding
<1>27. CASE UNCHANGED vars
  BY <1>27 DEF vars, Log!vars
<1> QED
  BY <1>1, <1>2, <1>3, <1>4, <1>5, <1>6, <1>7, <1>8, <1>9, <1>10, <1>11, <1>12, <1>13,
      <1>14, <1>15, <1>16, <1>17, <1>18, <1>19, <1>20, <1>21, <1>22, <1>23, <1>24, <1>25,
      <1>26, <1>27 DEF Next, MainStep, Verification

-----------------------------------------------------------------------------

\* The agent's invariant holds whatever fails, is cancelled or interleaved.
THEOREM Invariant == Spec => []IInv
BY InitInv, NextInv, PTL DEF Spec

\* The agent's state is well typed.
THEOREM TypeCorrect == Spec => []TypeOK
<1>1. IInv => TypeOK
  BY DEF IInv
<1> QED BY <1>1, Invariant, PTL

\* No preemption is the reason of two anomalies, and none is passed over
\* (detect_anomalies, the update of _last_preemptions in run_once).
THEOREM PreemptionsChargedOnce == Spec => []ChargedOnce
<1>1. IInv => ChargedOnce
  BY DEF IInv
<1> QED BY <1>1, Invariant, PTL

\* Advisories are shown by one report at most (_drain_proactive_advisories).
THEOREM AdvisoriesReportedOnce == Spec => []ReportedOnce
<1>1. IInv => ReportedOnce
  BY DEF IInv
<1> QED BY <1>1, Invariant, PTL

\* Only live mode changes the engine, only for a stored incident, and only
\* what was applied is verified.
THEOREM ActuationIsSafe == Spec => []ActuationSafe
<1>1. IInv => ActuationSafe
  BY DEF IInv
<1> QED BY <1>1, Invariant, PTL

\* A replay is judged only against that of an earlier, healthy cycle.
THEOREM BaselineIsHealthy == Spec => []HealthyBaseline
<1>1. IInv => HealthyBaseline
  BY DEF IInv
<1> QED BY <1>1, Invariant, PTL

\* After shutdown nothing is written to memory, nothing is done to the engine
\* and no task of the agent is left.
THEOREM ShutdownIsQuiet == Spec => QuietAfterShutdown
<1>1. IInv /\ [Next]_vars =>
        [At("down") => UNCHANGED <<memoryVars, actionVars, taskVars, brainVars>>]_vars
  BY Quiet
<1> QED BY <1>1, Invariant, PTL DEF Spec, QuietAfterShutdown

\* The agent with its loop, tasks and failing calls implements Incidents: of all
\* the actions that are decided and executed for an incident none changes the
\* engine twice, and each of the judges of the incident has one verdict at most
\* (decide_safe_actions, executor.execute, _verify_action, _replay_validate,
\* _check_resolution).
THEOREM IncidentsAreAsPromised == Spec => ImplementsIncidents
<1>1. Init => Log!Init
  BY DEF Init, Log!Init, OpenJudges, Pending, Incident, Action, At
<1>2. IInv /\ [Next]_vars => [Log!Next]_Log!vars
  BY NextLog
<1> QED BY <1>1, <1>2, Invariant, PTL DEF Spec, ImplementsIncidents, Log!Spec
=============================================================================
