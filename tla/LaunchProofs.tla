---------------------------- MODULE LaunchProofs ----------------------------
(***************************************************************************)
(* What holds of every launch, for any number of launches: the inductive   *)
(* invariant of module Launch and what follows from it.                    *)
(***************************************************************************)
EXTENDS Launch, TLAPS

\* The frame conditions and the types every step of the proof uses.
USE DEF vars, toolVars, registryVars, engineVars, fileVars, Launches, Process, MainSteps

LEMMA InitInv == Init => IInv
<1> SUFFICES ASSUME Init PROVE IInv
  OBVIOUS
<1>1. TypeOK
  <2>1. 0 \in 0 .. MaxLaunches /\ 1 \in 1 .. MaxLaunches
    BY LaunchesAssumption
  <2> QED BY <2>1 DEF Init, TypeOK
<1>2. HandlerInStep /\ Registered /\ Spawned
  BY LaunchesAssumption DEF Init, HandlerInStep, Registered, Spawned
<1>3. Outcome /\ HandlerDone /\ Files
  BY LaunchesAssumption DEF Init, Outcome, HandlerDone, Files
<1> QED BY <1>1, <1>2, <1>3 DEF IInv

\* A step of launch() keeps the invariant.
LEMMA MainInv ==
  ASSUME IInv, Main
  PROVE  IInv'
<1> USE LaunchesAssumption
<1> USE DEF IInv, TypeOK, HandlerInStep, Registered, Spawned, Outcome, HandlerDone, Files
<1>1. CASE Prepare
  <2>1. TypeOK'
    BY <1>1 DEF Prepare, At, Goto
  <2>2. HandlerInStep' /\ Registered' /\ Spawned'
    BY <1>1 DEF Prepare, At, Goto
  <2>3. Outcome' /\ HandlerDone' /\ Files'
    BY <1>1 DEF Prepare, At, Goto
  <2> QED BY <2>1, <2>2, <2>3
<1>2. CASE PrepareFails
  <2>1. TypeOK'
    <3>1. command' \in 0 .. MaxLaunches
      BY <1>2 DEF PrepareFails
    <3> QED BY <1>2, <3>1 DEF PrepareFails
  <2>2. HandlerInStep' /\ Registered' /\ Spawned'
    BY <1>2 DEF PrepareFails, At
  <2>3. Outcome' /\ HandlerDone' /\ Files'
    BY <1>2 DEF PrepareFails, At
  <2> QED BY <2>1, <2>2, <2>3
<1>3. CASE RegisterPartial
  <2>1. TypeOK'
    BY <1>3 DEF RegisterPartial, At, Goto
  <2>2. HandlerInStep' /\ Registered' /\ Spawned'
    BY <1>3 DEF RegisterPartial, At, Goto
  <2>3. Outcome' /\ HandlerDone' /\ Files'
    BY <1>3 DEF RegisterPartial, At, Goto
  <2> QED BY <2>1, <2>2, <2>3
<1>4. CASE SkipSpawn
  <2>1. TypeOK'
    BY <1>4 DEF SkipSpawn, At, Goto
  <2>2. HandlerInStep' /\ Registered' /\ Spawned'
    BY <1>4 DEF SkipSpawn, At, Goto
  <2>3. Outcome' /\ HandlerDone' /\ Files'
    BY <1>4 DEF SkipSpawn, At, Goto
  <2> QED BY <2>1, <2>2, <2>3
<1>5. CASE Spawn
  <2>1. TypeOK'
    BY <1>5 DEF Spawn, At, Goto
  <2>2. HandlerInStep' /\ Registered' /\ Spawned'
    BY <1>5 DEF Spawn, At, Goto
  <2>3. Outcome' /\ HandlerDone' /\ Files'
    BY <1>5 DEF Spawn, At, Goto
  <2> QED BY <2>1, <2>2, <2>3
<1>6. CASE SpawnFails
  <2>1. TypeOK'
    BY <1>6 DEF SpawnFails, At, Goto
  <2>2. HandlerInStep' /\ Registered' /\ Spawned'
    BY <1>6 DEF SpawnFails, At, Goto
  <2>3. Outcome' /\ HandlerDone' /\ Files'
    BY <1>6 DEF SpawnFails, At, Goto
  <2> QED BY <2>1, <2>2, <2>3
<1>7. CASE RegisterChild
  <2>1. TypeOK'
    BY <1>7 DEF RegisterChild, At, Goto
  <2>2. HandlerInStep' /\ Registered' /\ Spawned'
    BY <1>7 DEF RegisterChild, At, Goto
  <2>3. Outcome' /\ HandlerDone' /\ Files'
    BY <1>7 DEF RegisterChild, At, Goto
  <2> QED BY <2>1, <2>2, <2>3
<1>8. CASE Healthcheck
  <2>1. TypeOK'
    BY <1>8 DEF Healthcheck, At, Goto
  <2>2. HandlerInStep' /\ Registered' /\ Spawned'
    BY <1>8 DEF Healthcheck, At, Goto
  <2>3. Outcome' /\ HandlerDone' /\ Files'
    BY <1>8 DEF Healthcheck, At, Goto
  <2> QED BY <2>1, <2>2, <2>3
<1>9. CASE Terminate
  <2>1. TypeOK'
    BY <1>9 DEF Terminate, At, Goto, Signal
  <2>2. HandlerInStep' /\ Registered' /\ Spawned'
    BY <1>9 DEF Terminate, At, Goto, Signal
  <2>3. Outcome' /\ HandlerDone' /\ Files'
    BY <1>9 DEF Terminate, At, Goto, Signal
  <2> QED BY <2>1, <2>2, <2>3
<1>10. CASE Waited
  <2>1. TypeOK'
    BY <1>10 DEF Waited, At, Goto
  <2>2. HandlerInStep' /\ Registered' /\ Spawned'
    BY <1>10 DEF Waited, At, Goto
  <2>3. Outcome' /\ HandlerDone' /\ Files'
    BY <1>10 DEF Waited, At, Goto
  <2> QED BY <2>1, <2>2, <2>3
<1>11. CASE WaitTimesOut
  <2>1. TypeOK'
    BY <1>11 DEF WaitTimesOut, At, Goto, Signal
  <2>2. HandlerInStep' /\ Registered' /\ Spawned'
    BY <1>11 DEF WaitTimesOut, At, Goto, Signal
  <2>3. Outcome' /\ HandlerDone' /\ Files'
    BY <1>11 DEF WaitTimesOut, At, Goto, Signal
  <2> QED BY <2>1, <2>2, <2>3
<1>12. CASE KillTimesOut
  <2>1. TypeOK'
    BY <1>12 DEF KillTimesOut, At
  <2>2. HandlerInStep' /\ Registered' /\ Spawned'
    BY <1>12 DEF KillTimesOut, At
  <2>3. Outcome' /\ HandlerDone' /\ Files'
    BY <1>12 DEF KillTimesOut, At
  <2> QED BY <2>1, <2>2, <2>3
<1>13. CASE UnregisterFailed
  <2>1. TypeOK'
    BY <1>13 DEF UnregisterFailed, At, Goto
  <2>2. HandlerInStep' /\ Registered' /\ Spawned'
    BY <1>13 DEF UnregisterFailed, At, Goto
  <2>3. Outcome' /\ HandlerDone' /\ Files'
    BY <1>13 DEF UnregisterFailed, At, Goto
  <2> QED BY <2>1, <2>2, <2>3
<1>14. CASE WriteHealth
  <2>1. TypeOK'
    BY <1>14 DEF WriteHealth, At, Goto
  <2>2. HandlerInStep' /\ Registered' /\ Spawned'
    BY <1>14 DEF WriteHealth, At, Goto
  <2>3. Outcome' /\ HandlerDone' /\ Files'
    BY <1>14 DEF WriteHealth, At, Goto
  <2> QED BY <2>1, <2>2, <2>3
<1>15. CASE WriteHealthFails
  <2>1. TypeOK'
    BY <1>15 DEF WriteHealthFails, At
  <2>2. HandlerInStep' /\ Registered' /\ Spawned'
    BY <1>15 DEF WriteHealthFails, At
  <2>3. Outcome' /\ HandlerDone' /\ Files'
    BY <1>15 DEF WriteHealthFails, At
  <2> QED BY <2>1, <2>2, <2>3
<1>16. CASE UnregisterPartial
  <2>1. TypeOK'
    BY <1>16 DEF UnregisterPartial, At, Goto
  <2>2. HandlerInStep' /\ Registered' /\ Spawned'
    BY <1>16 DEF UnregisterPartial, At, Goto
  <2>3. Outcome' /\ HandlerDone' /\ Files'
    BY <1>16 DEF UnregisterPartial, At, Goto
  <2> QED BY <2>1, <2>2, <2>3
<1>17. CASE UnregisterChild
  <2>1. TypeOK'
    BY <1>17 DEF UnregisterChild, At, Goto
  <2>2. HandlerInStep' /\ Registered' /\ Spawned'
    BY <1>17 DEF UnregisterChild, At, Goto
  <2>3. Outcome' /\ HandlerDone' /\ Files'
    BY <1>17 DEF UnregisterChild, At, Goto
  <2> QED BY <2>1, <2>2, <2>3
<1>18. CASE Return
  <2>1. TypeOK'
    BY <1>18 DEF Return, At
  <2>2. HandlerInStep' /\ Registered' /\ Spawned'
    BY <1>18 DEF Return, At
  <2>3. Outcome' /\ HandlerDone' /\ Files'
    BY <1>18 DEF Return, At
  <2> QED BY <2>1, <2>2, <2>3
<1> QED
  BY <1>1, <1>2, <1>3, <1>4, <1>5, <1>6, <1>7, <1>8, <1>9, <1>10, <1>11, <1>12, <1>13, <1>14,
     <1>15, <1>16, <1>17, <1>18 DEF Main

\* A step of the signal handler keeps the invariant.
LEMMA HandlerInv ==
  ASSUME IInv, Handler
  PROVE  IInv'
<1> USE LaunchesAssumption
<1> USE DEF IInv, TypeOK, HandlerInStep, Registered, Spawned, Outcome, HandlerDone, Files
<1>1. CASE WritePartial
  <2>1. TypeOK'
    <3>1. launch \in 0 .. MaxLaunches
      OBVIOUS
    <3>2. partial' \in 0 .. MaxLaunches /\ unwritten' \in BOOLEAN
      BY <1>1, <3>1 DEF WritePartial
    <3> QED BY <1>1, <3>2 DEF WritePartial, Handling, HandlerGoto
  <2>2. HandlerInStep' /\ Registered' /\ Spawned'
    BY <1>1 DEF WritePartial, Handling, HandlerGoto
  <2>3. Outcome' /\ HandlerDone' /\ Files'
    BY <1>1 DEF WritePartial, Handling, HandlerGoto
  <2> QED BY <2>1, <2>2, <2>3
<1>2. CASE TerminateRegistered
  <2>1. TypeOK'
    <3>1. handler' \in {"wait", "exit"} /\ children' \in BOOLEAN
      BY <1>2 DEF TerminateRegistered, HandlerGoto
    <3>2. leader' = leader /\ workers' = workers
      BY <1>2 DEF TerminateRegistered, Signal
    <3>3. sent' \in [Launches -> {"none", "term", "kill"}]
      BY <1>2 DEF TerminateRegistered, Signal
    <3> QED BY <1>2, <3>1, <3>2, <3>3 DEF TerminateRegistered, HandlerGoto
  <2>2. HandlerInStep' /\ Registered' /\ Spawned'
    BY <1>2 DEF TerminateRegistered, Handling, HandlerGoto, Signal
  <2>3. Outcome' /\ HandlerDone' /\ Files'
    BY <1>2 DEF TerminateRegistered, Handling, HandlerGoto, Signal
  <2> QED BY <2>1, <2>2, <2>3
<1>3. CASE HandlerWaited
  <2>1. TypeOK'
    BY <1>3 DEF HandlerWaited, Handling, HandlerGoto
  <2>2. HandlerInStep' /\ Registered' /\ Spawned'
    BY <1>3 DEF HandlerWaited, Handling, HandlerGoto
  <2>3. Outcome' /\ HandlerDone' /\ Files'
    BY <1>3 DEF HandlerWaited, Handling, HandlerGoto
  <2> QED BY <2>1, <2>2, <2>3
<1>4. CASE HandlerWaitTimesOut
  <2>1. TypeOK'
    BY <1>4 DEF HandlerWaitTimesOut, Handling, HandlerGoto, Signal
  <2>2. HandlerInStep' /\ Registered' /\ Spawned'
    BY <1>4 DEF HandlerWaitTimesOut, Handling, HandlerGoto, Signal
  <2>3. Outcome' /\ HandlerDone' /\ Files'
    BY <1>4 DEF HandlerWaitTimesOut, Handling, HandlerGoto, Signal
  <2> QED BY <2>1, <2>2, <2>3
<1>5. CASE HandlerKillTimesOut
  <2>1. TypeOK'
    BY <1>5 DEF HandlerKillTimesOut, Handling, HandlerGoto
  <2>2. HandlerInStep' /\ Registered' /\ Spawned'
    BY <1>5 DEF HandlerKillTimesOut, Handling, HandlerGoto
  <2>3. Outcome' /\ HandlerDone' /\ Files'
    BY <1>5 DEF HandlerKillTimesOut, Handling, HandlerGoto
  <2> QED BY <2>1, <2>2, <2>3
<1>6. CASE HandlerExits
  <2>1. TypeOK'
    BY <1>6 DEF HandlerExits, Handling
  <2>2. HandlerInStep' /\ Registered' /\ Spawned'
    BY <1>6 DEF HandlerExits, Handling
  <2>3. Outcome' /\ HandlerDone' /\ Files'
    BY <1>6 DEF HandlerExits, Handling
  <2> QED BY <2>1, <2>2, <2>3
<1> QED BY <1>1, <1>2, <1>3, <1>4, <1>5, <1>6 DEF Handler

\* Signals, the next launch and the end of a process keep the invariant.
LEMMA EnvironmentInv ==
  ASSUME IInv,
         Relaunch \/ SignalArrives \/ SecondSignal \/ ToolKilled
           \/ (\E l \in Launches : LeaderEnds(l) \/ WorkersEnd(l))
  PROVE  IInv'
<1> USE LaunchesAssumption
<1> USE DEF IInv, TypeOK, HandlerInStep, Registered, Spawned, Outcome, HandlerDone, Files
<1>1. CASE Relaunch
  <2>1. TypeOK'
    <3>1. launch + 1 \in 1 .. MaxLaunches
      BY <1>1 DEF Relaunch
    <3> QED BY <1>1, <3>1 DEF Relaunch
  <2>2. HandlerInStep' /\ Registered' /\ Spawned'
    BY <1>1 DEF Relaunch, Ended
  <2>3. Outcome' /\ HandlerDone' /\ Files'
    BY <1>1 DEF Relaunch, Ended
  <2> QED BY <2>1, <2>2, <2>3
<1>2. CASE SignalArrives
  <2>1. TypeOK'
    BY <1>2 DEF SignalArrives
  <2>2. HandlerInStep' /\ Registered' /\ Spawned'
    BY <1>2 DEF SignalArrives
  <2>3. Outcome' /\ HandlerDone' /\ Files'
    BY <1>2 DEF SignalArrives
  <2> QED BY <2>1, <2>2, <2>3
<1>3. CASE SecondSignal
  <2>1. TypeOK'
    BY <1>3 DEF SecondSignal
  <2>2. HandlerInStep' /\ Registered' /\ Spawned'
    BY <1>3 DEF SecondSignal
  <2>3. Outcome' /\ HandlerDone' /\ Files'
    BY <1>3 DEF SecondSignal
  <2> QED BY <2>1, <2>2, <2>3
<1>4. CASE ToolKilled
  <2>1. TypeOK'
    BY <1>4 DEF ToolKilled, Ended
  <2>2. HandlerInStep' /\ Registered' /\ Spawned'
    BY <1>4 DEF ToolKilled, Ended
  <2>3. Outcome' /\ HandlerDone' /\ Files'
    BY <1>4 DEF ToolKilled, Ended
  <2> QED BY <2>1, <2>2, <2>3
<1>5. ASSUME NEW l \in Launches, LeaderEnds(l)
      PROVE  IInv'
  <2>1. TypeOK'
    BY <1>5 DEF LeaderEnds
  <2>2. HandlerInStep' /\ Registered' /\ Spawned'
    BY <1>5 DEF LeaderEnds
  <2>3. Outcome' /\ HandlerDone' /\ Files'
    BY <1>5 DEF LeaderEnds
  <2> QED BY <2>1, <2>2, <2>3
<1>6. ASSUME NEW l \in Launches, WorkersEnd(l)
      PROVE  IInv'
  <2>1. TypeOK'
    BY <1>6 DEF WorkersEnd
  <2>2. HandlerInStep' /\ Registered' /\ Spawned'
    BY <1>6 DEF WorkersEnd
  <2>3. Outcome' /\ HandlerDone' /\ Files'
    BY <1>6 DEF WorkersEnd
  <2> QED BY <2>1, <2>2, <2>3
<1> QED BY <1>1, <1>2, <1>3, <1>4, <1>5, <1>6

LEMMA NextInv == IInv /\ [Next]_vars => IInv'
<1> SUFFICES ASSUME IInv, [Next]_vars PROVE IInv'
  OBVIOUS
<1>1. CASE Next
  BY <1>1, MainInv, HandlerInv, EnvironmentInv DEF Next
<1>2. CASE UNCHANGED vars
  BY <1>2 DEF IInv, TypeOK, HandlerInStep, Registered, Spawned, Outcome, HandlerDone, Files
<1> QED BY <1>1, <1>2

-----------------------------------------------------------------------------
\* The refinement of Engines

\* What Engines sees of a step that touches neither the engines nor the record.
LEMMA Unseen ==
  ASSUME IInv, UNCHANGED <<launch, engineVars, health>>, Holds' => Holds
  PROVE  [Contract!Next]_Contract!vars
<1>1. CASE Holds /\ ~Holds'
  BY <1>1 DEF Contract!Next, Contract!LetGo
<1>2. CASE Holds <=> Holds'
  BY <1>2 DEF Contract!vars
<1> QED BY <1>1, <1>2

\* A signal to an engine that is held.
LEMMA Signalled ==
  ASSUME IInv, NEW s \in {"term", "kill"}, Signal(s), UNCHANGED <<launch, health>>,
         leader[launch] = "up", Holds, Holds',
         s = "kill" => sent[launch] # "none"
  PROVE  [Contract!Next]_Contract!vars
<1> USE DEF IInv, TypeOK
<1>1. CASE sent[launch] = (IF s = "kill" THEN "term" ELSE "none")
  <2>1. Contract!Tell(s)
    BY <1>1 DEF Contract!Tell, Signal
  <2> QED BY <2>1 DEF Contract!Next
<1>2. CASE sent[launch] # (IF s = "kill" THEN "term" ELSE "none")
  <2>1. (IF sent[launch] = "kill" THEN sent[launch] ELSE s) = sent[launch]
    BY <1>2
  <2>2. sent' = sent
    BY <2>1 DEF Signal
  <2> QED BY <2>2 DEF Signal, Contract!vars
<1> QED BY <1>1, <1>2

LEMMA MainRefines ==
  ASSUME IInv, Main
  PROVE  [Contract!Next]_Contract!vars
<1> USE DEF At, Goto, Holds
<1>1. CASE \/ Prepare \/ PrepareFails \/ RegisterPartial \/ SkipSpawn \/ SpawnFails
           \/ RegisterChild \/ Healthcheck \/ Waited \/ KillTimesOut
           \/ UnregisterFailed \/ WriteHealthFails \/ UnregisterPartial
           \/ UnregisterChild \/ Return
  <2>1. UNCHANGED <<launch, engineVars, health>>
    BY <1>1 DEF Prepare, PrepareFails, RegisterPartial, SkipSpawn, SpawnFails, RegisterChild,
           Healthcheck, Waited, KillTimesOut, UnregisterFailed, WriteHealthFails,
           UnregisterPartial, UnregisterChild, Return
  <2>2. (tool = "running" /\ pc # "return") \/ Return
    BY <1>1 DEF Prepare, PrepareFails, RegisterPartial, SkipSpawn, SpawnFails, RegisterChild,
           Healthcheck, Waited, KillTimesOut, UnregisterFailed, WriteHealthFails,
           UnregisterPartial, UnregisterChild
  <2>3. process' = process
    BY <1>1 DEF Prepare, PrepareFails, RegisterPartial, SkipSpawn, SpawnFails, RegisterChild,
           Healthcheck, Waited, KillTimesOut, UnregisterFailed, WriteHealthFails,
           UnregisterPartial, UnregisterChild, Return
  <2>4. Holds' => Holds
    BY <2>2, <2>3 DEF Return
  <2> QED BY <2>1, <2>4, Unseen
<1>2. CASE Spawn
  <2>1. leader[launch] = "none" /\ health.launch < launch
    BY <1>2 DEF Spawn, IInv, Registered, Spawned, Files
  <2>2. Holds'
    BY <1>2 DEF Spawn
  <2>3. Contract!Start
    BY <1>2, <2>1, <2>2 DEF Spawn, Contract!Start
  <2> QED BY <2>3 DEF Contract!Next
<1>3. CASE Terminate
  <2>1. process /\ process' /\ Holds /\ Holds'
    BY <1>3 DEF Terminate, IInv, Outcome
  <2>2. CASE leader[launch] = "gone"
    BY <1>3, <2>1, <2>2 DEF Terminate, Contract!vars
  <2>3. CASE leader[launch] # "gone"
    <3>1. leader[launch] = "up"
      BY <2>1, <2>3 DEF IInv, TypeOK, Spawned
    <3> QED BY <1>3, <2>1, <2>3, <3>1, Signalled DEF Terminate
  <2> QED BY <2>2, <2>3
<1>4. CASE WaitTimesOut
  <2>1. process /\ process' /\ Holds /\ Holds' /\ sent[launch] # "none"
    BY <1>4 DEF WaitTimesOut, IInv, Outcome
  <2> QED BY <1>4, <2>1, Signalled DEF WaitTimesOut
<1>5. CASE WriteHealth
  <2>1. health.launch < launch
    BY <1>5 DEF WriteHealth, IInv, Files
  <2>2. result \in {"healthy", "failed"}
    BY <1>5 DEF WriteHealth, IInv, TypeOK, Outcome
  <2>3. leader[launch] # "none" => Holds
    BY <1>5 DEF WriteHealth, IInv, Spawned
  <2>4. result = "healthy" => sent[launch] = "none"
    BY <1>5 DEF WriteHealth, IInv, HandlerInStep, Outcome
  <2>5. result = "failed" => leader[launch] # "up"
    BY <1>5 DEF WriteHealth, IInv, Outcome
  <2>6. Holds' <=> Holds
    BY <1>5 DEF WriteHealth
  <2>7. Contract!Judge(result)
    BY <1>5, <2>1, <2>3, <2>4, <2>5, <2>6 DEF WriteHealth, Contract!Judge
  <2> QED BY <2>2, <2>7 DEF Contract!Next
<1> QED BY <1>1, <1>2, <1>3, <1>4, <1>5 DEF Main

LEMMA HandlerRefines ==
  ASSUME IInv, Handler
  PROVE  [Contract!Next]_Contract!vars
<1> USE DEF Handling, HandlerGoto
<1>1. CASE WritePartial \/ HandlerWaited \/ HandlerKillTimesOut \/ HandlerExits
  <2>1. UNCHANGED <<launch, engineVars, health>>
    BY <1>1 DEF WritePartial, HandlerWaited, HandlerKillTimesOut, HandlerExits
  <2>2. Holds' => Holds
    BY <1>1 DEF WritePartial, HandlerWaited, HandlerKillTimesOut, HandlerExits, Holds
  <2> QED BY <2>1, <2>2, Unseen
<1>2. CASE TerminateRegistered
  <2>1. CASE children /\ leader[launch] = "up"
    <3>1. Holds /\ Holds'
      BY <1>2, <2>1 DEF TerminateRegistered, IInv, Registered, Holds
    <3> QED BY <1>2, <2>1, <3>1, Signalled DEF TerminateRegistered
  <2>2. CASE ~(children /\ leader[launch] = "up")
    <3>1. UNCHANGED <<launch, engineVars, health>> /\ (Holds' => Holds)
      BY <1>2, <2>2 DEF TerminateRegistered, Holds
    <3> QED BY <3>1, Unseen
  <2> QED BY <2>1, <2>2
<1>3. CASE HandlerWaitTimesOut
  <2>1. Holds /\ Holds' /\ sent[launch] # "none"
    BY <1>3 DEF HandlerWaitTimesOut, IInv, Registered, HandlerDone, Holds
  <2> QED BY <1>3, <2>1, Signalled DEF HandlerWaitTimesOut
<1> QED BY <1>1, <1>2, <1>3 DEF Handler

LEMMA EnvironmentRefines ==
  ASSUME IInv,
         Relaunch \/ SignalArrives \/ SecondSignal \/ ToolKilled
           \/ (\E l \in Launches : LeaderEnds(l) \/ WorkersEnd(l))
  PROVE  [Contract!Next]_Contract!vars
<1>1. CASE Relaunch
  <2>1. Holds = FALSE /\ Holds' = FALSE
    BY <1>1 DEF Relaunch, Ended, Holds
  <2>2. launch' \in 1 .. MaxLaunches
    BY <1>1, LaunchesAssumption DEF Relaunch, IInv, TypeOK
  <2>3. launch' \in Contract!Launches
    BY <2>2 DEF Contract!Launches
  <2>4. launch' = launch + 1 /\ leader' = leader /\ sent' = sent /\ health' = health
    BY <1>1 DEF Relaunch
  <2>5. Contract!Begin
    BY <2>1, <2>3, <2>4 DEF Contract!Begin
  <2> QED BY <2>5 DEF Contract!Next
<1>2. CASE SignalArrives \/ SecondSignal \/ ToolKilled
  <2>1. UNCHANGED <<launch, engineVars, health>>
    BY <1>2 DEF SignalArrives, SecondSignal, ToolKilled
  <2>2. Holds' => Holds
    BY <1>2 DEF SignalArrives, SecondSignal, ToolKilled, Ended, Holds
  <2> QED BY <2>1, <2>2, Unseen
<1>3. ASSUME NEW l \in Launches, LeaderEnds(l)
      PROVE  [Contract!Next]_Contract!vars
  <2>1. Holds' <=> Holds
    BY <1>3 DEF LeaderEnds, Holds
  <2>2. Contract!End(l)
    BY <1>3, <2>1 DEF LeaderEnds, Contract!End
  <2> QED BY <2>2 DEF Contract!Next, Contract!Launches
<1>4. ASSUME NEW l \in Launches, WorkersEnd(l)
      PROVE  [Contract!Next]_Contract!vars
  BY <1>4 DEF WorkersEnd, Holds, Contract!vars
<1> QED BY <1>1, <1>2, <1>3, <1>4

LEMMA NextContract ==
  ASSUME IInv, [Next]_vars
  PROVE  [Contract!Next]_Contract!vars
<1>1. CASE Next
  BY <1>1, MainRefines, HandlerRefines, EnvironmentRefines DEF Next
<1>2. CASE UNCHANGED vars
  BY <1>2 DEF Holds, Contract!vars
<1> QED BY <1>1, <1>2

-----------------------------------------------------------------------------

\* The invariant holds whichever steps signals interrupt.
THEOREM Invariant == Spec => []IInv
BY InitInv, NextInv, PTL DEF Spec

\* A registered leader does not outlive a command that one signal interrupted
\* (terminate_registered_processes, register_child_process).
THEOREM LeadersReaped == Spec => []LeaderReaped
<1>1. IInv => LeaderReaped
  BY DEF IInv, HandlerInStep, HandlerDone, LeaderReaped
<1> QED BY <1>1, Invariant, PTL

\* An engine the command has signalled is on record, but for one step
\* (_shared_shutdown_handler writes before it terminates).
THEOREM KillsRecorded == Spec => []KilledIsRecorded
<1>1. IInv => KilledIsRecorded
  BY DEF IInv, TypeOK, HandlerInStep, Registered, Spawned, Outcome, HandlerDone, Files,
         KilledIsRecorded
<1> QED BY <1>1, Invariant, PTL

\* Artifacts of different launches are explained by partial_results.json.
THEOREM ArtifactsExplained == Spec => []ArtifactsAgree
<1>1. IInv => ArtifactsAgree
  BY DEF IInv, TypeOK, HandlerInStep, Registered, HandlerDone, Files, ArtifactsAgree
<1> QED BY <1>1, Invariant, PTL

\* What launch() returns is on record and agrees with what it did to the engine.
THEOREM ResultsMatch == Spec => []ResultMatchesEngine
<1>1. IInv => ResultMatchesEngine
  BY DEF IInv, HandlerInStep, Outcome, HandlerDone, Files, ResultMatchesEngine
<1> QED BY <1>1, Invariant, PTL

\* The command with its registries, signals, waits and failures implements
\* Engines: it signals its own engine only, while it holds it, SIGKILL after
\* SIGTERM, and records one verdict that is true (launch, _terminate_process,
\* terminate_registered_processes).
THEOREM EnginesAreAsPromised == Spec => ImplementsEngines
<1>1. Init => Contract!Init
  BY DEF Init, Holds, Contract!Init, Contract!Launches
<1>2. IInv /\ [Next]_vars => [Contract!Next]_Contract!vars
  BY NextContract
<1> QED BY <1>1, <1>2, Invariant, PTL DEF Spec, ImplementsEngines, Contract!Spec
=============================================================================
