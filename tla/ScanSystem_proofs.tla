------------------------- MODULE ScanSystem_proofs -------------------------
(***************************************************************************)
(* Theorems about ScanSystem for any number of scans, tasks and requests,  *)
(* any plan of phases and any number of crashes.  First the type           *)
(* invariant, module by module, then the inductive invariant of the scan   *)
(* tasks and what follows from it, then the finality of a kill.            *)
(***************************************************************************)
EXTENDS ScanProperties, ScanRequests_proofs, TLAPS

PCs == {"request"} \cup Active \cup Stopped

-----------------------------------------------------------------------------
(* The helpers of the component modules keep their variables' types.       *)

(* Goto moves a task to a control state it may be in.                      *)
LEMMA GotoType ==
    ASSUME TaskTypeOK, NEW t \in Tasks, NEW to \in PCs, Goto(t, to)
    PROVE  pc' \in [Tasks -> PCs]
  BY DEF Goto, TaskTypeOK, PCs

-----------------------------------------------------------------------------
(* The commands that may follow in a phase are within their bound.         *)
LEMMA FollowUpsType == \A p : FollowUps(p) \in 0..MaxHosts
  BY TaskAssumption DEF FollowUps

(* Every step of a scan task keeps the types of what it writes.            *)
LEMMA TaskStepType ==
    ASSUME RepoTypeOK, KillTypeOK, TaskTypeOK, NEW t \in Tasks,
           StartScan(t) \/ TaskStep(t)
    PROVE  RepoTypeOK' /\ KillTypeOK' /\ TaskTypeOK'
<1>. DEFINE Same == UNCHANGED <<scanId, jobId, phase, more>>
            Moves == pc' \in [Tasks -> PCs]
            Writes == /\ job' \in [Jobs -> Row]
                      /\ audit' \subseteq (AuditActions \X (Jobs \cup {NoJob}))
<1>. USE DEF PCs, Active, Handling, Executing, Stopped
<1>1. \A to \in PCs : Goto(t, to) => Moves
  BY GotoType
<1>2. ASSUME OnlyMoves, Moves
      PROVE  RepoTypeOK' /\ KillTypeOK' /\ TaskTypeOK'
  BY <1>2 DEF OnlyMoves, repoVars, killVars, RepoTypeOK, KillTypeOK, TaskTypeOK
<1>3. ASSUME UNCHANGED killVars, Same, Moves, Writes
      PROVE  RepoTypeOK' /\ KillTypeOK' /\ TaskTypeOK'
  BY <1>3 DEF killVars, RepoTypeOK, KillTypeOK, TaskTypeOK
<1>3a. ASSUME CommandStep, Moves, more' \in [Tasks -> 0..MaxHosts]
       PROVE  RepoTypeOK' /\ KillTypeOK' /\ TaskTypeOK'
  BY <1>3a DEF CommandStep, repoVars, killVars, RepoTypeOK, KillTypeOK,
               TaskTypeOK
<1>4. ASSUME NEW from, NEW j, NEW yes \in PCs, NEW no \in PCs,
             StatusCheck(t, from, j, yes, no)
      PROVE  OnlyMoves /\ Moves
  BY <1>1, <1>4 DEF StatusCheck, Step
<1>5. ASSUME NEW from, NEW to \in PCs, NEW j, NEW s \in Status,
             Step(t, from, to), SetStatus(j, s), UNCHANGED audit
      PROVE  Moves /\ Writes
  BY <1>1, <1>5, SetStatusType DEF Step, RepoTypeOK
<1>6. ASSUME NEW from, NEW to \in PCs, NEW a \in AuditActions,
             NEW j \in Jobs \cup {NoJob},
             Step(t, from, to), Log(a, j), UNCHANGED job
      PROVE  Moves /\ Writes
  BY <1>1, <1>6, LogType DEF Step, RepoTypeOK
<1>7. ASSUME NextPhase(t)
      PROVE  Moves /\ phase' \in [Tasks -> 1..Len(Plan)]
  <2>1. Len(Plan) \in Nat /\ phase[t] \in 1..Len(Plan)
    BY TaskAssumption DEF TaskTypeOK
  <2>2. Moves
    BY <1>1, <1>7 DEF NextPhase
  <2>3. \/ phase' = [phase EXCEPT ![t] = phase[t] + 1] /\ phase[t] < Len(Plan)
        \/ UNCHANGED phase
    BY <1>7 DEF NextPhase
  <2>4. phase \in [Tasks -> 1..Len(Plan)]
    BY DEF TaskTypeOK
  <2>5. CASE UNCHANGED phase
    BY <2>2, <2>4, <2>5
  <2>6. CASE phase' = [phase EXCEPT ![t] = phase[t] + 1] /\ phase[t] < Len(Plan)
    <3>1. phase[t] + 1 \in 1..Len(Plan)
      BY <2>1, <2>6
    <3>. QED
      BY <2>2, <2>4, <2>6, <3>1
  <2>. QED
    BY <2>3, <2>5, <2>6
<1>8. CASE StartScan(t)
  BY <1>1, <1>2, <1>8 DEF StartScan
<1>9. CASE CheckLayers(t)
  BY <1>1, <1>2, <1>9 DEF CheckLayers
<1>10. CASE CreateJob(t)
  <2>1. Moves
    BY <1>1, <1>10 DEF CreateJob, Step
  <2>2. job' \in [Jobs -> Row]
    BY <1>10, CreateType DEF CreateJob
  <2>. QED
    BY <1>10, <2>1, <2>2
    DEF CreateJob, killVars, RepoTypeOK, KillTypeOK, TaskTypeOK
<1>11. CASE SpawnTask(t)
  BY <1>3, <1>6, <1>11 DEF SpawnTask, AuditActions, TaskTypeOK
<1>12. CASE BeginCheck(t)
  BY <1>2, <1>4, <1>12 DEF BeginCheck
<1>13. CASE BeginWrite(t)
  BY <1>3, <1>5, <1>13 DEF BeginWrite, Status
<1>14. CASE ResolveJob(t)
  <2>1. Moves
    BY <1>1, <1>14 DEF ResolveJob, Step
  <2>2. job' \in [Jobs -> Row]
    BY <1>14, CreateType DEF ResolveJob, RepoTypeOK
  <2>. QED
    BY <1>14, <2>1, <2>2
    DEF ResolveJob, killVars, RepoTypeOK, KillTypeOK, TaskTypeOK
<1>15. CASE LogStarted(t)
  BY <1>3, <1>6, <1>15 DEF LogStarted, AuditActions, TaskTypeOK
<1>16. CASE RequestApproval(t)
  <2>1. Moves
    BY <1>1, <1>16 DEF RequestApproval
  <2>2. job' \in [Jobs -> Row]
    <3>1. job \in [Jobs -> Row]
      BY DEF RepoTypeOK
    <3>2. \A j \in Jobs : [job[j] EXCEPT !.approval = TRUE] \in Row
      BY <3>1 DEF Row
    <3>3. CASE job' = [job EXCEPT ![jobId[t]].approval = TRUE]
      BY <3>1, <3>2, <3>3
    <3>. QED
      BY <1>16, <3>1, <3>3 DEF RequestApproval
  <2>. QED
    BY <1>3, <1>16, <2>1, <2>2 DEF RequestApproval, RepoTypeOK
<1>17. CASE ApprovalAnswer(t)
  BY <1>1, <1>2, <1>17 DEF ApprovalAnswer, Step
<1>18. CASE DenyCheck(t)
  BY <1>2, <1>4, <1>18 DEF DenyCheck
<1>19. CASE DenyWrite(t)
  BY <1>3, <1>5, <1>19 DEF DenyWrite, Status
<1>20. CASE AbortIfKilled(t)
  BY <1>1, <1>20 DEF AbortIfKilled, OnlyMoves, Step, repoVars, killVars, RepoTypeOK,
                    KillTypeOK, TaskTypeOK
<1>21. CASE EnterPhase(t)
  <2>1. Moves /\ CommandStep
    BY <1>1, <1>21 DEF EnterPhase, Step
  <2>2. more' \in [Tasks -> 0..MaxHosts]
    BY <1>21, FollowUpsType DEF EnterPhase, TaskTypeOK
  <2>. QED
    BY <1>3a, <2>1, <2>2
<1>22. CASE SkipPhase(t)
  BY <1>7, <1>22 DEF SkipPhase, repoVars, killVars, RepoTypeOK,
                    KillTypeOK, TaskTypeOK, PCs
<1>23. CASE ToolReturns(t)
  <2>1. Moves /\ CommandStep
    BY <1>1, <1>23 DEF ToolReturns
  <2>2. more' \in [Tasks -> 0..MaxHosts]
    BY <1>23, TaskAssumption DEF ToolReturns, TaskTypeOK
  <2>. QED
    BY <1>3a, <2>1, <2>2
<1>24. CASE ToolAgain(t)
  <2>1. Moves /\ CommandStep
    BY <1>1, <1>24 DEF ToolAgain
  <2>2. more' \in [Tasks -> 0..MaxHosts]
    BY <1>24, TaskAssumption DEF ToolAgain, TaskTypeOK
  <2>. QED
    BY <1>3a, <2>1, <2>2
<1>25. CASE ToolFails(t)
  BY <1>1, <1>2, <1>25 DEF ToolFails, Step
<1>26. CASE CreatePhaseRow(t)
  <2>1. Moves
    BY <1>1, <1>26 DEF CreatePhaseRow
  <2>2. job' \in [Jobs -> Row]
    BY <1>26, ChildrenType DEF CreatePhaseRow, RepoTypeOK
  <2>. QED
    BY <1>3, <1>26, <2>1, <2>2 DEF CreatePhaseRow, RepoTypeOK
<1>27. CASE PhaseKilled(t)
  BY <1>7, <1>27 DEF PhaseKilled, repoVars, killVars, RepoTypeOK,
                    KillTypeOK, TaskTypeOK, PCs
<1>28. CASE RunAgent(t)
  BY <1>1, <1>2, <1>28 DEF RunAgent, Step
<1>29. CASE AgentAnswers(t)
  <2>1. Moves /\ phase' \in [Tasks -> 1..Len(Plan)]
    BY <1>1, <1>7, <1>29 DEF AgentAnswers, TaskTypeOK
  <2>. QED
    BY <1>29, <2>1 DEF AgentAnswers, repoVars, killVars, RepoTypeOK,
                       KillTypeOK, TaskTypeOK
<1>30. CASE AgentFails(t)
  BY <1>7, <1>30 DEF AgentFails, repoVars, killVars, RepoTypeOK,
                    KillTypeOK, TaskTypeOK, PCs
<1>31. CASE StoreResults(t)
  <2>1. Moves /\ phase' \in [Tasks -> 1..Len(Plan)]
    BY <1>1, <1>7, <1>31 DEF StoreResults, TaskTypeOK
  <2>2. job' \in [Jobs -> Row]
    BY <1>31, ChildrenType DEF StoreResults, RepoTypeOK
  <2>. QED
    BY <1>31, <2>1, <2>2 DEF StoreResults, killVars, RepoTypeOK,
                       KillTypeOK, TaskTypeOK
<1>32. CASE PersistFindings(t)
  <2>1. Moves
    BY <1>1, <1>32 DEF PersistFindings
  <2>2. job' \in [Jobs -> Row]
    BY <1>32, ChildrenType DEF PersistFindings, RepoTypeOK
  <2>. QED
    BY <1>3, <1>32, <2>1, <2>2 DEF PersistFindings, RepoTypeOK
<1>33. CASE FinalCheck(t)
  BY <1>2, <1>4, <1>33 DEF FinalCheck
<1>34. CASE FinalWrite(t)
  BY <1>3, <1>5, <1>34 DEF FinalWrite, Status
<1>35. CASE FinalLog(t)
  BY <1>3, <1>6, <1>35 DEF FinalLog, AuditActions, TaskTypeOK
<1>36. CASE FailCheck(t)
  BY <1>2, <1>4, <1>36 DEF FailCheck
<1>37. CASE FailWrite(t)
  BY <1>3, <1>5, <1>37 DEF FailWrite, Status
<1>38. CASE FailLog(t)
  BY <1>3, <1>6, <1>38 DEF FailLog, AuditActions, TaskTypeOK
<1>39. CASE OuterCheck(t)
  BY <1>2, <1>4, <1>39 DEF OuterCheck
<1>40. CASE OuterWrite(t)
  BY <1>3, <1>5, <1>40 DEF OuterWrite, Status
<1>. QED
  BY <1>8, <1>9, <1>10, <1>11, <1>12, <1>13, <1>14, <1>15, <1>16, <1>17,
     <1>18, <1>19, <1>20, <1>21, <1>22, <1>23, <1>24, <1>25, <1>26,
     <1>27, <1>28, <1>29, <1>30, <1>31, <1>32, <1>33, <1>34, <1>35,
     <1>36, <1>37, <1>38, <1>39, <1>40
  DEF TaskStep

-----------------------------------------------------------------------------
(* Every step of a watchdog pass does.                                     *)
LEMMA WatchdogStepType ==
    ASSUME RepoTypeOK, KillTypeOK, WatchdogTypeOK, NEW up, WatchdogStep(up)
    PROVE  RepoTypeOK' /\ KillTypeOK' /\ WatchdogTypeOK'
<1>. DEFINE Goal == RepoTypeOK' /\ KillTypeOK' /\ WatchdogTypeOK'
<1>1. ASSUME KillTypeOK', WatchdogTypeOK', UNCHANGED repoVars
      PROVE  Goal
  BY <1>1 DEF repoVars, RepoTypeOK
<1>2. ASSUME NEW s \in Status, SetStatus(wJob, s), WatchdogTypeOK',
             UNCHANGED <<audit, killVars>>
      PROVE  Goal
  <2>1. job' \in [Jobs -> Row]
    BY <1>2, SetStatusType
  <2>. QED
    BY <1>2, <2>1 DEF killVars, RepoTypeOK, KillTypeOK
<1>3. UNCHANGED killVars => KillTypeOK'
  BY DEF killVars, KillTypeOK
<1>4. Activate("watchdog") => KillTypeOK'
  BY KillSwitchType DEF Processes
<1>5. CASE TimeoutList
  BY <1>1, <1>3, <1>5 DEF TimeoutList, WStep, WatchdogTypeOK, HasStatus
<1>6. CASE TimeoutKill
  BY <1>1, <1>4, <1>6 DEF TimeoutKill, WStep, WatchdogTypeOK
<1>7. CASE TimeoutCheck
  BY <1>1, <1>3, <1>7 DEF TimeoutCheck, WStep, WatchdogTypeOK
<1>8. CASE TimeoutWrite
  BY <1>2, <1>8 DEF TimeoutWrite, WStep, WatchdogTypeOK, Status
<1>9. CASE TimeoutsDone
  BY <1>1, <1>3, <1>9 DEF TimeoutsDone, WStep, WatchdogTypeOK
<1>10. CASE Healthy
  BY <1>1, <1>3, <1>10, WatchdogAssumption DEF Healthy, WStep, WatchdogTypeOK
<1>11. CASE Unhealthy
  <2>1. failures' \in 0..MaxHealthFailures - 1
    BY <1>11, WatchdogAssumption DEF Unhealthy, OneMore, WatchdogTypeOK
  <2>. QED
    BY <1>1, <1>3, <1>4, <1>11, <2>1 DEF Unhealthy, WStep, WatchdogTypeOK
<1>12. CASE ScopeKill
  BY <1>1, <1>4, <1>12 DEF ScopeKill, WStep, WatchdogTypeOK, Violating, HasStatus
<1>13. CASE ScopeFine
  BY <1>1, <1>3, <1>13 DEF ScopeFine, WStep, WatchdogTypeOK
<1>14. CASE ScopeCheck
  BY <1>1, <1>3, <1>14 DEF ScopeCheck, WStep, WatchdogTypeOK
<1>15. CASE ScopeWrite
  BY <1>2, <1>15 DEF ScopeWrite, WStep, WatchdogTypeOK, Status
<1>16. CASE Completion
  <2>1. KillTypeOK'
    BY <1>16 DEF Completion, StopSandbox, KillTypeOK
  <2>. QED
    BY <1>1, <1>16, <2>1 DEF Completion, WStep, WatchdogTypeOK
<1>. QED
  BY <1>5, <1>6, <1>7, <1>8, <1>9, <1>10, <1>11, <1>12, <1>13, <1>14,
     <1>15, <1>16
  DEF WatchdogStep

(* Every step of the startup hook does.                                    *)
LEMMA StartupStepType ==
    ASSUME RepoTypeOK, KillTypeOK, StartupTypeOK, StartupStep
    PROVE  RepoTypeOK' /\ KillTypeOK' /\ StartupTypeOK'
<1>1. CASE StartupList
  BY <1>1 DEF StartupList, AStep, HasStatus, repoVars, killVars, RepoTypeOK,
              KillTypeOK, StartupTypeOK
<1>2. CASE StartupSkip
  BY <1>2 DEF StartupSkip, AStep, repoVars, killVars, RepoTypeOK, KillTypeOK,
              StartupTypeOK
<1>3. CASE StartupCheck
  BY <1>3 DEF StartupCheck, repoVars, killVars, RepoTypeOK, KillTypeOK,
              StartupTypeOK
<1>4. CASE StartupWrite
  <2>1. job' \in [Jobs -> Row]
    BY <1>4, SetStatusType DEF StartupWrite, Status
  <2>. QED
    BY <1>4, <2>1 DEF StartupWrite, AStep, killVars, RepoTypeOK, KillTypeOK,
                      StartupTypeOK
<1>5. CASE StartupDone
  <2>1. KillTypeOK'
    BY <1>5, KillSwitchType DEF StartupDone, Processes
  <2>. QED
    BY <1>5, <2>1 DEF StartupDone, AStep, repoVars, RepoTypeOK, StartupTypeOK
<1>. QED
  BY <1>1, <1>2, <1>3, <1>4, <1>5 DEF StartupStep

-----------------------------------------------------------------------------
(* TypeOK: every variable of ScanSystem keeps its type, whichever process  *)
(* moves and whichever of them dies and is started again.                  *)
THEOREM TypeCorrect == Spec => []TypeOK
<1>1. Init => TypeOK
  <2>. SUFFICES ASSUME Init
                PROVE  TypeOK
    OBVIOUS
  <2>1. NoRow("unused") \in Row /\ 1 \in 1..Len(Plan)
    <3>1. Len(Plan) \in Nat \ {0}
      BY TaskAssumption
    <3>. QED
      BY <3>1 DEF NoRow, Row
  <2>2. RepoTypeOK /\ KillTypeOK
    BY <2>1 DEF Init, RepoInit, RepoTypeOK, KillInit, KillTypeOK
  <2>3. TaskTypeOK
    BY <2>1, TaskAssumption DEF Init, TaskInit, TaskTypeOK
  <2>4. RequestTypeOK /\ WatchdogTypeOK /\ StartupTypeOK
    BY WatchdogAssumption
    DEF Init, RequestInit, RequestTypeOK, WatchdogInit, WatchdogTypeOK,
        StartupInit, StartupTypeOK
  <2>. QED
    BY <2>2, <2>3, <2>4, BoundAssumption DEF Init, TypeOK
<1>2. TypeOK /\ [Next]_vars => TypeOK'
  <2>. SUFFICES ASSUME TypeOK, [Next]_vars
                PROVE  TypeOK'
    OBVIOUS
  <2>. DEFINE Counters == crashes' \in 0..MaxCrashes /\ restarts' \in 0..MaxRestarts
  <2>1. /\ UNCHANGED repoVars => RepoTypeOK'
        /\ UNCHANGED killVars => KillTypeOK'
        /\ UNCHANGED taskVars => TaskTypeOK'
        /\ UNCHANGED requestVars => RequestTypeOK'
    BY DEF TypeOK, repoVars, RepoTypeOK, killVars, KillTypeOK, taskVars,
           TaskTypeOK, requestVars, RequestTypeOK
  <2>2. /\ UNCHANGED watchdogVars => WatchdogTypeOK'
        /\ UNCHANGED startupVars => StartupTypeOK'
        /\ UNCHANGED <<crashes, restarts>> => Counters
    BY DEF TypeOK, watchdogVars, WatchdogTypeOK, startupVars, StartupTypeOK
  <2>3. ASSUME NEW t \in Tasks, Start(t) \/ Task(t)
        PROVE  TypeOK'
    <3>1. RepoTypeOK' /\ KillTypeOK' /\ TaskTypeOK'
      BY <2>3, TaskStepType DEF Start, Task, TypeOK
    <3>. QED
      BY <2>1, <2>2, <2>3, <3>1 DEF Start, Task, Rest, TypeOK
  <2>4. ASSUME NEW r \in Requests, Send(r) \/ Request(r)
        PROVE  TypeOK'
    <3>1. RepoTypeOK' /\ KillTypeOK' /\ RequestTypeOK'
      BY <2>4, RequestStepType DEF Send, Request, TypeOK
    <3>. QED
      BY <2>1, <2>2, <2>4, <3>1 DEF Send, Request, Rest, TypeOK
  <2>5. CASE SandboxRequest
    <3>1. KillTypeOK'
      BY <2>5 DEF SandboxRequest, StartSandboxRequest, StopSandboxRequest,
                  CreateSandbox, StopSandbox, KillTypeOK, TypeOK
    <3>2. UNCHANGED <<repoVars, requestVars>>
      BY <2>5 DEF SandboxRequest, StartSandboxRequest, StopSandboxRequest
    <3>. QED
      BY <2>1, <2>2, <2>5, <3>1, <3>2 DEF SandboxRequest, Rest, TypeOK
  <2>6. CASE WatchdogPass
    <3>1. RepoTypeOK' /\ KillTypeOK' /\ WatchdogTypeOK'
      BY <2>6, WatchdogStepType DEF WatchdogPass, TypeOK
    <3>. QED
      BY <2>1, <2>2, <2>6, <3>1 DEF WatchdogPass, Rest, TypeOK
  <2>7. CASE Startup
    <3>1. RepoTypeOK' /\ KillTypeOK' /\ StartupTypeOK'
      BY <2>7, StartupStepType DEF Startup, TypeOK
    <3>. QED
      BY <2>1, <2>2, <2>7, <3>1 DEF Startup, Rest, TypeOK
  <2>8. ASSUME NEW j \in Jobs, Age(j)
        PROVE  TypeOK'
    <3>1. RepoTypeOK'
      BY <2>8 DEF Age, RepoTypeOK, Row, TypeOK
    <3>. QED
      BY <2>1, <2>2, <2>8, <3>1 DEF Age, Rest, TypeOK
  <2>9. CASE ApiCrash
    <3>1. TaskTypeOK'
      BY <2>9 DEF ApiCrash, TasksCrash, TaskTypeOK, Stopped, TypeOK
    <3>2. RequestTypeOK'
      BY <2>9 DEF ApiCrash, RequestsCrash, RequestTypeOK, TypeOK
    <3>3. RepoTypeOK' /\ KillTypeOK' /\ StartupTypeOK'
      BY <2>1, <2>9, KillSwitchType
      DEF ApiCrash, ApiDies, Processes, StartupTypeOK, TypeOK
    <3>4. Counters
      BY <2>9, BoundAssumption DEF ApiCrash, TypeOK
    <3>. QED
      BY <2>2, <2>9, <3>1, <3>2, <3>3, <3>4 DEF ApiCrash, TypeOK
  <2>10. CASE WatchdogCrash
    <3>1. RepoTypeOK' /\ KillTypeOK' /\ WatchdogTypeOK'
      BY <2>1, <2>10, KillSwitchType, WatchdogAssumption
      DEF WatchdogCrash, WatchdogRestart, Processes, WatchdogTypeOK, TypeOK
    <3>2. Counters
      BY <2>10, BoundAssumption DEF WatchdogCrash, TypeOK
    <3>. QED
      BY <2>1, <2>2, <2>10, <3>1, <3>2 DEF WatchdogCrash, TypeOK
  <2>11. CASE UNCHANGED vars
    BY <2>1, <2>2, <2>11 DEF vars, TypeOK
  <2>. QED
    BY <2>3, <2>4, <2>5, <2>6, <2>7, <2>8, <2>9, <2>10, <2>11 DEF Next
<1>. QED
  BY <1>1, <1>2, PTL DEF Spec

-----------------------------------------------------------------------------
(* The inductive invariant of the scan tasks.  TaskEndsScan and            *)
(* RunningHasTask are not inductive: they need to know whose scan a task   *)
(* updates, that no other task has it, that only its first update finds it *)
(* never started, and that the paths which return have seen it ended.      *)

Over == Terminal \cup {"deleted"}

\* Before the INSERT; before RUNNING; where a returning task may still be.
Idle == {"request", "refused", "layers", "create"}
Beginning == {"spawn", "begin_check", "begin_write"}
Ending == {"outer_check", "outer_write", "final_log", "fail_log", "done"}

Holds(t, j) == scanId[t] = j \/ jobId[t] = j

\* A task has its ids from the INSERT on, and one id until it resolves it.
IdsGiven ==
    \A t \in Tasks :
        /\ pc[t] \in Idle => scanId[t] = NoJob /\ jobId[t] = NoJob
        /\ pc[t] \in {"spawn", "done"} \cup Executing =>
                scanId[t] \in Jobs /\ jobId[t] \in Jobs
        /\ pc[t] \in Beginning \cup {"resolve"} => jobId[t] = scanId[t]

IdsDrawn ==
    \A t \in Tasks, j \in Jobs : Holds(t, j) => job[j].status # "unused"

IdsUnique ==
    \A t, u \in Tasks, j \in Jobs : Holds(t, j) /\ Holds(u, j) => t = u

Unstarted ==
    \A t \in Tasks : pc[t] \in Beginning => ~job[scanId[t]].started

Ended ==
    \A t \in Tasks : pc[t] \in Ending => job[jobId[t]].status \in Over

TaskInv ==
    /\ IdsGiven /\ IdsDrawn /\ IdsUnique
    /\ Unstarted /\ Ended /\ RunningHasTask

\* What every step but the update to RUNNING does to a row at most.
Benign ==
    \A j \in Jobs :
        /\ job[j].status # "unused" => job'[j].status # "unused"
        /\ job'[j].status = "running" => job[j].status = "running"
        /\ job'[j].started => job[j].started
        /\ job[j].status \in Over => job'[j].status \in Over

(* SetStatus with a terminal status is benign.                             *)
LEMMA SetStatusBenign ==
    ASSUME RepoTypeOK, NEW j, NEW s \in Terminal, SetStatus(j, s)
    PROVE  Benign
<1>1. CASE job' = job
  BY <1>1 DEF Benign
<1>2. CASE job' # job
  <2>1. /\ job' = [job EXCEPT ![j] = Stamped(@, s)]
        /\ j \in Jobs => job[j].status \notin {"unused", "deleted"}
    BY <1>2 DEF SetStatus, Exists
  <2>2. ASSUME j \in Jobs
        PROVE  Stamped(job[j], s).status = s /\ Stamped(job[j], s).started = job[j].started
    <3>1. job[j] \in Row
      BY <2>2 DEF RepoTypeOK
    <3>. QED
      BY <3>1 DEF Stamped, Row, Terminal
  <2>3. \A k \in Jobs : k # j => job'[k] = job[k]
    BY <2>1 DEF RepoTypeOK
  <2>4. j \in Jobs => job'[j].status = s /\ job'[j].started = job[j].started
    BY <2>1, <2>2 DEF RepoTypeOK
  <2>. QED
    BY <2>3, <2>4 DEF Benign, Over, Terminal
<1>. QED
  BY <1>1, <1>2

(* So are the other writes of the repository.                              *)
LEMMA WriteBenign ==
    ASSUME RepoTypeOK, NEW j,
           \/ UNCHANGED job
           \/ j \in Jobs /\ Create(j)
           \/ AddChildren(j) \/ DeleteChildren(j) \/ DeleteRow(j)
    PROVE  Benign
<1>1. CASE UNCHANGED job
  BY <1>1 DEF Benign
<1>2. CASE j \in Jobs /\ Create(j)
  BY <1>2 DEF Create, NoRow, Benign, Over, Terminal, RepoTypeOK
<1>3. CASE AddChildren(j)
  BY <1>3 DEF AddChildren, Benign, RepoTypeOK, Row
<1>4. CASE DeleteChildren(j)
  BY <1>4 DEF DeleteChildren, Benign, RepoTypeOK, Row
<1>. QED
  BY <1>1, <1>2, <1>3, <1>4 DEF DeleteRow, NoRow, Benign, Over, RepoTypeOK

(* No request handler sets a scan running, nor does the watchdog, the      *)
(* startup hook or the clock.                                              *)
LEMMA RequestBenign ==
    ASSUME RepoTypeOK, NEW r \in Requests, SendRequest(r) \/ RequestStep(r)
    PROVE  Benign
<1>1. UNCHANGED job => Benign
  BY WriteBenign
<1>2. ASSUME NEW a, NEW j, LogRequest(r, a, j)
      PROVE  Benign
  BY <1>1, <1>2 DEF LogRequest
<1>3. CASE CancelRead(r) \/ CancelCheck(r) \/ DeleteRead(r) \/ KillActivate(r)
           \/ KillList(r) \/ KillCheck(r) \/ KillMarked(r) \/ ResetFlag(r)
  BY <1>1, <1>3 DEF CancelRead, CancelCheck, DeleteRead, KillActivate,
                    KillList, KillCheck, KillMarked, ResetFlag, repoVars
<1>4. CASE CancelLog(r) \/ DeleteLog(r) \/ KillLog(r) \/ ResetLog(r)
  BY <1>2, <1>4 DEF CancelLog, DeleteLog, KillLog, ResetLog
<1>5. CASE CancelWrite(r) \/ KillWrite(r)
  BY <1>5, SetStatusBenign DEF CancelWrite, KillWrite, Terminal
<1>6. CASE DeleteDependents(r) \/ DeleteScanRow(r)
  BY <1>6, WriteBenign DEF DeleteDependents, DeleteScanRow
<1>. QED
  BY <1>3, <1>4, <1>5, <1>6 DEF SendRequest, RequestStep

LEMMA WatchdogBenign ==
    ASSUME RepoTypeOK, NEW up, WatchdogStep(up)
    PROVE  Benign
<1>1. CASE TimeoutWrite \/ ScopeWrite
  BY <1>1, SetStatusBenign DEF TimeoutWrite, ScopeWrite, Terminal
<1>2. CASE UNCHANGED job
  BY <1>2, WriteBenign
<1>. QED
  BY <1>1, <1>2
  DEF WatchdogStep, TimeoutList, TimeoutKill, TimeoutCheck, TimeoutsDone,
      Healthy, Unhealthy, ScopeKill, ScopeFine, ScopeCheck, Completion, repoVars

LEMMA StartupBenign ==
    ASSUME RepoTypeOK, StartupStep
    PROVE  Benign
<1>1. CASE StartupWrite
  BY <1>1, SetStatusBenign DEF StartupWrite, Terminal
<1>2. CASE UNCHANGED job
  BY <1>2, WriteBenign
<1>. QED
  BY <1>1, <1>2 DEF StartupStep, StartupList, StartupSkip, StartupCheck,
                    StartupDone, repoVars

LEMMA AgeBenign ==
    ASSUME RepoTypeOK, NEW j \in Jobs, Age(j)
    PROVE  Benign
  BY DEF Age, Benign, RepoTypeOK, Row

(* While the tasks stand still, a benign step leaves TaskInv alone.        *)
LEMMA OthersKeepTaskInv ==
    ASSUME TaskTypeOK, TaskInv, Benign, UNCHANGED <<pc, scanId, jobId>>
    PROVE  TaskInv'
<1>1. IdsGiven' /\ IdsUnique'
  BY DEF TaskInv, IdsGiven, IdsUnique, Holds
<1>2. IdsDrawn'
  BY DEF TaskInv, IdsDrawn, Holds, Benign
<1>3. Unstarted'
  <2>1. \A t \in Tasks : pc[t] \in Beginning => scanId[t] \in Jobs
    BY DEF TaskInv, IdsGiven, Beginning, Executing
  <2>. QED
    BY <2>1 DEF TaskInv, Unstarted, Benign
<1>4. Ended'
  <2>1. \A t \in Tasks : pc[t] \in Ending => jobId[t] \in Jobs
    BY DEF TaskInv, IdsGiven, Ending, Executing
  <2>. QED
    BY <2>1 DEF TaskInv, Ended, Benign
<1>5. RunningHasTask'
  BY DEF TaskInv, RunningHasTask, HasStatus, Benign
<1>. QED
  BY <1>1, <1>2, <1>3, <1>4, <1>5 DEF TaskInv

\* Where a task that has its ids may go without changing them.
Allowed(from, to) ==
    \/ from \in Idle /\ to \in Idle
    \/ from = "spawn" /\ to = "begin_check"
    \/ from = "begin_check" /\ to \in {"begin_write", "outer_check"}
    \/ /\ from \in Executing \ Beginning
       /\ to \in {"done"} \cup (Executing \ (Beginning \cup {"resolve"}))

(* A benign step of a task, which if it is about to return has seen its    *)
(* scan ended, leaves TaskInv alone.                                       *)
LEMMA MoveKeepsTaskInv ==
    ASSUME TaskTypeOK, TaskInv, Benign, NEW t \in Tasks, NEW to,
           Goto(t, to), Allowed(pc[t], to), UNCHANGED <<scanId, jobId>>,
           to \in Ending => job'[jobId[t]].status \in Over
    PROVE  TaskInv'
<1>. USE DEF Idle, Beginning, Ending, Executing, Allowed
<1>1. pc'[t] = to /\ \A u \in Tasks : u # t => pc'[u] = pc[u]
  BY DEF Goto, TaskTypeOK
<1>2. IdsUnique'
  BY DEF TaskInv, IdsUnique, Holds
<1>3. IdsGiven'
  BY <1>1 DEF TaskInv, IdsGiven
<1>4. IdsDrawn'
  BY DEF TaskInv, IdsDrawn, Holds, Benign
<1>5. Unstarted'
  <2>1. \A u \in Tasks : pc'[u] \in Beginning =>
            pc[u] \in Beginning /\ scanId[u] \in Jobs
    BY <1>1 DEF TaskInv, IdsGiven
  <2>. QED
    BY <2>1 DEF TaskInv, Unstarted, Benign
<1>6. Ended'
  <2>1. ASSUME NEW u \in Tasks, u # t, pc'[u] \in Ending
        PROVE  job'[jobId'[u]].status \in Over
    BY <1>1, <2>1 DEF TaskInv, IdsGiven, Ended, Benign
  <2>. QED
    BY <1>1, <2>1 DEF Ended
<1>7. RunningHasTask'
  <2>. SUFFICES ASSUME NEW j \in Jobs, job'[j].status = "running"
                PROVE  \E u \in Tasks : jobId[u] = j
                          /\ pc'[u] \in Executing \cup {"crashed"}
    BY DEF RunningHasTask, HasStatus
  <2>1. PICK u \in Tasks : jobId[u] = j /\ pc[u] \in Executing \cup {"crashed"}
    BY DEF TaskInv, RunningHasTask, HasStatus, Benign
  <2>2. CASE u = t
    BY <1>1, <2>1, <2>2 DEF Over, Terminal
  <2>. QED
    BY <1>1, <2>1, <2>2
<1>. QED
  BY <1>2, <1>3, <1>4, <1>5, <1>6, <1>7 DEF TaskInv

(* After the UPDATE, a scan whose row was ever there has ended.            *)
LEMMA SetStatusEnds ==
    ASSUME RepoTypeOK, NEW j \in Jobs, NEW s \in Terminal, SetStatus(j, s),
           job[j].status # "unused"
    PROVE  job'[j].status \in Over
<1>1. CASE Exists(j)
  <2>1. job' = [job EXCEPT ![j] = Stamped(@, s)] /\ job[j] \in Row
    BY <1>1 DEF SetStatus, RepoTypeOK
  <2>2. Stamped(job[j], s).status = s
    BY <2>1 DEF Stamped, Row, Terminal
  <2>. QED
    BY <2>1, <2>2 DEF RepoTypeOK, Over
<1>2. CASE ~Exists(j)
  BY <1>2 DEF SetStatus, Exists, Over
<1>. QED
  BY <1>1, <1>2

(* The INSERT of start_scan: a scan nobody else has, never started.        *)
LEMMA CreateJobKeepsTaskInv ==
    ASSUME RepoTypeOK, TaskTypeOK, TaskInv, NEW t \in Tasks, CreateJob(t)
    PROVE  TaskInv'
<1>1. PICK j \in Jobs :
        /\ Create(j)
        /\ scanId' = [scanId EXCEPT ![t] = j]
        /\ jobId' = [jobId EXCEPT ![t] = j]
  BY DEF CreateJob
<1>2. /\ pc[t] = "create"
      /\ pc'[t] = "spawn"
      /\ \A u \in Tasks : u # t => pc'[u] = pc[u]
  BY DEF CreateJob, Step, Goto, TaskTypeOK
<1>3. /\ scanId'[t] = j /\ jobId'[t] = j
      /\ \A u \in Tasks : u # t => scanId'[u] = scanId[u] /\ jobId'[u] = jobId[u]
  BY <1>1 DEF TaskTypeOK
<1>4. /\ job[j].status = "unused"
      /\ job'[j].status = "pending" /\ ~job'[j].started
      /\ \A k \in Jobs : k # j => job'[k] = job[k]
  BY <1>1 DEF Create, NoRow, RepoTypeOK
<1>5. \A u \in Tasks : ~Holds(u, j)
  BY <1>4 DEF TaskInv, IdsDrawn
<1>6. IdsGiven'
  BY <1>2, <1>3 DEF TaskInv, IdsGiven, Idle, Beginning, Executing
<1>7. IdsDrawn'
  BY <1>3, <1>4 DEF TaskInv, IdsDrawn, Holds
<1>8. IdsUnique'
  BY <1>3, <1>5 DEF TaskInv, IdsUnique, Holds
<1>9. Unstarted'
  <2>1. \A u \in Tasks : u # t /\ pc'[u] \in Beginning =>
            scanId[u] \in Jobs \ {j} /\ pc[u] \in Beginning
    BY <1>2, <1>5 DEF TaskInv, IdsGiven, Holds, Beginning, Executing
  <2>. QED
    BY <1>3, <1>4, <2>1 DEF TaskInv, Unstarted
<1>10. Ended'
  <2>1. \A u \in Tasks : pc'[u] \in Ending =>
            u # t /\ jobId[u] \in Jobs \ {j} /\ pc[u] \in Ending
    BY <1>2, <1>5 DEF TaskInv, IdsGiven, Holds, Ending, Executing
  <2>. QED
    BY <1>3, <1>4, <2>1 DEF TaskInv, Ended
<1>11. RunningHasTask'
  <2>1. \A k \in Jobs : job'[k].status = "running" => job[k].status = "running"
    BY <1>4
  <2>2. \A u \in Tasks : pc[u] \in Executing \cup {"crashed"} => u # t
    BY <1>2 DEF Executing
  <2>. QED
    BY <1>2, <1>3, <2>1, <2>2 DEF TaskInv, RunningHasTask, HasStatus
<1>. QED
  BY <1>6, <1>7, <1>8, <1>9, <1>10, <1>11 DEF TaskInv

(* The update to RUNNING hits the task's own scan and no other's.          *)
LEMMA BeginWriteKeepsTaskInv ==
    ASSUME RepoTypeOK, TaskTypeOK, TaskInv, NEW t \in Tasks, BeginWrite(t)
    PROVE  TaskInv'
<1>1. /\ pc[t] = "begin_write"
      /\ pc'[t] = "resolve"
      /\ \A u \in Tasks : u # t => pc'[u] = pc[u]
      /\ UNCHANGED <<scanId, jobId>>
  BY DEF BeginWrite, Step, Goto, TaskTypeOK
<1>2. scanId[t] \in Jobs /\ jobId[t] = scanId[t]
  BY <1>1 DEF TaskInv, IdsGiven, Beginning, Executing
<1>3. \A k \in Jobs : k # scanId[t] => job'[k] = job[k]
  BY DEF BeginWrite, SetStatus, RepoTypeOK
<1>4. job[scanId[t]].status # "unused"
  BY <1>2 DEF TaskInv, IdsDrawn, Holds
<1>5. job'[scanId[t]].status # "unused"
  <2>1. CASE Exists(scanId[t])
    <3>1. Stamped(job[scanId[t]], "running").status = "running"
      BY <1>2 DEF Stamped, Row, RepoTypeOK
    <3>. QED
      BY <1>2, <2>1, <3>1 DEF BeginWrite, SetStatus, RepoTypeOK
  <2>2. CASE ~Exists(scanId[t])
    BY <1>4, <2>2 DEF BeginWrite, SetStatus
  <2>. QED
    BY <2>1, <2>2
<1>6. \A u \in Tasks : u # t => ~Holds(u, scanId[t])
  BY <1>2 DEF TaskInv, IdsUnique, Holds
<1>7. IdsGiven'
  BY <1>1 DEF TaskInv, IdsGiven, Idle, Beginning, Executing
<1>8. IdsDrawn'
  BY <1>1, <1>3, <1>5 DEF TaskInv, IdsDrawn, Holds
<1>9. IdsUnique'
  BY <1>1 DEF TaskInv, IdsUnique, Holds
<1>10. Unstarted'
  <2>1. \A u \in Tasks : pc'[u] \in Beginning =>
            scanId[u] \in Jobs \ {scanId[t]} /\ pc[u] \in Beginning
    BY <1>1, <1>6 DEF TaskInv, IdsGiven, Holds, Beginning, Executing
  <2>. QED
    BY <1>1, <1>3, <2>1 DEF TaskInv, Unstarted
<1>11. Ended'
  <2>1. \A u \in Tasks : pc'[u] \in Ending =>
            jobId[u] \in Jobs \ {scanId[t]} /\ pc[u] \in Ending
    BY <1>1, <1>6 DEF TaskInv, IdsGiven, Holds, Ending, Executing
  <2>. QED
    BY <1>1, <1>3, <2>1 DEF TaskInv, Ended
<1>12. RunningHasTask'
  <2>. SUFFICES ASSUME NEW k \in Jobs, job'[k].status = "running"
                PROVE  \E u \in Tasks : jobId[u] = k
                          /\ pc'[u] \in Executing \cup {"crashed"}
    BY <1>1 DEF RunningHasTask, HasStatus
  <2>1. CASE k = scanId[t]
    BY <1>1, <1>2, <2>1 DEF Executing
  <2>2. CASE k # scanId[t]
    BY <1>1, <1>2, <1>3, <2>2 DEF TaskInv, RunningHasTask, HasStatus
  <2>. QED
    BY <2>1, <2>2
<1>. QED
  BY <1>7, <1>8, <1>9, <1>10, <1>11, <1>12 DEF TaskInv

(* A task whose scan was deleted goes on under an id of its own.           *)
LEMMA ResolveJobKeepsTaskInv ==
    ASSUME RepoTypeOK, TaskTypeOK, TaskInv, NEW t \in Tasks, ResolveJob(t)
    PROVE  TaskInv'
<1>1. /\ pc[t] = "resolve"
      /\ pc'[t] = "started_log"
      /\ \A u \in Tasks : u # t => pc'[u] = pc[u]
      /\ UNCHANGED scanId
  BY DEF ResolveJob, Step, Goto, TaskTypeOK
<1>2. scanId[t] \in Jobs /\ jobId[t] = scanId[t]
  BY <1>1 DEF TaskInv, IdsGiven, Beginning, Executing
<1>3. CASE UNCHANGED <<job, jobId>>
  <2>1. Allowed(pc[t], "started_log") /\ "started_log" \notin Ending
    BY <1>1 DEF Allowed, Idle, Beginning, Executing, Ending
  <2>2. Goto(t, "started_log") /\ Benign
    BY <1>3, WriteBenign DEF ResolveJob, Step
  <2>. QED
    BY <1>1, <1>3, <2>1, <2>2, MoveKeepsTaskInv
<1>4. ASSUME NEW j \in Jobs, Create(j), jobId' = [jobId EXCEPT ![t] = j],
             ~Exists(scanId[t])
      PROVE  TaskInv'
  <2>1. /\ jobId'[t] = j
        /\ \A u \in Tasks : u # t => jobId'[u] = jobId[u]
    BY <1>4 DEF TaskTypeOK
  <2>2. /\ job[j].status = "unused"
        /\ job'[j].status = "pending"
        /\ \A k \in Jobs : k # j => job'[k] = job[k]
    BY <1>4 DEF Create, NoRow, RepoTypeOK
  <2>3. \A u \in Tasks : ~Holds(u, j)
    BY <2>2 DEF TaskInv, IdsDrawn
  <2>4. IdsGiven'
    BY <1>1, <1>2, <2>1 DEF TaskInv, IdsGiven, Idle, Beginning, Executing
  <2>5. IdsDrawn'
    BY <1>1, <2>1, <2>2 DEF TaskInv, IdsDrawn, Holds
  <2>6. IdsUnique'
    BY <1>1, <2>1, <2>3 DEF TaskInv, IdsUnique, Holds
  <2>7. Unstarted'
    <3>1. \A u \in Tasks : pc'[u] \in Beginning =>
              scanId[u] \in Jobs \ {j} /\ pc[u] \in Beginning
      BY <1>1, <2>3 DEF TaskInv, IdsGiven, Holds, Beginning, Executing
    <3>. QED
      BY <1>1, <2>2, <3>1 DEF TaskInv, Unstarted
  <2>8. Ended'
    <3>1. \A u \in Tasks : pc'[u] \in Ending =>
              u # t /\ jobId[u] \in Jobs \ {j} /\ pc[u] \in Ending
      BY <1>1, <2>3 DEF TaskInv, IdsGiven, Holds, Ending, Executing
    <3>. QED
      BY <2>1, <2>2, <3>1 DEF TaskInv, Ended
  <2>9. RunningHasTask'
    <3>1. \A k \in Jobs : job'[k].status = "running" =>
              job[k].status = "running" /\ k # jobId[t]
      BY <1>2, <1>4, <2>2 DEF Exists
    <3>. QED
      BY <1>1, <2>1, <3>1 DEF TaskInv, RunningHasTask, HasStatus
  <2>. QED
    BY <2>4, <2>5, <2>6, <2>7, <2>8, <2>9 DEF TaskInv
<1>. QED
  BY <1>3, <1>4 DEF ResolveJob

(* Every step of a scan task keeps TaskInv, and is benign but for the      *)
(* update to RUNNING.                                                      *)
LEMMA TaskKeepsTaskInv ==
    ASSUME RepoTypeOK, TaskTypeOK, TaskInv, NEW t \in Tasks,
           StartScan(t) \/ TaskStep(t)
    PROVE  TaskInv' /\ (Benign \/ BeginWrite(t))
<1>. USE DEF Idle, Beginning, Ending, Executing, Allowed
<1>1. UNCHANGED job => Benign
  BY WriteBenign
<1>2. ASSUME Benign, NEW to, Goto(t, to), Allowed(pc[t], to),
             to \notin Ending \/ pc[t] \in Ending, UNCHANGED <<scanId, jobId>>
      PROVE  TaskInv' /\ Benign
  <2>1. pc[t] \in Ending => job'[jobId[t]].status \in Over
    BY <1>2 DEF TaskInv, IdsGiven, Ended, Benign
  <2>. QED
    BY <1>2, <2>1, MoveKeepsTaskInv
<1>3. ASSUME NEW from \in Executing, NEW to \in Ending, NEW s \in Terminal,
             Allowed(from, to), Step(t, from, to), SetStatus(jobId[t], s),
             UNCHANGED <<scanId, jobId>>
      PROVE  TaskInv' /\ Benign
  <2>1. jobId[t] \in Jobs /\ job[jobId[t]].status # "unused"
    BY <1>3 DEF TaskInv, IdsGiven, IdsDrawn, Holds, Step
  <2>2. job'[jobId[t]].status \in Over
    BY <1>3, <2>1, SetStatusEnds
  <2>3. Benign
    BY <1>3, SetStatusBenign
  <2>. QED
    BY <1>3, <2>2, <2>3, MoveKeepsTaskInv DEF Step
<1>4. ASSUME NEW from \in Executing, NEW yes, NEW no,
             StatusCheck(t, from, jobId[t], yes, no),
             Allowed(from, yes), Allowed(from, no), yes \notin Ending
      PROVE  TaskInv' /\ Benign
  <2>1. Benign /\ UNCHANGED <<job, scanId, jobId>> /\ pc[t] = from
    BY <1>1, <1>4 DEF StatusCheck, OnlyMoves, Step, repoVars
  <2>2. CASE Refused(jobId[t])
    <3>1. job'[jobId[t]].status \in Over
      BY <2>1, <2>2 DEF Refused, Over, Terminal
    <3>2. Goto(t, no)
      BY <1>4, <2>2 DEF StatusCheck, Step
    <3>. QED
      BY <1>4, <2>1, <3>1, <3>2, MoveKeepsTaskInv
  <2>3. CASE ~Refused(jobId[t])
    <3>1. Goto(t, yes)
      BY <1>4, <2>3 DEF StatusCheck, Step
    <3>. QED
      BY <1>2, <1>4, <2>1, <3>1
  <2>. QED
    BY <2>2, <2>3
<1>5. ASSUME NextPhase(t), Benign, UNCHANGED <<scanId, jobId>>,
             pc[t] \in Executing \ Beginning
      PROVE  TaskInv' /\ Benign
  BY <1>2, <1>5 DEF NextPhase
<1>6. CASE StartScan(t) \/ CheckLayers(t)
  BY <1>1, <1>2, <1>6 DEF StartScan, CheckLayers, OnlyMoves, repoVars
<1>7. CASE CreateJob(t)
  <2>1. Benign
    BY <1>7, WriteBenign DEF CreateJob
  <2>. QED
    BY <1>7, <2>1, CreateJobKeepsTaskInv
<1>8. CASE SpawnTask(t) \/ LogStarted(t)
  BY <1>1, <1>2, <1>8 DEF SpawnTask, LogStarted, Step
<1>9. CASE BeginCheck(t)
  <2>1. jobId[t] = scanId[t]
    BY <1>9 DEF BeginCheck, StatusCheck, Step, TaskInv, IdsGiven
  <2>. QED
    BY <1>4, <1>9, <2>1 DEF BeginCheck
<1>10. CASE BeginWrite(t)
  BY <1>10, BeginWriteKeepsTaskInv
<1>11. CASE ResolveJob(t)
  <2>1. Benign
    BY <1>11, WriteBenign DEF ResolveJob
  <2>. QED
    BY <1>11, <2>1, ResolveJobKeepsTaskInv
<1>12. CASE RequestApproval(t)
  <2>1. Benign
    BY <1>1, <1>12 DEF RequestApproval, Benign, RepoTypeOK, Row
  <2>. QED
    BY <1>2, <1>12, <2>1 DEF RequestApproval
<1>13. CASE ApprovalAnswer(t)
  BY <1>1, <1>2, <1>13 DEF ApprovalAnswer, OnlyMoves, repoVars
<1>14. CASE DenyCheck(t)
  BY <1>4, <1>14 DEF DenyCheck
<1>15. CASE DenyWrite(t)
  BY <1>3, <1>15 DEF DenyWrite, Terminal
<1>16. CASE \/ AbortIfKilled(t) \/ EnterPhase(t) \/ RunAgent(t)
          \/ ToolReturns(t) \/ ToolAgain(t) \/ ToolFails(t)
  BY <1>1, <1>2, <1>16 DEF AbortIfKilled, OnlyMoves, EnterPhase, CommandStep, RunAgent,
                         ToolReturns, ToolAgain, ToolFails, Step, OnlyMoves, repoVars
<1>17. CASE SkipPhase(t) \/ PhaseKilled(t) \/ AgentFails(t)
  BY <1>1, <1>5, <1>17 DEF SkipPhase, PhaseKilled, AgentFails, repoVars
<1>18. CASE AgentAnswers(t)
  BY <1>1, <1>2, <1>5, <1>18 DEF AgentAnswers, repoVars
<1>19. CASE CreatePhaseRow(t) \/ PersistFindings(t)
  <2>1. Benign
    BY <1>19, WriteBenign DEF CreatePhaseRow, PersistFindings
  <2>. QED
    BY <1>2, <1>19, <2>1 DEF CreatePhaseRow, PersistFindings
<1>20. CASE StoreResults(t)
  <2>1. Benign
    BY <1>20, WriteBenign DEF StoreResults
  <2>. QED
    BY <1>2, <1>5, <1>20, <2>1 DEF StoreResults
<1>21. CASE FinalCheck(t)
  BY <1>4, <1>21 DEF FinalCheck
<1>22. CASE FinalWrite(t)
  BY <1>3, <1>22 DEF FinalWrite, Terminal
<1>23. CASE FinalLog(t) \/ FailLog(t)
  BY <1>1, <1>2, <1>23 DEF FinalLog, FailLog, Step
<1>24. CASE FailCheck(t)
  BY <1>4, <1>24 DEF FailCheck
<1>25. CASE FailWrite(t)
  BY <1>3, <1>25 DEF FailWrite, Terminal
<1>26. CASE OuterCheck(t)
  <2>1. Goto(t, "outer_write") \/ Goto(t, "done")
    BY <1>26 DEF OuterCheck, StatusCheck, Step
  <2>2. pc[t] = "outer_check" /\ UNCHANGED <<job, scanId, jobId>>
    BY <1>26 DEF OuterCheck, StatusCheck, Step, OnlyMoves, repoVars
  <2>. QED
    BY <1>1, <1>2, <2>1, <2>2
<1>27. CASE OuterWrite(t)
  <2>1. Benign
    BY <1>27, SetStatusBenign DEF OuterWrite, Terminal
  <2>. QED
    BY <1>2, <1>27, <2>1 DEF OuterWrite, Step
<1>. QED
  BY <1>6, <1>7, <1>8, <1>9, <1>10, <1>11, <1>12, <1>13, <1>14, <1>15,
     <1>16, <1>17, <1>18, <1>19, <1>20, <1>21, <1>22, <1>23, <1>24,
     <1>25, <1>26, <1>27
  DEF TaskStep

\* Everything TLAPS needs to know of a reachable state.
SystemInv == TypeOK /\ TaskInv

(* SystemInv is inductive, whoever moves or dies.                          *)
THEOREM SystemInvCorrect == Spec => []SystemInv
<1>1. Init => TaskInv
  <2>. SUFFICES ASSUME Init
                PROVE  TaskInv
    OBVIOUS
  <2>1. /\ \A t \in Tasks : pc[t] = "request" /\ scanId[t] = NoJob
                              /\ jobId[t] = NoJob
        /\ \A j \in Jobs : job[j].status = "unused"
    BY DEF Init, TaskInit, RepoInit, NoRow
  <2>2. IdsGiven /\ Unstarted /\ Ended
    BY <2>1 DEF IdsGiven, Unstarted, Ended, Beginning, Ending, Executing
  <2>3. IdsDrawn /\ IdsUnique /\ RunningHasTask
    BY <2>1, JobsAssumption
    DEF IdsDrawn, IdsUnique, Holds, RunningHasTask, HasStatus
  <2>. QED
    BY <2>2, <2>3 DEF TaskInv
<1>2. TypeOK /\ TaskInv /\ [Next]_vars => TaskInv'
  <2>. SUFFICES ASSUME TypeOK, TaskInv, [Next]_vars
                PROVE  TaskInv'
    OBVIOUS
  <2>. USE DEF TypeOK
  <2>1. ASSUME Benign, UNCHANGED taskVars
        PROVE  TaskInv'
    BY <2>1, OthersKeepTaskInv DEF taskVars
  <2>2. UNCHANGED job => Benign
    BY WriteBenign
  <2>3. ASSUME NEW t \in Tasks, Start(t) \/ Task(t)
        PROVE  TaskInv'
    BY <2>3, TaskKeepsTaskInv DEF Start, Task
  <2>4. ASSUME NEW r \in Requests, Send(r) \/ Request(r)
        PROVE  TaskInv'
    BY <2>1, <2>4, RequestBenign DEF Send, Request, Rest
  <2>5. CASE SandboxRequest
    BY <2>1, <2>2, <2>5
    DEF SandboxRequest, StartSandboxRequest, StopSandboxRequest, repoVars, Rest
  <2>6. CASE WatchdogPass
    BY <2>1, <2>6, WatchdogBenign DEF WatchdogPass, Rest
  <2>7. CASE Startup
    BY <2>1, <2>7, StartupBenign DEF Startup, Rest
  <2>8. ASSUME NEW j \in Jobs, Age(j)
        PROVE  TaskInv'
    BY <2>1, <2>8, AgeBenign DEF Age, Rest
  <2>9. CASE ApiCrash
    <3>1. /\ UNCHANGED <<job, scanId, jobId>>
          /\ \A t \in Tasks :
                \/ pc'[t] = pc[t] /\ pc[t] \notin Active
                \/ pc'[t] = "crashed" /\ pc[t] \in Active
      BY <2>9 DEF ApiCrash, ApiDies, TasksCrash, repoVars
    <3>2. IdsDrawn' /\ IdsUnique'
      BY <3>1 DEF TaskInv, IdsDrawn, IdsUnique, Holds
    <3>3. IdsGiven' /\ Unstarted' /\ Ended'
      BY <3>1 DEF TaskInv, IdsGiven, Unstarted, Ended, Idle, Beginning, Ending,
                  Executing
    <3>4. RunningHasTask'
      BY <3>1 DEF TaskInv, RunningHasTask, HasStatus, Active
    <3>. QED
      BY <3>2, <3>3, <3>4 DEF TaskInv
  <2>10. CASE WatchdogCrash
    BY <2>1, <2>2, <2>10 DEF WatchdogCrash, WatchdogRestart, repoVars
  <2>11. CASE UNCHANGED vars
    BY <2>1, <2>2, <2>11 DEF vars, repoVars
  <2>. QED
    BY <2>3, <2>4, <2>5, <2>6, <2>7, <2>8, <2>9, <2>10, <2>11 DEF Next
<1>. QED
  BY <1>1, <1>2, TypeCorrect, PTL DEF Spec, SystemInv

(* run_scan_background never returns with its scan still to be ended.      *)
THEOREM TaskEndsScanCorrect == Spec => []TaskEndsScan
<1>1. SystemInv => TaskEndsScan
  BY DEF SystemInv, TaskInv, Ended, Ending, Over, TaskEndsScan
<1>. QED
  BY <1>1, SystemInvCorrect, PTL

(* No error path of the orchestrator leaves a scan running without a task. *)
THEOREM RunningHasTaskCorrect == Spec => []RunningHasTask
<1>1. SystemInv => RunningHasTask
  BY DEF SystemInv, TaskInv
<1>. QED
  BY <1>1, SystemInvCorrect, PTL

(* A scan that was running is running once.                                *)
THEOREM NeverRunsAgainCorrect == Spec => NeverRunsAgain
<1>. DEFINE Again == \A j \in Jobs : job[j].started /\ job[j].status # "running" =>
                        job'[j].status # "running"
<1>1. SystemInv /\ [Next]_vars => Again
  <2>. SUFFICES ASSUME SystemInv, [Next]_vars
                PROVE  Again
    OBVIOUS
  <2>. USE DEF SystemInv, TypeOK
  <2>1. Benign => Again
    BY DEF Benign
  <2>2. UNCHANGED job => Benign
    BY WriteBenign
  <2>3. ASSUME NEW t \in Tasks, BeginWrite(t)
        PROVE  Again
    <3>1. ~job[scanId[t]].started
      BY <2>3 DEF BeginWrite, Step, TaskInv, Unstarted, Beginning
    <3>2. \A j \in Jobs : j # scanId[t] => job'[j] = job[j]
      BY <2>3 DEF BeginWrite, SetStatus, RepoTypeOK
    <3>. QED
      BY <3>1, <3>2
  <2>4. ASSUME NEW t \in Tasks, Start(t) \/ Task(t)
        PROVE  Again
    BY <2>1, <2>3, <2>4, TaskKeepsTaskInv DEF Start, Task
  <2>5. ASSUME NEW r \in Requests, Send(r) \/ Request(r)
        PROVE  Again
    BY <2>1, <2>5, RequestBenign DEF Send, Request
  <2>6. CASE WatchdogPass \/ Startup
    BY <2>1, <2>6, WatchdogBenign, StartupBenign DEF WatchdogPass, Startup
  <2>7. ASSUME NEW j \in Jobs, Age(j)
        PROVE  Again
    BY <2>1, <2>7, AgeBenign
  <2>8. CASE SandboxRequest \/ ApiCrash \/ WatchdogCrash \/ UNCHANGED vars
    BY <2>1, <2>2, <2>8
    DEF SandboxRequest, StartSandboxRequest, StopSandboxRequest, ApiCrash,
        ApiDies, WatchdogCrash, WatchdogRestart, vars, repoVars
  <2>. QED
    BY <2>4, <2>5, <2>6, <2>7, <2>8 DEF Next
<1>. QED
  BY <1>1, SystemInvCorrect, PTL DEF Spec, NeverRunsAgain

-----------------------------------------------------------------------------
(* The finality of a kill.  A scan that is killed and that no update is in *)
(* flight for is left alone by every step: whoever would write it is       *)
(* refused before.                                                         *)

\* The control states before an UPDATE, of scanId and of jobId.
ScanWrites == {"begin_write", "outer_write"}
JobWrites == {"deny_write", "final_write", "fail_write"}

(* An UPDATE of another scan, and any write but an UPDATE or the DELETE,   *)
(* leaves a killed scan killed.                                            *)
LEMMA OtherWriteKeepsKilled ==
    ASSUME RepoTypeOK, NEW j \in Jobs, Killed(j), NEW k,
           \/ UNCHANGED job
           \/ k # j /\ \E s \in Status : SetStatus(k, s)
           \/ Create(k)
           \/ AddChildren(k) \/ DeleteChildren(k)
    PROVE  job'[j].status = "emergency_killed"
<1>1. CASE k # j
  BY <1>1 DEF SetStatus, Create, AddChildren, DeleteChildren, RepoTypeOK, Killed
<1>2. CASE k = j
  BY <1>2 DEF Create, AddChildren, DeleteChildren, RepoTypeOK, Row, Killed
<1>. QED
  BY <1>1, <1>2

LEMMA TaskKillSettles ==
    ASSUME RepoTypeOK, TaskTypeOK, NEW j \in Jobs, Killed(j), ~TaskInFlight(j),
           NEW t \in Tasks, StartScan(t) \/ TaskStep(t)
    PROVE  job'[j].status = "emergency_killed" /\ ~TaskInFlight(j)'
<1>. USE DEF ScanWrites, JobWrites
<1>. DEFINE Others == \A u \in Tasks : u # t => scanId'[u] = scanId[u]
                                               /\ jobId'[u] = jobId[u]
            Stays == job'[j].status = "emergency_killed"
<1>1. ASSUME NEW to, Goto(t, to), Others, Stays,
             to \in ScanWrites => scanId'[t] # j,
             to \in JobWrites => jobId'[t] # j
      PROVE  Stays /\ ~TaskInFlight(j)'
  <2>1. pc'[t] = to /\ \A u \in Tasks : u # t => pc'[u] = pc[u]
    BY <1>1 DEF Goto, TaskTypeOK
  <2>. QED
    BY <1>1, <2>1 DEF TaskInFlight
<1>2. UNCHANGED job => Stays
  BY OtherWriteKeepsKilled
<1>3. UNCHANGED <<scanId, jobId>> => Others
  OBVIOUS
<1>4. ASSUME NEW from, NEW yes, NEW no, NEW k, StatusCheck(t, from, k, yes, no),
             no \notin ScanWrites \cup JobWrites,
             yes \in ScanWrites => k = scanId[t],
             yes \in JobWrites => k = jobId[t]
      PROVE  Stays /\ ~TaskInFlight(j)'
  <2>1. UNCHANGED <<job, scanId, jobId>>
    BY <1>4 DEF StatusCheck, OnlyMoves, repoVars
  <2>2. Goto(t, no) \/ (Goto(t, yes) /\ k # j)
    BY <1>4 DEF StatusCheck, Step, Refused, Killed
  <2>. QED
    BY <1>1, <1>2, <1>3, <1>4, <2>1, <2>2
<1>5. ASSUME NEW from, NEW to, NEW k, NEW s \in Status, Step(t, from, to),
             SetStatus(k, s), UNCHANGED <<scanId, jobId>>,
             to \notin ScanWrites \cup JobWrites,
             \/ from \in ScanWrites /\ k = scanId[t]
             \/ from \in JobWrites /\ k = jobId[t]
      PROVE  Stays /\ ~TaskInFlight(j)'
  <2>1. k # j
    BY <1>5 DEF Step, TaskInFlight
  <2>2. Stays
    BY <1>5, <2>1, OtherWriteKeepsKilled
  <2>. QED
    BY <1>1, <1>3, <1>5, <2>2 DEF Step
<1>6. ASSUME NextPhase(t), UNCHANGED <<scanId, jobId>>, Stays
      PROVE  Stays /\ ~TaskInFlight(j)'
  BY <1>1, <1>3, <1>6 DEF NextPhase
<1>7. CASE StartScan(t) \/ CheckLayers(t) \/ ApprovalAnswer(t)
  BY <1>1, <1>2, <1>3, <1>7
  DEF StartScan, CheckLayers, ApprovalAnswer, OnlyMoves, repoVars
<1>8. CASE CreateJob(t) \/ ResolveJob(t)
  <2>1. Stays
    BY <1>8, OtherWriteKeepsKilled DEF CreateJob, ResolveJob
  <2>2. Others
    BY <1>8 DEF CreateJob, ResolveJob, TaskTypeOK
  <2>. QED
    BY <1>1, <1>8, <2>1, <2>2 DEF CreateJob, ResolveJob, Step
<1>9. CASE \/ SpawnTask(t) \/ LogStarted(t) \/ FinalLog(t) \/ FailLog(t)
  BY <1>1, <1>2, <1>3, <1>9 DEF SpawnTask, LogStarted, FinalLog, FailLog, Step
<1>10. CASE \/ BeginCheck(t) \/ DenyCheck(t) \/ FinalCheck(t) \/ FailCheck(t)
          \/ OuterCheck(t)
  BY <1>4, <1>10 DEF BeginCheck, DenyCheck, FinalCheck, FailCheck, OuterCheck
<1>11. CASE \/ BeginWrite(t) \/ DenyWrite(t) \/ FinalWrite(t) \/ FailWrite(t)
          \/ OuterWrite(t)
  BY <1>5, <1>11
  DEF BeginWrite, DenyWrite, FinalWrite, FailWrite, OuterWrite, Status
<1>12. CASE RequestApproval(t)
  <2>1. Stays
    BY <1>12 DEF RequestApproval, RepoTypeOK, Row, Killed
  <2>. QED
    BY <1>1, <1>3, <1>12, <2>1 DEF RequestApproval
<1>13. CASE \/ AbortIfKilled(t) \/ EnterPhase(t) \/ RunAgent(t)
          \/ ToolReturns(t) \/ ToolAgain(t) \/ ToolFails(t)
  BY <1>1, <1>2, <1>3, <1>13
  DEF AbortIfKilled, OnlyMoves, EnterPhase, CommandStep, RunAgent, ToolReturns,
      ToolAgain, ToolFails,
      Step, OnlyMoves, repoVars
<1>14. CASE \/ SkipPhase(t) \/ PhaseKilled(t) \/ AgentFails(t) \/ AgentAnswers(t)
  BY <1>1, <1>2, <1>3, <1>6, <1>14
  DEF SkipPhase, PhaseKilled, AgentFails, AgentAnswers, repoVars
<1>15. CASE CreatePhaseRow(t) \/ PersistFindings(t) \/ StoreResults(t)
  <2>1. Stays
    BY <1>15, OtherWriteKeepsKilled DEF CreatePhaseRow, PersistFindings,
                                       StoreResults
  <2>. QED
    BY <1>1, <1>3, <1>6, <1>15, <2>1 DEF CreatePhaseRow, PersistFindings,
                                         StoreResults
<1>. QED
  BY <1>7, <1>8, <1>9, <1>10, <1>11, <1>12, <1>13, <1>14, <1>15
  DEF TaskStep

LEMMA RequestKillSettles ==
    ASSUME RepoTypeOK, RequestTypeOK, NEW j \in Jobs, Killed(j),
           ~RequestInFlight(j), NEW r \in Requests,
           SendRequest(r) \/ RequestStep(r)
    PROVE  /\ job'[j].status \in {"emergency_killed", "deleted"}
           /\ ~RequestInFlight(j)'
<1>. DEFINE Stays == job'[j].status \in {"emergency_killed", "deleted"}
            Others == \A u \in Requests : u # r => target'[u] = target[u]
<1>1. ASSUME NEW to, RGoto(r, to), Others, Stays, to = "write" => target'[r] # j
      PROVE  Stays /\ ~RequestInFlight(j)'
  <2>1. rpc'[r] = to /\ \A u \in Requests : u # r => rpc'[u] = rpc[u]
    BY <1>1 DEF RGoto, RequestTypeOK
  <2>. QED
    BY <1>1, <2>1 DEF RequestInFlight
<1>2. UNCHANGED job => Stays
  BY OtherWriteKeepsKilled
<1>3. UNCHANGED target => Others
  OBVIOUS
<1>4. ASSUME NEW a, NEW k, LogRequest(r, a, k)
      PROVE  Stays /\ ~RequestInFlight(j)'
  BY <1>1, <1>2, <1>3, <1>4 DEF LogRequest, RStep
<1>5. CASE CancelRead(r) \/ DeleteRead(r)
  <2>1. Others
    BY <1>5 DEF CancelRead, DeleteRead, RequestTypeOK
  <2>. QED
    BY <1>1, <1>2, <1>5, <2>1 DEF CancelRead, DeleteRead, repoVars
<1>6. CASE CancelCheck(r)
  BY <1>1, <1>2, <1>3, <1>6 DEF CancelCheck, RStep, Refused, Killed, repoVars
<1>7. CASE KillCheck(r)
  <2>1. PICK k \in todo[r] : /\ target' = [target EXCEPT ![r] = k]
                             /\ RGoto(r, IF Refused(k) THEN "failed" ELSE "write")
    BY <1>7 DEF KillCheck
  <2>2. target'[r] = k /\ Others
    BY <2>1 DEF RequestTypeOK
  <2>3. Stays
    BY <1>2, <1>7 DEF KillCheck, repoVars
  <2>4. CASE Refused(k)
    BY <1>1, <2>1, <2>2, <2>3, <2>4
  <2>5. CASE ~Refused(k)
    <3>1. k # j
      BY <2>5 DEF Refused, Killed
    <3>. QED
      BY <1>1, <2>1, <2>2, <2>3, <2>5, <3>1
  <2>. QED
    BY <2>4, <2>5
<1>8. CASE CancelWrite(r) \/ KillWrite(r)
  <2>1. target[r] # j
    BY <1>8 DEF CancelWrite, KillWrite, RStep, RequestInFlight
  <2>2. Stays
    BY <1>8, <2>1, OtherWriteKeepsKilled DEF CancelWrite, KillWrite, Status
  <2>. QED
    BY <1>1, <1>3, <1>8, <2>2 DEF CancelWrite, KillWrite, RStep
<1>9. CASE DeleteDependents(r) \/ DeleteScanRow(r)
  <2>1. Stays
    <3>1. DeleteRow(target[r]) => Stays
      BY DEF DeleteRow, NoRow, RepoTypeOK, Killed
    <3>. QED
      BY <1>9, <3>1, OtherWriteKeepsKilled DEF DeleteDependents, DeleteScanRow
  <2>. QED
    BY <1>1, <1>3, <1>9, <2>1 DEF DeleteDependents, DeleteScanRow, RStep
<1>10. CASE \/ KillActivate(r) \/ KillList(r) \/ KillMarked(r) \/ ResetFlag(r)
  BY <1>1, <1>2, <1>3, <1>10 DEF KillActivate, KillList, KillMarked, ResetFlag,
                                 RStep, repoVars
<1>11. CASE CancelLog(r) \/ DeleteLog(r) \/ KillLog(r) \/ ResetLog(r)
  BY <1>4, <1>11 DEF CancelLog, DeleteLog, KillLog, ResetLog
<1>. QED
  BY <1>5, <1>6, <1>7, <1>8, <1>9, <1>10, <1>11 DEF SendRequest, RequestStep

LEMMA WatchdogKillSettles ==
    ASSUME RepoTypeOK, NEW j \in Jobs, Killed(j), ~WatchdogInFlight(j), NEW up,
           WatchdogStep(up)
    PROVE  job'[j].status = "emergency_killed" /\ ~WatchdogInFlight(j)'
<1>1. UNCHANGED job => job'[j].status = "emergency_killed"
  BY OtherWriteKeepsKilled
<1>2. CASE TimeoutWrite \/ ScopeWrite
  <2>1. wJob # j
    BY <1>2 DEF TimeoutWrite, ScopeWrite, WStep, WatchdogInFlight
  <2>2. job'[j].status = "emergency_killed"
    BY <1>2, <2>1, OtherWriteKeepsKilled DEF TimeoutWrite, ScopeWrite, Status
  <2>. QED
    BY <1>2, <2>2 DEF TimeoutWrite, ScopeWrite, WStep, WatchdogInFlight
<1>3. CASE TimeoutCheck \/ ScopeCheck
  BY <1>1, <1>3 DEF TimeoutCheck, ScopeCheck, WStep, Refused, Killed, repoVars,
                    WatchdogInFlight
<1>4. CASE \/ TimeoutList \/ TimeoutKill \/ TimeoutsDone \/ Healthy
           \/ Unhealthy \/ ScopeKill \/ ScopeFine \/ Completion
  BY <1>1, <1>4
  DEF TimeoutList, TimeoutKill, TimeoutsDone, Healthy, Unhealthy, ScopeKill,
      ScopeFine, Completion, WStep, repoVars, WatchdogInFlight
<1>. QED
  BY <1>2, <1>3, <1>4 DEF WatchdogStep

LEMMA StartupKillSettles ==
    ASSUME RepoTypeOK, NEW j \in Jobs, Killed(j), ~StartupInFlight(j),
           StartupStep
    PROVE  job'[j].status = "emergency_killed" /\ ~StartupInFlight(j)'
<1>1. UNCHANGED job => job'[j].status = "emergency_killed"
  BY OtherWriteKeepsKilled
<1>2. CASE StartupWrite
  <2>1. stuckJob # j
    BY <1>2 DEF StartupWrite, AStep, StartupInFlight
  <2>2. job'[j].status = "emergency_killed"
    BY <1>2, <2>1, OtherWriteKeepsKilled DEF StartupWrite, Status
  <2>. QED
    BY <1>2, <2>2 DEF StartupWrite, AStep, StartupInFlight
<1>3. CASE StartupCheck
  BY <1>1, <1>3 DEF StartupCheck, Refused, Killed, repoVars, StartupInFlight
<1>4. CASE StartupList \/ StartupSkip \/ StartupDone
  BY <1>1, <1>4 DEF StartupList, StartupSkip, StartupDone, AStep, repoVars,
                    StartupInFlight
<1>. QED
  BY <1>2, <1>3, <1>4 DEF StartupStep

(* update_status makes emergency_killed final, but for the updates that    *)
(* were past its check when the kill was written.                          *)
THEOREM KillSettlesCorrect == Spec => KillSettles
<1>. DEFINE Settles ==
        \A j \in Jobs : Killed(j) /\ ~InFlight(j) =>
          job'[j].status \in {"emergency_killed", "deleted"} /\ ~InFlight(j)'
<1>1. TypeOK /\ [Next]_vars => Settles
  <2>. SUFFICES ASSUME TypeOK, [Next]_vars, NEW j \in Jobs, Killed(j), ~InFlight(j)
                PROVE  /\ job'[j].status \in {"emergency_killed", "deleted"}
                       /\ ~InFlight(j)'
    OBVIOUS
  <2>. USE DEF TypeOK
  <2>1. /\ ~TaskInFlight(j) /\ ~RequestInFlight(j)
        /\ ~WatchdogInFlight(j) /\ ~StartupInFlight(j)
    BY DEF InFlight
  <2>2. /\ ~TaskInFlight(j)' /\ ~RequestInFlight(j)'
        /\ ~WatchdogInFlight(j)' /\ ~StartupInFlight(j)'
        => ~InFlight(j)'
    BY DEF InFlight
  <2>3. UNCHANGED job => job'[j].status = "emergency_killed"
    BY OtherWriteKeepsKilled
  <2>4. /\ UNCHANGED taskVars => (TaskInFlight(j)' <=> TaskInFlight(j))
        /\ UNCHANGED requestVars => (RequestInFlight(j)' <=> RequestInFlight(j))
        /\ UNCHANGED watchdogVars => (WatchdogInFlight(j)' <=> WatchdogInFlight(j))
        /\ UNCHANGED startupVars => (StartupInFlight(j)' <=> StartupInFlight(j))
    BY DEF taskVars, TaskInFlight, requestVars, RequestInFlight, watchdogVars,
           WatchdogInFlight, startupVars, StartupInFlight
  <2>5. ASSUME NEW t \in Tasks, Start(t) \/ Task(t)
        PROVE  job'[j].status = "emergency_killed" /\ ~InFlight(j)'
    BY <2>1, <2>2, <2>4, <2>5, TaskKillSettles DEF Start, Task, Rest
  <2>6. ASSUME NEW r \in Requests, Send(r) \/ Request(r)
        PROVE  /\ job'[j].status \in {"emergency_killed", "deleted"}
               /\ ~InFlight(j)'
    BY <2>1, <2>2, <2>4, <2>6, RequestKillSettles DEF Send, Request, Rest
  <2>7. CASE WatchdogPass
    BY <2>1, <2>2, <2>4, <2>7, WatchdogKillSettles DEF WatchdogPass, Rest
  <2>8. CASE Startup
    BY <2>1, <2>2, <2>4, <2>8, StartupKillSettles DEF Startup, Rest
  <2>9. CASE SandboxRequest
    <3>1. UNCHANGED <<job, requestVars>>
      BY <2>9 DEF SandboxRequest, StartSandboxRequest, StopSandboxRequest, repoVars
    <3>. QED
      BY <2>1, <2>2, <2>3, <2>4, <2>9, <3>1 DEF SandboxRequest, Rest
  <2>10. ASSUME NEW k \in Jobs, Age(k)
         PROVE  job'[j].status = "emergency_killed" /\ ~InFlight(j)'
    <3>1. job'[j] = job[j]
      BY <2>10 DEF Age, Killed, RepoTypeOK
    <3>. QED
      BY <2>1, <2>2, <2>4, <2>10, <3>1 DEF Age, Rest, Killed
  <2>11. CASE ApiCrash
    <3>1. ~TaskInFlight(j)'
      BY <2>11 DEF ApiCrash, TasksCrash, TaskInFlight, ScanWrites, JobWrites,
                   Active, Executing
    <3>2. ~RequestInFlight(j)'
      BY <2>11 DEF ApiCrash, RequestsCrash, RequestInFlight, Handled
    <3>3. ~StartupInFlight(j)' /\ UNCHANGED <<job, watchdogVars>>
      BY <2>11 DEF ApiCrash, ApiDies, StartupInFlight, repoVars
    <3>. QED
      BY <2>1, <2>2, <2>3, <2>4, <3>1, <3>2, <3>3
  <2>12. CASE WatchdogCrash
    <3>1. ~WatchdogInFlight(j)' /\ UNCHANGED <<job, taskVars, requestVars, startupVars>>
      BY <2>12 DEF WatchdogCrash, WatchdogRestart, WatchdogInFlight, repoVars
    <3>. QED
      BY <2>1, <2>2, <2>3, <2>4, <3>1
  <2>13. CASE UNCHANGED vars
    BY <2>1, <2>2, <2>3, <2>4, <2>13 DEF vars, repoVars
  <2>. QED
    BY <2>5, <2>6, <2>7, <2>8, <2>9, <2>10, <2>11, <2>12, <2>13 DEF Next
<1>. QED
  BY <1>1, TypeCorrect, PTL DEF Spec, KillSettles
=============================================================================
