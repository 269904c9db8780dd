------------------------ MODULE ScanOutcome_proofs ------------------------
(***************************************************************************)
(* What ScanSystem_proofs leaves open: that a kill holds, that a killed    *)
(* scan is proof of a raised flag, and what the audit log promises.  All   *)
(* of them rest on what a step can do to a row, which comes first.         *)
(***************************************************************************)
EXTENDS ScanSystem_proofs

-----------------------------------------------------------------------------
(* The writes to a scan row.                                               *)

\* Every way the code writes a row, with updates to the statuses in S.
RowWrite(S) ==
    \/ UNCHANGED job
    \/ \E j \in Jobs \cup {NoJob} :
         \/ Create(j) \/ DeleteChildren(j) \/ DeleteRow(j)
         \/ \E s \in S : SetStatus(j, s)
         \/ /\ Exists(j)
            /\ \/ AddChildren(j)
               \/ job' = [job EXCEPT ![j].approval = TRUE]
               \/ job' = [job EXCEPT ![j].overdue = TRUE]

Gone(j) == job[j] = NoRow("deleted")

\* It was running once.
Seen(j) == Gone(j) \/ (job[j].started /\ job[j].status # "unused")

\* A deleted row stays deleted, started_at is never taken back, and who
\* sets a row running sets it.
Keeps ==
    \A j \in Jobs :
        /\ Gone(j) => job'[j] = job[j]
        /\ Seen(j) => Seen(j)'
        /\ job'[j].status = "running" =>
               job[j].status = "running" \/ job'[j].started

NoNewKill ==
    \A j \in Jobs : job'[j].status = "emergency_killed" => Killed(j)

LEMMA RowWriteKeeps ==
    ASSUME RepoTypeOK, RowWrite(Status)
    PROVE  Keeps
<1>1. CASE UNCHANGED job
  BY <1>1 DEF Keeps, Seen, Gone
<1>2. ASSUME NEW k \in Jobs \cup {NoJob}, NEW s \in Status, SetStatus(k, s)
      PROVE  Keeps
  <2>1. CASE job' = job
    BY <2>1 DEF Keeps, Seen, Gone
  <2>2. CASE job' = [job EXCEPT ![k] = Stamped(@, s)] /\ Exists(k)
    <3>1. \A j \in Jobs : j # k => job'[j] = job[j]
      BY <2>2 DEF RepoTypeOK
    <3>2. ASSUME k \in Jobs
          PROVE  /\ job'[k] = Stamped(job[k], s) /\ ~Gone(k)
                 /\ job[k] \in Row
      BY <2>2, <3>2 DEF RepoTypeOK, Gone, NoRow, Exists
    <3>3. ASSUME k \in Jobs
          PROVE  /\ job[k].started => Stamped(job[k], s).started
                 /\ s = "running" => Stamped(job[k], s).started
                 /\ Stamped(job[k], s).status = s
                 /\ s # "unused"
      BY <3>2, <3>3 DEF Stamped, Row, Status
    <3>. QED
      BY <3>1, <3>2, <3>3 DEF Keeps, Seen, Gone
  <2>. QED
    BY <1>2, <2>1, <2>2 DEF SetStatus
<1>3. ASSUME NEW k \in Jobs \cup {NoJob}, Create(k) \/ DeleteRow(k)
      PROVE  Keeps
  <2>1. \A j \in Jobs : j # k => job'[j] = job[j]
    BY <1>3 DEF Create, DeleteRow, RepoTypeOK
  <2>3. CASE k \in Jobs /\ DeleteRow(k)
    <3>1. job'[k] = NoRow("deleted")
      BY <2>3 DEF DeleteRow, RepoTypeOK
    <3>. QED
      BY <2>1, <3>1 DEF Keeps, Seen, Gone, NoRow
  <2>4. CASE k \in Jobs /\ Create(k)
    <3>1. job[k].status = "unused" /\ job'[k] = NoRow("pending") /\ ~Gone(k)
      BY <2>4 DEF Create, RepoTypeOK, Gone, NoRow
    <3>2. job'[k].status # "running"
      BY <3>1 DEF NoRow
    <3>. QED
      BY <2>1, <3>1, <3>2 DEF Keeps, Seen, Gone
  <2>5. CASE k \notin Jobs
    BY <2>1, <2>5 DEF Keeps, Seen, Gone
  <2>. QED
    BY <1>3, <2>3, <2>4, <2>5
<1>4. ASSUME NEW k \in Jobs \cup {NoJob},
             \/ DeleteChildren(k)
             \/ /\ Exists(k)
                /\ \/ AddChildren(k)
                   \/ job' = [job EXCEPT ![k].approval = TRUE]
                   \/ job' = [job EXCEPT ![k].overdue = TRUE]
      PROVE  Keeps
  <2>1. \A j \in Jobs : j # k => job'[j] = job[j]
    BY <1>4 DEF DeleteChildren, AddChildren, RepoTypeOK
  <2>2. ASSUME k \in Jobs
        PROVE  /\ job'[k].status = job[k].status
               /\ job'[k].started = job[k].started
    BY <1>4, <2>2 DEF DeleteChildren, AddChildren, RepoTypeOK, Row
  <2>3. ASSUME k \in Jobs, Gone(k)
        PROVE  job'[k] = job[k]
    BY <1>4, <2>3 DEF DeleteChildren, RepoTypeOK, Gone, NoRow, Exists
  <2>. QED
    BY <2>1, <2>2, <2>3 DEF Keeps, Seen, Gone
<1>. QED
  BY <1>1, <1>2, <1>3, <1>4 DEF RowWrite

LEMMA RowWriteMarks ==
    ASSUME RepoTypeOK, RowWrite(Status \ {"emergency_killed"})
    PROVE  NoNewKill
<1>1. CASE UNCHANGED job
  BY <1>1 DEF NoNewKill, Killed
<1>2. ASSUME NEW k \in Jobs \cup {NoJob},
             NEW s \in Status \ {"emergency_killed"}, SetStatus(k, s)
      PROVE  NoNewKill
  <2>1. CASE job' = job
    BY <2>1 DEF NoNewKill, Killed
  <2>2. CASE job' = [job EXCEPT ![k] = Stamped(@, s)]
    <3>1. \A j \in Jobs : j # k => job'[j] = job[j]
      BY <2>2 DEF RepoTypeOK
    <3>2. ASSUME k \in Jobs
          PROVE  job'[k] = Stamped(job[k], s) /\ job[k] \in Row
      BY <2>2, <3>2 DEF RepoTypeOK
    <3>3. ASSUME k \in Jobs
          PROVE  Stamped(job[k], s).status = s
      BY <3>2, <3>3 DEF Stamped, Row
    <3>. QED
      BY <3>1, <3>2, <3>3 DEF NoNewKill, Killed
  <2>. QED
    BY <1>2, <2>1, <2>2 DEF SetStatus
<1>3. ASSUME NEW k \in Jobs \cup {NoJob},
             \/ Create(k) \/ DeleteChildren(k) \/ DeleteRow(k)
             \/ AddChildren(k)
             \/ job' = [job EXCEPT ![k].approval = TRUE]
             \/ job' = [job EXCEPT ![k].overdue = TRUE]
      PROVE  NoNewKill
  BY <1>3 DEF Create, DeleteChildren, DeleteRow, AddChildren, NoRow, NoNewKill,
              Killed, RepoTypeOK, Row
<1>. QED
  BY <1>1, <1>2, <1>3 DEF RowWrite

(* The tasks never write emergency_killed, the requests only in KillWrite. *)
LEMMA TaskWrites ==
    ASSUME TypeOK, NEW t \in Tasks, StartScan(t) \/ TaskStep(t)
    PROVE  RowWrite({"running", "completed", "failed"})
<1>1. scanId[t] \in Jobs \cup {NoJob} /\ jobId[t] \in Jobs \cup {NoJob}
  BY DEF TypeOK, TaskTypeOK
<1>2. CASE \/ StartScan(t) \/ CheckLayers(t) \/ SpawnTask(t) \/ BeginCheck(t)
           \/ LogStarted(t) \/ ApprovalAnswer(t) \/ DenyCheck(t)
           \/ AbortIfKilled(t) \/ EnterPhase(t) \/ SkipPhase(t)
           \/ ToolReturns(t) \/ ToolAgain(t) \/ ToolFails(t)
           \/ PhaseKilled(t) \/ RunAgent(t) \/ AgentAnswers(t)
           \/ AgentFails(t) \/ FinalCheck(t) \/ FinalLog(t) \/ FailCheck(t)
           \/ FailLog(t) \/ OuterCheck(t)
  <2>1. UNCHANGED job
    BY <1>2 DEF StartScan, CheckLayers, SpawnTask, BeginCheck, LogStarted,
                ApprovalAnswer, DenyCheck, AbortIfKilled, EnterPhase, SkipPhase,
                ToolReturns, ToolAgain, ToolFails, PhaseKilled, RunAgent,
                AgentAnswers, AgentFails, FinalCheck, FinalLog, FailCheck,
                FailLog, OuterCheck, StatusCheck, OnlyMoves, CommandStep, repoVars
  <2>. QED
    BY <2>1 DEF RowWrite
<1>3. CASE CreateJob(t) \/ ResolveJob(t)
  BY <1>3 DEF CreateJob, ResolveJob, RowWrite
<1>4. CASE BeginWrite(t) \/ OuterWrite(t)
  BY <1>1, <1>4 DEF BeginWrite, OuterWrite, RowWrite
<1>5. CASE DenyWrite(t) \/ FinalWrite(t) \/ FailWrite(t)
  BY <1>1, <1>5 DEF DenyWrite, FinalWrite, FailWrite, RowWrite
<1>6. CASE RequestApproval(t) \/ CreatePhaseRow(t) \/ PersistFindings(t)
  BY <1>1, <1>6 DEF RequestApproval, CreatePhaseRow, PersistFindings, RowWrite
<1>7. CASE StoreResults(t)
  BY <1>1, <1>7 DEF StoreResults, Storable, RowWrite
<1>. QED
  BY <1>2, <1>3, <1>4, <1>5, <1>6, <1>7 DEF TaskStep

LEMMA RequestWrites ==
    ASSUME TypeOK, NEW r \in Requests, SendRequest(r) \/ RequestStep(r)
    PROVE  \/ RowWrite({"cancelled"})
           \/ r \in Killers /\ KillWrite(r) /\ RowWrite({"emergency_killed"})
<1>1. target[r] \in Jobs \cup {NoJob}
  BY DEF TypeOK, RequestTypeOK
<1>2. CASE \/ CancelRead(r) \/ CancelCheck(r) \/ CancelLog(r) \/ DeleteRead(r)
           \/ DeleteLog(r) \/ KillActivate(r) \/ KillList(r) \/ KillCheck(r)
           \/ KillMarked(r) \/ KillLog(r) \/ ResetFlag(r) \/ ResetLog(r)
  <2>1. UNCHANGED job
    BY <1>2 DEF CancelRead, CancelCheck, CancelLog, DeleteRead, DeleteLog,
                KillActivate, KillList, KillCheck, KillMarked, KillLog,
                ResetFlag, ResetLog, LogRequest, repoVars
  <2>. QED
    BY <2>1 DEF RowWrite
<1>3. CASE CancelWrite(r)
  BY <1>1, <1>3 DEF CancelWrite, RowWrite
<1>4. CASE DeleteDependents(r) \/ DeleteScanRow(r)
  BY <1>1, <1>4 DEF DeleteDependents, DeleteScanRow, RowWrite
<1>5. CASE r \in Killers /\ KillWrite(r)
  BY <1>1, <1>5 DEF KillWrite, RowWrite
<1>. QED
  BY <1>2, <1>3, <1>4, <1>5 DEF SendRequest, RequestStep

LEMMA WatchdogWrites ==
    ASSUME TypeOK, NEW up, WatchdogStep(up)
    PROVE  \/ UNCHANGED job
           \/ (TimeoutWrite \/ ScopeWrite) /\ RowWrite({"emergency_killed"})
<1>1. CASE TimeoutWrite \/ ScopeWrite
  BY <1>1 DEF TimeoutWrite, ScopeWrite, RowWrite, TypeOK, WatchdogTypeOK
<1>. QED
  BY <1>1
  DEF WatchdogStep, TimeoutList, TimeoutKill, TimeoutCheck, TimeoutsDone,
      Healthy, Unhealthy, ScopeKill, ScopeFine, ScopeCheck, Completion, repoVars

LEMMA StartupWrites ==
    ASSUME TypeOK, StartupStep
    PROVE  RowWrite({"failed"})
<1>1. CASE StartupWrite
  BY <1>1 DEF StartupWrite, RowWrite, TypeOK, StartupTypeOK
<1>2. CASE UNCHANGED job
  BY <1>2 DEF RowWrite
<1>. QED
  BY <1>1, <1>2 DEF StartupStep, StartupList, StartupSkip, StartupCheck,
                    StartupDone, repoVars

LEMMA AgeWrites ==
    ASSUME NEW j \in Jobs, Age(j)
    PROVE  RowWrite({})
  BY DEF Age, RowWrite, Exists

\* The updates of tasks, requests, watchdog and startup in one.
LEMMA RowWriteGrows ==
    ASSUME NEW S, NEW T, S \subseteq T, RowWrite(S)
    PROVE  RowWrite(T)
  BY DEF RowWrite

(* Every step of the system keeps the rows in this sense.                  *)
LEMMA StepKeeps ==
    ASSUME TypeOK, [Next]_vars
    PROVE  Keeps
<1>1. ASSUME NEW S \in SUBSET Status, RowWrite(S)
      PROVE  Keeps
  BY <1>1, RowWriteGrows, RowWriteKeeps DEF TypeOK
<1>2. UNCHANGED job => Keeps
  BY <1>1 DEF RowWrite
<1>3. ASSUME NEW t \in Tasks, Start(t) \/ Task(t)
      PROVE  Keeps
  BY <1>1, <1>3, TaskWrites DEF Start, Task, Status
<1>4. ASSUME NEW r \in Requests, Send(r) \/ Request(r)
      PROVE  Keeps
  BY <1>1, <1>4, RequestWrites DEF Send, Request, Status
<1>5. CASE WatchdogPass
  BY <1>1, <1>2, <1>5, WatchdogWrites DEF WatchdogPass, Status
<1>6. CASE Startup
  BY <1>1, <1>6, StartupWrites DEF Startup, Status
<1>7. ASSUME NEW j \in Jobs, Age(j)
      PROVE  Keeps
  BY <1>1, <1>7, AgeWrites
<1>8. CASE SandboxRequest \/ ApiCrash \/ WatchdogCrash \/ UNCHANGED vars
  BY <1>2, <1>8
  DEF SandboxRequest, StartSandboxRequest, StopSandboxRequest, ApiCrash,
      ApiDies, WatchdogCrash, WatchdogRestart, vars, repoVars
<1>. QED
  BY <1>3, <1>4, <1>5, <1>6, <1>7, <1>8 DEF Next

-----------------------------------------------------------------------------
(* A kill holds.  What emergency_kill listed was running once, and what it *)
(* is done with does not run: NeverRunsAgain does the rest.                *)

RunningStarted == \A j \in HasStatus("running") : job[j].started

Listed ==
    \A r \in Killers :
        /\ rpc[r] \in {"next", "write", "log", "done"} =>
              \A j \in running[r] : /\ Seen(j)
                                    /\ j \in todo[r] \/ job[j].status # "running"
        /\ rpc[r] \in {"log", "done"} => todo[r] = {}

KillInv == RunningStarted /\ Listed

Again ==
    \A j \in Jobs : job[j].started /\ job[j].status # "running" =>
        job'[j].status # "running"

(* The handler of a kill keeps its list.                                   *)
LEMMA KillerKeepsList ==
    ASSUME TypeOK, KillInv, Keeps, Again, NEW r \in Requests,
           SendRequest(r) \/ RequestStep(r)
    PROVE  Listed'
<1>. USE DEF TypeOK, RequestTypeOK
<1>1. ASSUME NEW j \in Jobs, Seen(j)
      PROVE  Seen(j)' /\ (job[j].status # "running" => job'[j].status # "running")
  BY <1>1 DEF Keeps, Seen, Gone, Again, NoRow
<1>2. ASSUME NEW to, RGoto(r, to)
      PROVE  rpc'[r] = to /\ \A u \in Requests : u # r => rpc'[u] = rpc[u]
  BY <1>2 DEF RGoto
<1>3. ASSUME NEW u \in Killers, rpc'[u] = rpc[u], running'[u] = running[u],
             todo'[u] = todo[u]
      PROVE  /\ rpc'[u] \in {"next", "write", "log", "done"} =>
                  \A j \in running'[u] :
                      Seen(j)' /\ (j \in todo'[u] \/ job'[j].status # "running")
             /\ rpc'[u] \in {"log", "done"} => todo'[u] = {}
  <2>1. running[u] \subseteq Jobs
    BY DEF Requests
  <2>. QED
    BY <1>1, <1>3, <2>1 DEF KillInv, Listed
<1>4. ASSUME \A u \in Requests : u # r => /\ rpc'[u] = rpc[u]
                                          /\ running'[u] = running[u]
                                          /\ todo'[u] = todo[u],
             r \in Killers /\ rpc'[r] \in {"next", "write", "log", "done"} =>
                \A j \in running'[r] :
                    Seen(j)' /\ (j \in todo'[r] \/ job'[j].status # "running"),
             r \in Killers /\ rpc'[r] \in {"log", "done"} => todo'[r] = {}
      PROVE  Listed'
  BY <1>3, <1>4 DEF Listed, Requests
<1>5. CASE r \notin Killers
  <2>1. UNCHANGED <<running, todo>>
        /\ \A u \in Requests : u # r => rpc'[u] = rpc[u]
    BY <1>2, <1>5
    DEF SendRequest, RequestStep, CancelRead, CancelCheck, CancelWrite,
        CancelLog, DeleteRead, DeleteDependents, DeleteScanRow, DeleteLog,
        ResetFlag, ResetLog, LogRequest, RStep
  <2>. QED
    BY <1>4, <1>5, <2>1
<1>6. CASE r \in Killers
  <2>1. \/ KillActivate(r) \/ KillList(r) \/ KillCheck(r) \/ KillWrite(r)
        \/ KillMarked(r) \/ KillLog(r)
    BY <1>6, RequestAssumption DEF SendRequest, RequestStep
  <2>2. CASE KillActivate(r)
    BY <1>2, <1>4, <2>2 DEF KillActivate, RStep
  <2>3. CASE KillList(r)
    <3>1. /\ running'[r] = HasStatus("running") /\ todo'[r] = HasStatus("running")
          /\ \A u \in Requests : u # r => running'[u] = running[u]
                                          /\ todo'[u] = todo[u]
          /\ rpc'[r] = "next" /\ \A u \in Requests : u # r => rpc'[u] = rpc[u]
      BY <1>2, <2>3 DEF KillList, RStep, HasStatus
    <3>2. \A j \in running'[r] : Seen(j)'
      BY <1>1, <3>1 DEF KillInv, RunningStarted, HasStatus, Seen
    <3>. QED
      BY <1>4, <3>1, <3>2
  <2>4. CASE KillCheck(r)
    <3>1. rpc[r] = "next" /\ UNCHANGED <<running, todo>>
      BY <2>4 DEF KillCheck
    <3>2. /\ rpc'[r] \in {"failed", "write"}
          /\ \A u \in Requests : u # r => rpc'[u] = rpc[u]
      BY <1>2, <2>4 DEF KillCheck
    <3>3. \A j \in running[r] : /\ Seen(j)'
                                /\ j \in todo[r] \/ job'[j].status # "running"
      BY <1>1, <1>6, <3>1 DEF KillInv, Listed
    <3>. QED
      BY <1>4, <3>1, <3>2, <3>3
  <2>5. CASE KillWrite(r)
    <3>1. /\ rpc[r] = "write" /\ rpc'[r] = "next" /\ UNCHANGED running
          /\ \A u \in Requests : u # r => rpc'[u] = rpc[u] /\ todo'[u] = todo[u]
          /\ todo'[r] = todo[r] \ {target[r]}
          /\ SetStatus(target[r], "emergency_killed")
      BY <1>2, <2>5 DEF KillWrite, RStep
    <3>2. target[r] \in Jobs => job'[target[r]].status # "running"
      <4>1. CASE Exists(target[r])
        BY <3>1, <4>1 DEF SetStatus, Stamped, RepoTypeOK, Row
      <4>2. CASE ~Exists(target[r])
        BY <3>1, <4>2 DEF SetStatus, Exists
      <4>. QED
        BY <4>1, <4>2
    <3>3. \A j \in running[r] : /\ Seen(j)'
                                /\ j \in todo'[r] \/ job'[j].status # "running"
      BY <1>1, <1>6, <3>1, <3>2 DEF KillInv, Listed
    <3>. QED
      BY <1>4, <3>1, <3>3
  <2>6. CASE KillMarked(r)
    <3>1. /\ rpc[r] = "next" /\ rpc'[r] = "log" /\ todo[r] = {}
          /\ UNCHANGED <<running, todo>>
          /\ \A u \in Requests : u # r => rpc'[u] = rpc[u]
      BY <1>2, <2>6 DEF KillMarked, RStep
    <3>2. \A j \in running[r] : Seen(j)' /\ job'[j].status # "running"
      BY <1>1, <1>6, <3>1 DEF KillInv, Listed
    <3>. QED
      BY <1>4, <3>1, <3>2
  <2>7. CASE KillLog(r)
    <3>1. /\ rpc[r] = "log" /\ rpc'[r] = "done" /\ UNCHANGED <<running, todo>>
          /\ \A u \in Requests : u # r => rpc'[u] = rpc[u]
      BY <1>2, <2>7 DEF KillLog, LogRequest, RStep
    <3>2. todo[r] = {} /\ \A j \in running[r] : /\ Seen(j)'
                                               /\ job'[j].status # "running"
      BY <1>1, <1>6, <3>1 DEF KillInv, Listed
    <3>. QED
      BY <1>4, <3>1, <3>2
  <2>. QED
    BY <2>1, <2>2, <2>3, <2>4, <2>5, <2>6, <2>7
<1>. QED
  BY <1>5, <1>6

(* So does everybody else.                                                 *)
LEMMA OthersKeepList ==
    ASSUME TypeOK, KillInv, Keeps, Again, UNCHANGED <<running, todo>>,
           \A r \in Requests : rpc'[r] \in {rpc[r], "failed"}
    PROVE  Listed'
<1>1. \A r \in Killers : running[r] \subseteq Jobs
  BY DEF TypeOK, RequestTypeOK, Requests
<1>2. \A j \in Jobs : Seen(j) => Seen(j)' /\ (job[j].status # "running" =>
                                              job'[j].status # "running")
  BY DEF Keeps, Seen, Gone, Again, NoRow
<1>. QED
  BY <1>1, <1>2 DEF KillInv, Listed, Requests

(* After a kill was answered none of the scans it counts is running,       *)
(* whatever late update hit them since.                                    *)
THEOREM KillHoldsCorrect == Spec => []KillHolds
<1>1. Init => KillInv
  BY DEF Init, RepoInit, NoRow, RequestInit, KillInv, RunningStarted, Listed,
         HasStatus, Requests
<1>2. TypeOK /\ KillInv /\ [Next]_vars /\ [Again]_vars => KillInv'
  <2>. SUFFICES ASSUME TypeOK, KillInv, [Next]_vars, [Again]_vars
                PROVE  KillInv'
    OBVIOUS
  <2>1. Keeps
    BY StepKeeps
  <2>2. Again
    BY DEF Again, vars, repoVars
  <2>3. RunningStarted'
    BY <2>1 DEF Keeps, Seen, Gone, NoRow, KillInv, RunningStarted, HasStatus
  <2>4. ASSUME NEW r \in Requests, Send(r) \/ Request(r)
        PROVE  Listed'
    BY <2>1, <2>2, <2>4, KillerKeepsList DEF Send, Request
  <2>5. ASSUME UNCHANGED requestVars
        PROVE  Listed'
    BY <2>1, <2>2, <2>5, OthersKeepList DEF requestVars
  <2>6. ASSUME ApiCrash
        PROVE  Listed'
    BY <2>1, <2>2, <2>6, OthersKeepList DEF ApiCrash, RequestsCrash
  <2>7. Listed'
    BY <2>4, <2>5, <2>6
    DEF Next, Start, Task, SandboxRequest, StartSandboxRequest,
        StopSandboxRequest, WatchdogPass, Startup, Age, WatchdogCrash, Rest,
        vars, requestVars
  <2>. QED
    BY <2>3, <2>7 DEF KillInv
<1>3. KillInv => KillHolds
  BY DEF KillInv, Listed, KillHolds
<1>. QED
  BY <1>1, <1>2, <1>3, TypeCorrect, NeverRunsAgainCorrect, PTL
  DEF Spec, NeverRunsAgain, Again

-----------------------------------------------------------------------------
(* The audit log.  Who writes which entry, and what was so when it did.    *)

\* No entry of action a is added.
NoNew(a) == \A j \in Jobs : <<a, j>> \in audit' => <<a, j>> \in audit

LEMMA LogOther ==
    ASSUME NEW a, NEW b, a # b, NEW k, Log(b, k)
    PROVE  NoNew(a)
  BY DEF Log, NoNew

LEMMA NothingLogged ==
    ASSUME NEW a, UNCHANGED audit
    PROVE  NoNew(a)
  BY DEF NoNew

Outcomes == {"scan.completed", "scan.failed"}

(* Only FinalLog and FailLog write an outcome, and no task writes          *)
(* scan.deleted.                                                           *)
LEMMA TaskLogs ==
    ASSUME NEW t \in Tasks, StartScan(t) \/ TaskStep(t)
    PROVE  /\ NoNew("scan.deleted")
           /\ \A a \in Outcomes : NoNew(a) \/ FinalLog(t) \/ FailLog(t)
<1>1. CASE UNCHANGED audit
  BY <1>1, NothingLogged
<1>2. ASSUME SpawnTask(t) \/ LogStarted(t)
      PROVE  NoNew("scan.deleted") /\ \A a \in Outcomes : NoNew(a)
  <2>1. \/ Log("scan.created", scanId[t])
        \/ Log("scan.started", jobId[t])
    BY <1>2 DEF SpawnTask, LogStarted
  <2>. QED
    BY <2>1, LogOther DEF Outcomes
<1>3. ASSUME FinalLog(t) \/ FailLog(t)
      PROVE  NoNew("scan.deleted")
  <2>1. Log("scan.completed", jobId[t]) \/ Log("scan.failed", jobId[t])
    BY <1>3 DEF FinalLog, FailLog
  <2>. QED
    BY <2>1, LogOther
<1>. QED
  BY <1>1, <1>2, <1>3
  DEF TaskStep, StartScan, CheckLayers, CreateJob, BeginCheck, BeginWrite,
      ResolveJob, RequestApproval, ApprovalAnswer, DenyCheck, DenyWrite,
      AbortIfKilled, EnterPhase, SkipPhase, ToolReturns, ToolAgain, ToolFails,
      CreatePhaseRow, PhaseKilled, RunAgent, AgentAnswers, AgentFails,
      StoreResults, PersistFindings, FinalCheck, FinalWrite, FailCheck,
      FailWrite, OuterCheck, OuterWrite, StatusCheck, OnlyMoves, CommandStep, repoVars

(* No request writes an outcome, and only DeleteLog scan.deleted.          *)
LEMMA RequestLogs ==
    ASSUME NEW r \in Requests, SendRequest(r) \/ RequestStep(r)
    PROVE  /\ \A a \in Outcomes : NoNew(a)
           /\ NoNew("scan.deleted") \/ DeleteLog(r)
<1>1. CASE UNCHANGED audit
  BY <1>1, NothingLogged
<1>2. ASSUME CancelLog(r) \/ DeleteLog(r) \/ KillLog(r) \/ ResetLog(r)
      PROVE  /\ \A a \in Outcomes : NoNew(a)
             /\ NoNew("scan.deleted") \/ DeleteLog(r)
  <2>1. CASE DeleteLog(r)
    BY <2>1, LogOther DEF DeleteLog, LogRequest, Outcomes
  <2>2. CASE CancelLog(r)
    BY <2>2, LogOther DEF CancelLog, LogRequest, Outcomes
  <2>3. CASE KillLog(r) \/ ResetLog(r)
    <3>1. Log("kill.activated", NoJob) \/ Log("kill.reset", NoJob)
      BY <2>3 DEF KillLog, ResetLog, LogRequest
    <3>. QED
      BY <3>1, LogOther DEF Outcomes
  <2>. QED
    BY <1>2, <2>1, <2>2, <2>3
<1>. QED
  BY <1>1, <1>2
  DEF SendRequest, RequestStep, CancelRead, CancelCheck, CancelWrite,
      DeleteRead, DeleteDependents, DeleteScanRow, KillActivate, KillList,
      KillCheck, KillWrite, KillMarked, ResetFlag, repoVars

(* Nobody else writes to the audit log at all.                             *)
LEMMA OthersDoNotLog ==
    ASSUME [Next]_vars
    PROVE  \/ UNCHANGED audit
           \/ \E t \in Tasks : Task(t)
           \/ \E r \in Requests : Request(r)
<1>1. ASSUME NEW t \in Tasks, Start(t)
      PROVE  UNCHANGED audit
  BY <1>1 DEF Start, StartScan, OnlyMoves, CommandStep, repoVars
<1>2. ASSUME NEW r \in Requests, Send(r)
      PROVE  UNCHANGED audit
  BY <1>2 DEF Send, SendRequest, CancelRead, DeleteRead, KillActivate,
              ResetFlag, repoVars
<1>3. CASE WatchdogPass
  BY <1>3
  DEF WatchdogPass, WatchdogStep, TimeoutList, TimeoutKill, TimeoutCheck,
      TimeoutWrite, TimeoutsDone, Healthy, Unhealthy, ScopeKill, ScopeFine,
      ScopeCheck, ScopeWrite, Completion, repoVars
<1>4. CASE Startup
  BY <1>4 DEF Startup, StartupStep, StartupList, StartupSkip, StartupCheck,
              StartupWrite, StartupDone, repoVars
<1>5. CASE SandboxRequest \/ ApiCrash \/ WatchdogCrash \/ UNCHANGED vars
  BY <1>5
  DEF SandboxRequest, StartSandboxRequest, StopSandboxRequest, ApiCrash,
      ApiDies, WatchdogCrash, WatchdogRestart, vars, repoVars
<1>6. ASSUME NEW j \in Jobs, Age(j)
      PROVE  UNCHANGED audit
  BY <1>6 DEF Age
<1>. QED
  BY <1>1, <1>2, <1>3, <1>4, <1>5, <1>6 DEF Next

(* A scan with an outcome in the log belongs to a task that has returned,  *)
(* and that task wrote no other.                                           *)
OutcomeInv ==
    /\ \A j \in Jobs, a \in Outcomes : <<a, j>> \in audit =>
           \E t \in Tasks : jobId[t] = j /\ pc[t] = "done"
    /\ OneOutcomeLogged

\* A task that has returned stays where it is.
DoneStays ==
    \A t \in Tasks : pc[t] = "done" => pc'[t] = "done" /\ jobId'[t] = jobId[t]

LEMMA TaskDoneStays ==
    ASSUME TypeOK, NEW t \in Tasks, StartScan(t) \/ TaskStep(t)
    PROVE  DoneStays
<1>1. pc[t] # "done"
  BY DEF TaskStep, StartScan, CheckLayers, CreateJob, SpawnTask, BeginCheck,
         BeginWrite, ResolveJob, LogStarted, RequestApproval, ApprovalAnswer,
         DenyCheck, DenyWrite, AbortIfKilled, EnterPhase, SkipPhase,
         ToolReturns, ToolAgain, ToolFails, CreatePhaseRow, PhaseKilled,
         RunAgent, AgentAnswers, AgentFails, StoreResults, PersistFindings,
         FinalCheck, FinalWrite, FinalLog, FailCheck, FailWrite, FailLog,
         OuterCheck, OuterWrite, StatusCheck, Step
<1>2. \E to : Goto(t, to)
  BY DEF TaskStep, StartScan, CheckLayers, CreateJob, SpawnTask, BeginCheck,
         BeginWrite, ResolveJob, LogStarted, RequestApproval, ApprovalAnswer,
         DenyCheck, DenyWrite, AbortIfKilled, EnterPhase, SkipPhase,
         ToolReturns, ToolAgain, ToolFails, CreatePhaseRow, PhaseKilled,
         RunAgent, AgentAnswers, AgentFails, StoreResults, PersistFindings,
         FinalCheck, FinalWrite, FinalLog, FailCheck, FailWrite, FailLog,
         OuterCheck, OuterWrite, StatusCheck, Step, NextPhase
<1>3. UNCHANGED jobId \/ \E j \in Jobs : jobId' = [jobId EXCEPT ![t] = j]
  BY DEF TaskStep, StartScan, CheckLayers, CreateJob, SpawnTask, BeginCheck,
         BeginWrite, ResolveJob, LogStarted, RequestApproval, ApprovalAnswer,
         DenyCheck, DenyWrite, AbortIfKilled, EnterPhase, SkipPhase,
         ToolReturns, ToolAgain, ToolFails, CreatePhaseRow, PhaseKilled,
         RunAgent, AgentAnswers, AgentFails, StoreResults, PersistFindings,
         FinalCheck, FinalWrite, FinalLog, FailCheck, FailWrite, FailLog,
         OuterCheck, OuterWrite, StatusCheck, OnlyMoves, CommandStep
<1>. QED
  BY <1>1, <1>2, <1>3 DEF DoneStays, Goto, TypeOK, TaskTypeOK

LEMMA StepDoneStays ==
    ASSUME TypeOK, [Next]_vars
    PROVE  DoneStays
<1>1. ASSUME NEW t \in Tasks, Start(t) \/ Task(t)
      PROVE  DoneStays
  BY <1>1, TaskDoneStays DEF Start, Task
<1>2. CASE ApiCrash
  BY <1>2 DEF ApiCrash, TasksCrash, DoneStays, Active, Handling, Executing
<1>3. UNCHANGED taskVars => DoneStays
  BY DEF taskVars, DoneStays
<1>. QED
  BY <1>1, <1>2, <1>3
  DEF Next, Send, Request, SandboxRequest, WatchdogPass, Startup, Age,
      WatchdogCrash, Rest, vars

(* A scan is not both completed and failed in the audit log.               *)
THEOREM OneOutcomeLoggedCorrect == Spec => []OneOutcomeLogged
<1>1. Init => OutcomeInv
  BY DEF Init, RepoInit, OutcomeInv, OneOutcomeLogged
<1>2. SystemInv /\ OutcomeInv /\ [Next]_vars => OutcomeInv'
  <2>. SUFFICES ASSUME SystemInv, OutcomeInv, [Next]_vars
                PROVE  OutcomeInv'
    OBVIOUS
  <2>1. DoneStays
    BY StepDoneStays DEF SystemInv
  <2>2. ASSUME \A a \in Outcomes : NoNew(a)
        PROVE  OutcomeInv'
    BY <2>1, <2>2 DEF OutcomeInv, OneOutcomeLogged, Outcomes, NoNew, DoneStays
  <2>3. ASSUME NEW t \in Tasks, Task(t), FinalLog(t) \/ FailLog(t)
        PROVE  OutcomeInv'
    <3>1. /\ pc[t] \in {"final_log", "fail_log"}
          /\ jobId[t] \in Jobs /\ jobId'[t] = jobId[t] /\ pc'[t] = "done"
      BY <2>3 DEF FinalLog, FailLog, Step, Goto, SystemInv, TypeOK, TaskTypeOK,
                  TaskInv, IdsGiven, Executing
    <3>2. PICK a \in Outcomes : audit' = audit \cup {<<a, jobId[t]>>}
      BY <2>3 DEF FinalLog, FailLog, Log, Outcomes
    <3>3. \A b \in Outcomes : <<b, jobId[t]>> \notin audit
      <4>. SUFFICES ASSUME NEW b \in Outcomes, <<b, jobId[t]>> \in audit
                    PROVE  FALSE
        OBVIOUS
      <4>1. PICK u \in Tasks : jobId[u] = jobId[t] /\ pc[u] = "done"
        BY <3>1 DEF OutcomeInv
      <4>2. u = t
        BY <3>1, <4>1 DEF SystemInv, TaskInv, IdsUnique, Holds
      <4>. QED
        BY <3>1, <4>1, <4>2
    <3>4. OneOutcomeLogged'
      BY <3>2, <3>3 DEF OutcomeInv, OneOutcomeLogged, Outcomes
    <3>5. \A j \in Jobs, b \in Outcomes : <<b, j>> \in audit' =>
              \E u \in Tasks : jobId'[u] = j /\ pc'[u] = "done"
      BY <2>1, <3>1, <3>2 DEF OutcomeInv, DoneStays
    <3>. QED
      BY <3>4, <3>5 DEF OutcomeInv
  <2>4. ASSUME NEW t \in Tasks, Task(t)
        PROVE  OutcomeInv'
    <3>1. CASE \A a \in Outcomes : NoNew(a)
      BY <2>2, <3>1
    <3>2. CASE FinalLog(t) \/ FailLog(t)
      BY <2>3, <2>4, <3>2
    <3>. QED
      BY <2>4, <3>1, <3>2, TaskLogs DEF Task
  <2>5. ASSUME NEW r \in Requests, Request(r)
        PROVE  OutcomeInv'
    BY <2>2, <2>5, RequestLogs DEF Request
  <2>6. CASE UNCHANGED audit
    BY <2>2, <2>6, NothingLogged
  <2>. QED
    BY <2>4, <2>5, <2>6, OthersDoNotLog
<1>3. OutcomeInv => OneOutcomeLogged
  BY DEF OutcomeInv
<1>. QED
  BY <1>1, <1>2, <1>3, SystemInvCorrect, PTL DEF Spec

(* delete_scan writes its entry after the row went.                        *)
Deleting(r) ==
    rpc[r] \in {"children", "row", "log"} =>
        target[r] \in Jobs /\ (rpc[r] = "log" => Gone(target[r]))

DeletedInv == (\A r \in Deleters : Deleting(r)) /\ DeletedIsGone

LEMMA RequestKeepsDeleted ==
    ASSUME TypeOK, DeletedInv, Keeps, NEW r \in Requests,
           SendRequest(r) \/ RequestStep(r)
    PROVE  DeletedInv'
<1>. USE DEF TypeOK, RequestTypeOK
<1>1. ASSUME NEW j \in Jobs, Gone(j)
      PROVE  Gone(j)'
  BY <1>1 DEF Keeps, Gone
<1>2. ASSUME NEW to, RGoto(r, to)
      PROVE  rpc'[r] = to /\ \A u \in Requests : u # r => rpc'[u] = rpc[u]
  BY <1>2 DEF RGoto
<1>3. NoNew("scan.deleted") => DeletedIsGone'
  BY <1>1 DEF DeletedInv, DeletedIsGone, NoNew, Gone
<1>4. ASSUME NEW u \in Deleters, rpc'[u] = rpc[u], target'[u] = target[u]
      PROVE  Deleting(u)'
  BY <1>1, <1>4 DEF DeletedInv, Deleting, Gone
<1>5. CASE r \notin Deleters
  <2>1. \E to : RGoto(r, to)
    BY <1>5 DEF SendRequest, RequestStep, CancelRead, CancelCheck,
                CancelWrite, CancelLog, KillActivate, KillList, KillCheck,
                KillWrite, KillMarked, KillLog, ResetFlag, ResetLog,
                LogRequest, RStep
  <2>2. UNCHANGED target \/ \E j \in Jobs : target' = [target EXCEPT ![r] = j]
    BY <1>5 DEF SendRequest, RequestStep, CancelRead, CancelCheck,
                CancelWrite, CancelLog, KillActivate, KillList, KillCheck,
                KillWrite, KillMarked, KillLog, ResetFlag, ResetLog,
                LogRequest
  <2>3. \A u \in Deleters : rpc'[u] = rpc[u] /\ target'[u] = target[u]
    BY <1>2, <1>5, <2>1, <2>2 DEF Requests
  <2>4. NoNew("scan.deleted")
    BY <1>5, NothingLogged, LogOther
    DEF SendRequest, RequestStep, CancelRead, CancelCheck, CancelWrite,
        CancelLog, KillActivate, KillList, KillCheck, KillWrite, KillMarked,
        KillLog, ResetFlag, ResetLog, LogRequest, repoVars
  <2>. QED
    BY <1>3, <1>4, <2>3, <2>4 DEF DeletedInv
<1>6. CASE r \in Deleters
  <2>1. DeleteRead(r) \/ DeleteDependents(r) \/ DeleteScanRow(r) \/ DeleteLog(r)
    BY <1>6, RequestAssumption DEF SendRequest, RequestStep
  <2>2. ASSUME \A u \in Requests : u # r => rpc'[u] = rpc[u]
                                           /\ target'[u] = target[u],
               Deleting(r)', NoNew("scan.deleted")
        PROVE  DeletedInv'
    <3>1. \A u \in Deleters : Deleting(u)'
      BY <1>4, <2>2 DEF Requests
    <3>. QED
      BY <1>3, <2>2, <3>1 DEF DeletedInv
  <2>3. CASE DeleteRead(r)
    <3>1. PICK j \in Jobs : /\ target' = [target EXCEPT ![r] = j]
                            /\ RGoto(r, IF Exists(j) THEN "children" ELSE "done")
      BY <2>3 DEF DeleteRead
    <3>2. target'[r] = j /\ \A u \in Requests : u # r => target'[u] = target[u]
      BY <3>1
    <3>3. rpc'[r] \in {"children", "done"}
          /\ \A u \in Requests : u # r => rpc'[u] = rpc[u]
      BY <1>2, <3>1
    <3>4. NoNew("scan.deleted")
      BY <2>3, NothingLogged DEF DeleteRead, repoVars
    <3>. QED
      BY <2>2, <3>2, <3>3, <3>4 DEF Deleting
  <2>4. CASE DeleteDependents(r)
    <3>1. rpc[r] = "children" /\ rpc'[r] = "row" /\ UNCHANGED <<target, audit>>
          /\ \A u \in Requests : u # r => rpc'[u] = rpc[u]
      BY <1>2, <2>4 DEF DeleteDependents, RStep
    <3>2. Deleting(r)'
      BY <1>6, <3>1 DEF DeletedInv, Deleting
    <3>. QED
      BY <2>2, <3>1, <3>2, NothingLogged
  <2>5. CASE DeleteScanRow(r)
    <3>1. rpc[r] = "row" /\ UNCHANGED <<target, audit>>
          /\ \A u \in Requests : u # r => rpc'[u] = rpc[u]
      BY <1>2, <2>5 DEF DeleteScanRow
    <3>2. target[r] \in Jobs
      BY <1>6, <3>1 DEF DeletedInv, Deleting
    <3>3. rpc'[r] = "failed" \/ (rpc'[r] = "log" /\ Gone(target[r])')
      BY <1>2, <2>5, <3>1, <3>2 DEF DeleteScanRow, DeleteRow, RepoTypeOK, Gone
    <3>. QED
      BY <2>2, <3>1, <3>2, <3>3, NothingLogged DEF Deleting, Gone
  <2>6. CASE DeleteLog(r)
    <3>1. /\ rpc[r] = "log" /\ rpc'[r] = "done" /\ UNCHANGED target
          /\ \A u \in Requests : u # r => rpc'[u] = rpc[u]
          /\ audit' = audit \cup {<<"scan.deleted", target[r]>>}
      BY <1>2, <2>6 DEF DeleteLog, LogRequest, RStep, Log
    <3>2. target[r] \in Jobs /\ Gone(target[r])
      BY <1>6, <3>1 DEF DeletedInv, Deleting
    <3>3. DeletedIsGone'
      BY <1>1, <3>1, <3>2 DEF DeletedInv, DeletedIsGone, Gone
    <3>4. \A u \in Deleters : Deleting(u)'
      BY <1>4, <3>1 DEF Deleting, Requests
    <3>. QED
      BY <3>3, <3>4 DEF DeletedInv
  <2>. QED
    BY <2>1, <2>3, <2>4, <2>5, <2>6
<1>. QED
  BY <1>5, <1>6

(* What the audit log calls deleted is gone, and stays gone, also under a  *)
(* task that still works on it.                                            *)
THEOREM DeletedIsGoneCorrect == Spec => []DeletedIsGone
<1>1. Init => DeletedInv
  BY DEF Init, RepoInit, RequestInit, DeletedInv, Deleting, DeletedIsGone, Requests
<1>2. TypeOK /\ DeletedInv /\ [Next]_vars => DeletedInv'
  <2>. SUFFICES ASSUME TypeOK, DeletedInv, [Next]_vars
                PROVE  DeletedInv'
    OBVIOUS
  <2>1. Keeps
    BY StepKeeps
  <2>2. ASSUME UNCHANGED target, \A r \in Requests : rpc'[r] \in {rpc[r], "failed"},
               NoNew("scan.deleted")
        PROVE  DeletedInv'
    <3>1. DeletedIsGone'
      BY <2>1, <2>2 DEF Keeps, DeletedInv, DeletedIsGone, NoNew, Gone
    <3>2. \A r \in Deleters : Deleting(r)'
      BY <2>1, <2>2 DEF Keeps, DeletedInv, Deleting, Gone, Requests
    <3>. QED
      BY <3>1, <3>2 DEF DeletedInv
  <2>3. ASSUME NEW r \in Requests, Send(r) \/ Request(r)
        PROVE  DeletedInv'
    BY <2>1, <2>3, RequestKeepsDeleted DEF Send, Request
  <2>4. ASSUME NEW t \in Tasks, Task(t)
        PROVE  DeletedInv'
    <3>1. NoNew("scan.deleted") /\ UNCHANGED <<target, rpc>>
      BY <2>4, TaskLogs DEF Task, Rest, requestVars
    <3>. QED
      BY <2>2, <3>1
  <2>5. CASE ApiCrash
    BY <2>2, <2>5, NothingLogged DEF ApiCrash, ApiDies, RequestsCrash, repoVars
  <2>6. ASSUME UNCHANGED <<audit, requestVars>>
        PROVE  DeletedInv'
    BY <2>2, <2>6, NothingLogged DEF requestVars
  <2>7. \/ \E r \in Requests : Send(r) \/ Request(r)
        \/ \E t \in Tasks : Task(t)
        \/ ApiCrash
        \/ UNCHANGED <<audit, requestVars>>
    <3>1. \/ \E r \in Requests : Send(r) \/ Request(r)
          \/ ApiCrash
          \/ UNCHANGED requestVars
      BY DEF Next, Start, Task, SandboxRequest, StartSandboxRequest,
             StopSandboxRequest, WatchdogPass, Startup, Age, WatchdogCrash,
             Rest, vars
    <3>. QED
      BY <3>1, OthersDoNotLog
  <2>. QED
    BY <2>3, <2>4, <2>5, <2>6, <2>7
<1>3. DeletedInv => DeletedIsGone
  BY DEF DeletedInv
<1>. QED
  BY <1>1, <1>2, <1>3, TypeCorrect, PTL DEF Spec

-----------------------------------------------------------------------------
(* A killed scan is proof of a raised flag.                                *)

\* Between the watchdog's kill and its update.
Marking == {"timeout_check", "timeout_write", "scope_check", "scope_write"}

FlagRaised == \E p \in Processes : killFlag[p]

MarkInv ==
    ~FlagCleared =>
        /\ api = "up"
        /\ \A r \in Killers : rpc[r] # "sent" => killFlag["api"]
        /\ wpc \in Marking => killFlag["watchdog"]
        /\ (\E j \in Jobs : Killed(j)) => FlagRaised

FlagsStay == \A p \in Processes : killFlag[p] => killFlag'[p]

LEMMA ActivateRaises ==
    ASSUME KillTypeOK, NEW p \in Processes, Activate(p)
    PROVE  killFlag'[p] /\ FlagsStay
<1>1. CASE killFlag[p] /\ UNCHANGED killVars
  BY <1>1 DEF killVars, FlagsStay
<1>2. CASE killFlag' = [killFlag EXCEPT ![p] = TRUE]
  BY <1>2 DEF KillTypeOK, FlagsStay
<1>. QED
  BY <1>1, <1>2 DEF Activate

LEMMA RequestMarks ==
    ASSUME TypeOK, NEW r \in Requests, SendRequest(r) \/ RequestStep(r),
           ~FlagCleared', UNCHANGED <<crashes, restarts>>,
           MarkInv, UNCHANGED <<api, wpc>>
    PROVE  MarkInv'
<1>. USE DEF Requests
<1>1. \E to : to # "sent" /\ rpc' = [rpc EXCEPT ![r] = to]
  BY DEF SendRequest, RequestStep, CancelRead, CancelCheck, CancelWrite,
         CancelLog, DeleteRead, DeleteDependents, DeleteScanRow, DeleteLog,
         KillActivate, KillList, KillCheck, KillWrite, KillMarked, KillLog,
         ResetFlag, ResetLog, LogRequest, RStep, RGoto
<1>2. /\ rpc'[r] # "sent"
      /\ \A u \in Requests : u # r => rpc'[u] = rpc[u]
  BY <1>1 DEF TypeOK, RequestTypeOK
<1>3. r \notin Resetters /\ ~FlagCleared
  BY <1>2 DEF FlagCleared
<1>4. FlagsStay /\ (r \in Killers /\ rpc[r] = "sent" => killFlag'["api"])
  <2>1. CASE r \in Killers /\ KillActivate(r)
    BY <2>1, ActivateRaises DEF KillActivate, TypeOK, Processes
  <2>2. CASE ~(r \in Killers /\ KillActivate(r))
    <3>1. UNCHANGED killFlag
      BY <1>3, <2>2
      DEF SendRequest, RequestStep, CancelRead, CancelCheck, CancelWrite,
          CancelLog, DeleteRead, DeleteDependents, DeleteScanRow, DeleteLog,
          KillList, KillCheck, KillWrite, KillMarked, KillLog, LogRequest,
          RStep, killVars
    <3>2. r \in Killers => rpc[r] # "sent"
      BY <2>2, RequestAssumption
      DEF SendRequest, RequestStep, KillList, KillCheck, KillWrite, KillMarked,
          KillLog, LogRequest, RStep
    <3>. QED
      BY <3>1, <3>2 DEF FlagsStay
  <2>. QED
    BY <2>1, <2>2
<1>5. \A u \in Killers : rpc'[u] # "sent" => killFlag'["api"]
  BY <1>2, <1>3, <1>4 DEF MarkInv, FlagsStay, Processes
<1>6. (\E j \in Jobs : Killed(j)') => FlagRaised'
  <2>1. CASE RowWrite({"cancelled"})
    <3>1. NoNewKill
      BY <2>1, RowWriteGrows, RowWriteMarks DEF TypeOK, Status
    <3>. QED
      BY <1>3, <1>4, <3>1 DEF NoNewKill, Killed, MarkInv, FlagRaised, FlagsStay
  <2>2. CASE r \in Killers
    BY <1>2, <1>5, <2>2 DEF FlagRaised, Processes
  <2>. QED
    BY <2>1, <2>2, RequestWrites
<1>. QED
  BY <1>3, <1>4, <1>5, <1>6 DEF MarkInv, FlagsStay, Processes

LEMMA WatchdogMarks ==
    ASSUME TypeOK, NEW up, WatchdogStep(up), ~FlagCleared, MarkInv,
           UNCHANGED <<api, rpc>>
    PROVE  MarkInv'
<1>1. FlagsStay
  <2>1. UNCHANGED killFlag \/ Activate("watchdog")
    BY DEF WatchdogStep, TimeoutList, TimeoutKill, TimeoutCheck, TimeoutWrite,
           TimeoutsDone, Healthy, Unhealthy, ScopeKill, ScopeFine, ScopeCheck,
           ScopeWrite, Completion, killVars
  <2>. QED
    BY <2>1, ActivateRaises DEF FlagsStay, Processes, TypeOK
<1>2. wpc' \in Marking => killFlag'["watchdog"]
  <2>1. CASE TimeoutKill \/ ScopeKill
    BY <2>1, ActivateRaises DEF TimeoutKill, ScopeKill, TypeOK, Processes
  <2>2. CASE ~(TimeoutKill \/ ScopeKill)
    <3>1. wpc' \in Marking => wpc \in Marking
      BY <2>2
      DEF WatchdogStep, TimeoutList, TimeoutCheck, TimeoutWrite, TimeoutsDone,
          Healthy, Unhealthy, ScopeFine, ScopeCheck, ScopeWrite, Completion,
          WStep, Marking
    <3>. QED
      BY <1>1, <3>1 DEF MarkInv, FlagsStay, Processes
  <2>. QED
    BY <2>1, <2>2
<1>3. (\E j \in Jobs : Killed(j)') => FlagRaised'
  <2>1. CASE UNCHANGED job
    BY <1>1, <2>1 DEF MarkInv, FlagRaised, FlagsStay, Killed
  <2>2. CASE TimeoutWrite \/ ScopeWrite
    BY <1>1, <2>2 DEF TimeoutWrite, ScopeWrite, WStep, Marking, MarkInv,
                      FlagRaised, FlagsStay, Processes
  <2>. QED
    BY <2>1, <2>2, WatchdogWrites
<1>. QED
  BY <1>1, <1>2, <1>3 DEF MarkInv, FlagsStay, Processes

(* emergency_kill and _execute_kill raise the flag before they mark a      *)
(* scan: a killed scan is proof that some process'es flag is up, until it  *)
(* is reset or the process restarts.                                       *)
THEOREM MarkedAfterKillCorrect == Spec => []MarkedAfterKill
<1>1. Init => MarkInv
  <2>. SUFFICES ASSUME Init
                PROVE  MarkInv
    OBVIOUS
  <2>1. \A j \in Jobs : ~Killed(j)
    BY DEF Init, RepoInit, NoRow, Killed
  <2>. QED
    BY <2>1 DEF Init, StartupInit, WatchdogInit, RequestInit, MarkInv, Marking,
                Requests
<1>2. TypeOK /\ MarkInv /\ [Next]_vars => MarkInv'
  <2>. SUFFICES ASSUME TypeOK, MarkInv, [Next]_vars, ~FlagCleared'
                PROVE  MarkInv'
    BY DEF MarkInv
  <2>1. ~ApiCrash /\ ~WatchdogCrash
    BY BoundAssumption DEF ApiCrash, WatchdogCrash, TypeOK, FlagCleared
  <2>2. ASSUME NEW r \in Requests, Send(r) \/ Request(r)
        PROVE  MarkInv'
    BY <2>2, RequestMarks
    DEF Send, Request, Rest, startupVars, watchdogVars
  <2>3. ASSUME UNCHANGED <<crashes, restarts, rpc>>
        PROVE  ~FlagCleared
    BY <2>3 DEF FlagCleared
  <2>4. CASE WatchdogPass
    BY <2>3, <2>4, WatchdogMarks
    DEF WatchdogPass, Rest, startupVars, requestVars
  <2>5. ASSUME NoNewKill, UNCHANGED <<killFlag, rpc, wpc, api, crashes, restarts>>
        PROVE  MarkInv'
    BY <2>3, <2>5 DEF MarkInv, NoNewKill, Killed, FlagRaised
  <2>6. ASSUME NEW S \in SUBSET (Status \ {"emergency_killed"}), RowWrite(S)
        PROVE  NoNewKill
    BY <2>6, RowWriteGrows, RowWriteMarks DEF TypeOK
  <2>7. ASSUME NEW t \in Tasks, Start(t) \/ Task(t)
        PROVE  MarkInv'
    <3>1. NoNewKill
      BY <2>6, <2>7, TaskWrites DEF Start, Task, Status
    <3>2. UNCHANGED killFlag
      BY <2>7
      DEF Start, Task, TaskStep, StartScan, CheckLayers, CreateJob, SpawnTask,
          BeginCheck, BeginWrite, ResolveJob, LogStarted, RequestApproval,
          ApprovalAnswer, DenyCheck, DenyWrite, AbortIfKilled, EnterPhase,
          SkipPhase, ToolReturns, ToolAgain, ToolFails, CreatePhaseRow,
          PhaseKilled, RunAgent, AgentAnswers, AgentFails, StoreResults,
          PersistFindings, FinalCheck, FinalWrite, FinalLog, FailCheck,
          FailWrite, FailLog, OuterCheck, OuterWrite, StatusCheck, OnlyMoves, CommandStep,
          killVars
    <3>. QED
      BY <2>5, <2>7, <3>1, <3>2
      DEF Start, Task, Rest, requestVars, watchdogVars, startupVars
  <2>8. ASSUME NEW j \in Jobs, Age(j)
        PROVE  MarkInv'
    BY <2>5, <2>6, <2>8, AgeWrites
    DEF Age, Rest, killVars, requestVars, watchdogVars, startupVars
  <2>9. CASE SandboxRequest \/ UNCHANGED vars
    <3>1. NoNewKill
      BY <2>9 DEF SandboxRequest, StartSandboxRequest, StopSandboxRequest,
                  vars, repoVars, NoNewKill, Killed
    <3>. QED
      BY <2>5, <2>9, <3>1
      DEF SandboxRequest, StartSandboxRequest, StopSandboxRequest, Rest, vars,
          killVars, requestVars, watchdogVars, startupVars
  <2>10. ~Startup
    <3>. SUFFICES ASSUME Startup
                  PROVE  FALSE
      OBVIOUS
    <3>1. api = "up"
      BY <2>3 DEF Startup, Rest, requestVars, MarkInv
    <3>. QED
      BY <3>1 DEF Startup, StartupStep, StartupList, StartupSkip, StartupCheck,
                  StartupWrite, StartupDone, AStep
  <2>. QED
    BY <2>1, <2>2, <2>4, <2>7, <2>8, <2>9, <2>10 DEF Next
<1>3. MarkInv => MarkedAfterKill
  BY DEF MarkInv, MarkedAfterKill, FlagRaised
<1>. QED
  BY <1>1, <1>2, <1>3, TypeCorrect, PTL DEF Spec

-----------------------------------------------------------------------------
(* Commands in the sandbox while the flag is up.                           *)

\* A command that returns or is followed counts for its own task only.
LEMMA OnlyOwnMore ==
    ASSUME TypeOK, NEW t \in Tasks, ToolReturns(t) \/ ToolAgain(t)
    PROVE  \A u \in Tasks : u # t => more'[u] = more[u]
<1>1. more \in [Tasks -> 0..MaxHosts]
  BY DEF TypeOK, TaskTypeOK
<1>. QED
  BY <1>1 DEF ToolReturns, ToolAgain

LEMMA TaskStarts ==
    ASSUME TypeOK, NEW t \in Tasks, StartScan(t) \/ TaskStep(t),
           killFlag["api"], NEW u \in Tasks, CommandStarts(u)
    PROVE  pc[u] \in {"tool", "again"} /\ Current(u) \in RunsAgain
<1>. USE DEF CommandStarts, InSandbox
<1>1. ASSUME NEW to, Goto(t, to)
      PROVE  pc'[t] = to /\ \A v \in Tasks : v # t => pc'[v] = pc[v]
  BY <1>1 DEF Goto, TypeOK, TaskTypeOK
<1>2. CASE ToolAgain(t)
  <2>1. \A v \in Tasks : v # t => pc'[v] = pc[v] /\ more'[v] = more[v]
    BY <1>1, <1>2, OnlyOwnMore DEF ToolAgain
  <2>. QED
    BY <1>2, <2>1 DEF ToolAgain
<1>3. ASSUME NEW to, Goto(t, to), to \notin InSandbox, UNCHANGED more
      PROVE  FALSE
  BY <1>1, <1>3
<1>4. CASE \/ EnterPhase(t) \/ RunAgent(t)
  BY <1>4 DEF EnterPhase, RunAgent
<1>4a. CASE ToolReturns(t)
  BY <1>1, <1>4a, OnlyOwnMore DEF ToolReturns, CommandStarts
<1>5. CASE \/ SkipPhase(t) \/ PhaseKilled(t) \/ AgentAnswers(t)
           \/ AgentFails(t) \/ StoreResults(t)
  BY <1>3, <1>5 DEF SkipPhase, PhaseKilled, AgentAnswers, AgentFails,
                    StoreResults, NextPhase
<1>6. CASE \/ StartScan(t) \/ CheckLayers(t) \/ CreateJob(t) \/ SpawnTask(t)
           \/ BeginCheck(t) \/ BeginWrite(t) \/ ResolveJob(t) \/ LogStarted(t)
           \/ RequestApproval(t) \/ ApprovalAnswer(t) \/ DenyCheck(t)
           \/ DenyWrite(t) \/ AbortIfKilled(t) \/ ToolFails(t)
           \/ CreatePhaseRow(t) \/ PersistFindings(t)
           \/ FinalCheck(t) \/ FinalWrite(t) \/ FinalLog(t) \/ FailCheck(t)
           \/ FailWrite(t) \/ FailLog(t) \/ OuterCheck(t) \/ OuterWrite(t)
  BY <1>3, <1>6
  DEF StartScan, CheckLayers, CreateJob, SpawnTask, BeginCheck, BeginWrite,
      ResolveJob, LogStarted, RequestApproval, ApprovalAnswer, DenyCheck,
      DenyWrite, AbortIfKilled, ToolFails, CreatePhaseRow,
      PersistFindings, FinalCheck, FinalWrite, FinalLog, FailCheck, FailWrite,
      FailLog, OuterCheck, OuterWrite, StatusCheck, OnlyMoves, Step
<1>. QED
  BY <1>2, <1>4, <1>4a, <1>5, <1>6 DEF TaskStep

(* The checks of run_multi_phase_scan and execute_phase leave out only the *)
(* follow-ups: while the API's flag is up, no other command is started.    *)
THEOREM OnlyFollowUpsCorrect == Spec => OnlyFollowUpsAfterKill
<1>. DEFINE Only == \A t \in Tasks : killFlag["api"] /\ CommandStarts(t) =>
                       pc[t] \in {"tool", "again"} /\ Current(t) \in RunsAgain
<1>1. TypeOK /\ [Next]_vars => Only
  <2>. SUFFICES ASSUME TypeOK, [Next]_vars, NEW u \in Tasks,
                       killFlag["api"], CommandStarts(u)
                PROVE  pc[u] \in {"tool", "again"} /\ Current(u) \in RunsAgain
    OBVIOUS
  <2>1. ASSUME NEW t \in Tasks, Start(t) \/ Task(t)
        PROVE  pc[u] \in {"tool", "again"} /\ Current(u) \in RunsAgain
    BY <2>1, TaskStarts DEF Start, Task
  <2>2. ~ApiCrash
    BY DEF ApiCrash, TasksCrash, CommandStarts, InSandbox
  <2>3. ~UNCHANGED taskVars
    BY DEF taskVars, CommandStarts
  <2>. QED
    BY <2>1, <2>2, <2>3
    DEF Next, Send, Request, SandboxRequest, WatchdogPass, Startup, Age,
        WatchdogCrash, Rest, vars
<1>. QED
  BY <1>1, TypeCorrect, PTL DEF Spec, OnlyFollowUpsAfterKill
=============================================================================
