------------------------------ MODULE ScanTask ------------------------------
(***************************************************************************)
(* One scan from POST /api/v1/scans to its last database write: the        *)
(* request handler (api/scan_routes.start_scan), the background task it    *)
(* spawns (api/scan_validation.run_scan_background) and the orchestrator   *)
(* the task runs (orchestrator/agent.py, phase_executor.py,                *)
(* multi_phase.py, phases/*.py).                                           *)
(*                                                                         *)
(* Everything here runs on the API's one event loop: an action is what     *)
(* happens between two awaits, so that a test and the statement that       *)
(* follows it without an await are one action, and a SELECT and the UPDATE *)
(* that follows it are two.                                                *)
(***************************************************************************)
EXTENDS Naturals, Sequences, ScanJobRepository, KillSwitch

CONSTANTS
    Tasks,          \* the scan requests users send
    NeedsApproval,  \* those at escalation level >= 3
    Plan,           \* the scan phases run, in order
    MaxHosts        \* bound: hosts with HTTPS ports

FullPlan == <<"host_discovery", "port_scan", "vuln_scan", "ssl_analysis",
              "analysis">>

Phase == {FullPlan[i] : i \in 1..5}

\* Phases that run a tool in the sandbox before they ask the agent; those
\* that may run further commands without asking the kill switch again (the
\* -Pn retry, the next HTTPS hosts); those that do not fail with their tool;
\* those the escalation level or the open ports may leave out; and what a
\* phase stores: rows that reference the phase row, or findings.
RunsTool    == Phase \ {"analysis"}
RunsAgain   == {"host_discovery", "ssl_analysis"}
CatchesTool == {"ssl_analysis"}
Optional    == {"vuln_scan", "ssl_analysis"}
StoresHosts == {"host_discovery", "port_scan"}
StoresFindings == {"vuln_scan", "ssl_analysis"}

ASSUME TaskAssumption ==
    /\ NeedsApproval \subseteq Tasks
    /\ Plan \in Seq(Phase)
    /\ Plan # <<>>
    /\ MaxHosts \in Nat \ {0}

\* How many commands may follow the first one of a phase.
FollowUps(p) == CASE p = "host_discovery" -> 1
                  [] p = "ssl_analysis"   -> MaxHosts - 1
                  [] OTHER                -> 0

VARIABLES
    pc,         \* pc[t]: where the request or its task is
    scanId,     \* scanId[t]: the id the task was started for
    jobId,      \* jobId[t]: the job the orchestrator resolved it to
    phase,      \* phase[t]: index of the current phase in Plan
    more        \* more[t]: commands that may follow in the current phase

taskVars == <<pc, scanId, jobId, phase, more>>

\* Inside start_scan; the task; after it.
Handling == {"layers", "create", "spawn"}
Executing == {"begin_check", "begin_write", "resolve", "started_log",
              "approval", "waiting", "deny_check", "deny_write", "check",
              "tool", "again", "row", "enter", "agent", "store", "persist",
              "final_check", "final_write", "final_log", "fail_check",
              "fail_write", "fail_log", "outer_check", "outer_write"}
Active == Handling \cup Executing
Stopped == {"refused", "done", "crashed"}

\* A command of the task runs in the sandbox.
InSandbox == {"tool", "again", "agent"}

TaskTypeOK ==
    /\ pc \in [Tasks -> {"request"} \cup Active \cup Stopped]
    /\ scanId \in [Tasks -> Jobs \cup {NoJob}]
    /\ jobId \in [Tasks -> Jobs \cup {NoJob}]
    /\ phase \in [Tasks -> 1..Len(Plan)]
    /\ more \in [Tasks -> 0..MaxHosts]

TaskInit ==
    /\ pc = [t \in Tasks |-> "request"]
    /\ scanId = [t \in Tasks |-> NoJob]
    /\ jobId = [t \in Tasks |-> NoJob]
    /\ phase = [t \in Tasks |-> 1]
    /\ more = [t \in Tasks |-> 0]

Goto(t, to) == pc' = [pc EXCEPT ![t] = to]

Step(t, from, to) == pc[t] = from /\ Goto(t, to)

\* Nothing but the control state moves.
OnlyMoves == UNCHANGED <<repoVars, killVars, scanId, jobId, phase, more>>

\* The first half of update_status, for job j.
StatusCheck(t, from, j, accepted, refused) ==
    /\ Step(t, from, IF Refused(j) THEN refused ELSE accepted)
    /\ OnlyMoves

-----------------------------------------------------------------------------
(* POST /api/v1/scans.                                                     *)

(* check_all_security_layers reads the kill flag first ...                 *)
StartScan(t) ==
    /\ pc[t] = "request"
    /\ Goto(t, IF killFlag["api"] THEN "refused" ELSE "layers")
    /\ OnlyMoves

(* ... and, after further awaits, that the sandbox is there.  The gateway  *)
(* may be unreachable: 503 for any reason.                                 *)
CheckLayers(t) ==
    /\ pc[t] = "layers"
    /\ \/ sandbox = "ready" /\ Goto(t, "create")
       \/ Goto(t, "refused")
    /\ OnlyMoves

(* create_scan_job_with_audit: the INSERT ...                              *)
CreateJob(t) ==
    /\ Step(t, "create", "spawn")
    /\ \E j \in Jobs :
         /\ Create(j)
         /\ scanId' = [scanId EXCEPT ![t] = j]
         /\ jobId' = [jobId EXCEPT ![t] = j]
    /\ UNCHANGED <<audit, killVars, phase, more>>

(* ... the audit entry, and create_task(run_scan_background).              *)
SpawnTask(t) ==
    /\ Step(t, "spawn", "begin_check")
    /\ Log("scan.created", scanId[t])
    /\ UNCHANGED <<job, killVars, scanId, jobId, phase, more>>

-----------------------------------------------------------------------------
(* run_scan_background: update_status(RUNNING), then the orchestrator.     *)

BeginCheck(t) ==
    StatusCheck(t, "begin_check", scanId[t], "begin_write", "outer_check")

BeginWrite(t) ==
    /\ Step(t, "begin_write", "resolve")
    /\ SetStatus(scanId[t], "running")
    /\ UNCHANGED <<audit, killVars, scanId, jobId, phase, more>>

\* Mutant: an existing job is set RUNNING a second time, like a new one.
ResolveJobRestarts(t) ==
    /\ Step(t, "resolve", "started_log")
    /\ SetStatus(scanId[t], "running")
    /\ UNCHANGED <<audit, killVars, scanId, jobId, phase, more>>

(* _resolve_or_create_job: a scan whose row is gone by now is continued    *)
(* under a fresh id, whose row stays pending.                              *)
ResolveJob(t) ==
    /\ Step(t, "resolve", "started_log")
    /\ \/ /\ Exists(scanId[t])
          /\ UNCHANGED <<job, jobId>>
       \/ /\ ~Exists(scanId[t])
          /\ \E j \in Jobs :
               /\ Create(j)
               /\ jobId' = [jobId EXCEPT ![t] = j]
    /\ UNCHANGED <<audit, killVars, scanId, phase, more>>

(* _log_scan_started.                                                      *)
LogStarted(t) ==
    /\ Step(t, "started_log",
            IF t \in NeedsApproval THEN "approval" ELSE "check")
    /\ Log("scan.started", jobId[t])
    /\ UNCHANGED <<job, killVars, scanId, jobId, phase, more>>

-----------------------------------------------------------------------------
(* check_escalation_approval, for scans at level 3 and above.              *)

(* The approval request row references the scan.                           *)
RequestApproval(t) ==
    /\ pc[t] = "approval"
    /\ \/ /\ Exists(jobId[t])
          /\ job' = [job EXCEPT ![jobId[t]].approval = TRUE]
          /\ Goto(t, "waiting")
       \/ /\ ~Exists(jobId[t])
          /\ Goto(t, "fail_check")
          /\ UNCHANGED job
    /\ UNCHANGED <<audit, killVars, scanId, jobId, phase, more>>

(* The request is decided, or times out; an administrator may take as long *)
(* as the timeout lets him.                                                *)
ApprovalAnswer(t) ==
    /\ pc[t] = "waiting"
    /\ Goto(t, "check") \/ Goto(t, "deny_check")
    /\ OnlyMoves

DenyCheck(t) ==
    StatusCheck(t, "deny_check", jobId[t], "deny_write", "fail_check")

(* Not approved: FAILED, and orchestrate_scan returns normally.            *)
DenyWrite(t) ==
    /\ Step(t, "deny_write", "done")
    /\ SetStatus(jobId[t], "failed")
    /\ UNCHANGED <<audit, killVars, scanId, jobId, phase, more>>

-----------------------------------------------------------------------------
(* run_multi_phase_scan.                                                   *)

Current(t) == Plan[phase[t]]

\* Mutant: one phase too many.
NextPhaseOffByOne(t) ==
    /\ phase' = [phase EXCEPT ![t] = @ + 1]
    /\ Goto(t, IF phase[t] <= Len(Plan) THEN "check" ELSE "persist")

\* On to the next phase, or to persist_findings after the last.
NextPhase(t) ==
    IF phase[t] < Len(Plan)
    THEN /\ phase' = [phase EXCEPT ![t] = @ + 1]
         /\ Goto(t, "check")
    ELSE /\ Goto(t, "persist")
         /\ UNCHANGED phase

(* _abort_if_killed before a phase: the phases end with an empty result,   *)
(* which has no findings to persist.                                       *)
AbortIfKilled(t) ==
    /\ killFlag["api"]
    /\ Step(t, "check", "final_check")
    /\ OnlyMoves

\* Only the control state and the commands to follow change.
CommandStep == UNCHANGED <<repoVars, killVars, scanId, jobId, phase>>

\* Mutant: no kill check before the phase.
EnterPhaseUnchecked(t) ==
    /\ Step(t, "check", IF Current(t) \in RunsTool THEN "tool" ELSE "row")
    /\ more' = [more EXCEPT ![t] = FollowUps(Current(t))]
    /\ CommandStep

(* The phase starts: its tool first, or straight to execute_phase.         *)
EnterPhase(t) ==
    /\ ~killFlag["api"]
    /\ Step(t, "check", IF Current(t) \in RunsTool THEN "tool" ELSE "row")
    /\ more' = [more EXCEPT ![t] = FollowUps(Current(t))]
    /\ CommandStep

(* Level below 2 leaves out the vulnerability scan, no HTTPS port the SSL  *)
(* analysis.                                                               *)
SkipPhase(t) ==
    /\ pc[t] = "check"
    /\ ~killFlag["api"]
    /\ Current(t) \in Optional
    /\ NextPhase(t)
    /\ UNCHANGED <<repoVars, killVars, scanId, jobId, more>>

(* execute_scan_command returns, for the last of the hosts.               *)
ToolReturns(t) ==
    /\ pc[t] \in {"tool", "again"}
    /\ Goto(t, "row")
    /\ more' = [more EXCEPT ![t] = 0]
    /\ CommandStep

\* Mutant: retries without a limit.
ToolAgainForever(t) ==
    /\ \/ Step(t, "tool", "again")
       \/ Step(t, "again", "tool")
    /\ Current(t) \in RunsAgain
    /\ OnlyMoves

(* Host discovery retries a failed ping scan with -Pn, the SSL analysis    *)
(* goes on to its next host: no kill check comes in between.               *)
ToolAgain(t) ==
    /\ pc[t] \in {"tool", "again"}
    /\ Current(t) \in RunsAgain
    /\ more[t] > 0
    /\ Goto(t, "again")
    /\ more' = [more EXCEPT ![t] = @ - 1]
    /\ CommandStep

\* Mutant: the error passes handle_scan_failure by.
ToolFailsUnhandled(t) ==
    /\ pc[t] = "again"
    /\ Goto(t, "done")
    /\ OnlyMoves

(* execute_scan_command raises RuntimeError out of the phase.              *)
ToolFails(t) ==
    /\ \/ pc[t] = "tool" /\ Current(t) \notin RunsAgain
       \/ pc[t] = "again"
    /\ Current(t) \notin CatchesTool
    /\ Goto(t, "fail_check")
    /\ OnlyMoves

(* execute_phase: the scan_phases row, pending and then running.           *)
CreatePhaseRow(t) ==
    /\ pc[t] = "row"
    /\ \/ /\ Exists(jobId[t])
          /\ AddChildren(jobId[t])
          /\ Goto(t, "enter")
       \/ /\ ~Exists(jobId[t])
          /\ Goto(t, "fail_check")
          /\ UNCHANGED job
    /\ UNCHANGED <<audit, killVars, scanId, jobId, phase, more>>

(* The kill check of execute_phase: the phase is recorded as skipped.      *)
PhaseKilled(t) ==
    /\ pc[t] = "enter"
    /\ killFlag["api"]
    /\ NextPhase(t)
    /\ UNCHANGED <<repoVars, killVars, scanId, jobId, more>>

RunAgent(t) ==
    /\ ~killFlag["api"]
    /\ Step(t, "enter", "agent")
    /\ OnlyMoves

(* The agent answers; what it found is stored by all but the last phase.   *)
AgentAnswers(t) ==
    /\ pc[t] = "agent"
    /\ IF Current(t) \in StoresHosts \cup StoresFindings
       THEN Goto(t, "store") /\ UNCHANGED phase
       ELSE NextPhase(t)
    /\ UNCHANGED <<repoVars, killVars, scanId, jobId, more>>

(* The agent fails: recorded in the phase row, the next phase runs.        *)
AgentFails(t) ==
    /\ pc[t] = "agent"
    /\ NextPhase(t)
    /\ UNCHANGED <<repoVars, killVars, scanId, jobId, more>>

(* Hosts and ports reference the phase row, findings only the scan.        *)
Storable(t) ==
    /\ Exists(jobId[t])
    /\ Current(t) \in StoresHosts => job[jobId[t]].children

StoreResults(t) ==
    /\ pc[t] = "store"
    /\ \/ /\ NextPhase(t)                       \* nothing found
          /\ UNCHANGED job
       \/ /\ Storable(t)
          /\ AddChildren(jobId[t])
          /\ NextPhase(t)
       \/ /\ \/ ~Storable(t)                    \* IntegrityError
             \/ Current(t) \in StoresFindings   \* a CVSS score beyond 10
          /\ Goto(t, "fail_check")
          /\ UNCHANGED <<job, phase>>
    /\ UNCHANGED <<audit, killVars, scanId, jobId, more>>

-----------------------------------------------------------------------------
(* persist_findings, _finalize_scan.                                       *)

PersistFindings(t) ==
    /\ pc[t] = "persist"
    /\ \/ Goto(t, "final_check") /\ UNCHANGED job
       \/ /\ Exists(jobId[t])
          /\ AddChildren(jobId[t])
          /\ Goto(t, "final_check")
       \/ /\ ~Exists(jobId[t])
          /\ Goto(t, "fail_check")
          /\ UNCHANGED job
    /\ UNCHANGED <<audit, killVars, scanId, jobId, phase, more>>

\* Mutant: an update that does not check first.
FinalCheckBlind(t) == Step(t, "final_check", "final_write") /\ OnlyMoves

FinalCheck(t) ==
    StatusCheck(t, "final_check", jobId[t], "final_write", "fail_check")

\* Mutant: the final status is not written.
FinalWriteForgotten(t) == Step(t, "final_write", "final_log") /\ OnlyMoves

FinalWrite(t) ==
    /\ Step(t, "final_write", "final_log")
    /\ SetStatus(jobId[t], "completed")
    /\ UNCHANGED <<audit, killVars, scanId, jobId, phase, more>>

\* Mutant: an error after the audit entry is handled as a failed scan.
FinalLogFails(t) ==
    /\ Step(t, "final_log", "fail_check")
    /\ Log("scan.completed", jobId[t])
    /\ UNCHANGED <<job, killVars, scanId, jobId, phase, more>>

FinalLog(t) ==
    /\ Step(t, "final_log", "done")
    /\ Log("scan.completed", jobId[t])
    /\ UNCHANGED <<job, killVars, scanId, jobId, phase, more>>

-----------------------------------------------------------------------------
(* handle_scan_failure; a ValueError there reaches run_scan_background.    *)

FailCheck(t) ==
    StatusCheck(t, "fail_check", jobId[t], "fail_write", "outer_check")

FailWrite(t) ==
    /\ Step(t, "fail_write", "fail_log")
    /\ SetStatus(jobId[t], "failed")
    /\ UNCHANGED <<audit, killVars, scanId, jobId, phase, more>>

FailLog(t) ==
    /\ Step(t, "fail_log", "done")
    /\ Log("scan.failed", jobId[t])
    /\ UNCHANGED <<job, killVars, scanId, jobId, phase, more>>

(* The last resort of run_scan_background, for the id it was given; what   *)
(* goes wrong here is swallowed.                                           *)
OuterCheck(t) ==
    StatusCheck(t, "outer_check", scanId[t], "outer_write", "done")

OuterWrite(t) ==
    /\ Step(t, "outer_write", "done")
    /\ SetStatus(scanId[t], "failed")
    /\ UNCHANGED <<audit, killVars, scanId, jobId, phase, more>>

-----------------------------------------------------------------------------
TaskStep(t) ==
    \/ CheckLayers(t) \/ CreateJob(t) \/ SpawnTask(t)
    \/ BeginCheck(t) \/ BeginWrite(t) \/ ResolveJob(t) \/ LogStarted(t)
    \/ RequestApproval(t) \/ ApprovalAnswer(t) \/ DenyCheck(t) \/ DenyWrite(t)
    \/ AbortIfKilled(t) \/ EnterPhase(t) \/ SkipPhase(t)
    \/ ToolReturns(t) \/ ToolAgain(t) \/ ToolFails(t)
    \/ CreatePhaseRow(t) \/ PhaseKilled(t) \/ RunAgent(t)
    \/ AgentAnswers(t) \/ AgentFails(t) \/ StoreResults(t)
    \/ PersistFindings(t) \/ FinalCheck(t) \/ FinalWrite(t) \/ FinalLog(t)
    \/ FailCheck(t) \/ FailWrite(t) \/ FailLog(t)
    \/ OuterCheck(t) \/ OuterWrite(t)

(* The process dies: whatever was under way is gone.                       *)
TasksCrash ==
    /\ pc' = [t \in Tasks |-> IF pc[t] \in Active THEN "crashed" ELSE pc[t]]
    /\ UNCHANGED <<scanId, jobId, phase, more>>
=============================================================================
