--------------------------- MODULE ScanProperties ---------------------------
(***************************************************************************)
(* What the scans of SentinelClaw and their kill switch are to guarantee,  *)
(* and, at the end, what the documentation says of them that the code does *)
(* not keep.                                                               *)
(***************************************************************************)
EXTENDS ScanSystem

Killed(j) == job[j].status = "emergency_killed"

\* Somebody has passed update_status's check for j and not yet written.
TaskInFlight(j) ==
    \E t \in Tasks :
        \/ pc[t] \in {"begin_write", "outer_write"} /\ scanId[t] = j
        \/ pc[t] \in {"deny_write", "final_write", "fail_write"} /\ jobId[t] = j
RequestInFlight(j) == \E r \in Requests : rpc[r] = "write" /\ target[r] = j
WatchdogInFlight(j) == wpc \in {"timeout_write", "scope_write"} /\ wJob = j
StartupInFlight(j) == api = "cleanup_write" /\ stuckJob = j

InFlight(j) == \/ TaskInFlight(j) \/ RequestInFlight(j)
               \/ WatchdogInFlight(j) \/ StartupInFlight(j)

\* A command of t is started in the sandbox by this step.
CommandStarts(t) ==
    /\ pc'[t] \in InSandbox
    /\ pc'[t] # pc[t] \/ more'[t] # more[t]

-----------------------------------------------------------------------------
(* Safety.                                                                 *)

(* update_status (shared/repositories.py): its check makes emergency_killed *)
(* final but for the updates that were past the check when the kill was    *)
(* written.  Once those have drained, no task, request, watchdog pass or   *)
(* startup moves the scan out of it again, nor gets ready to; only         *)
(* deleting the scan does.                                                 *)
KillSettles ==
    [][\A j \in Jobs : Killed(j) /\ ~InFlight(j) =>
          job'[j].status \in {"emergency_killed", "deleted"} /\ ~InFlight(j)']_vars

(* docs/KILL_SWITCH.md, step 6: a scan is running once.  Whatever ended it, *)
(* and whichever late update overwrote that, it is never running again:    *)
(* run_scan_background is the only writer of RUNNING and each scan has one.*)
NeverRunsAgain ==
    [][\A j \in Jobs : job[j].started /\ job[j].status # "running" =>
          job'[j].status # "running"]_vars

(* A scan that is running has a task that works on it, unless the API died *)
(* under that task: no path through the orchestrator's error handling      *)
(* leaves a scan running that nobody will ever end.                        *)
RunningHasTask ==
    \A j \in HasStatus("running") :
        \E t \in Tasks : jobId[t] = j /\ pc[t] \in Executing \cup {"crashed"}

(* When run_scan_background returns, its scan has ended: whatever failed,  *)
(* was refused by update_status or was overwritten on the way.             *)
TaskEndsScan ==
    \A t \in Tasks : pc[t] = "done" =>
        job[jobId[t]].status \in Terminal \cup {"deleted"}

(* emergency_kill: after a kill was answered, none of the scans it counts  *)
(* in scans_killed is running, whatever late update hit them since.        *)
KillHolds ==
    \A r \in Killers : rpc[r] \in {"log", "done"} =>
        \A j \in running[r] : job[j].status # "running"

FlagCleared ==
    \/ crashes > 0
    \/ restarts > 0
    \/ \E r \in Resetters : rpc[r] # "sent"

(* emergency_kill and _execute_kill raise the flag and delete the sandbox  *)
(* before they mark a scan: a killed scan is proof that some process'es    *)
(* kill flag is up, until it is reset or the process restarts.             *)
MarkedAfterKill ==
    (\E j \in Jobs : Killed(j)) /\ ~FlagCleared =>
        \E p \in Processes : killFlag[p]

(* The checks of run_multi_phase_scan and execute_phase: while the API's   *)
(* flag is up, the only commands a task still starts are follow-ups (the   *)
(* -Pn retry, the next HTTPS hosts) of the phase whose command it is       *)
(* waiting for; no further phase and no agent is started.                  *)
OnlyFollowUpsAfterKill ==
    [][\A t \in Tasks : killFlag["api"] /\ CommandStarts(t) =>
          pc[t] \in {"tool", "again"} /\ Current(t) \in RunsAgain]_vars

(* The audit log tells one story: a scan is not both completed and failed, *)
(* whatever handle_scan_failure and run_scan_background do after a refused *)
(* update.                                                                 *)
OneOutcomeLogged ==
    \A j \in Jobs : ~({<<"scan.completed", j>>, <<"scan.failed", j>>}
                       \subseteq audit)

(* delete_scan: what the audit log calls deleted is gone and stays gone,   *)
(* also under a task that is still working on it.                          *)
DeletedIsGone ==
    \A j \in Jobs : <<"scan.deleted", j>> \in audit =>
        job[j] = NoRow("deleted")

-----------------------------------------------------------------------------
(* Liveness, under FairSpec.                                               *)

(* Every scan request and every task comes to an end.                      *)
TasksStop == \A t \in Tasks : pc[t] \in Active ~> pc[t] \in Stopped

(* No scan is running forever: the task ends it, or the startup cleanup or *)
(* the watchdog's timeout does when the API died under the task.           *)
RunningEnds ==
    \A j \in Jobs : job[j].status = "running" ~> job[j].status # "running"

-----------------------------------------------------------------------------
(* What docs and comments say, and the code does not keep.                 *)

(* update_status, docstring: a killed scan never changes its status again. *)
KilledIsFinal ==
    [][\A j \in Jobs : Killed(j) => job'[j].status \in
                           {"emergency_killed", "deleted"}]_vars

(* emergency_kill, docstring: stops ALL running scans.                     *)
KillStopsAll ==
    \A r \in Killers : rpc[r] \in {"done", "failed"} =>
        \A j \in running[r] : job[j].status # "running"
=============================================================================
