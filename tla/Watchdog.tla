------------------------------ MODULE Watchdog ------------------------------
(***************************************************************************)
(* The watchdog process (watchdog/service.py, watchdog/scope_checks.py).   *)
(* A pass over its five checks, in order, every CHECK_INTERVAL seconds; an *)
(* exception anywhere ends the pass.  It has a kill switch and a database  *)
(* connection of its own: of the API's kill flag it knows nothing.         *)
(***************************************************************************)
EXTENDS Naturals, ScanJobRepository, KillSwitch

CONSTANTS
    MaxHealthFailures,  \* MAX_HEALTH_FAILURES
    OutOfScope          \* scans whose target is not in the whitelist, or
                        \* whose time window is over

ASSUME WatchdogAssumption ==
    /\ MaxHealthFailures \in Nat \ {0}
    /\ OutOfScope \subseteq Jobs

VARIABLES
    wpc,        \* where the pass is
    wTodo,      \* the timed-out scans it has yet to kill
    wJob,       \* the scan it is killing
    failures    \* _health_failures, as far as it matters

watchdogVars == <<wpc, wTodo, wJob, failures>>

WatchdogTypeOK ==
    /\ wpc \in {"asleep", "timeouts", "timeout_check", "timeout_write",
                "health", "scope", "scope_check", "scope_write", "completion"}
    /\ wTodo \subseteq Jobs
    /\ wJob \in Jobs \cup {NoJob}
    /\ failures \in 0..MaxHealthFailures - 1

WatchdogInit ==
    /\ wpc = "asleep"
    /\ wTodo = {}
    /\ wJob = NoJob
    /\ failures = 0

WStep(from, to) == wpc = from /\ wpc' = to

-----------------------------------------------------------------------------
(* _check_scan_timeouts: the list is taken once, and each scan on it that  *)
(* was over its time then is killed.                                       *)

TimeoutList ==
    /\ WStep("asleep", "timeouts")
    /\ wTodo' = {j \in HasStatus("running") : job[j].started /\ job[j].overdue}
    /\ UNCHANGED <<repoVars, killVars, wJob, failures>>

\* Mutant: the scan is marked, the kill switch not activated.
TimeoutKillSilent ==
    /\ WStep("timeouts", "timeout_check")
    /\ \E j \in wTodo :
         /\ wJob' = j
         /\ wTodo' = wTodo \ {j}
    /\ UNCHANGED <<repoVars, killVars, failures>>

(* _execute_kill first ...                                                 *)
TimeoutKill ==
    /\ WStep("timeouts", "timeout_check")
    /\ \E j \in wTodo :
         /\ wJob' = j
         /\ wTodo' = wTodo \ {j}
    /\ Activate("watchdog")
    /\ UNCHANGED <<repoVars, failures>>

(* ... then update_status, whose ValueError ends the pass.                 *)
TimeoutCheck ==
    /\ WStep("timeout_check", IF Refused(wJob) THEN "asleep" ELSE "timeout_write")
    /\ UNCHANGED <<repoVars, killVars, wTodo, wJob, failures>>

TimeoutWrite ==
    /\ WStep("timeout_write", "timeouts")
    /\ SetStatus(wJob, "emergency_killed")
    /\ UNCHANGED <<audit, killVars, wTodo, wJob, failures>>

TimeoutsDone ==
    /\ wTodo = {}
    /\ WStep("timeouts", "health")
    /\ UNCHANGED <<repoVars, killVars, wTodo, wJob, failures>>

-----------------------------------------------------------------------------
(* _check_app_health.  A request to an API that is up may still time out,  *)
(* while a subprocess.run blocks its event loop.                           *)

Healthy ==
    /\ WStep("health", "scope")
    /\ failures' = 0
    /\ UNCHANGED <<repoVars, killVars, wTodo, wJob>>

\* Consecutive failures.  From one below the limit on, the count makes no
\* difference: every further failure reaches or exceeds the limit.
OneMore(n) == IF n + 1 < MaxHealthFailures THEN n + 1 ELSE n

Unhealthy ==
    /\ WStep("health", "scope")
    /\ failures' = OneMore(failures)
    /\ IF failures + 1 >= MaxHealthFailures
       THEN Activate("watchdog")
       ELSE UNCHANGED killVars
    /\ UNCHANGED <<repoVars, wTodo, wJob>>

-----------------------------------------------------------------------------
(* check_scope_violations: the first running scan outside its scope is     *)
(* killed, the others wait for the next pass.                              *)

Violating == HasStatus("running") \cap OutOfScope

ScopeKill ==
    /\ WStep("scope", "scope_check")
    /\ \E j \in Violating : wJob' = j
    /\ Activate("watchdog")
    /\ UNCHANGED <<repoVars, wTodo, failures>>

ScopeFine ==
    /\ Violating = {}
    /\ WStep("scope", "completion")
    /\ UNCHANGED <<repoVars, killVars, wTodo, wJob, failures>>

ScopeCheck ==
    /\ WStep("scope_check", IF Refused(wJob) THEN "asleep" ELSE "scope_write")
    /\ UNCHANGED <<repoVars, killVars, wTodo, wJob, failures>>

ScopeWrite ==
    /\ WStep("scope_write", "completion")
    /\ SetStatus(wJob, "emergency_killed")
    /\ UNCHANGED <<audit, killVars, wTodo, wJob, failures>>

-----------------------------------------------------------------------------
(* _check_kill_completion: delete a sandbox that outlived the watchdog's   *)
(* own kill.                                                               *)
Completion ==
    /\ WStep("completion", "asleep")
    /\ IF killFlag["watchdog"] /\ sandbox = "ready"
       THEN StopSandbox
       ELSE UNCHANGED sandbox
    /\ UNCHANGED <<repoVars, killFlag, wTodo, wJob, failures>>

-----------------------------------------------------------------------------
\* A step of a pass, when the API answers the health check and when not.
WatchdogStep(apiUp) ==
    \/ TimeoutList \/ TimeoutKill \/ TimeoutCheck \/ TimeoutWrite
    \/ TimeoutsDone
    \/ apiUp /\ Healthy
    \/ Unhealthy
    \/ ScopeKill \/ ScopeFine \/ ScopeCheck \/ ScopeWrite
    \/ Completion

(* The process is restarted: its kill flag and its counter are gone.       *)
WatchdogRestart ==
    /\ wpc' = "asleep"
    /\ wTodo' = {}
    /\ wJob' = NoJob
    /\ failures' = 0
    /\ Reset("watchdog")
    /\ UNCHANGED <<repoVars, sandbox>>
=============================================================================
