----------------------------- MODULE ScanSystem -----------------------------
(***************************************************************************)
(* SentinelClaw's scans and their kill switch as a whole: the API process  *)
(* with its scan tasks and its requests, the watchdog process, the         *)
(* database and the sandbox they share.                                    *)
(***************************************************************************)
EXTENDS ScanTask, ScanRequests, Watchdog, ApiStartup

CONSTANTS
    MaxCrashes,     \* bound: how often the API process may die
    MaxRestarts     \* bound: how often the watchdog process may

ASSUME BoundAssumption == MaxCrashes \in Nat /\ MaxRestarts \in Nat

VARIABLES crashes, restarts

vars == <<repoVars, killVars, taskVars, requestVars, watchdogVars,
          startupVars, crashes, restarts>>

\* Everything but the variables the processes share.
Rest(others) == UNCHANGED <<others, crashes, restarts>>

TypeOK ==
    /\ RepoTypeOK /\ KillTypeOK /\ TaskTypeOK /\ RequestTypeOK
    /\ WatchdogTypeOK /\ StartupTypeOK
    /\ crashes \in 0..MaxCrashes
    /\ restarts \in 0..MaxRestarts

Init ==
    /\ RepoInit /\ KillInit /\ TaskInit /\ RequestInit
    /\ WatchdogInit /\ StartupInit
    /\ crashes = 0
    /\ restarts = 0

-----------------------------------------------------------------------------
Start(t) ==
    /\ api = "up"
    /\ StartScan(t)
    /\ Rest(<<requestVars, watchdogVars, startupVars>>)

Task(t) ==
    /\ api = "up"
    /\ TaskStep(t)
    /\ Rest(<<requestVars, watchdogVars, startupVars>>)

Send(r) ==
    /\ api = "up"
    /\ SendRequest(r)
    /\ Rest(<<taskVars, watchdogVars, startupVars>>)

Request(r) ==
    /\ api = "up"
    /\ RequestStep(r)
    /\ Rest(<<taskVars, watchdogVars, startupVars>>)

SandboxRequest ==
    /\ api = "up"
    /\ StartSandboxRequest \/ StopSandboxRequest
    /\ Rest(<<taskVars, watchdogVars, startupVars>>)

WatchdogPass ==
    /\ WatchdogStep(api = "up")
    /\ Rest(<<taskVars, requestVars, startupVars>>)

Startup ==
    /\ StartupStep
    /\ Rest(<<taskVars, requestVars, watchdogVars>>)

(* A scan has been running for longer than it may.                         *)
Age(j) ==
    /\ job[j].status = "running"
    /\ ~job[j].overdue
    /\ job' = [job EXCEPT ![j].overdue = TRUE]
    /\ UNCHANGED audit
    /\ Rest(<<killVars, taskVars, requestVars, watchdogVars, startupVars>>)

ApiCrash ==
    /\ crashes < MaxCrashes
    /\ crashes' = crashes + 1
    /\ ApiDies
    /\ TasksCrash
    /\ RequestsCrash
    /\ UNCHANGED <<watchdogVars, restarts>>

WatchdogCrash ==
    /\ restarts < MaxRestarts
    /\ restarts' = restarts + 1
    /\ WatchdogRestart
    /\ UNCHANGED <<taskVars, requestVars, startupVars, crashes>>

Next ==
    \/ \E t \in Tasks : Start(t) \/ Task(t)
    \/ \E r \in Requests : Send(r) \/ Request(r)
    \/ SandboxRequest
    \/ WatchdogPass
    \/ Startup
    \/ \E j \in Jobs : Age(j)
    \/ ApiCrash
    \/ WatchdogCrash

Spec == Init /\ [][Next]_vars

(* What keeps going by itself: every coroutine of the event loop, each of  *)
(* whose awaits is a database statement or has a timeout; the watchdog's   *)
(* loop; the container runtime and the startup hook; the clock.  Users owe *)
(* nothing, and nothing owes a crash.                                      *)
Fairness ==
    /\ \A t \in Tasks : WF_vars(Task(t))
    /\ \A r \in Requests : WF_vars(Request(r))
    /\ WF_vars(WatchdogPass)
    /\ WF_vars(Startup)
    /\ \A j \in Jobs : WF_vars(Age(j))

FairSpec == Spec /\ Fairness
=============================================================================
