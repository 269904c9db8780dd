----------------------------- MODULE ApiStartup -----------------------------
(***************************************************************************)
(* The life of the API process: it dies, the container runtime starts it   *)
(* again (restart: unless-stopped), and before it serves a request its     *)
(* lifespan hook runs api/startup.run_startup_tasks, of which              *)
(* cleanup_stuck_scans is the part that touches scans.                     *)
(***************************************************************************)
EXTENDS ScanJobRepository, KillSwitch

VARIABLES
    api,        \* "up", "down" or inside cleanup_stuck_scans
    stuck,      \* the running scans it listed and has yet to look at
    stuckJob    \* the scan it is failing

startupVars == <<api, stuck, stuckJob>>

StartupTypeOK ==
    /\ api \in {"up", "down", "cleanup", "cleanup_write"}
    /\ stuck \subseteq Jobs
    /\ stuckJob \in Jobs \cup {NoJob}

StartupInit ==
    /\ api = "up"
    /\ stuck = {}
    /\ stuckJob = NoJob

AStep(from, to) == api = from /\ api' = to

StartupList ==
    /\ AStep("down", "cleanup")
    /\ stuck' = HasStatus("running")
    /\ UNCHANGED <<repoVars, killVars, stuckJob>>

(* A listed scan that has not been running for ten minutes is left alone.  *)
StartupSkip ==
    /\ AStep("cleanup", "cleanup")
    /\ \E j \in stuck :
         /\ ~(job[j].started /\ job[j].overdue)
         /\ stuck' = stuck \ {j}
    /\ UNCHANGED <<repoVars, killVars, stuckJob>>

(* update_status of an older one.  A ValueError leaves the lifespan hook,  *)
(* and the server does not come up.                                        *)
StartupCheck ==
    /\ api = "cleanup"
    /\ \E j \in stuck :
         /\ job[j].started /\ job[j].overdue
         /\ stuck' = stuck \ {j}
         /\ stuckJob' = j
         /\ api' = IF Refused(j) THEN "down" ELSE "cleanup_write"
    /\ UNCHANGED <<repoVars, killVars>>

StartupWrite ==
    /\ AStep("cleanup_write", "cleanup")
    /\ SetStatus(stuckJob, "failed")
    /\ UNCHANGED <<audit, killVars, stuck, stuckJob>>

(* _reset_kill_switch_if_active, and the server is up.                     *)
StartupDone ==
    /\ stuck = {}
    /\ AStep("cleanup", "up")
    /\ Reset("api")
    /\ UNCHANGED <<repoVars, sandbox, stuck, stuckJob>>

StartupStep ==
    \/ StartupList \/ StartupSkip \/ StartupCheck \/ StartupWrite
    \/ StartupDone

(* The process dies, and its kill flag with it.                            *)
ApiDies ==
    /\ api = "up"
    /\ api' = "down"
    /\ Reset("api")
    /\ UNCHANGED <<repoVars, sandbox, stuck, stuckJob>>
=============================================================================
