---------------------------- MODULE ScanRequests ----------------------------
(***************************************************************************)
(* The API requests that meddle with scans others are running:             *)
(*   PUT    /api/v1/scans/{id}/cancel    (api/scan_routes.cancel_scan)     *)
(*   DELETE /api/v1/scans/{id}           (api/scan_routes.delete_scan)     *)
(*   POST   /api/v1/kill                 (api/system_routes.emergency_kill)*)
(*   POST   /api/v1/kill/reset, /api/v1/sandbox/start, /api/v1/sandbox/stop*)
(* Each request is a coroutine on the API's event loop, and an action is   *)
(* what it does between two awaits.  The three sandbox commands are        *)
(* subprocess.run calls, which do not await at all.                        *)
(***************************************************************************)
EXTENDS ScanJobRepository, KillSwitch

CONSTANTS Cancellers, Deleters, Killers, Resetters  \* the requests sent

Requests == Cancellers \cup Deleters \cup Killers \cup Resetters

\* A request is of one kind only.
ASSUME RequestAssumption ==
    /\ Cancellers \cap (Deleters \cup Killers \cup Resetters) = {}
    /\ Deleters \cap (Killers \cup Resetters) = {}
    /\ Killers \cap Resetters = {}

VARIABLES
    rpc,        \* rpc[r]: where request r is
    target,     \* target[r]: the scan it is about to update or delete
    running,    \* running[r]: the list emergency_kill took
    todo        \* todo[r]: what is left of it

requestVars == <<rpc, target, running, todo>>

RequestTypeOK ==
    /\ rpc \in [Requests -> {"sent", "check", "write", "children", "row",
                             "list", "next", "log", "done", "failed"}]
    /\ target \in [Requests -> Jobs \cup {NoJob}]
    /\ running \in [Requests -> SUBSET Jobs]
    /\ todo \in [Requests -> SUBSET Jobs]

RequestInit ==
    /\ rpc = [r \in Requests |-> "sent"]
    /\ target = [r \in Requests |-> NoJob]
    /\ running = [r \in Requests |-> {}]
    /\ todo = [r \in Requests |-> {}]

\* In the middle of its handler.
Handled(r) == rpc[r] \notin {"sent", "done", "failed"}

RGoto(r, to) == rpc' = [rpc EXCEPT ![r] = to]

RStep(r, from, to) == rpc[r] = from /\ RGoto(r, to)

LogRequest(r, action, j) ==
    /\ RStep(r, "log", "done")
    /\ Log(action, j)
    /\ UNCHANGED <<job, killVars, target, running, todo>>

-----------------------------------------------------------------------------
(* cancel_scan: 409 unless the scan is pending or running, read before     *)
(* update_status reads the row again.                                      *)

CancelRead(r) ==
    /\ rpc[r] = "sent"
    /\ \E j \in Jobs :
         /\ job[j].status # "unused"
         /\ target' = [target EXCEPT ![r] = j]
         /\ RGoto(r, IF job[j].status \in {"pending", "running"}
                     THEN "check" ELSE "done")
    /\ UNCHANGED <<repoVars, killVars, running, todo>>

CancelCheck(r) ==
    /\ RStep(r, "check", IF Refused(target[r]) THEN "failed" ELSE "write")
    /\ UNCHANGED <<repoVars, killVars, target, running, todo>>

CancelWrite(r) ==
    /\ RStep(r, "write", "log")
    /\ SetStatus(target[r], "cancelled")
    /\ UNCHANGED <<audit, killVars, target, running, todo>>

CancelLog(r) == LogRequest(r, "scan.cancelled", target[r])

-----------------------------------------------------------------------------
(* delete_scan: 404 unless the row exists, then ScanJobRepository.delete,  *)
(* statement by statement.  The cascade does not know approval_requests.   *)

DeleteRead(r) ==
    /\ rpc[r] = "sent"
    /\ \E j \in Jobs :
         /\ job[j].status # "unused"
         /\ target' = [target EXCEPT ![r] = j]
         /\ RGoto(r, IF Exists(j) THEN "children" ELSE "done")
    /\ UNCHANGED <<repoVars, killVars, running, todo>>

DeleteDependents(r) ==
    /\ RStep(r, "children", "row")
    /\ DeleteChildren(target[r])
    /\ UNCHANGED <<audit, killVars, target, running, todo>>

\* Mutant: the refused DELETE is swallowed.
DeleteScanRowQuietly(r) ==
    /\ RStep(r, "row", "log")
    /\ IF Referenced(target[r]) THEN UNCHANGED job ELSE DeleteRow(target[r])
    /\ UNCHANGED <<audit, killVars, target, running, todo>>

(* The row goes unless the foreign key of a remaining or a new dependent   *)
(* row forbids it; what was deleted before stays deleted.                  *)
DeleteScanRow(r) ==
    /\ rpc[r] = "row"
    /\ \/ /\ Referenced(target[r])
          /\ RGoto(r, "failed")
          /\ UNCHANGED job
       \/ /\ ~Referenced(target[r])
          /\ DeleteRow(target[r])
          /\ RGoto(r, "log")
    /\ UNCHANGED <<audit, killVars, target, running, todo>>

DeleteLog(r) == LogRequest(r, "scan.deleted", target[r])

-----------------------------------------------------------------------------
(* emergency_kill.                                                         *)

KillActivate(r) ==
    /\ RStep(r, "sent", "list")
    /\ Activate("api")
    /\ UNCHANGED <<repoVars, target, running, todo>>

KillList(r) ==
    /\ RStep(r, "list", "next")
    /\ running' = [running EXCEPT ![r] = HasStatus("running")]
    /\ todo' = [todo EXCEPT ![r] = HasStatus("running")]
    /\ UNCHANGED <<repoVars, killVars, target>>

(* update_status of the next scan.  A scan someone else has marked in the  *)
(* meantime raises ValueError, which ends the handler: no further scan is  *)
(* marked and no audit entry written.                                      *)
KillCheck(r) ==
    /\ rpc[r] = "next"
    /\ \E j \in todo[r] :
         /\ target' = [target EXCEPT ![r] = j]
         /\ RGoto(r, IF Refused(j) THEN "failed" ELSE "write")
    /\ UNCHANGED <<repoVars, killVars, running, todo>>

KillWrite(r) ==
    /\ RStep(r, "write", "next")
    /\ SetStatus(target[r], "emergency_killed")
    /\ todo' = [todo EXCEPT ![r] = @ \ {target[r]}]
    /\ UNCHANGED <<audit, killVars, target, running>>

\* Mutant: the loop ends early.
KillMarkedEarly(r) ==
    /\ RStep(r, "next", "log")
    /\ UNCHANGED <<repoVars, killVars, target, running, todo>>

KillMarked(r) ==
    /\ todo[r] = {}
    /\ RStep(r, "next", "log")
    /\ UNCHANGED <<repoVars, killVars, target, running, todo>>

KillLog(r) == LogRequest(r, "kill.activated", NoJob)

-----------------------------------------------------------------------------
(* reset_kill_switch: the flag goes down whatever is still in flight.      *)
ResetFlag(r) ==
    /\ rpc[r] = "sent"
    /\ \/ /\ killFlag["api"]
          /\ Reset("api")
          /\ CreateSandbox
          /\ RGoto(r, "log")
       \/ /\ ~killFlag["api"]
          /\ RGoto(r, "done")
          /\ UNCHANGED killVars
    /\ UNCHANGED <<repoVars, target, running, todo>>

ResetLog(r) == LogRequest(r, "kill.reset", NoJob)

(* start_sandbox and stop_sandbox; the first does not ask the kill switch. *)
StartSandboxRequest ==
    /\ sandbox = "absent"
    /\ CreateSandbox
    /\ UNCHANGED <<repoVars, killFlag, requestVars>>

StopSandboxRequest ==
    /\ sandbox = "ready"
    /\ StopSandbox
    /\ UNCHANGED <<repoVars, killFlag, requestVars>>

-----------------------------------------------------------------------------
\* A user sends the request ...
SendRequest(r) ==
    \/ r \in Cancellers /\ CancelRead(r)
    \/ r \in Deleters /\ DeleteRead(r)
    \/ r \in Killers /\ KillActivate(r)
    \/ r \in Resetters /\ ResetFlag(r)

\* ... and its handler goes on.
RequestStep(r) ==
    \/ r \in Cancellers /\ (CancelCheck(r) \/ CancelWrite(r) \/ CancelLog(r))
    \/ r \in Deleters /\ (DeleteDependents(r) \/ DeleteScanRow(r) \/ DeleteLog(r))
    \/ r \in Killers /\ (KillList(r) \/ KillCheck(r) \/ KillWrite(r)
                          \/ KillMarked(r) \/ KillLog(r))
    \/ r \in Resetters /\ ResetLog(r)

(* The process dies: the handler is gone.                                  *)
RequestsCrash ==
    /\ rpc' = [r \in Requests |-> IF Handled(r) THEN "failed" ELSE rpc[r]]
    /\ UNCHANGED <<target, running, todo>>
=============================================================================
