------------------------- MODULE ScanJobRepository -------------------------
(***************************************************************************)
(* The scan_jobs table and its repository class (shared/repositories.py),  *)
(* together with the append-only audit_logs table.                         *)
(*                                                                         *)
(* update_status is two awaited statements: a SELECT that refuses a scan   *)
(* in emergency_killed, and an unconditional UPDATE.  This module gives    *)
(* the two halves (Refused, SetStatus) and leaves it to its callers, the   *)
(* tasks, request handlers and the watchdog, to be in a control state of   *)
(* their own between them.  Execute and commit of one statement are one    *)
(* step: every caller in the API process shares one connection, and the    *)
(* watchdog, on its own connection, only ever sees committed rows.         *)
(***************************************************************************)
CONSTANTS
    Jobs,       \* the scan ids (UUIDs) that can ever be drawn
    NoJob       \* "no scan id"

ASSUME JobsAssumption == NoJob \notin Jobs

VARIABLES
    job,        \* job[j]: the scan_jobs row of id j, with what hangs off it
    audit       \* the audit_logs entries <<action, scan id or NoJob>>

repoVars == <<job, audit>>

Status == {"pending", "running", "completed", "failed", "cancelled",
           "emergency_killed"}

\* The statuses a scan is meant to end in.
Terminal == {"completed", "failed", "cancelled", "emergency_killed"}

\* status "unused": the id was never drawn; "deleted": the row is gone.
\* started / completed: the column is not NULL.  overdue: started_at lies
\* further back than the maximum scan duration.  children: rows of the
\* cascade's tables exist; approval: an approval_requests row exists.
Row == [status    : Status \cup {"unused", "deleted"},
        started   : BOOLEAN,
        completed : BOOLEAN,
        overdue   : BOOLEAN,
        children  : BOOLEAN,
        approval  : BOOLEAN]

NoRow(status) ==
    [status |-> status, started |-> FALSE, completed |-> FALSE,
     overdue |-> FALSE, children |-> FALSE, approval |-> FALSE]

AuditActions == {"scan.created", "scan.started", "scan.completed",
                 "scan.failed", "scan.cancelled", "scan.deleted",
                 "kill.activated", "kill.reset"}

RepoTypeOK ==
    /\ job \in [Jobs -> Row]
    /\ audit \subseteq (AuditActions \X (Jobs \cup {NoJob}))

RepoInit ==
    /\ job = [j \in Jobs |-> NoRow("unused")]
    /\ audit = {}

Exists(j) == job[j].status \notin {"unused", "deleted"}

HasStatus(s) == {j \in Jobs : job[j].status = s}

-----------------------------------------------------------------------------
(* ScanJobRepository.create: the INSERT of a row under a fresh UUID.       *)
Create(j) ==
    /\ job[j].status = "unused"
    /\ job' = [job EXCEPT ![j] = NoRow("pending")]

(* First half of update_status: the ValueError that makes emergency_killed *)
(* final.  A missing row is not refused.                                   *)
Refused(j) == job[j].status = "emergency_killed"

\* Mutant: started_at is forgotten.
StampedUnstarted(row, s) == [row EXCEPT !.status = s, !.overdue = FALSE]

(* Which timestamps the three UPDATE variants of update_status touch.      *)
Stamped(row, s) ==
    CASE s = "running" ->
            [row EXCEPT !.status = s, !.started = TRUE, !.overdue = FALSE]
      [] s \in {"completed", "failed", "emergency_killed"} ->
            [row EXCEPT !.status = s, !.completed = TRUE]
      [] OTHER ->
            [row EXCEPT !.status = s]

(* Second half of update_status: UPDATE ... WHERE id = ?, which touches    *)
(* whatever status the row has by now, and nothing when it is gone.        *)
SetStatus(j, s) ==
    job' = IF Exists(j) THEN [job EXCEPT ![j] = Stamped(@, s)] ELSE job

(* INSERT of a row that references the scan (phase, host, port, finding):  *)
(* only while the scan row exists, the foreign key refuses it otherwise.   *)
AddChildren(j) == job' = [job EXCEPT ![j].children = TRUE]

(* delete(): first the dependent tables are emptied ...                    *)
DeleteChildren(j) == job' = [job EXCEPT ![j].children = FALSE]

(* ... then the row itself, unless something still references it.          *)
Referenced(j) == job[j].children \/ job[j].approval

DeleteRow(j) == job' = [job EXCEPT ![j] = NoRow("deleted")]

(* AuditLogRepository.create, the only write the audit log has.            *)
Log(action, j) == audit' = audit \cup {<<action, j>>}
=============================================================================
