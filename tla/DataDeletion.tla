---------------------------- MODULE DataDeletion ----------------------------
(***************************************************************************)
(* The three ways in which scan data is deleted: DELETE /scans/{id}        *)
(* (shared/repositories.py), the retention cleanup at startup              *)
(* (shared/retention_service.py) and the GDPR deletion of a user           *)
(* (shared/gdpr_service.py), against the scan tasks, the chat and the      *)
(* requests that write at the same time.                                   *)
(*                                                                         *)
(* All coroutines of the API share one SQLite connection, and with it one  *)
(* transaction: the first statement that writes opens it, the next commit, *)
(* whoever makes it, ends it.  No code rolls back; a statement that fails  *)
(* leaves it open.  An action is one awaited statement or commit.          *)
(*                                                                         *)
(* agent_logs and scan_results are left out, as nothing writes them, and   *)
(* agent_reports, whose rows are of no scan.                               *)
(***************************************************************************)
EXTENDS Naturals, Sequences

CONSTANTS
    Scans,      \* scan ids
    Stored,     \* Stored[s]: the tables with rows of s when the server starts
    Written,    \* the tables a scan's task writes, in order
    Expired,    \* the scans that are older than retention_scan_days
    Users,      \* user accounts
    DeleteReqs, \* DELETE /scans/{id} requests
    PurgeReqs,  \* GDPR deletion requests
    Requests,   \* other requests, of one statement and a commit each
    NoTarget,   \* what a request works on before it is sent
    MaxStarts   \* bound: starts of the server

ScanTables == {"scan_jobs", "findings", "scan_phases", "discovered_hosts",
               "open_ports", "approval_requests", "chat_messages"}
UserTables == {"users", "consent_records", "audit_logs"}

\* Tables whose rows reference a table: a row there keeps the other one.
References(t) ==
    CASE t = "scan_jobs" -> {"findings", "scan_phases", "discovered_hosts",
                             "open_ports", "approval_requests"}
      [] t = "scan_phases" -> {"discovered_hosts", "open_ports"}
      [] OTHER -> {}

ASSUME DeletionAssumption ==
    /\ Stored \in [Scans -> SUBSET ScanTables]
    /\ \A s \in Scans :
          Stored[s] \cap References("scan_jobs") # {} => "scan_jobs" \in Stored[s]
    /\ Written \in Seq(ScanTables) /\ Len(Written) > 0 /\ Written[1] = "scan_jobs"
    /\ \A n \in 2 .. Len(Written) : Written[n] \in References("scan_jobs")
    /\ Expired \subseteq Scans
    /\ DeleteReqs \cap PurgeReqs = {}
    /\ "retention" \notin DeleteReqs \cup PurgeReqs
    /\ NoTarget \notin Scans \cup Users
    /\ MaxStarts \in Nat

Deletions == DeleteReqs \cup PurgeReqs \cup {"retention"}

\* What a request does, and to which scan or user.
Doings == ({"message", "finding", "drop_finding"} \X Scans)
          \cup ({"audit", "dismiss"} \X Users) \cup ({"clear"} \X {NoTarget})

VARIABLES
    disk,       \* the committed tables
    view,       \* the tables as the shared connection sees them
    held,       \* whether its transaction is open
    server,     \* "down", "startup" or "up"
    starts,     \* how often the server was started
    fate,       \* fate[d]: where deletion d is
    step,       \* step[d]: the statement it is at
    target,     \* target[d]: the scan or user it is for
    ids,        \* ids[d]: the scans it has listed
    left,       \* left[d]: those its current statement has yet to run for
    task,       \* task[s]: what the task of scan s does with the connection
    written,    \* written[s]: how many tables the task has written
    request,    \* request[r]: where request r is
    does        \* does[r]: what it does, once it was sent

deletionVars == <<fate, step, target, ids, left>>
writerVars == <<task, written, request, does>>
dataVars == <<disk, view, held, server, starts, deletionVars, writerVars>>

DeleteOrder == <<"discovered_hosts", "open_ports", "findings", "scan_phases",
                 "chat_messages", "scan_jobs", "commit">>
RetentionOrder == <<"findings", "scan_phases", "discovered_hosts", "open_ports",
                    "approval_requests", "scan_jobs", "commit">>

\* Mutant: the user goes first.
UserFirst == <<"users", "findings", "scan_phases", "discovered_hosts",
               "open_ports", "approval_requests", "scan_jobs", "chat_messages",
               "consent_records", "audit_logs", "commit">>
PurgeOrder == <<"findings", "scan_phases", "discovered_hosts", "open_ports",
                "approval_requests", "scan_jobs", "chat_messages",
                "consent_records", "audit_logs", "users", "commit">>

Statements(d) == CASE d \in DeleteReqs -> DeleteOrder
                   [] d \in PurgeReqs -> PurgeOrder
                   [] OTHER -> RetentionOrder

DataTypeOK ==
    /\ {disk, view} \subseteq [rows : [Scans -> SUBSET ScanTables],
                               ended : SUBSET Scans,
                               people : [Users -> SUBSET UserTables]]
    /\ held \in BOOLEAN /\ (~held => view = disk)
    /\ server \in {"down", "startup", "up"}
    /\ starts \in 0 .. MaxStarts
    /\ fate \in [Deletions -> {"idle", "working", "done", "failed", "lost"}]
    /\ step \in [Deletions -> 1 .. Len(PurgeOrder)]
    /\ target \in [Deletions -> Scans \cup Users \cup {NoTarget}]
    /\ {ids, left} \subseteq [Deletions -> SUBSET Scans]
    /\ task \in [Scans -> {"idle", "insert", "commit", "end", "last_commit",
                           "done", "lost"}]
    /\ written \in [Scans -> 0 .. Len(Written)]
    /\ request \in [Requests -> {"idle", "commit", "done", "failed", "lost"}]
    /\ does \in [Requests -> Doings]

DataInit ==
    /\ disk = [rows |-> Stored,
               ended |-> {s \in Scans : "scan_jobs" \in Stored[s]},
               people |-> [u \in Users |-> UserTables]]
    /\ view = disk
    /\ held = FALSE
    /\ server = "down"
    /\ starts = 0
    /\ fate = [d \in Deletions |-> "idle"]
    /\ step = [d \in Deletions |-> 1]
    /\ target = [d \in Deletions |-> NoTarget]
    /\ ids = [d \in Deletions |-> {}]
    /\ left = ids
    /\ task = [s \in Scans |-> "idle"]
    /\ written = [s \in Scans |-> 0]
    /\ request = [r \in Requests |-> "idle"]
    /\ does = [r \in Requests |-> <<"clear", NoTarget>>]

-----------------------------------------------------------------------------
(* The connection.                                                         *)

\* A statement that writes.
Write(tables) ==
    /\ view' = tables
    /\ held' = TRUE
    /\ UNCHANGED disk

Commit ==
    /\ disk' = view
    /\ held' = FALSE
    /\ UNCHANGED view

\* A statement that the foreign keys refuse: it changes nothing.
Refuse == held' = TRUE /\ UNCHANGED <<disk, view>>

Without(S, t) ==
    [view EXCEPT !.rows = [s \in Scans |-> @[s] \ (IF s \in S THEN {t} ELSE {})]]

\* The process ends: its transaction is rolled back.
Lose ==
    /\ view' = disk
    /\ held' = FALSE
    /\ server' = "down"
    /\ UNCHANGED <<disk, starts, step, target, ids, left, written>>

-----------------------------------------------------------------------------
(* The deletions.                                                          *)

Current(d) == Statements(d)[step[d]]
Working(d) == fate[d] = "working"
Serving == server = "up"
Busy(d) == server = (IF d = "retention" THEN "startup" ELSE "up")

\* The first statement of d, for the scans S.
Begin(d, x, S) ==
    /\ fate' = [fate EXCEPT ![d] = "working"]
    /\ target' = [target EXCEPT ![d] = x]
    /\ ids' = [ids EXCEPT ![d] = S]
    /\ left' = [left EXCEPT ![d] = S]
    /\ UNCHANGED <<disk, view, held, server, starts, step, writerVars>>

HasRow(s) == "scan_jobs" \in view.rows[s]

\* delete_scan, after its check that the scan has ended.
SendDelete(d) ==
    /\ Serving /\ fate[d] = "idle"
    /\ \E s \in view.ended : HasRow(s) /\ Begin(d, s, {s})

\* delete_own_account, admin_delete_user_data: SELECT id FROM scan_jobs.
SendPurge(d) ==
    /\ Serving /\ fate[d] = "idle"
    /\ \E u \in Users : Begin(d, u, {s \in Scans : HasRow(s)})

\* Moves d past its current statement.
Advance(d) ==
    /\ step' = [step EXCEPT ![d] = @ + 1]
    /\ left' = [left EXCEPT ![d] = ids[d]]
    /\ UNCHANGED <<fate, target, ids>>

Stop(d, how) ==
    /\ fate' = [fate EXCEPT ![d] = how]
    /\ UNCHANGED <<step, target, ids, left>>

\* The scans the statement d is at can be run for: scan by scan in the loop
\* over the tables, all at once behind it, and with no WHERE in a purge.
Batches(d) ==
    CASE Current(d) \in {"scan_jobs", "chat_messages"} ->
            {IF d \in PurgeReqs THEN Scans ELSE ids[d]}
      [] OTHER -> {{s} : s \in left[d]}

IsReferenced(S, t) == \E s \in S : t \in view.rows[s] /\ view.rows[s] \cap References(t) # {}

\* One DELETE of d's.
DeleteFrom(d) ==
    LET t == Current(d) IN
    /\ Busy(d) /\ Working(d) /\ t \in ScanTables
    /\ \E S \in Batches(d) :
        /\ ~IsReferenced(S, t)
        /\ Write(Without(S, t))
        /\ IF left[d] \subseteq S
           THEN Advance(d)
           ELSE /\ left' = [left EXCEPT ![d] = @ \ S]
                /\ UNCHANGED <<fate, step, target, ids>>
    /\ UNCHANGED <<server, starts, writerVars>>

\* A loop over no scans.
SkipTable(d) ==
    /\ Busy(d) /\ Working(d) /\ Current(d) \in ScanTables
    /\ Batches(d) = {}
    /\ Advance(d)
    /\ UNCHANGED <<disk, view, held, server, starts, writerVars>>

\* Mutant: the handler goes on after an IntegrityError, to its commit.
DeleteFailsQuietly(d) ==
    /\ Busy(d) /\ Working(d) /\ Current(d) \in ScanTables /\ d # "retention"
    /\ \E S \in Batches(d) : IsReferenced(S, Current(d))
    /\ Refuse
    /\ step' = [step EXCEPT ![d] = Len(Statements(d))]
    /\ UNCHANGED <<fate, target, ids, left>>
    /\ UNCHANGED <<server, starts, writerVars>>

(* IntegrityError: the request is answered with an error; nobody catches   *)
(* it during startup.                                                      *)
DeleteFails(d) ==
    /\ Busy(d) /\ Working(d) /\ Current(d) \in ScanTables /\ d # "retention"
    /\ \E S \in Batches(d) : IsReferenced(S, Current(d))
    /\ Refuse
    /\ Stop(d, "failed")
    /\ UNCHANGED <<server, starts, writerVars>>

(* delete_user_data's statements about the user; the audit entries are     *)
(* found by the e-mail address in the user's row.                          *)
DropPerson(d) ==
    LET u == target[d]
        t == Current(d)
    IN
    /\ Busy(d) /\ Working(d) /\ t \in UserTables
    /\ Write(IF t = "audit_logs" /\ "users" \notin view.people[u]
             THEN view
             ELSE [view EXCEPT !.people[u] = @ \ {t}])
    /\ Advance(d)
    /\ UNCHANGED <<server, starts, writerVars>>

\* Mutant: the commit is forgotten.
CommitDeletionForgotten(d) ==
    /\ Busy(d) /\ Working(d) /\ Current(d) = "commit" /\ d # "retention"
    /\ Stop(d, "done")
    /\ UNCHANGED <<disk, view, held, server, starts, writerVars>>

CommitDeletion(d) ==
    /\ Busy(d) /\ Working(d) /\ Current(d) = "commit" /\ d # "retention"
    /\ Commit
    /\ Stop(d, "done")
    /\ UNCHANGED <<server, starts, writerVars>>

-----------------------------------------------------------------------------
(* The writers.                                                            *)

\* start_scan: the task of a scan nobody has stored yet.  It writes its rows
\* one by one, each with a commit of its own.
BeginScan(s) ==
    /\ Serving /\ task[s] = "idle" /\ Stored[s] = {}
    /\ task' = [task EXCEPT ![s] = "insert"]
    /\ UNCHANGED <<disk, view, held, server, starts, deletionVars,
                   written, request, does>>

\* The tables a row of t refers to.
Parents(t) == {p \in ScanTables : t \in References(p)}

\* One INSERT of the task of s, or of the approval it waits for.
InsertRow(s) ==
    LET t == Written[written[s] + 1] IN
    /\ Serving /\ task[s] = "insert" /\ written[s] < Len(Written)
    /\ IF Parents(t) \subseteq view.rows[s]
       THEN /\ Write([view EXCEPT !.rows[s] = @ \cup {t}])
            /\ task' = [task EXCEPT ![s] = "commit"]
       ELSE /\ Refuse
            /\ task' = [task EXCEPT ![s] = "end"]
    /\ UNCHANGED <<server, starts, deletionVars, written, request, does>>

CommitRow(s) ==
    /\ Serving /\ task[s] = "commit"
    /\ Commit
    /\ written' = [written EXCEPT ![s] = @ + 1]
    /\ task' = [task EXCEPT ![s] = IF written'[s] = Len(Written) THEN "end"
                                                                    ELSE "insert"]
    /\ UNCHANGED <<server, starts, deletionVars, request, does>>

\* The scan completes, or fails with the statement: UPDATE, then commit.
EndScan(s) ==
    /\ Serving /\ task[s] = "end"
    /\ Write(IF HasRow(s) THEN [view EXCEPT !.ended = @ \cup {s}] ELSE view)
    /\ task' = [task EXCEPT ![s] = "last_commit"]
    /\ UNCHANGED <<server, starts, deletionVars, written, request, does>>

CommitEnd(s) ==
    /\ Serving /\ task[s] = "last_commit"
    /\ Commit
    /\ task' = [task EXCEPT ![s] = "done"]
    /\ UNCHANGED <<server, starts, deletionVars, written, request, does>>

\* A request r is sent, and has its one statement run: q, to these tables.
Perform(r, q, tables) ==
    /\ Serving /\ request[r] = "idle"
    /\ Write(tables)
    /\ request' = [request EXCEPT ![r] = "commit"]
    /\ does' = [does EXCEPT ![r] = q]
    /\ UNCHANGED <<server, starts, deletionVars, task, written>>

\* The id of a scan is known once its row was stored.
Shown(s) == Stored[s] # {} \/ written[s] > 0
With(s, t) == [view EXCEPT !.rows[s] = @ \cup {t}]

\* A user, whose token outlives the account, writes an audit entry.
Record(r, u) == Perform(r, <<"audit", u>>, [view EXCEPT !.people[u] = @ \cup {"audit_logs"}])

\* DELETE /users/{id}: the row alone.
Dismiss(r, u) ==
    /\ "users" \in view.people[u]
    /\ Perform(r, <<"dismiss", u>>, [view EXCEPT !.people[u] = @ \ {"users"}])

\* _save_message: nothing refers to the scan, which may be gone.
SaveMessage(r, s) == Shown(s) /\ Perform(r, <<"message", s>>, With(s, "chat_messages"))

\* clear_chat_history, with no WHERE.
ClearChat(r) == Perform(r, <<"clear", NoTarget>>, Without(Scans, "chat_messages"))

\* persist_chat_findings; the foreign key refuses a finding of a scan that is
\* gone, and of the new id that stands for no scan, which is only logged.
SaveFinding(r, s) == HasRow(s) /\ Perform(r, <<"finding", s>>, With(s, "findings"))

FindingRefused(r, s) ==
    /\ Serving /\ request[r] = "idle" /\ ~HasRow(s)
    /\ Refuse
    /\ request' = [request EXCEPT ![r] = "failed"]
    /\ does' = [does EXCEPT ![r] = <<"finding", s>>]
    /\ UNCHANGED <<server, starts, deletionVars, task, written>>

\* DELETE /findings/{id}: the last of the scan's, or one of several.
DropFinding(r, s) ==
    /\ "findings" \in view.rows[s]
    /\ \E tables \in {view, Without({s}, "findings")} : Perform(r, <<"drop_finding", s>>, tables)

CommitRequest(r) ==
    /\ Serving /\ request[r] = "commit"
    /\ Commit
    /\ request' = [request EXCEPT ![r] = "done"]
    /\ UNCHANGED <<server, starts, deletionVars, task, written, does>>

-----------------------------------------------------------------------------
(* The server.                                                             *)

(* lifespan, run_retention_cleanup: lists the scans past the retention     *)
(* time that have ended; with none of them it returns before any DELETE.   *)
StartServer ==
    LET old == {s \in Expired \cap view.ended : HasRow(s)} IN
    /\ server = "down" /\ starts < MaxStarts
    /\ starts' = starts + 1
    /\ IF old = {}
       THEN server' = "up" /\ UNCHANGED deletionVars
       ELSE /\ server' = "startup"
            /\ fate' = [fate EXCEPT !["retention"] = "working"]
            /\ step' = [step EXCEPT !["retention"] = 1]
            /\ ids' = [ids EXCEPT !["retention"] = old]
            /\ left' = [left EXCEPT !["retention"] = old]
            /\ UNCHANGED target
    /\ UNCHANGED <<disk, view, held, writerVars>>

FinishRetention ==
    /\ server = "startup" /\ Current("retention") = "commit"
    /\ Commit
    /\ Stop("retention", "done")
    /\ server' = "up"
    /\ UNCHANGED <<starts, writerVars>>

\* Nothing catches the IntegrityError: the lifespan hook fails, the server
\* exits.
RetentionFails ==
    /\ server = "startup" /\ Current("retention") \in ScanTables
    /\ \E S \in Batches("retention") : IsReferenced(S, Current("retention"))
    /\ fate' = [fate EXCEPT !["retention"] = "failed"]
    /\ Lose
    /\ UNCHANGED <<task, request, does>>

Crash ==
    /\ server # "down" /\ starts < MaxStarts
    /\ Lose
    /\ fate' = [d \in Deletions |-> IF Working(d) THEN "lost" ELSE fate[d]]
    /\ task' = [s \in Scans |-> IF task[s] \in {"idle", "done"} THEN task[s] ELSE "lost"]
    /\ request' = [r \in Requests |-> IF request[r] = "commit" THEN "lost" ELSE request[r]]
    /\ UNCHANGED does

DeletionStep(d) ==
    \/ DeleteFrom(d) \/ DeleteFails(d) \/ SkipTable(d)
    \/ DropPerson(d) \/ CommitDeletion(d)

WriterStep(s) == InsertRow(s) \/ CommitRow(s) \/ EndScan(s) \/ CommitEnd(s)

RequestStep(r) ==
    \/ \E u \in Users : Record(r, u) \/ Dismiss(r, u)
    \/ \E s \in Scans :
          \/ SaveMessage(r, s) \/ SaveFinding(r, s) \/ FindingRefused(r, s)
          \/ DropFinding(r, s)
    \/ ClearChat(r) \/ CommitRequest(r)

DataNext ==
    \/ StartServer \/ FinishRetention \/ RetentionFails \/ Crash
    \/ \E d \in DeleteReqs : SendDelete(d)
    \/ \E d \in PurgeReqs : SendPurge(d)
    \/ \E d \in Deletions : DeletionStep(d)
    \/ \E s \in Scans : BeginScan(s) \/ WriterStep(s)
    \/ \E r \in Requests : RequestStep(r)

\* The event loop runs what can run; nobody need send a request.
DataFairness ==
    /\ WF_dataVars(FinishRetention \/ RetentionFails)
    /\ \A d \in Deletions : WF_dataVars(DeletionStep(d))
    /\ \A s \in Scans : WF_dataVars(WriterStep(s))
    /\ \A r \in Requests : WF_dataVars(CommitRequest(r))

DataSpec == DataInit /\ [][DataNext]_dataVars /\ DataFairness

-----------------------------------------------------------------------------
\* A request to do q was sent.
Sent(q) == \E r \in Requests : request[r] # "idle" /\ does[r] = q

(* Rows of s that requests may have deleted on their own: the messages     *)
(* when the chat was cleared, which a purge does for all scans, its        *)
(* findings when they were deleted one by one.                             *)
ChatCleared == Sent(<<"clear", NoTarget>>) \/ \E d \in PurgeReqs : fate[d] # "idle"
Picked(s) ==
    (IF ChatCleared THEN {"chat_messages"} ELSE {})
    \cup (IF Sent(<<"drop_finding", s>>) THEN {"findings"} ELSE {})

(* A scan that keeps its scan_jobs row loses other rows on disk only       *)
(* through somebody else's commit, in the middle of a deletion of it or    *)
(* after one that failed: neither a crash nor a deletion's own commit      *)
(* leaves half a scan.                                                     *)
HalfDeletedByOthers ==
    [][\A s \in Scans :
          HasRow(s)' /\ ~(disk.rows[s] \ Picked(s) \subseteq disk'.rows[s]) =>
              \E d \in Deletions :
                  /\ s \in ids[d]
                  /\ fate[d] \in {"working", "failed"}
                  /\ fate[d] = "working" => Current(d) # "commit"]_dataVars

\* The one kind of row that can be written of a scan that is gone.
Afterwards(s) == IF Sent(<<"message", s>>) THEN {"chat_messages"} ELSE {}

(* delete_user_data deletes the user last: whatever fails, is committed by *)
(* others or is lost on the way, when a user is gone from the disk so are  *)
(* the rows of the scans that were listed for the deletion, but for        *)
(* messages saved of them; and its past audit entries no longer name it.   *)
(* (The UPDATE finds them through the users row; an entry that a later     *)
(* request of its writes does name it.)  An account that an administrator  *)
(* has dismissed is gone with none of this.                                *)
UserGoneDataGone ==
    /\ \A d \in PurgeReqs :
          /\ fate[d] # "idle"
          /\ "users" \notin disk.people[target[d]]
          /\ ~Sent(<<"dismiss", target[d]>>)
          /\ \A e \in PurgeReqs \ {d} : target[e] # target[d]
          => \A s \in ids[d] : disk.rows[s] \subseteq Afterwards(s)
    /\ \A u \in Users :
          /\ "users" \notin disk.people[u]
          /\ ~Sent(<<"audit", u>>) /\ ~Sent(<<"dismiss", u>>)
          => "audit_logs" \notin disk.people[u]

(* The write lock, which the watchdog's connection waits for, is given     *)
(* back, unless a statement failed: nothing rolls back.                    *)
StatementFailed ==
    \/ \E d \in Deletions : fate[d] = "failed"
    \/ \E s \in Scans : task[s] \in {"end", "last_commit", "done"} /\ written[s] < Len(Written)
    \/ \E r \in Requests : request[r] = "failed"

LockReleased == held ~> (~held \/ StatementFailed)

(* run_retention_cleanup, "Löscht Scans und zugehörige Daten": the cleanup *)
(* at startup goes through.                                                *)
RetentionSucceeds == fate["retention"] # "failed"
=============================================================================
