# Verification of SentinelClaw

SentinelClaw lets language-model agents run penetration-test tools inside an
OpenShell sandbox. It consists of a FastAPI server, a watchdog process, a
database both of them use, and the sandbox both of them can delete. What can go
wrong in such a system is rarely one function: it is two coroutines, or two
processes, that read a row, wait, and then act on what they read. This
directory holds TLA+ modules of the parts where that happens, the TLC
configurations that check them on small instances, and proofs, checked by
TLAPS, for instances of any size.

Paths below are relative to `src/src/`; `docs/` is `src/docs/`.

- [Inventory](#inventory)
- [The scan system](#the-scan-system): modules, abstractions, properties, fairness
- [The approval service](#the-approval-service)
- [What keeps rows in the database](#what-keeps-rows-in-the-database): deletion, the database file, settings, chat
- [The API's other services](#the-apis-other-services): what a scan stores, kill status, sessions, accounts, WebSockets, sandbox configuration, and the algorithms
- [Runs](#runs), with bounds and why they are enough
- [Proofs](#proofs)
- [Where code and documentation disagree](#where-code-and-documentation-disagree)
- [What is not modelled](#what-is-not-modelled)
- [Plan](#plan)

## Inventory

| component | state | operations | interacts with | what is hard, and what makes it correct |
|---|---|---|---|---|
| Scan repository, audit log (`shared/repositories.py`) | `scan_jobs` rows and their dependents; append-only `audit_logs` | create, update_status, delete, list, audit create | every other component, through one shared connection per process | update_status reads, awaits, writes; delete is a cascade of statements. *A killed scan stays killed; a deleted one stays gone.* |
| Kill switch (`shared/kill_switch.py`) | one flag per process, the sandbox | activate, reset, is_active | API tasks, kill route, watchdog | each process has its own. *With the flag up nothing new starts; a killed scan implies a raised flag.* |
| Scan task (`api/scan_validation.py`, `orchestrator/`) | a coroutine, the job ids it was given and resolved | start, five phases, approval, finalise, handle failure | repository, kill switch, sandbox, approval | every await is an interleaving point; an error handler may be refused itself. *However it ends, its scan has ended, and it ends.* |
| Scan requests (`api/scan_routes.py`, `api/system_routes.py`) | one coroutine per request | start, cancel, delete, kill, reset, sandbox start and stop | repository, kill switch, sandbox | a list taken once and worked through while others change it. *A kill leaves none of the scans it found running.* |
| Watchdog (`watchdog/`) | failure counter, its own kill flag | timeouts, health, scope, kill completion, OpenShell status | database, sandbox, health endpoint | another process; an exception ends a pass; a restart forgets. *No scan runs forever.* |
| API startup (`api/startup.py`) | the process' life | stuck-scan cleanup, kill-switch reset | repository, watchdog | the watchdog works while it cleans up. *Scans of a dead process are ended.* |
| Approval (`shared/approval_service.py`, `api/approval_routes.py`) | `approval_requests` rows, poll loops | request, poll, approve, reject, list, expire | scan task, GDPR deletion | two clocks, decisions that race each other and the deadline. *One answer, yes only after an approval.* |
| Scan phases (`orchestrator/phases/`, `shared/phase_repositories.py`, `finding_repository.py`) | `scan_phases`, `discovered_hosts`, `open_ports`, `findings` rows | a phase's row in up to four updates, its results one by one, its findings once more at the end | scan task, kill switch, deletion | a kill, a failed statement, a deletion between any two of these. *What is stored and what the phase's row counts agree, however the scan ends.* |
| Retention and GDPR (`shared/retention_service.py`, `shared/gdpr_service.py`) | nothing of their own | delete in several tables, anonymise | database | deletion order against foreign keys, half-done transactions on a shared connection, the chat that writes beside it. *A user who is gone has left nothing but what was written since; half a scan only through others.* |
| Migrations, backup (`shared/migrations.py`, `backup_service.py`, `database*.py`) | schema version, backup files, write-ahead log | migrate, back up, restore | database, watchdog's connection | a crash between a statement and its record; a restore of an older release. *What is recorded was applied; every start comes up.* |
| Settings, scan profiles (`shared/settings_service.py`, `settings_repository.py`, `profile_repository.py`) | rows, a cache per process | get, batch update, invalidate, seed, edit profiles | nearly all | a cache nobody fills, a seeding that a rename gets in the way of. *A start takes no change back.* |
| Chat agent (`agents/chat_agent.py`, `chat_fallback.py`, `api/chat_routes.py`) | conversation, tool loop, a module-wide runtime | ask, run tools, fall back, save findings | sandbox, kill switch, WebSocket | turns run at the same time and share a variable that any of them may clear. *Every message is answered, its tools are bounded.* |
| Sessions (`shared/auth.py`, `token_blacklist.py`, `mfa.py`, `api/auth_*`) | revoked ids in memory and database, last activity | login, MFA, logout, cleanup | database, middleware, WebSocket | memory and table in two steps, restart. *A session that ended stays ended.* The token of an MFA session cannot be ended. |
| User accounts (`shared/user_repository.py`, `api/user_management_routes.py`) | `users` rows | register, change password, role, delete | sessions | check, await, write. *One account per address; a seeded password has to be changed.* |
| WebSocket manager (`api/websocket_manager.py`, `agents/sandbox_log_stream.py`) | a list of connections per user | connect, disconnect, send, broadcast | frontend | the list changes during the awaits of a send. *Nobody is skipped or sent a message twice.* |
| Whitelist, sandbox configuration (`api/whitelist_routes.py`, `agents/sandbox_policy.py`) | authorised targets, AGENT.md and policy in the sandbox | authorise, revoke, background synchronisation | sandbox | background tasks overlap, their commands fail or outlive them, a restore changes the table under them. *At rest both name what the table has, unless an older sync has written last.* |
| Rate limiters (`api/rate_limiter.py`, `rate_limit_login.py`) | time stamps per address | record, check, clean up | middleware, login | window edges, a sweep, logins under way. *Never more than the limit within a window.* |
| Kill verification (`api/kill_verification_routes.py`) | none | report | kill switch, sandbox, repository | the report is put together over several awaits. *"all_verified" means a kill that still holds, unless someone undid it.* |
| Comparison (`shared/scan_compare.py`) | none | six reads, a delta | database | lists of different moments. *The delta lies between what was there all the time and what was there at some time.* |
| Scope validation (`shared/scope_validator.py`, `scope_checks.py`) | none | a chain of eight checks | nobody yet | edge cases of networks, wildcards, port ranges, times without a zone. *Let through exactly inside the scope.* |
| Token tracker (`agents/token_tracker.py`) | counters of one object | add usage, check the budget | recon agent, which makes one per run and tells it once, afterwards | nothing follows from it; not modelled. |
| Tool and agent execution (`agents/*_executor.py`, `nemoclaw_runtime.py`) | a subprocess | run in the sandbox | sandbox | seen through the scan task and the chat. |
| Progress, providers, parsers, reports, exports, configuration, frontend | none that others rely on | | | text, output and remote services. |

The hazards this code is exposed to are listed, each at its line and with the
properties that would catch it, in `PROJECT.json`.

## The scan system

### Modules

| module | models | state | actions |
|---|---|---|---|
| `ScanJobRepository` | `shared/repositories.py`, the tables it writes | `job`, `audit` | operators for the callers: `Create`, the halves `Refused` and `SetStatus` of update_status, `DeleteChildren` and `DeleteRow` of delete, `Log` |
| `KillSwitch` | `shared/kill_switch.py` | `killFlag` per process, `sandbox` | `Activate`, `Reset`, `StopSandbox`, `CreateSandbox` |
| `ScanTask` | `start_scan`, `run_scan_background`, the orchestrator, the five phases | `pc`, `scanId`, `jobId`, `phase`, `more` | one per stretch of code between two awaits |
| `ScanRequests` | cancel, delete, kill, reset, sandbox routes | `rpc`, `target`, `running`, `todo` | likewise |
| `Watchdog` | a pass of `watchdog/service.py` and `scope_checks.py` | `wpc`, `wTodo`, `wJob`, `failures` | one per check and per half of an update |
| `ApiStartup` | the life of the API process, `cleanup_stuck_scans` | `api`, `stuck`, `stuckJob` | likewise |
| `ScanSystem` | the composition | all of it, `crashes`, `restarts` | `Start`, `Task`, `Send`, `Request`, `SandboxRequest`, `WatchdogPass`, `Startup`, `Age`, `ApiCrash`, `WatchdogCrash` |
| `ScanProperties` | | | the properties |
| `MCScanSystem` | | | plans for the instances |
| `ScanSystem_proofs`, `ScanOutcome_proofs` | | | the theorems |

Every component is a set of coroutines or a process of its own; they share
`job`, `audit`, `killFlag` and `sandbox`. In the API process an action is what
runs between two awaits, so a test and an assignment without an await between
them are one action. The line between `await get_by_id` and `await execute` in
`update_status` is the one that matters most: each caller has a control state
`..._check` before and `..._write` after it.

Definitions named in a comment as *Mutant* are faulty variants of the
definition after them. No specification uses them; they record which bug each
property has been seen to catch.

### Abstractions

- **A statement and its commit are one step.** All coroutines of the API share
  one connection, and the watchdog reads committed rows only. Locks, I/O
  errors and rollbacks are not modelled, nor is the state of a transaction
  that an exception leaves open; rows a failed cascade has deleted count as
  deleted. `DataDeletion` has the connection's transaction, statement by
  statement.
- **A row** is its status, whether started_at is set, whether it has been
  running too long (`overdue`, one boolean for the watchdog's and the startup's
  limits), whether rows hang off it (`children`), and whether approval requests
  do (`approval`), as those two differ in the cascade. Lists of scans are sets,
  worked through in any order.
- **Commands.** A command in the sandbox returns or fails. The retry of the ping
  scan is one further command; the SSL analysis runs one for every host with an
  HTTPS port, `MaxHosts` at most (`FollowUps`, `ToolAgain`, the counter `more`),
  with no look at the kill switch in between, and catches the failure of
  each. A command in a
  sandbox that is gone may still count as successful, as the code takes
  error output for output. The sandbox's own create and delete are blocking
  subprocess calls in the code, so they are no interleaving points.
- **The agent's own kill check** fails an agent run; `AgentFails`, which can
  happen at any time, covers it.
- **Scope.** The configuration the API stores has no end of a time window, so a
  scan is out of scope for good or not at all: the constant `OutOfScope`.
- **Approval** is an answer here; `Approval` models how it comes about.
- **What a phase stores** is `children` here; `ScanResults` has the rows.
- **The failure counter** saturates one below the threshold: from there on every
  further failure reaches or exceeds it.

### Properties

Safety (`ScanProperties`):

- `KillSettles`: the irreversibility the code does provide. `emergency_killed`
  is final once the updates that had passed their check when it was written have
  drained.
- `KillHolds`: when the kill handler has answered, none of the scans it listed
  is running, whatever late update hits them.
- `OnlyFollowUpsAfterKill`: with the API's flag up a task starts no command but
  the follow-ups of the phase it is in: the retry of the ping scan and the
  further hosts of the SSL analysis. No phase and no agent is started.
- `MarkedAfterKill`: a killed scan is evidence of a raised flag in some process.
- `TaskEndsScan`, `RunningHasTask`, `NeverRunsAgain`: no path through the nested
  error handlers leaves a scan running with nobody to end it; a scan runs once.
- `OneOutcomeLogged`, `DeletedIsGone`: the audit log agrees with the table.

Liveness (`FairSpec`): `TasksStop` and `RunningEnds`.

### Fairness, and why the code justifies it

Weak fairness of each task, request, the watchdog's pass, the startup and the
clock. The event loop schedules every ready coroutine, and every await of these
is a database statement, a subprocess with a timeout, or the approval loop with
its deadline. The watchdog loops forever and catches every exception of a pass.
The container runtime restarts a dead API (`restart: unless-stopped` in
`docker-compose.yml`), which then runs its startup. Users owe nothing:
`Start` and `Send` are not fair, and neither are the crashes nor a sandbox
request. Weak fairness is of a whole component's step, never of an outcome
(`Healthy` rather than `Unhealthy`, a command that succeeds).

`RunningEnds` rests on the watchdog: a scan younger than ten minutes when the
API comes up again is skipped by the startup, nobody works on it, and only the
watchdog's timeout ends it, at the price of activating the kill switch.

## The approval service

`Approval` has a row per check of the orchestrator (`status`), the poll loop
(`waiter`), the decision requests (`decider`), the list requests, which mark
late requests expired (`lister`), the GDPR deletion (`Purge`), which empties
the table for every user, and the death of the API. Two clocks run that the
code does not relate: `expires_at`, computed from the setting when the request
is stored (`late`), and the loop's deadline, computed from the setting when the
module was imported (`overdue`). A poll that finds the request pending or
expired sleeps; it changes nothing and is no step. The 403 of a missing role is
a refusal that may always happen. The branch of `check_and_request_approval` for
levels beyond the scope cannot be reached from its only caller, which passes
one value for both.

The properties are in `ApprovalProperties`, the theorems in `Approval_proofs`.
`ApprovalPromise` is what the orchestrator relies on: one answer per check, the
answer comes, and it is yes only if somebody with the right to has approved
this request. `Approval` implements it under the mapping `Answer` (the control
state of the loop) and `Consented` (the requests an approve request has
written). `KeepsPromise` is the safety half, `AnswerComes` the whole with its
fairness: the abstract system must answer, so the loop must end, also when
`list_approvals` has marked the request expired, which the loop takes for
*still pending*. Fair are the loop and its clock; nobody needs to decide.

`DecisionSettles` is the counterpart of `KillSettles`: a decided or expired
request keeps its status once those who read it as pending have drained.
`DeniedHasCause`: a refusal means a rejection, a passed deadline or a deleted
request.

## What keeps rows in the database

Four components, each by itself, in the run `data` (`MCData`).

### `DataDeletion`: three ways to delete scan data

State: the committed tables (`disk`), what the API's one connection sees
(`view`), whether its transaction is open (`held`); a control state, a
statement and a list of scans per deletion (`fate`, `step`, `ids`, `left`); the
scan tasks and requests that write beside them (`task`, `request`, `does`). An action
is one awaited statement or commit. The first write opens the transaction, the
next commit ends it, *whoever* makes it; nothing in the code rolls back. A
delete is refused when `References`, the foreign keys of
`shared/database_schema.py`, keeps the row.

| action | code |
|---|---|
| `SendDelete`, `DeleteFrom`, `DeleteFails`, `CommitDeletion` | `ScanJobRepository.delete`, whose order is `DeleteOrder` |
| `StartServer`, `SkipTable`, `FinishRetention`, `RetentionFails` | `run_retention_cleanup` in the lifespan hook |
| `SendPurge`, `DropPerson` | `delete_user_data`, order `PurgeOrder` |
| `BeginScan`, `InsertRow`, `CommitRow`, `EndScan`, `CommitEnd` | a scan's task |
| `SaveMessage`, `ClearChat`, `SaveFinding`, `FindingRefused` | the chat: messages, which no foreign key checks, `clear_chat_history`, `persist_chat_findings` |
| `DropFinding`, `Dismiss`, `Record`, `CommitRequest` | `DELETE /findings/{id}`, the removal of an account, an audit entry; the commit of any request |
| `Crash` | a death of the process: the open transaction is lost |

- `UserGoneDataGone`: the GDPR deletion removes the user last. When the user's
  row is gone from the disk, so are the rows of the scans it had listed, but for
  chat messages saved of them, and the name in past audit entries, whoever
  wrote and committed in between. A turn of the chat saves its messages whether
  or not the scan is still there, and an account that an administrator has
  removed is gone with none of this; `Afterwards` and the conditions on `Sent`
  say so.
- `HalfDeletedByOthers`: a scan that keeps its row loses others on disk only
  through *somebody else's* commit, in the middle of a deletion or after one
  that failed. That it happens at all is the price of the shared connection.
  What requests delete on their own (`Picked`) is excepted: the messages once
  the chat was cleared, which a purge does for all scans, and findings
  deleted one by one.
- `LockReleased`: the transaction, and with it the write lock the watchdog
  waits for, ends, unless a statement failed.

`agent_logs` and `scan_results` are left out as nothing writes them, and
`agent_reports`, whose rows are of no scan and which a purge empties.

### `DatabaseFile`: migrations, backups, restore

The file is three pages (the objects of the schema, the recorded version, the
data) that may be newer in the write-ahead log. It begins as that of no or of an
earlier release, with backups this release and earlier ones have left (`Left`),
as `data/backups` outlives an update. `RunStatement` and
`RecordVersion` are `run_migrations`; a statement of a migration that is cut
off before its version is recorded meets existing objects at the next start and
is skipped, as the code catches *duplicate column* and *already exists*.
`AutoBackup`, `Backup`, `RestoreClose`, `RestoreCopy` and `RestoreOpen` are the
backup service; the watchdog's connection (`WatchdogConnects`) keeps pages in
the log across a restore (`mixed`).

- `RecordedIsApplied`: the objects of a recorded version are in the file.
- `OldSchemaOnlyAfterRestore`: requests meet an older schema only after a
  restore, which runs no migrations, in the same life of the process: every
  start, also one on a restored file, has migrated before it serves.
- `ComesUp` (liveness): a start that has begun to migrate comes up.

### `Settings`: rows, caches and seeding

The cache of each process, who has registered a database with the service, a
batch update with its keys one by one, profiles with the unique name, and the
two seedings at startup, with deaths in between. `StartsKeepChanges`: no start
takes back a change of a setting or of a profile's name. Seeding looks profiles
up by name and inserts them by id; a builtin profile that was renamed makes the
INSERT fail and the start break (`boot = "broken"`), which is a state of the
model and no violation.

### `Chat`: turns that run at the same time

A turn is one message and the work on its answer: the endpoint, the background
task, the availability check with its cache, the history, the tool loop with
its limit, the fallback, saving, extracting findings, pushing. Turns share
`chat`, the module variable `_runtime` (`runtime`), the cached check (`probe`)
and the kill switch. What the agent says is data: how many tool calls, whether
it describes findings.

- `MessageInPrompt`: the message a turn is for is in every prompt of the turn,
  as long as the history read it.
- `ToolsBounded` (in `MCInvariant`): no more tool calls than the limit, however
  the agent spreads them.
- `EveryMessageAnswered` (liveness): whatever single step fails, whatever other
  turns do, an accepted message gets a pushed answer.

### Fairness

Weak fairness of each deletion's and writer's next step, of the running start
and restore, and of each turn's work: all are coroutines the event loop
schedules, and every await of theirs is a statement or a subprocess with a
timeout. Not fair: users, crashes, the watchdog's connection, the checkpoint,
changes of the gateway. No outcome is fair. That `FinishRetention` and
`RetentionFails` share one condition says just that the startup goes on.
`ComesUp` also holds with deaths of the process, as `MaxCrashes` bounds them:
a server that dies in every start never comes up.

## The API's other services

Each by itself in the run `services` (`MCServices`); none of them needs
fairness.

| module | models | state | properties |
|---|---|---|---|
| `ScanResults` | `execute_phase`, the five phases' storing, `persist_findings`, the cascade | `work`, `nth`, `found`, `toStore` of the task; `record`, `stored`, `kept` rows; `erased`, `dropped`; `raised`; `removal` | `ResultsAgree`: see below |
| `KillVerification` | `GET /kill/status`, over `ScanRequests`, `KillSwitch`, `ScanJobRepository` | `fact`, `calm` | `VerifiedHolds`: *all_verified*, put together from five facts of different moments, means a kill was answered, and that flag and sandbox still are as it left them unless someone undid it |
| `Sessions` | two-step login, the MFA session and its token, MFA changes, middleware, blacklist, WebSocket check, restarts | `token`, `activity`, `revoked`, `revokedRows`, `logout`, ... | `EndedStaysEnded`, `RefusedStaysRefused` |
| `UserAccounts` | registration, roles, deletion, password change, default administrator | `role`, `mail`, `password`, `mustChange`, `badge`, the rows requests have read | `SeedPasswordFlagged`; `OneAccountPerMail` (in `MCInvariant`) |
| `WebSockets` | connect, disconnect, send_to_user, broadcast | `lists` as objects on a heap, `entry`, what each send iterates over | `DeliveredOnce`, `OpenIsRegistered` |
| `SandboxConfig` | authorise, revoke, their commits, the background sync command by command, commands that outlive it, restored backups | `listed`, `saved`, `sync`, `loaded`, `late`, `named`; `writer`, `latest`, `unsynced` | `SettledConfig`; `OneRowPerTarget` (in `MCInvariant`) |
| `Lists` | the list comprehension of the next rows and of `WebSockets` | none | |
| `RateLimits` | both limiters, over an explicit clock | `stamps`, `failures`, and histories of what passed | `WindowLimit`, `FailuresBounded` |
| `ScanComparison` | `ScanComparator`, against storing, deleting scans and deleting single findings | the rows, `seen`, `result`; `always`, `ever` | `DeltaIsTrue` |
| `ScopeValidation` | the eight checks in their order | `scope`, `clock`, `last` | `AllowedIsWithinScope`, against a reference by sets of addresses |

**What a scan stores** (`ScanResults`). `ScanTask` has the control of a scan's
task up to its last status; this module has the rows the task writes on the
way. A phase's row is inserted as *pending*, set *running*, then *skipped*,
*failed* or *completed*, and looked up again to get its counts; each update
writes every count anew. Results are stored one by one after that, and the
orchestrator stores the findings once more. `ResultsAgree`: on every way a scan
can end, a kill between any two statements included, no row is left pending or
running, the count of each phase is the number of rows it has stored, and a
scan that ran to its end has each finding twice, as the code means it. Rows that
`DELETE /findings/{id}` has taken (`erased`, `dropped`) count as stored. The
one exception is the phase with findings in which the scan failed (`CutShort`):
its count is written before the findings, and `Finding(...)` raises on a score
outside 0..10, which `StoreFails` lets happen at any of them. Of a
scan whose row is gone nothing is left, whatever its task went on to store: a
task that stores into a half-deleted scan makes the deletion fail instead. A
death of the process leaves the rows as they are at that moment, and nothing
repairs them; it is no action here.

**Abstractions.** Tokens, codes, passwords, addresses of accounts and messages
are model values; a session's time is what the checks tell apart (expired, idle
for too long). In `WebSockets` a list is an object: `connect` appends in place,
`disconnect` registers a new one, and a sender keeps the one it started with,
which is why it skips nobody. In `SandboxConfig` a
request writes its row, commits and starts its sync in three steps; a command
writes its file whole, fails, or, when it is the policy's and takes too long,
goes on with nobody waiting (`late`). `SettledConfig`: with no sync running and
none owed, a file names exactly the targets of the table if the sync that read
the table last (`latest`) is the one that wrote it last (`writer`). Two tables
are excepted, for which the code starts no sync: one that a restored backup has
replaced, and one changed by a statement whose commit failed (`unsynced`).
`POST /nemoclaw/sync-config` is
`SyncOnDemand`. In `Sessions` a token is named by its login and by whether it
is the access token or that of the MFA session, which has no jti: it passes the
same checks, but is neither revoked nor found idle. In `ScopeValidation` an
address has three octets of one bit, so that a wildcard can be compared with its
end, as the code compares text; a side of the time window is without a zone or
not (`naive`), and comparing with one raises; the regular expressions of
forbidden actions are the markers they look for. In
`ScanComparison` a finding is its comparison key with a score; `always` and
`ever` are the keys a scan had all the time, and at some time, a comparison took.

## Runs

The scan runs and `approval` check for deadlock: the watchdog always has a next
step, and so has the API process in `Approval`. `data` and `services`, and the
`v_*` runs of `MCData`, do not: each behaviour is of one component, requests
are sent a bounded number of times, and then there is nothing more to do. They
combine components of which none calls another; the variable `part`
says whose behaviour it is, and the others stay in an initial state. The one
table two of them have in common is `chat_messages`: `Chat` looks at the order
of its rows, `DataDeletion`, which has the chat's statements among its requests,
at whether a scan has any.

| run | instance | states | shows |
|---|---|---|---|
| `full_scan` | one scan, all five phases, out of scope, a kill, a reset, watchdog with a threshold of 2 | 467k | every failure path of one task against every interference: `TypeOK`, `TaskEndsScan`, `MarkedAfterKill`, `KillSettles`, `OnlyFollowUpsAfterKill` |
| `two_scans` | two scans of one phase, a kill, the watchdog | 1.0M (symmetric) | `KillHolds`: the kill handler works through a list others change |
| `cancel_delete` | a scan that needs approval, a cancellation, a deletion, two ids | 247k | the scan is deleted at any point, also before its task looks it up and draws a second id: `OneOutcomeLogged`, `DeletedIsGone`, `NeverRunsAgain` |
| `recovery` | one scan, a kill, one death of the API, one restart of the watchdog | 174k | `RunningHasTask`, and under fairness `TasksStop` and `RunningEnds` |
| `approval` | a check that needs approval and one that does not, two approvals, a rejection, a list request | 45k | the refinement `KeepsPromise` and its liveness `AnswerComes`, `DecisionSettles`, `DeniedHasCause` |
| `data` | two scans, one old with rows and one that runs, a user, one request of each kind; three migrations, two releases, two backups; two settings, two profiles; two chat turns | 211k | the properties of the four components above |
| `services` | per component a few requests that race pairwise | 1.7M | the properties of the table above |

Five `v_*` runs each exhibit one disagreement of the next section but one.

Bounds, all of them constants of the configurations:

- `Jobs`, `Tasks`: ids and scan requests. A race on one row needs one scan; what
  a list does to *another* scan needs two. The second id of `cancel_delete` is
  the one a task draws after its scan was deleted.
- `Cancellers`, `Deleters`, `Killers`, `Resetters`: requests, each sent at most
  once. One kill is enough as a second one meets the same handler and only a
  raised flag; two of the same kind would race on the same check and write as a
  kill and a task do. The kill status has two, as a report may put together
  facts of both.
- `Plan`, `Phases`: the phases run. `MCFullPlan` has all five; the shorter plans
  keep one phase of each kind of control flow. `MCPhases` has a phase whose
  results reference its row, the two with findings, and the one with none.
- `MaxHosts` 3: a first, a middle and a last host of the SSL analysis.
- `MaxFound` 2: two results, so that a deletion can come between them.
- `MaxErased` 1: one finding deleted by itself, of any phase and at any time.
- `Requests` 1 of `DataDeletion`: any of the requests beside the deletions, of any
  kind. `MCData` lets any two of the purge, the deletion and the request run in a
  behaviour (`TwoAtMost`), and a scan's task, the retention and crashes with
  them; all three at once (352k states for that part alone) pass as well.
- `MaxHealthFailures`: the code's threshold is 3; 1 and 2 reach the kill with
  fewer states, and the counter has no other use.
- `MaxCrashes`, `MaxRestarts`, `MaxStarts`, `MaxSeeds`, `MaxLives`, `MaxBoots`:
  deaths and starts of a process. One death at every point of every path leaves
  every state a restart can find; two starts are the least at which one finds
  what another has left.
- `Approvals`, `Approvers`, `Rejecters`, `Listers`, `Logins`, `Admins`,
  `Entries`, `Revokes`, `Compares`, ...: requests on one row race pairwise; a
  third adds no new pair. `MaxSyncs` is 2: an older sync and a later one, which
  overlap or follow each other.
- `Stored`, `Written`, `Migrations`, `Base`, `Known`: a scan whose rows do not
  reference each other and one that stores rows that do; migrations of one
  statement, of two and with a row, a file of no and of the second release, with
  up to two backups that the second one has left (`MaxBackups`).
- `ToolMax` 1, `BatchMax` 2, `HistoryLimit` 1: an answer may ask for more tools
  than are left, and a second message crowds the first one out of the history.
- `Window` 2, `Sweep` 3, `LoginWindow` 3, `MaxTime` 6: several windows and a
  sweep in the middle of one.
- `Sockets`: two windows of one user and one of another; two of a list are what
  a removal during the iteration needs.
- `Octets` 3, `OctetBits` 1: eight addresses have networks inside networks, with
  host bits set and not, and wildcards of one and two octets; `MCCalls` has every
  address with every kind of port and tool.

`Permutations(Jobs)` and `Permutations(Tasks)` is used in `two_scans` only,
which checks no liveness and where no constant singles an id out.

## Proofs

Eight modules are checked by TLAPS, for any numbers of scans, tasks, requests,
users, restarts and crashes, any plan and any migrations, any windows, findings
and scopes. Every invariant and every action property that a passing
run checks is the statement of a theorem. They assume the
constants' assumptions, which TLC evaluates in the runs. Some of
these matter for what is proved: `AccountsAssumption` keeps the value for *no
address* apart from the addresses, `DeletionAssumption` says of the rows
stored at the start and of those a task writes what the foreign keys enforce (a
row that references a scan has one; the scan's row comes first), and
`ScopeAssumption` that addresses, networks, ports and levels are the numbers that
the scope's parser makes of them.

| module | theorem | statement |
|---|---|---|
| `ScanSystem_proofs` | `TypeCorrect`, `SystemInvCorrect` | `Spec => []TypeOK`, `Spec => []SystemInv` |
| | `TaskEndsScanCorrect`, `RunningHasTaskCorrect` | two invariants, which `SystemInv` implies |
| | `NeverRunsAgainCorrect`, `KillSettlesCorrect` | two action properties |
| `ScanOutcome_proofs` | `KillHoldsCorrect`, `MarkedAfterKillCorrect` | what a kill promises |
| | `OneOutcomeLoggedCorrect`, `DeletedIsGoneCorrect` | the audit log agrees with the table |
| | `OnlyFollowUpsCorrect` | the action property |
| `Approval_proofs` | `TypeCorrect`, `ApprovalInvCorrect`, `DeniedHasCauseCorrect` | the invariants of `Approval` |
| | `PromiseKept` | `Approval!Spec` implements `ApprovalPromise!Spec` |
| | `DecisionSettlesCorrect` | the action property |
| `DataDeletion_proofs` | `UserGoneDataGoneCorrect` | what the GDPR deletion promises |
| | `HalfDeletedByOthersCorrect` | the action property on the shared connection |
| `Data_proofs` | `RecordedIsAppliedCorrect`, `OldSchemaOnlyAfterRestoreCorrect` | the schema |
| | `StartsKeepChangesCorrect` | the action property of `Settings` |
| | `MessageInPromptCorrect`, `ToolsBoundedCorrect` | the chat |
| | `MCInvariantCorrect` | the types of all four, `MCSpec => []MCInvariant` of `MCData` |
| `Access_proofs` | `EndedStaysEndedCorrect`, `RefusedStaysRefusedCorrect` | sessions that ended |
| | `OneAccountPerMailCorrect`, `SeedPasswordFlaggedCorrect` | accounts |
| | `WindowLimitCorrect`, `FailuresBoundedCorrect` | the limiters |
| | `DeliveredOnceCorrect`, `OpenIsRegisteredCorrect` | the WebSockets |
| `Services_proofs` | `SettledConfigCorrect`, `OneRowPerTargetCorrect` | whitelist and sandbox |
| | `ResultsAgreeCorrect` | what a scan stores |
| | `VerifiedHoldsCorrect` | the kill status |
| | `DeltaIsTrueCorrect` | the comparison |
| | `AllowedIsWithinScopeCorrect` | the scope |
| | `MCInvariantCorrect` | the types of all, `MCSpec => []MCInvariant` of `MCServices` |

**The scan system.** Neither `TaskEndsScan` nor `RunningHasTask` is
inductive. A task that is about to return has ended its scan only because of
what the step before it wrote or because the refusal that sent it there proved
the scan killed or gone; and RUNNING is written for the id the task was given,
so that the property needs that id to be the one it works for. `TaskInv` says:

- `IdsGiven`, `IdsDrawn`, `IdsUnique`: a task has ids from the INSERT on, one
  until it looks its scan up; they were drawn, and no two tasks share one (the
  role of the UUIDs);
- `Unstarted`: before the RUNNING update the scan has never been running. This
  is why a scan runs once;
- `Ended`: in the last control states the scan has ended or is gone.

A step of anybody else, and most steps of a task, is *benign* to rows: it undraws
no id, makes no scan running or started, and un-ends none
(`Benign`). One lemma shows that benign steps which leave the tasks alone keep
`TaskInv`; what is left is the INSERT, the RUNNING update and the second
INSERT, a lemma each. `KillSettles` needs the types only: with nobody in flight
for a killed scan, the check of whoever comes next is refused, so a write to the
row is impossible and nobody gets in flight.

**What a kill and the audit log promise.** `ScanOutcome_proofs` first reduces
every step to a `RowWrite(S)`, one of the few ways the code writes a row, with
the statuses it may write; `StepKeeps` says what no step does: start a scan
that was started, or undelete one. `KillHolds` follows from `KillInv`: a running
scan is marked started, and each scan a killer has listed and no longer has to
do is started and not running; since nothing runs again, nobody spoils it.
`MarkInv` says that whoever is about to mark a scan as killed has raised its
process' flag, which nothing lowers but a reset or a restart (`FlagsStay`).
`OutcomeInv` says that a scan with an outcome in the log belongs to a task that
has returned, which writes no other; `DeletedInv` that the row of a deletion past
its last statement is gone, and it stays gone.

**The approval service.** A row is approved only if some approve request is past
its write, and likewise for rejections; that, with the types, is `ApprovalInv`,
and under it every step maps to a step or a stutter of the promise.
`DecisionSettles` needs besides that the row of a check that was not yet made
cannot have been read by anyone.

**Deletion.** `DataInv`: what `UserGoneDataGone` says of the disk holds of the
connection's view too (`Sound`), as the view becomes the disk by anyone's commit;
the rows a GDPR deletion has passed are gone from the view for every scan it
listed, but for messages saved since (`PastRows`), and the name for the user
(`PastName`). A task or a request may still write, but what the foreign keys let
it write references a scan's row, and the scans listed are old: they were there,
so that no task begins one of them again. A message is the one row that
needs no scan, and a purge that has passed `chat_messages` cannot say more of it than
that it was sent.

**The database file.** `FileInv`: in the file and in every backup the recorded
versions are applied; the migration under way is the one after the recorded
version, and what it has run is in the file or in the open transaction
(`Progress`); an API that serves has the newest version or has restored. As the
backups are of any release, a restore may take the version back to any earlier
one, and the next start finds `Progress` at the migration after it.

**Sessions.** `LogoutKept` follows a logout through its two places: in memory
while it is written; once answered, in the table, and in the memory of every
life of the process that has loaded it; only an expired token may be missing.
All of it is about tokens with a jti: the invariant says nothing of others.

**Accounts.** `MailsDiffer` is the UNIQUE of the column stated over rows, and
`ChangesOfOwn` that a password change in flight is of an account that exists or
is gone for good, as ids are not drawn twice.

**The sandbox's configuration.** `LatestIsCurrent` follows what the last sync to
read the table has read, through its hands, through commands that have outlived
it and into the files it wrote: as long as the table is as that sync has found it,
all of these are what the table has. They cease to be with a change of the table,
and from then on a sync is owed (`UpToDate`), by the request until it starts one
(`RequestsOwe`), by that one until it reads. A sync that has not read yet has left no
trace (`YetToLoad`).

**Half a deletion.** `HalfDeletedByOthers` is about the disk, and what happens to
the disk is decided earlier, in the view. `HalfInv` says that if the view lacks
rows of a scan that has its own, some deletion that is working on this scan, or
has failed at it, explains that (`Explains`); what requests delete on their own, `Picked`, never shrinks. A scan
whose row a task has not stored yet has no messages (`NoMessages`), as nobody knows
its id: so whatever a cleared chat takes is excepted by `Picked`.

**Settings, chat.** `StartsKeepChanges` needs the types only: a start writes a
setting or a profile only where there was none. For `MessageInPrompt`, `HistoryInv` follows the message
of a turn: first in the chat, as many rows from the end as were saved after it,
then in the conversation, and not at its end. `LoopInv` counts a round of the tool
loop against the tool calls it has dealt with.

**What a scan stores.** `ResultsInv` says for every control state of the task how
far the rows are behind what was found: `CurrentRecord` what the phase's row has,
`Written` and `Settled` which phases are done with, `AmountsAgree` what
holds also while a deletion takes the rows away, when the row and its results may
disagree, and `NothingLeft` what holds when the scan's row is gone: the foreign
keys let nobody store again.

**Lists.** `WindowLimit`, `FailuresBounded` and the WebSockets rest on
lists that are trimmed by a condition (`Lists`). That `Kept` computes
the list comprehension for a list of any length is proved from the least number
principle (`LeastNumber`, from the library's `NatLessThanWellFounded` and
`WFMin`), as the induction rules with an operator for a parameter cannot be
used here: `ListInduction` takes instead the set of lists for which the statement
holds. In the same way `AddressCountDef` gives the recursion its solution.

**The limiters.** `WindowInv` and `LoginInv` say that the stamps kept and the
history of what was let through are the same list as far as any window of a request
to come reaches back; that makes trimming and sweeping harmless. A login that is
past the limiter still may add a failure, so those are counted with the
failures.

**WebSockets.** A send iterates over a list that was registered when it began, and
such a list grows only at its end, even when another has replaced it
(`ListsGrew`). `SendInv` says of a connection that was there: it was sent the
message, or is ahead of the send, or is no longer open; and the users still in the
queue have no list in common with the ones before.

**Kill status, comparison.** A report is right as long as it is calm, so
`VerifyInv` says which facts still hold at which of its reads; that a kill was
answered is in the audit log's entry, which only the last step of a kill writes.
`ListsLieBetween` bounds the keys of each list read by what its scan had all the
time and what it had at some time so far; the delta lies between since it is
monotonic in one list and antitonic in the other (`DeltaOfLists`). The index keeps of each key the finding with the
highest score; there is one as the scores are bounded (`IndexKeepsKeys`).

**Scope.** An address is in a network by its quotient and in the reference
by an interval; `SameQuotient` is the number theory between them. A wildcard is the
end of a list in the code and single octets in the reference.

**Only model-checked**: the liveness properties `TasksStop`, `RunningEnds`,
`AnswerComes`, `LockReleased`, `ComesUp` and `EveryMessageAnswered`, as fairness
and `ENABLED` are beyond this prover; and that the instances of the disagreements
fail.

## Where code and documentation disagree

Each with a run, and the quotation and the lines in `PROJECT.json`:

- `v_killed_final`: update_status promises that a killed scan never changes its
  status again; an update past its check overwrites it.
- `v_kill_stops_all`: the kill handler gives up at the first listed scan the
  watchdog has marked already.
- `v_retention_fails`: the retention cleanup deletes `scan_phases` before the
  rows that reference it; an old scan with hosts keeps the server from starting.
- `v_settings_ignored`: the API reads settings from a cache that nothing in the
  API fills, so that a changed setting has no effect there.
- `v_tool_results`: the prompt after a tool call leaves out the last message,
  which holds the tool's results.

Observed while modelling, in the models, without a run of their own. First those
that contradict a sentence of the repository:

- `docs/KILL_SWITCH.md:96` says that from the kill flag on *KEIN neuer
  Tool-Aufruf* is accepted. The SSL analysis (`ssl_analysis.py:69-78`) starts one
  for every host that is left, and the host discovery retries a ping scan the kill
  has ended (`host_discovery.py:42-51`). `OnlyFollowUpsAfterKill` says what holds.
- `mfa.py:56-57` says that the token of an MFA session allows *NUR* the completion of
  the MFA flow. No check but that of `mfa_login` looks at its purpose:
  `decode_token`, the middleware and the WebSocket take it for an access token.
  As it has no jti, the logout promises in vain (`auth_routes.py:241-245`, *kann
  nicht mehr verwendet werden*): `auth_routes.py:251` revokes `if jti`.
- `auth_routes.py:143` promises at most N failed logins in five minutes. Logins that
  passed the limiter before it closed may all still fail, and a login that
  succeeds forgets the failures before it; `FailuresBounded` counts both. A
  deactivated account gets its 403 without a record (`LoginForbidden`).
- `gdpr_service.py:95` deletes *alle Daten*; a turn of the chat that is under way
  saves messages of the deleted scans afterwards, and the name of a user whose
  account an administrator has removed stays in the audit log.
- `scope_checks.py:44-58` compares wildcards as text, so that an address may match
  one; and a time window without a zone raises a `TypeError` out of the validator,
  which is to answer with a `ValidationResult`.
- `token_tracker.py:5` says that a run *stoppt bei 100%*, and line 24 that the scan
  is stopped gracefully. Its only caller tells it of one usage, after the run, on a
  tracker made for that run, and catches the exception
  (`recon/agent.py:62-72`): nothing stops. This one is in no model.

And those that follow from the code alone:

- Of two syncs of the whitelist the older may finish last, or a policy command that
  outlives its sync, and what the sandbox has is then the older list until the
  next sync. A restored backup changes the whitelist and starts none.
- The count of a phase with findings is written before them; a score outside 0..10
  (`models.py:86`) ends the scan in the middle and leaves fewer rows than counted.

- A scan the watchdog killed goes on starting commands, as the task never reads
  the scan's status and the watchdog's flag is in another process; one that
  the kill check cut short ends as completed; and cancelling writes a status
  nobody reads. `KillSettles` and `NeverRunsAgain` say what remains true.
- The cascade of `delete` forgets `approval_requests`: a scan that was asked
  about cannot be deleted. An approval and a rejection of one request can both
  succeed (`DecisionSettles`).
- `run_multi_phase_scan` says of a phase that it can fail independently and the
  next one runs all the same; a failing tool of the first three phases ends
  the scan (`RunTool`). The findings are stored twice, by their phase and by
  `persist_findings`. The second update of a phase's row sets its
  duration, which it was not given, back to 0.
- A builtin profile that was renamed makes the next start fail on the unique
  name. A restore of an older release serves requests on the old schema until
  the next start. A comparison whose scan is deleted meanwhile reports what was
  read of it.
- A turn of the chat that finds `_runtime` cleared by another one answers with
  the error, and not through the fallback. The line events of the sandbox's log call an
  async function without awaiting it.
- `GET /kill/status` counts a gateway that does not answer in time as stopped.
- `create_approval_request` calls `ws_manager.broadcast` with one argument where
  it takes two; the `TypeError` is swallowed and the notification never sent.

## What is not modelled

- What the agent's answers parse to, prompts, reports, exports, PDF layout and
  the extraction of findings: text. How many results an answer holds is a choice.
- Progress events: pushed to the frontend, nothing in the server reads them.
- The language-model providers and the tools themselves: remote and external.
- Agent tool installation, set-up, workspace and memory routes: one subprocess
  call each. The whitelist synchronisation they can start is in `SandboxConfig`.
- PostgreSQL: its dump and restore are one external command each. A death in
  the middle of copying the SQLite file leaves part of a file, which is outside
  the three pages of `DatabaseFile`.
- `block_scanning_network` and `os_kill`: nothing calls them.
- Locks that time out, a full disk: statements fail for a foreign key, a unique
  name or a crash.
- Configuration, logging, metrics, security headers, organisation routes: values
  and output, no protocol.
- The frontend: it calls the routes modelled here.

## Plan

What is left, in this order:

1. **Proofs** of what the models promise beyond the runs: the safety half of the
   refinements below, and that a killed scan's results stay as they were.
2. **Refinement**: `ScanResults` and `ScanTask` as two views of one task, with
   `children` the image of the rows; `Sessions` as an implementation of a set of
   ended sessions; `SandboxConfig` of eventual agreement under fairness of an
   undisturbed sync.
3. **Chat and scans together**: a chat turn and a scan's task store findings of
   one scan and share the kill switch.
4. **Larger instances** of `data`: two users, a second purge, a migration that
   fails for another reason than an existing object.
