---------------------------- MODULE SandboxConfig ----------------------------
(***************************************************************************)
(* The whitelist of scan targets (api/whitelist_routes.py) and what of it  *)
(* reaches the sandbox: the file AGENT.md and the scan_targets block of    *)
(* the OpenShell policy (agents/sandbox_policy.py).                        *)
(*                                                                         *)
(* A request that changes the table writes its row, commits, and starts a  *)
(* SYNC, a background task that reads the table once and then runs one     *)
(* external command after another; each may fail, and the next one is run  *)
(* all the same.  A sync also runs at startup, before the first request,   *)
(* and on demand (POST /nemoclaw/sync-config).  A backup that is restored  *)
(* replaces the table and starts none.                                     *)
(***************************************************************************)
EXTENDS FiniteSets, Naturals

CONSTANTS
    Entries,    \* requests to authorize a target; each row is named by its own
    HostOf,     \* HostOf[e]: the target e is for
    Revokes,    \* requests to revoke an entry
    MaxSyncs,   \* bound: the syncs that run
    MaxRestarts \* bound: restarts of the API server

ASSUME ConfigAssumption ==
    DOMAIN HostOf = Entries /\ MaxSyncs \in Nat \ {0} /\ MaxRestarts \in Nat

Hosts == {HostOf[e] : e \in Entries}
Syncs == 1 .. MaxSyncs
Files == {"AGENT.md", "policy"}

VARIABLES
    listed,    \* authorized_targets as the connection sees it: entries with a row
    saved,     \* the same as committed
    entryStep, \* entryStep[e]: where the request to authorize is
    revoke,    \* revoke[r]: where the request to revoke is
    sync,      \* sync[k]: the command sync k runs next
    loaded,    \* loaded[k]: the targets it has read
    late,      \* commands that go on setting the policy with nobody waiting
    named,     \* named[f]: the targets that file f in the sandbox names
    writer,    \* history, writer[f]: the sync that wrote it; 0 for none
    latest,    \* history: the last sync that came to read the table
    unsynced,  \* history: the table has changed with no sync to follow
    sbox,      \* the sandbox is there
    boot,      \* the sync of the last start
    restarts   \* how often the API server was restarted

tableVars == <<listed, saved>>
changeVars == <<tableVars, entryStep, revoke>>
fileVars == <<late, named, writer>>
configVars == <<changeVars, sync, loaded, fileVars, latest, unsynced, sbox, boot, restarts>>

Commands == {"load", "agentmd", "read", "set"}
LateCommand == [by : Syncs, targets : SUBSET Hosts]

ConfigTypeOK ==
    /\ listed \subseteq Entries /\ saved \subseteq Entries
    /\ entryStep \in [Entries -> {"new", "insert", "commit", "start", "done", "refused"}]
    /\ revoke \in [Revokes -> {"new", "commit", "start", "over"}]
    /\ sync \in [Syncs -> Commands \cup {"none", "over"}]
    /\ loaded \in [Syncs -> SUBSET Hosts]
    /\ late \subseteq LateCommand
    /\ named \in [Files -> SUBSET Hosts]
    /\ writer \in [Files -> {0} \cup Syncs]
    /\ latest \in {0} \cup Syncs /\ boot \in {0} \cup Syncs
    /\ unsynced \in BOOLEAN /\ sbox \in BOOLEAN
    /\ restarts \in 0 .. MaxRestarts

Running(k) == sync[k] \in Commands
TargetsOf(rows) == {HostOf[e] : e \in rows}
Targets == TargetsOf(listed)

ConfigInit ==
    /\ listed = {} /\ saved = {}
    /\ entryStep = [e \in Entries |-> "new"]
    /\ revoke = [r \in Revokes |-> "new"]
    /\ sync = [k \in Syncs |-> "none"]
    /\ loaded = [k \in Syncs |-> {}]
    /\ late = {}
    /\ named = [f \in Files |-> {}]
    /\ writer = [f \in Files |-> 0]
    /\ latest = 0 /\ unsynced = FALSE
    /\ sbox = TRUE /\ boot = 0 /\ restarts = 0

\* The sync that is started next, if the bound leaves one.
IsNext(k) == sync[k] = "none" /\ \A j \in 1 .. k - 1 : sync[j] # "none"

\* asyncio.create_task(_sync_sandbox_agent_config()).
StartSync == \E k \in Syncs : IsNext(k) /\ sync' = [sync EXCEPT ![k] = "load"]

\* Startup waits for its sync before the server takes requests.
Serving == \A k \in Syncs : k = boot => ~Running(k)

-----------------------------------------------------------------------------
(* The requests.                                                           *)

\* authorize_target looks for a row with the target.
CheckTarget(e) ==
    /\ Serving /\ entryStep[e] = "new"
    /\ entryStep' = [entryStep EXCEPT ![e] = IF HostOf[e] \in Targets THEN "refused" ELSE "insert"]
    /\ UNCHANGED <<tableVars, revoke, sync, unsynced>>

\* target is UNIQUE: a second row for it is refused with an error.
Accepts(e) == HostOf[e] \notin Targets

InsertTarget(e) ==
    /\ entryStep[e] = "insert"
    /\ IF Accepts(e)
       THEN /\ listed' = listed \cup {e}
            /\ entryStep' = [entryStep EXCEPT ![e] = "commit"]
       ELSE /\ entryStep' = [entryStep EXCEPT ![e] = "refused"]
            /\ UNCHANGED listed
    /\ UNCHANGED <<saved, revoke, sync, unsynced>>

\* The end of both: the commit, of whatever the one connection has written,
\* and the start of the sync.  A commit that fails ends the request; the row
\* stays in the transaction.
CommitTarget(e) ==
    /\ entryStep[e] = "commit"
    /\ \/ /\ entryStep' = [entryStep EXCEPT ![e] = "start"]
          /\ saved' = listed /\ UNCHANGED unsynced
       \/ /\ entryStep' = [entryStep EXCEPT ![e] = "refused"]
          /\ unsynced' = TRUE /\ UNCHANGED saved
    /\ UNCHANGED <<listed, revoke, sync>>

SyncTarget(e) ==
    /\ entryStep[e] = "start"
    /\ entryStep' = [entryStep EXCEPT ![e] = "done"]
    /\ StartSync
    /\ UNCHANGED <<tableVars, revoke, unsynced>>

\* revoke_target; an id that is not there is a 404.
DeleteTarget(r) ==
    /\ Serving /\ revoke[r] = "new"
    /\ \/ \E e \in listed :
             /\ listed' = listed \ {e}
             /\ revoke' = [revoke EXCEPT ![r] = "commit"]
       \/ /\ listed # Entries
          /\ revoke' = [revoke EXCEPT ![r] = "over"]
          /\ UNCHANGED listed
    /\ UNCHANGED <<saved, entryStep, sync, unsynced>>

\* Mutant: revoking leaves the sandbox as it is.
CommitRevokeQuietly(r) ==
    /\ revoke[r] = "commit"
    /\ revoke' = [revoke EXCEPT ![r] = "over"]
    /\ saved' = listed
    /\ UNCHANGED <<listed, entryStep, sync, unsynced>>

CommitRevoke(r) ==
    /\ revoke[r] = "commit"
    /\ \/ /\ revoke' = [revoke EXCEPT ![r] = "start"]
          /\ saved' = listed /\ UNCHANGED unsynced
       \/ /\ revoke' = [revoke EXCEPT ![r] = "over"]
          /\ unsynced' = TRUE /\ UNCHANGED saved
    /\ UNCHANGED <<listed, entryStep, sync>>

SyncRevoke(r) ==
    /\ revoke[r] = "start"
    /\ revoke' = [revoke EXCEPT ![r] = "over"]
    /\ StartSync
    /\ UNCHANGED <<tableVars, entryStep, unsynced>>

\* sync_sandbox_config.
SyncOnDemand ==
    /\ Serving /\ StartSync
    /\ UNCHANGED <<changeVars, unsynced>>

\* What a backup can hold of the table: rows that were committed, and at no
\* time two for one target.
Backups == {rows \in SUBSET {e \in Entries : entryStep[e] \in {"start", "done"}} :
               \A d, e \in rows : HostOf[d] = HostOf[e] => d = e}

\* _restore_sqlite: the connection is closed, and with it goes what was not
\* committed; a request that goes on with it fails.  No sync is started.
RestoreBackup ==
    /\ Serving
    /\ listed' \in Backups /\ saved' = listed'
    /\ entryStep' = [e \in Entries |->
                        IF entryStep[e] \in {"insert", "commit"} THEN "refused" ELSE entryStep[e]]
    /\ revoke' = [r \in Revokes |-> IF revoke[r] = "commit" THEN "over" ELSE revoke[r]]
    /\ unsynced' = TRUE
    /\ UNCHANGED sync

WhitelistStep ==
    /\ \/ \E e \in Entries :
             CheckTarget(e) \/ InsertTarget(e) \/ CommitTarget(e) \/ SyncTarget(e)
       \/ \E r \in Revokes : DeleteTarget(r) \/ CommitRevoke(r) \/ SyncRevoke(r)
       \/ SyncOnDemand \/ RestoreBackup
    /\ UNCHANGED <<loaded, fileVars, latest, sbox, boot, restarts>>

-----------------------------------------------------------------------------
(* _sync_sandbox_agent_config.                                             *)

\* What a sync has loaded is gone when it is over.
Goes(k, step, targets) ==
    /\ sync' = [sync EXCEPT ![k] = step]
    /\ loaded' = [loaded EXCEPT ![k] = IF step = "over" THEN {} ELSE targets]

Moves(k, step) == Goes(k, step, loaded[k])

\* _get_all_targets; an error ends the task.
LoadTargets(k) ==
    /\ sync[k] = "load"
    /\ Goes(k, "agentmd", Targets) \/ Moves(k, "over")
    /\ latest' = k /\ unsynced' = FALSE
    /\ UNCHANGED fileVars

Writes(f, by, targets) ==
    /\ named' = [named EXCEPT ![f] = targets]
    /\ writer' = [writer EXCEPT ![f] = by]

\* AGENT.md is written whole.  A command fails, or does without a sandbox;
\* one that takes too long is killed.  The trust settings and the workspace files,
\* which follow, are the same every time and left out.
WriteAgentMd(k) ==
    /\ sync[k] = "agentmd"
    /\ Moves(k, "read")
    /\ (sbox /\ Writes("AGENT.md", k, loaded[k])) \/ UNCHANGED <<named, writer>>
    /\ UNCHANGED <<late, latest, unsynced>>

\* get_current_policy: the rest of the policy is kept as it is read here.
ReadPolicy(k) ==
    /\ sync[k] = "read"
    /\ (sbox /\ Moves(k, "set")) \/ Moves(k, "over")
    /\ UNCHANGED <<fileVars, latest, unsynced>>

Outliving(k) == [by |-> k, targets |-> loaded[k]]
GoesOn(k) == late' = late \cup {Outliving(k)}

\* update_policy_with_targets: the old block is cut out, one with the loaded
\* targets is added, and the policy is set.  A command that takes too long is
\* given up and not killed: it goes on.
SetPolicy(k) ==
    /\ sync[k] = "set"
    /\ Moves(k, "over")
    /\ \/ sbox /\ Writes("policy", k, loaded[k]) /\ UNCHANGED late
       \/ UNCHANGED fileVars
       \/ sbox /\ GoesOn(k) /\ UNCHANGED <<named, writer>>
    /\ UNCHANGED <<latest, unsynced>>

SyncStep(k) ==
    /\ LoadTargets(k) \/ WriteAgentMd(k) \/ ReadPolicy(k) \/ SetPolicy(k)
    /\ UNCHANGED <<changeVars, sbox, boot, restarts>>

-----------------------------------------------------------------------------
(* The sandbox and the server.                                             *)

\* A command nobody waits for has its effect, or has none.
LateCommandEnds ==
    /\ \E c \in late :
          /\ late' = late \ {c}
          /\ (sbox /\ Writes("policy", c.by, c.targets)) \/ UNCHANGED <<named, writer>>
    /\ UNCHANGED <<changeVars, sync, loaded, latest, unsynced, sbox, boot, restarts>>

\* The kill switch deletes the sandbox, and the commands in it end.
LoseSandbox ==
    /\ sbox
    /\ sbox' = FALSE
    /\ named' = [f \in Files |-> {}] /\ writer' = [f \in Files |-> 0] /\ late' = {}
    /\ UNCHANGED <<changeVars, sync, loaded, latest, unsynced, boot, restarts>>

\* Resetting the kill switch creates a sandbox, and syncs nothing to it.
NewSandbox ==
    /\ ~sbox /\ sbox' = TRUE
    /\ UNCHANGED <<changeVars, sync, loaded, fileVars, latest, unsynced, boot, restarts>>

\* The server restarts: requests, tasks and the open transaction are gone.
Restart ==
    /\ restarts < MaxRestarts /\ restarts' = restarts + 1
    /\ listed' = saved
    /\ entryStep' = [e \in Entries |->
                        CASE entryStep[e] \in {"insert", "commit"} -> "refused"
                          [] entryStep[e] = "start"              -> "done"
                          [] OTHER                               -> entryStep[e]]
    /\ revoke' = [r \in Revokes |-> IF revoke[r] = "new" THEN "new" ELSE "over"]
    /\ \E k \in Syncs :
           /\ IsNext(k) /\ boot' = k
           /\ sync' = [j \in Syncs |-> IF j = k THEN "load" ELSE IF Running(j) THEN "over" ELSE sync[j]]
    /\ loaded' = [j \in Syncs |-> {}]
    /\ late' = late \cup {Outliving(k) : k \in {j \in Syncs : sbox /\ sync[j] = "set"}}
    /\ UNCHANGED <<saved, named, writer, latest, unsynced, sbox>>

ConfigNext ==
    \/ WhitelistStep
    \/ \E k \in Syncs : SyncStep(k)
    \/ LateCommandEnds \/ LoseSandbox \/ NewSandbox \/ Restart

ConfigSpec == ConfigInit /\ [][ConfigNext]_configVars

-----------------------------------------------------------------------------
(* Properties.                                                             *)

\* No request is between its change of the table and the start of its sync.
NothingOwed ==
    /\ \A e \in Entries : entryStep[e] \notin {"commit", "start"}
    /\ \A r \in Revokes : revoke[r] \notin {"commit", "start"}

\* When no sync runs and none is about to be started, AGENT.md and the policy
\* each name exactly the targets of the table, however many syncs have
\* overlapped, failed or been left behind by a restart, if the last sync to
\* read the table is the one that wrote the file last: every request that
\* changes the table leads to a sync that reads it afterwards, and so does
\* every start (authorize_target, revoke_target,
\* sync_sandbox_config_on_startup).  Excepted is a table that a restored
\* backup or a failed commit has changed with no sync since.
SettledConfig ==
    ~unsynced /\ NothingOwed /\ (\A k \in Syncs : ~Running(k))
        => \A f \in Files : writer[f] = latest => named[f] = Targets

\* Two requests for the same target that both found no row do not both
\* store one (authorize_target).
OneRowPerTarget ==
    \A d, e \in listed : HostOf[d] = HostOf[e] => d = e
=============================================================================
