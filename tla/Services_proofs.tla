--------------------------- MODULE Services_proofs --------------------------
(***************************************************************************)
(* Proofs about the services around a scan, for any requests, targets,     *)
(* scopes and rows, and that MCServices combines them and those of         *)
(* Access_proofs soundly.                                                  *)
(***************************************************************************)
EXTENDS MCServices, Access_proofs, ScanRequests_proofs, Integers, SequenceTheorems

-----------------------------------------------------------------------------
(***************************************************************************)
(* SandboxConfig: when nothing is on its way, what the last sync to read   *)
(* the table has written is what the table has, and no target has two      *)
(* rows.                                                                   *)
(***************************************************************************)

\* One row per target, in what the connection sees and in what is committed.
OneRowIn(rows) == \A d, e \in rows : HostOf[d] = HostOf[e] => d = e
TablesAgree == OneRowIn(listed) /\ OneRowIn(saved)

\* A sync that has not come to read the table has left no trace.
YetToLoad ==
    \A k \in Syncs : sync[k] \in {"none", "load"} =>
        /\ latest # k
        /\ \A f \in Files : writer[f] # k
        /\ \A c \in late : c.by # k

\* The table has not changed since the last sync came to read it, or a change
\* is owed to it.
UpToDate == ~unsynced /\ NothingOwed /\ \A k \in Syncs : sync[k] # "load"

\* Then what the last sync has, in its hands, in a command that outlives it
\* or in a file, is what the table has.
LatestIsCurrent ==
    /\ \A k \in Syncs : k = latest /\ sync[k] \in Commands => loaded[k] = Targets
    /\ \A c \in late : c.by = latest => c.targets = Targets
    /\ \A f \in Files : writer[f] = latest => named[f] = Targets

\* Before any sync has read the table nothing is in it.
NeverLoaded == latest = 0 => Targets = {}

ConfigInv ==
    /\ ConfigTypeOK /\ TablesAgree /\ YetToLoad
    /\ UpToDate => LatestIsCurrent /\ NeverLoaded

-----------------------------------------------------------------------------
LEMMA ConfigInitInv == ConfigInit => ConfigInv
<1>. SUFFICES ASSUME ConfigInit PROVE ConfigInv
  OBVIOUS
<1>1. ConfigTypeOK
  <2>1. 0 \in {0} \cup Syncs /\ 0 \in 0 .. MaxRestarts
    BY ConfigAssumption
  <2>2. /\ listed \subseteq Entries /\ saved \subseteq Entries /\ late \subseteq LateCommand
        /\ latest = 0 /\ boot = 0 /\ restarts = 0 /\ unsynced \in BOOLEAN /\ sbox \in BOOLEAN
    BY DEF ConfigInit
  <2>3. /\ entryStep \in [Entries -> {"new", "insert", "commit", "start", "done", "refused"}]
        /\ revoke \in [Revokes -> {"new", "commit", "start", "over"}]
        /\ sync \in [Syncs -> Commands \cup {"none", "over"}]
        /\ loaded \in [Syncs -> SUBSET Hosts]
        /\ named \in [Files -> SUBSET Hosts]
    BY DEF ConfigInit
  <2>4. writer \in [Files -> {0} \cup Syncs]
    BY <2>1 DEF ConfigInit
  <2> QED
    BY <2>1, <2>2, <2>3, <2>4 DEF ConfigTypeOK
<1>2. TablesAgree /\ YetToLoad
  BY DEF ConfigInit, TablesAgree, OneRowIn, YetToLoad, Syncs
<1>3. LatestIsCurrent /\ NeverLoaded
  BY DEF ConfigInit, NeverLoaded, LatestIsCurrent, Targets, TargetsOf, Commands, Syncs
<1>. QED
  BY <1>1, <1>2, <1>3 DEF ConfigInv

\* A sync that starts has yet to load, and leaves the table to be read.
LEMMA StartSyncStep ==
    ASSUME ConfigInv, StartSync
    PROVE  /\ sync' \in [Syncs -> Commands \cup {"none", "over"}]
           /\ \E k \in Syncs : sync'[k] = "load"
           /\ \A k \in Syncs : sync'[k] \in {"none", "load"} => sync[k] \in {"none", "load"}
BY DEF ConfigInv, ConfigTypeOK, StartSync, IsNext, Commands

\* A request owes a sync from its change of the table until it has started
\* one, unless it fails.
LEMMA RequestsOwe ==
    ASSUME ConfigInv, WhitelistStep, ~unsynced', NothingOwed',
           \A k \in Syncs : sync'[k] # "load"
    PROVE  UpToDate /\ listed' = listed /\ sync' = sync
<1>. USE DEF ConfigInv, ConfigTypeOK, UpToDate, NothingOwed, tableVars
<1>1. ~StartSync
  BY StartSyncStep
<1>2. ASSUME NEW e \in Entries, CheckTarget(e) \/ InsertTarget(e) \/ CommitTarget(e) \/ SyncTarget(e)
      PROVE  UpToDate /\ listed' = listed /\ sync' = sync
  <2>1. CASE CheckTarget(e)
    BY <2>1 DEF CheckTarget
  <2>2. CASE InsertTarget(e)
    BY <2>2 DEF InsertTarget
  <2>3. CASE CommitTarget(e)
    BY <2>3 DEF CommitTarget
  <2>4. CASE SyncTarget(e)
    BY <1>1, <2>4 DEF SyncTarget
  <2>. QED
    BY <1>2, <2>1, <2>2, <2>3, <2>4
<1>3. ASSUME NEW r \in Revokes, DeleteTarget(r) \/ CommitRevoke(r) \/ SyncRevoke(r)
      PROVE  UpToDate /\ listed' = listed /\ sync' = sync
  <2>1. CASE DeleteTarget(r)
    BY <2>1 DEF DeleteTarget
  <2>2. CASE CommitRevoke(r)
    BY <2>2 DEF CommitRevoke
  <2>3. CASE SyncRevoke(r)
    BY <1>1, <2>3 DEF SyncRevoke
  <2>. QED
    BY <1>3, <2>1, <2>2, <2>3
<1>4. CASE SyncOnDemand
  BY <1>1, <1>4 DEF SyncOnDemand
<1>5. CASE RestoreBackup
  BY <1>5 DEF RestoreBackup
<1>. QED
  BY <1>2, <1>3, <1>4, <1>5 DEF WhitelistStep

\* What a request does to the types and to the rows.
LEMMA RequestRows ==
    ASSUME ConfigInv, WhitelistStep
    PROVE  /\ ConfigTypeOK' /\ TablesAgree'
           /\ \A k \in Syncs : sync'[k] \in {"none", "load"} => sync[k] \in {"none", "load"}
<1>. USE DEF ConfigInv, ConfigTypeOK, TablesAgree, OneRowIn, tableVars, changeVars, fileVars
<1>0. UNCHANGED <<loaded, late, named, writer, latest, sbox, boot, restarts>>
  BY DEF WhitelistStep
<1>1. ASSUME NEW e \in Entries, CheckTarget(e) \/ InsertTarget(e) \/ CommitTarget(e) \/ SyncTarget(e)
      PROVE  /\ ConfigTypeOK' /\ TablesAgree'
             /\ \A k \in Syncs : sync'[k] \in {"none", "load"} => sync[k] \in {"none", "load"}
  <2>1. CASE CheckTarget(e)
    BY <1>0, <2>1 DEF CheckTarget
  <2>2. CASE InsertTarget(e)
    <3>1. CASE Accepts(e)
      <4>1. listed' = listed \cup {e} /\ UNCHANGED saved
        BY <2>2, <3>1 DEF InsertTarget
      <4>2. \A d \in listed : HostOf[d] # HostOf[e]
        BY <3>1 DEF Accepts, Targets, TargetsOf
      <4>3. TablesAgree'
        BY <4>1, <4>2
      <4>. QED
        BY <1>0, <2>2, <3>1, <4>1, <4>3 DEF InsertTarget
    <3>2. CASE ~Accepts(e)
      BY <1>0, <2>2, <3>2 DEF InsertTarget
    <3>. QED
      BY <3>1, <3>2
  <2>3. CASE CommitTarget(e)
    BY <1>0, <2>3 DEF CommitTarget
  <2>4. CASE SyncTarget(e)
    BY <1>0, <2>4, StartSyncStep DEF SyncTarget
  <2>. QED
    BY <1>1, <2>1, <2>2, <2>3, <2>4
<1>2. ASSUME NEW r \in Revokes, DeleteTarget(r) \/ CommitRevoke(r) \/ SyncRevoke(r)
      PROVE  /\ ConfigTypeOK' /\ TablesAgree'
             /\ \A k \in Syncs : sync'[k] \in {"none", "load"} => sync[k] \in {"none", "load"}
  <2>1. CASE DeleteTarget(r)
    BY <1>0, <2>1 DEF DeleteTarget
  <2>2. CASE CommitRevoke(r)
    BY <1>0, <2>2 DEF CommitRevoke
  <2>3. CASE SyncRevoke(r)
    BY <1>0, <2>3, StartSyncStep DEF SyncRevoke
  <2>. QED
    BY <1>2, <2>1, <2>2, <2>3
<1>3. CASE SyncOnDemand
  BY <1>0, <1>3, StartSyncStep DEF SyncOnDemand
<1>4. CASE RestoreBackup
  BY <1>0, <1>4 DEF RestoreBackup, Backups
<1>. QED
  BY <1>1, <1>2, <1>3, <1>4 DEF WhitelistStep

LEMMA RequestsKeepConfig == ConfigInv /\ WhitelistStep => ConfigInv'
<1>. SUFFICES ASSUME ConfigInv, WhitelistStep PROVE ConfigInv'
  OBVIOUS
<1>1. UNCHANGED <<loaded, late, named, writer, latest>>
  BY DEF WhitelistStep, fileVars
<1>2. ConfigTypeOK' /\ TablesAgree' /\ YetToLoad'
  BY <1>1, RequestRows DEF ConfigInv, YetToLoad
<1>3. UpToDate' => LatestIsCurrent' /\ NeverLoaded'
  <2>1. UpToDate' => LatestIsCurrent /\ NeverLoaded /\ listed' = listed /\ sync' = sync
    BY RequestsOwe DEF UpToDate, ConfigInv
  <2>. QED
    BY <1>1, <2>1 DEF LatestIsCurrent, NeverLoaded, Targets
<1>. QED
  BY <1>2, <1>3 DEF ConfigInv

-----------------------------------------------------------------------------
(* What a command does to the variables of its sync.                       *)
LEMMA GoesStep ==
    ASSUME ConfigTypeOK, NEW k \in Syncs, NEW to \in Commands \cup {"over"},
           NEW T \in SUBSET Hosts, Goes(k, to, T)
    PROVE  /\ sync' \in [Syncs -> Commands \cup {"none", "over"}]
           /\ loaded' \in [Syncs -> SUBSET Hosts]
           /\ sync'[k] = to /\ (to # "over" => loaded'[k] = T)
           /\ \A j \in Syncs \ {k} : sync'[j] = sync[j] /\ loaded'[j] = loaded[j]
BY DEF Goes, ConfigTypeOK

\* A command that has loaded before, and writes nothing but what it has.
LEMMA CommandKeepsConfig ==
    ASSUME ConfigInv, NEW k \in Syncs, SyncStep(k), ~LoadTargets(k)
    PROVE  ConfigInv'
<1>. USE DEF Commands, fileVars, Moves
<1>1. /\ UNCHANGED <<changeVars, latest, unsynced, sbox, boot, restarts>>
      /\ sync[k] \in Commands \ {"load"}
      /\ loaded[k] \in SUBSET Hosts
  BY DEF SyncStep, WriteAgentMd, ReadPolicy, SetPolicy, ConfigInv, ConfigTypeOK
<1>2. PICK to \in {"read", "set", "over"} : Goes(k, to, loaded[k])
  BY DEF SyncStep, WriteAgentMd, ReadPolicy, SetPolicy
<1>3. /\ sync' \in [Syncs -> Commands \cup {"none", "over"}]
      /\ loaded' \in [Syncs -> SUBSET Hosts]
      /\ sync'[k] = to /\ (to # "over" => loaded'[k] = loaded[k])
      /\ \A j \in Syncs \ {k} : sync'[j] = sync[j] /\ loaded'[j] = loaded[j]
  BY <1>1, <1>2, GoesStep DEF ConfigInv
<1>4. /\ named' \in [Files -> SUBSET Hosts] /\ writer' \in [Files -> {0} \cup Syncs]
      /\ \A f \in Files : \/ writer'[f] = k /\ named'[f] = loaded[k]
                          \/ writer'[f] = writer[f] /\ named'[f] = named[f]
      /\ late' \in {late, late \cup {Outliving(k)}}
  <2>1. CASE UNCHANGED <<named, writer>>
    BY <2>1 DEF SyncStep, WriteAgentMd, ReadPolicy, SetPolicy, GoesOn, ConfigInv, ConfigTypeOK
  <2>2. ASSUME NEW f \in Files, Writes(f, k, loaded[k]), UNCHANGED late
        PROVE  /\ named' \in [Files -> SUBSET Hosts] /\ writer' \in [Files -> {0} \cup Syncs]
               /\ \A g \in Files : \/ writer'[g] = k /\ named'[g] = loaded[k]
                                   \/ writer'[g] = writer[g] /\ named'[g] = named[g]
    BY <1>1, <2>2 DEF Writes, ConfigInv, ConfigTypeOK
  <2>. QED
    BY <2>1, <2>2 DEF SyncStep, WriteAgentMd, ReadPolicy, SetPolicy, Files
<1>5. Outliving(k) \in LateCommand /\ Outliving(k).by = k /\ Outliving(k).targets = loaded[k]
  BY <1>1 DEF Outliving, LateCommand
<1>6. ConfigTypeOK' /\ TablesAgree'
  BY <1>1, <1>3, <1>4, <1>5
     DEF ConfigInv, ConfigTypeOK, TablesAgree, OneRowIn, changeVars, tableVars
<1>7. YetToLoad'
  BY <1>1, <1>3, <1>4, <1>5 DEF ConfigInv, YetToLoad
<1>8. UpToDate' => LatestIsCurrent' /\ NeverLoaded'
  <2>1. UpToDate' => UpToDate
    BY <1>1, <1>3 DEF UpToDate, NothingOwed, changeVars, tableVars
  <2>2. UpToDate => LatestIsCurrent /\ NeverLoaded
    BY DEF ConfigInv
  <2>3. Targets' = Targets
    BY <1>1 DEF Targets, changeVars, tableVars
  <2>4. UpToDate /\ k = latest => loaded[k] = Targets
    BY <1>1, <2>2 DEF LatestIsCurrent
  <2>5. UpToDate => \A j \in Syncs : j = latest' /\ sync'[j] \in Commands => loaded'[j] = Targets
    BY <1>1, <1>3, <2>2, <2>4 DEF LatestIsCurrent
  <2>6. UpToDate => \A c \in late' : c.by = latest' => c.targets = Targets
    BY <1>1, <1>4, <1>5, <2>2, <2>4 DEF LatestIsCurrent
  <2>7. UpToDate => \A f \in Files : writer'[f] = latest' => named'[f] = Targets
    BY <1>1, <1>4, <2>2, <2>4 DEF LatestIsCurrent
  <2>. QED
    BY <1>1, <2>1, <2>2, <2>3, <2>5, <2>6, <2>7 DEF LatestIsCurrent, NeverLoaded
<1>. QED
  BY <1>6, <1>7, <1>8 DEF ConfigInv

\* A sync that comes to read the table: nothing is of it yet but what it reads.
LEMMA LoadKeepsConfig ==
    ASSUME ConfigInv, NEW k \in Syncs, SyncStep(k), LoadTargets(k)
    PROVE  ConfigInv'
<1>. USE DEF Commands, Moves
<1>1. /\ UNCHANGED <<changeVars, late, named, writer, sbox, boot, restarts>>
      /\ sync[k] = "load" /\ latest' = k /\ unsynced' = FALSE
      /\ Goes(k, "agentmd", Targets) \/ Goes(k, "over", loaded[k])
  BY DEF SyncStep, LoadTargets, fileVars
<1>2. Targets \in SUBSET Hosts /\ loaded[k] \in SUBSET Hosts /\ Targets' = Targets
  BY <1>1 DEF Targets, TargetsOf, Hosts, ConfigInv, ConfigTypeOK, changeVars, tableVars
<1>3. /\ sync' \in [Syncs -> Commands \cup {"none", "over"}]
      /\ loaded' \in [Syncs -> SUBSET Hosts]
      /\ sync'[k] \in {"agentmd", "over"} /\ (sync'[k] = "agentmd" => loaded'[k] = Targets)
      /\ \A j \in Syncs \ {k} : sync'[j] = sync[j] /\ loaded'[j] = loaded[j]
  <2>1. ConfigTypeOK /\ "agentmd" \in Commands \cup {"over"} /\ "over" \in Commands \cup {"over"}
    BY DEF ConfigInv
  <2>2. CASE Goes(k, "agentmd", Targets)
    BY <1>2, <2>1, <2>2, GoesStep
  <2>3. CASE Goes(k, "over", loaded[k])
    BY <1>2, <2>1, <2>3, GoesStep
  <2>. QED
    BY <1>1, <2>2, <2>3
<1>4. ConfigTypeOK' /\ TablesAgree'
  BY <1>1, <1>3 DEF ConfigInv, ConfigTypeOK, TablesAgree, OneRowIn, changeVars, tableVars
<1>5. YetToLoad'
  BY <1>1, <1>3 DEF ConfigInv, YetToLoad
<1>6. LatestIsCurrent' /\ NeverLoaded'
  BY <1>1, <1>2, <1>3 DEF ConfigInv, YetToLoad, LatestIsCurrent, NeverLoaded, Syncs
<1>. QED
  BY <1>4, <1>5, <1>6 DEF ConfigInv

(* The sandbox and the server.                                             *)
LEMMA WorldStep ==
    ASSUME ConfigInv, LateCommandEnds \/ LoseSandbox \/ NewSandbox \/ Restart
    PROVE  ConfigInv'
<1>. USE DEF changeVars, tableVars, fileVars
<1>1. CASE LateCommandEnds
  <2>1. PICK c \in late :
            /\ late' = late \ {c}
            /\ Writes("policy", c.by, c.targets) \/ UNCHANGED <<named, writer>>
    BY <1>1 DEF LateCommandEnds
  <2>2. /\ UNCHANGED <<changeVars, sync, loaded, latest, unsynced, sbox, boot, restarts>>
        /\ c.by \in Syncs /\ c.targets \in SUBSET Hosts /\ "policy" \in Files
    BY <1>1, <2>1 DEF LateCommandEnds, ConfigInv, ConfigTypeOK, LateCommand, Files
  <2>3. /\ named' \in [Files -> SUBSET Hosts] /\ writer' \in [Files -> {0} \cup Syncs]
        /\ \A f \in Files : \/ writer'[f] = c.by /\ named'[f] = c.targets
                            \/ writer'[f] = writer[f] /\ named'[f] = named[f]
    BY <2>1, <2>2 DEF Writes, ConfigInv, ConfigTypeOK
  <2>4. ConfigTypeOK' /\ TablesAgree'
    BY <2>1, <2>2, <2>3 DEF ConfigInv, ConfigTypeOK, TablesAgree, OneRowIn
  <2>5. YetToLoad'
    BY <2>1, <2>2, <2>3 DEF ConfigInv, YetToLoad
  <2>6. UpToDate' => LatestIsCurrent' /\ NeverLoaded'
    <3>1. UpToDate' = UpToDate /\ Targets' = Targets
      BY <2>2 DEF UpToDate, NothingOwed, Targets
    <3>. QED
      BY <2>1, <2>2, <2>3, <3>1 DEF ConfigInv, LatestIsCurrent, NeverLoaded
  <2>. QED
    BY <2>4, <2>5, <2>6 DEF ConfigInv
<1>2. CASE LoseSandbox
  <2>1. /\ UNCHANGED <<changeVars, sync, loaded, latest, unsynced, boot, restarts>>
        /\ sbox' = FALSE /\ late' = {}
        /\ named' = [f \in Files |-> {}] /\ writer' = [f \in Files |-> 0]
    BY <1>2 DEF LoseSandbox
  <2>2. ConfigTypeOK' /\ TablesAgree' /\ YetToLoad'
    <3>1. named' \in [Files -> SUBSET Hosts] /\ writer' \in [Files -> {0} \cup Syncs]
      BY <2>1
    <3>2. ConfigTypeOK'
      BY <2>1, <3>1 DEF ConfigInv, ConfigTypeOK, changeVars, tableVars
    <3>3. TablesAgree'
      BY <2>1 DEF ConfigInv, TablesAgree, OneRowIn, changeVars, tableVars
    <3>4. YetToLoad'
      BY <2>1 DEF ConfigInv, YetToLoad, Syncs
    <3> QED
      BY <3>2, <3>3, <3>4
  <2>3. UpToDate' => LatestIsCurrent' /\ NeverLoaded'
    <3>1. UpToDate' = UpToDate /\ Targets' = Targets
      BY <2>1 DEF UpToDate, NothingOwed, Targets
    <3>2. UpToDate /\ latest = 0 => Targets = {}
      BY DEF ConfigInv, NeverLoaded
    <3>. QED
      BY <2>1, <3>1, <3>2 DEF ConfigInv, LatestIsCurrent, NeverLoaded
  <2>. QED
    BY <2>2, <2>3 DEF ConfigInv
<1>3. CASE NewSandbox
  BY <1>3 DEF NewSandbox, ConfigInv, ConfigTypeOK, TablesAgree, OneRowIn, YetToLoad, UpToDate,
              NothingOwed, LatestIsCurrent, NeverLoaded, Targets
<1>4. CASE Restart
  <2>1. PICK k \in Syncs :
            /\ sync[k] = "none" /\ boot' = k
            /\ sync' = [j \in Syncs |-> IF j = k THEN "load"
                                        ELSE IF Running(j) THEN "over" ELSE sync[j]]
    BY <1>4 DEF Restart, IsNext
  <2>2. /\ listed' = saved /\ loaded' = [j \in Syncs |-> {}]
        /\ late' = late \cup {Outliving(j) : j \in {j \in Syncs : sbox /\ sync[j] = "set"}}
        /\ UNCHANGED <<saved, named, writer, latest, unsynced, sbox>>
        /\ entryStep' \in [Entries -> {"new", "insert", "commit", "start", "done", "refused"}]
        /\ revoke' \in [Revokes -> {"new", "commit", "start", "over"}]
        /\ restarts' \in 0 .. MaxRestarts
    BY <1>4, ConfigAssumption DEF Restart, ConfigInv, ConfigTypeOK
  <2>3. /\ sync' \in [Syncs -> Commands \cup {"none", "over"}]
        /\ sync'[k] = "load"
        /\ \A j \in Syncs : sync'[j] \in {"none", "load"} => sync[j] = "none"
    BY <2>1 DEF ConfigInv, ConfigTypeOK, Running, Commands
  <2>4. late' \subseteq LateCommand
    BY <2>2 DEF ConfigInv, ConfigTypeOK, Outliving, LateCommand
  <2>5. ConfigTypeOK' /\ TablesAgree'
    BY <2>1, <2>2, <2>3, <2>4 DEF ConfigInv, ConfigTypeOK, TablesAgree, OneRowIn
  <2>6. YetToLoad'
    BY <2>2, <2>3 DEF ConfigInv, YetToLoad, Outliving
  <2>7. ~UpToDate'
    BY <2>3 DEF UpToDate
  <2>. QED
    BY <2>5, <2>6, <2>7 DEF ConfigInv
<1>. QED
  BY <1>1, <1>2, <1>3, <1>4

\* Every step keeps ConfigInv.
LEMMA ConfigStep == ConfigInv /\ [ConfigNext]_configVars => ConfigInv'
<1>. SUFFICES ASSUME ConfigInv, [ConfigNext]_configVars
              PROVE  ConfigInv'
  OBVIOUS
<1>1. CASE ConfigNext
  BY <1>1, RequestsKeepConfig, CommandKeepsConfig, LoadKeepsConfig, WorldStep DEF ConfigNext
<1>2. CASE UNCHANGED configVars
  BY <1>2 DEF configVars, changeVars, tableVars, fileVars, ConfigInv, ConfigTypeOK, TablesAgree,
              OneRowIn, YetToLoad, UpToDate, NothingOwed, LatestIsCurrent, NeverLoaded, Targets
<1>. QED
  BY <1>1, <1>2

\* The invariant of the configuration holds throughout
\* (whitelist_routes.py, sandbox_policy.py).
THEOREM ConfigInvCorrect == ConfigSpec => []ConfigInv
BY ConfigInitInv, ConfigStep, PTL DEF ConfigSpec

-----------------------------------------------------------------------------
(* When nothing is on its way, AGENT.md and the policy name exactly the    *)
(* targets of the table, each if the last sync to read the table wrote it  *)
(* last, however syncs overlapped, failed or outlived their server         *)
(* (whitelist_routes.py, sandbox_policy.py).                               *)
THEOREM SettledConfigCorrect == ConfigSpec => []SettledConfig
<1>1. ConfigInv => SettledConfig
  BY DEF ConfigInv, UpToDate, LatestIsCurrent, Running, Commands, SettledConfig
<1>. QED
  BY <1>1, ConfigInvCorrect, PTL

(* Two requests for one target that both found no row store one row        *)
(* (whitelist_routes.py authorize_target).                                 *)
THEOREM OneRowPerTargetCorrect == ConfigSpec => []OneRowPerTarget
<1>1. ConfigInv => OneRowPerTarget
  BY DEF ConfigInv, TablesAgree, OneRowIn, OneRowPerTarget
<1>. QED
  BY <1>1, ConfigInvCorrect, PTL

-----------------------------------------------------------------------------
(***************************************************************************)
(* KillVerification: a report that says verified is right.                 *)
(***************************************************************************)

\* The findings of a report that are past the check of the network.
Passed == {"network", "scans", "audit", "verified"}

\* While a request's calm lasts, what it found still holds; and the entry it
\* looks for is written by the last step of a kill.
VerifyInv ==
    /\ VerifyTypeOK
    /\ \A v \in StatusReqs : calm[v] =>
          /\ fact[v] \in Passed => killFlag["api"]
          /\ fact[v] \in Passed \ {"network"} => sandbox = "absent"
    /\ <<"kill.activated", NoJob>> \in audit => \E r \in Killers : rpc[r] = "done"
    /\ \A v \in StatusReqs : fact[v] = "verified" => <<"kill.activated", NoJob>> \in audit

LEMMA VerifyInitially == VerifyInit => VerifyInv
  BY DEF VerifyInit, RepoInit, KillInit, RequestInit, VerifyInv, VerifyTypeOK, RepoTypeOK,
     KillTypeOK, RequestTypeOK, NoRow, Row, Passed

\* Steps outside the kill keep the types of its state.
LEMMA SandboxRequestType ==
    ASSUME RepoTypeOK, KillTypeOK, RequestTypeOK, StartSandboxRequest \/ StopSandboxRequest
    PROVE  RepoTypeOK' /\ KillTypeOK' /\ RequestTypeOK'
  BY DEF StartSandboxRequest, StopSandboxRequest, CreateSandbox, StopSandbox, repoVars,
     requestVars, RepoTypeOK, KillTypeOK, RequestTypeOK

LEMMA ScanRowsType ==
    ASSUME RepoTypeOK, KillTypeOK, RequestTypeOK, NEW j \in Jobs, ScanRows(j)
    PROVE  RepoTypeOK' /\ KillTypeOK' /\ RequestTypeOK'
<1>1. job' \in [Jobs -> Row]
  BY CreateType, SetStatusType DEF ScanRows, Status
<1> QED
  BY <1>1 DEF ScanRows, killVars, requestVars, RepoTypeOK, KillTypeOK, RequestTypeOK

\* Only the last step of a kill writes "kill.activated", and it ends the kill.
LEMMA AuditOfAKill ==
    ASSUME RequestTypeOK, NEW r \in Requests, SendRequest(r) \/ RequestStep(r)
    PROVE  /\ audit \subseteq audit'
           /\ <<"kill.activated", NoJob>> \in audit' =>
                 <<"kill.activated", NoJob>> \in audit \/ (r \in Killers /\ rpc'[r] = "done")
           /\ \A q \in Requests : rpc[q] = "done" => rpc'[q] = "done"
<1> USE DEF RGoto, RStep, RequestTypeOK
<1>1. ASSUME NEW a, NEW j, LogRequest(r, a, j)
      PROVE  /\ audit' = audit \cup {<<a, j>>} /\ rpc'[r] = "done"
             /\ \A q \in Requests : rpc[q] = "done" => rpc'[q] = "done"
  BY <1>1 DEF LogRequest, Log
<1>2. CASE r \in Killers /\ KillLog(r)
  BY <1>1, <1>2 DEF KillLog
<1>3. CASE CancelLog(r)
  BY <1>1, <1>3 DEF CancelLog
<1>4. CASE DeleteLog(r)
  BY <1>1, <1>4 DEF DeleteLog
<1>5. CASE ResetLog(r)
  BY <1>1, <1>5 DEF ResetLog
<1>6. CASE CancelRead(r) \/ CancelCheck(r) \/ CancelWrite(r)
  BY <1>6 DEF CancelRead, CancelCheck, CancelWrite, repoVars
<1>7. CASE DeleteRead(r) \/ DeleteDependents(r) \/ DeleteScanRow(r)
  BY <1>7 DEF DeleteRead, DeleteDependents, DeleteScanRow, repoVars
<1>8. CASE KillActivate(r) \/ KillList(r) \/ KillCheck(r) \/ KillWrite(r) \/ KillMarked(r)
  BY <1>8 DEF KillActivate, KillList, KillCheck, KillWrite, KillMarked, repoVars
<1>9. CASE ResetFlag(r)
  BY <1>9 DEF ResetFlag, repoVars
<1> QED
  BY <1>2, <1>3, <1>4, <1>5, <1>6, <1>7, <1>8, <1>9 DEF SendRequest, RequestStep

\* Every step keeps VerifyInv.
LEMMA VerifyKept == VerifyInv /\ [VerifyNext]_statusVars => VerifyInv'
<1> SUFFICES ASSUME VerifyInv, [VerifyNext]_statusVars PROVE VerifyInv'
  OBVIOUS
<1>0. VerifyTypeOK /\ RepoTypeOK /\ KillTypeOK /\ RequestTypeOK
  BY DEF VerifyInv, VerifyTypeOK
<1>1. ASSUME NEW v \in StatusReqs, GetKillStatus(v) PROVE VerifyInv'
  <2>1. Untouched
    BY <1>1 DEF GetKillStatus, ReadFlagAndContainers, ReadNetwork, ReadScans, ReadAudit
  <2>2. RepoTypeOK' /\ KillTypeOK' /\ RequestTypeOK' /\ UNCHANGED <<audit, rpc, killFlag, sandbox>>
    BY <1>0, <2>1 DEF Untouched, repoVars, killVars, requestVars, RepoTypeOK, KillTypeOK, RequestTypeOK
  <2>3. CASE ReadFlagAndContainers(v)
    BY <1>0, <2>2, <2>3 DEF ReadFlagAndContainers, ReadFact, VerifyInv, VerifyTypeOK, Passed, Answers
  <2>4. CASE ReadNetwork(v)
    BY <1>0, <2>2, <2>4 DEF ReadNetwork, ReadFact, VerifyInv, VerifyTypeOK, Passed, Answers
  <2>5. CASE ReadScans(v)
    BY <1>0, <2>2, <2>5 DEF ReadScans, ReadFact, VerifyInv, VerifyTypeOK, Passed, Answers
  <2>6. CASE ReadAudit(v)
    BY <1>0, <2>2, <2>6 DEF ReadAudit, ReadFact, VerifyInv, VerifyTypeOK, Passed, Answers
  <2> QED
    BY <1>1, <2>3, <2>4, <2>5, <2>6 DEF GetKillStatus
<1>2. CASE OtherRequest
  <2>1. RepoTypeOK' /\ KillTypeOK' /\ RequestTypeOK'
    BY <1>0, <1>2, RequestStepType, SandboxRequestType DEF OtherRequest
  <2>2. calm' \in [StatusReqs -> BOOLEAN] /\ fact' = fact
    BY <1>0, <1>2 DEF OtherRequest, KeepsCalm, VerifyTypeOK
  <2>3. ASSUME NEW v \in StatusReqs, calm'[v], fact'[v] # "sent"
        PROVE  /\ calm[v]
               /\ killFlag["api"] => killFlag'["api"]
               /\ sandbox = "absent" => sandbox' = "absent"
    BY <1>0, <1>2, <2>1, <2>3 DEF OtherRequest, KeepsCalm, Disturbs, KillTypeOK
  <2>4. /\ audit \subseteq audit'
        /\ <<"kill.activated", NoJob>> \in audit' => \E r \in Killers : rpc'[r] = "done"
    <3>1. ASSUME NEW r \in Requests, SendRequest(r) \/ RequestStep(r)
          PROVE  /\ audit \subseteq audit'
                 /\ <<"kill.activated", NoJob>> \in audit' => \E q \in Killers : rpc'[q] = "done"
      BY <1>0, <3>1, AuditOfAKill DEF VerifyInv, Requests
    <3>2. CASE StartSandboxRequest \/ StopSandboxRequest
      BY <3>2 DEF StartSandboxRequest, StopSandboxRequest, repoVars, requestVars, VerifyInv
    <3> QED
      BY <1>2, <3>1, <3>2 DEF OtherRequest
  <2>5. VerifyTypeOK'
    BY <1>0, <2>1, <2>2 DEF VerifyTypeOK
  <2> QED
    BY <2>2, <2>3, <2>4, <2>5 DEF VerifyInv, Passed
<1>3. ASSUME NEW j \in Jobs, ScanRows(j) PROVE VerifyInv'
  <2>1. RepoTypeOK' /\ KillTypeOK' /\ RequestTypeOK'
    BY <1>0, <1>3, ScanRowsType
  <2>2. UNCHANGED <<audit, killFlag, sandbox, rpc, fact, calm>>
    BY <1>3 DEF ScanRows, killVars, requestVars, verifyVars
  <2> QED
    BY <2>1, <2>2 DEF VerifyInv, VerifyTypeOK
<1>4. CASE UNCHANGED statusVars
  BY <1>4 DEF statusVars, repoVars, killVars, requestVars, verifyVars, VerifyInv, VerifyTypeOK,
     RepoTypeOK, KillTypeOK, RequestTypeOK
<1> QED
  BY <1>1, <1>2, <1>3, <1>4 DEF VerifyNext

\* A report that says all_verified is about a kill that was answered for; unless
\* someone has undone it since, or openshell timed out, the flag is still up and
\* the sandbox away, for any number of reports, kills and resets
\* (kill_verification_routes.py get_kill_status).
THEOREM VerifiedHoldsCorrect == VerifySpec => []VerifiedHolds
<1>1. VerifyInv => VerifiedHolds
  BY DEF VerifyInv, VerifiedHolds, Passed
<1> QED
  BY VerifyInitially, VerifyKept, <1>1, PTL DEF VerifySpec

-----------------------------------------------------------------------------
(***************************************************************************)
(* ScanComparison: the delta is that of lists the scans had.               *)
(***************************************************************************)

\* No score is above m.
Under(rows, m) == \A f \in rows : f.score <= m

\* Of the rows with a key the one with the highest score is always, if the
\* scores are bounded.
LEMMA IndexKeepsKeys ==
    ASSUME NEW rows \in SUBSET Finding, NEW m \in Nat, Under(rows, m)
    PROVE  KeysOf(Index(rows)) = KeysOf(rows)
<1>1. ASSUME NEW f \in rows PROVE \E g \in Index(rows) : g.key = f.key
  <2> DEFINE Distances == {n \in Nat : \E g \in rows : g.key = f.key /\ n = m - g.score}
  <2>1. \A g \in rows : g.score \in Nat /\ g.score <= m
    BY ComparisonAssumption DEF ComparisonAssumption, Finding, Under
  <2>2. m - f.score \in Distances
    BY <2>1
  <2>3. PICK least \in Distances : \A n \in Distances : least <= n
    BY <2>2, LeastNumber
  <2>4. PICK g \in rows : g.key = f.key /\ least = m - g.score
    BY <2>3
  <2>5. ASSUME NEW h \in rows, h.key = g.key PROVE h.score <= g.score
    <3>1. m - h.score \in Distances
      BY <2>1, <2>4, <2>5
    <3>2. m - g.score <= m - h.score
      BY <2>3, <2>4, <3>1
    <3> QED
      BY <2>1, <3>2
  <2> QED
    BY <2>4, <2>5 DEF Index
<1>2. Index(rows) \subseteq rows
  BY DEF Index
<1> QED
  BY <1>1, <1>2 DEF KeysOf

\* It keeps one row per key.
LEMMA IndexIsUnique ==
    ASSUME NEW rows \in SUBSET Finding, NEW f \in Index(rows), NEW g \in Index(rows),
           f.key = g.key
    PROVE  f = g
<1>1. /\ f \in Finding /\ g \in Finding
      /\ f.score <= g.score /\ g.score <= f.score
  BY DEF Index
<1>2. f.score = g.score
  <2>1. f.score \in Nat /\ g.score \in Nat
    BY <1>1, ComparisonAssumption DEF ComparisonAssumption, Finding
  <2> QED
    BY <1>1, <2>1
<1>3. f = [key |-> f.key, score |-> f.score] /\ g = [key |-> g.key, score |-> g.score]
  BY <1>1 DEF Finding
<1> QED
  BY <1>2, <1>3

\* What a comparison of two lists says about their keys.
LEMMA DeltaOfLists ==
    ASSUME NEW fa \in SUBSET Finding, NEW fb \in SUBSET Finding,
           NEW m \in Nat, Under(fa, m), Under(fb, m)
    PROVE  LET delta == CompareFindings(fa, fb)
           IN  /\ KeysOf(delta.new) = KeysOf(fb) \ KeysOf(fa)
               /\ KeysOf(delta.fixed) = KeysOf(fa) \ KeysOf(fb)
               /\ KeysOf(delta.unchanged) = KeysOf(fa) \cap KeysOf(fb)
               /\ \A f, g \in delta.unchanged : f.key = g.key => f = g
<1> DEFINE delta == CompareFindings(fa, fb)
<1>1. /\ KeysOf(Index(fa)) = KeysOf(fa)
      /\ KeysOf(Index(fb)) = KeysOf(fb)
  BY IndexKeepsKeys
<1>2. KeysOf(delta.new) = KeysOf(fb) \ KeysOf(fa)
  <2>1. delta.new = {f \in Index(fb) : f.key \notin KeysOf(fa)}
    BY DEF CompareFindings
  <2> QED
    BY <1>1, <2>1 DEF KeysOf
<1>3. KeysOf(delta.fixed) = KeysOf(fa) \ KeysOf(fb)
  <2>1. delta.fixed = {f \in Index(fa) : f.key \notin KeysOf(fb)}
    BY DEF CompareFindings
  <2> QED
    BY <1>1, <2>1 DEF KeysOf
<1>4. delta.unchanged = {f \in Index(fb) : f.key \in KeysOf(fa)}
  BY DEF CompareFindings
<1>5. KeysOf(delta.unchanged) = KeysOf(fa) \cap KeysOf(fb)
  BY <1>1, <1>4 DEF KeysOf
<1>6. \A f, g \in delta.unchanged : f.key = g.key => f = g
  BY <1>4, IndexIsUnique
<1> QED
  BY <1>2, <1>3, <1>5, <1>6

\* The types of a delta.
LEMMA ResultTyped ==
    ASSUME NEW s \in [fa : SUBSET Finding, fb : SUBSET Finding, pa : SUBSET Ports, pb : SUBSET Ports]
    PROVE  Comparison(s) \in Result
<1> DEFINE delta == CompareFindings(s.fa, s.fb)
<1>1. delta.new \subseteq Finding /\ delta.fixed \subseteq Finding /\ delta.unchanged \subseteq Finding
  BY DEF CompareFindings, Index
<1>2. Rating(delta) \in Ratings
  BY DEF Rating, Ratings
<1> HIDE DEF delta
<1> QED
  BY <1>1, <1>2 DEF Comparison, Result, delta

-----------------------------------------------------------------------------
\* Scores are bounded, as rows are added one by one.
Bounded(m) ==
    /\ \A s \in Compared : Under(findings[s], m)
    /\ \A c \in Compares : Under(seen[c].fa, m) /\ Under(seen[c].fb, m)

\* Of the keys a scan has: those it had all the time and those it ever had.
Between(few, rows, many) == few \subseteq KeysOf(rows) /\ KeysOf(rows) \subseteq many

\* So it is with what c has read and with what there is to read.
ListsLieBetween(c) ==
    /\ Loading(c) =>
          /\ Between(always[c].a, findings[A(c)], ever[c].a)
          /\ Between(always[c].b, findings[B(c)], ever[c].b)
    /\ at[c] \in {"fb", "pa", "pb"} => Between(always[c].a, seen[c].fa, ever[c].a)
    /\ at[c] \in {"pa", "pb"} => Between(always[c].b, seen[c].fb, ever[c].b)

\* The delta of c, once it is answered, as DeltaIsTrue wants it.
DeltaLiesBetween(c) ==
    at[c] = "answered" =>
        LET r == result[c]
        IN  /\ KeysOf(r.new) \subseteq ever[c].b \ always[c].a
            /\ KeysOf(r.fixed) \subseteq ever[c].a \ always[c].b
            /\ always[c].a \cap always[c].b \subseteq KeysOf(r.unchanged)
            /\ KeysOf(r.unchanged) \subseteq ever[c].a \cap ever[c].b
            /\ \A f, g \in r.unchanged : f.key = g.key => f = g
            /\ r.rating \in {"better", "unchanged"} => always[c].b \subseteq ever[c].a

CompareInv ==
    /\ CompareTypeOK
    /\ \E m \in Nat : Bounded(m)
    /\ \A c \in Compares : ListsLieBetween(c) /\ DeltaLiesBetween(c)

\* What c compares.
LEMMA PairsAreScans ==
    ASSUME NEW c \in Compares
    PROVE  A(c) \in Compared /\ B(c) \in Compared
  BY ComparisonAssumption DEF ComparisonAssumption, A, B

LEMMA CompareIdle ==
    ASSUME UNCHANGED compareVars
    PROVE  /\ exists' = exists /\ findings' = findings /\ ports' = ports
           /\ deletion' = deletion /\ at' = at /\ seen' = seen /\ result' = result
           /\ always' = always /\ ever' = ever
  BY DEF compareVars, tables, spanVars

LEMMA KeysTyped == \A x \in SUBSET Finding : KeysOf(x) \subseteq Keys
  BY DEF KeysOf, Finding

\* What is remembered of a change of the findings is typed.
LEMMA RememberTyped ==
    ASSUME CompareTypeOK, Remember, findings' \in [Compared -> SUBSET Finding]
    PROVE  /\ always' \in [Compares -> [a : SUBSET Keys, b : SUBSET Keys]]
           /\ ever' \in [Compares -> [a : SUBSET Keys, b : SUBSET Keys]]
<1>1. ASSUME NEW c \in Compares
      PROVE  KeysOf(findings'[A(c)]) \subseteq Keys /\ KeysOf(findings'[B(c)]) \subseteq Keys
  BY PairsAreScans, KeysTyped
<1>2. ASSUME NEW c \in Compares
      PROVE  /\ always[c] \in [a : SUBSET Keys, b : SUBSET Keys]
             /\ ever[c] \in [a : SUBSET Keys, b : SUBSET Keys]
  BY DEF CompareTypeOK
<1> QED
  BY <1>1, <1>2 DEF Remember

LEMMA CompareInitially == CompareInit => CompareInv
<1> SUFFICES ASSUME CompareInit PROVE CompareInv
  OBVIOUS
<1>1. CompareTypeOK
  BY DEF CompareInit, CompareTypeOK, Nothing
<1>2. Bounded(0)
  BY DEF CompareInit, Bounded, Under, Nothing
<1>3. ASSUME NEW c \in Compares PROVE ListsLieBetween(c) /\ DeltaLiesBetween(c)
  BY DEF CompareInit, ListsLieBetween, DeltaLiesBetween, Loading
<1> QED
  BY <1>1, <1>2, <1>3 DEF CompareInv

\* The three parts of CompareInv are always, in this order.
LEMMA CompareTypeKept ==
    CompareTypeOK /\ [CompareNext]_compareVars => CompareTypeOK'
<1> SUFFICES ASSUME CompareTypeOK, [CompareNext]_compareVars PROVE CompareTypeOK'
  OBVIOUS
<1> USE DEF CompareTypeOK, tables, To
<1>1. ASSUME NEW c \in Compares, AskComparison(c) PROVE CompareTypeOK'
  <2>1. KeysOf(findings[A(c)]) \subseteq Keys /\ KeysOf(findings[B(c)]) \subseteq Keys
    BY PairsAreScans, KeysTyped
  <2> QED
    BY <1>1, <2>1 DEF AskComparison, spanVars
<1>2. ASSUME NEW c \in Compares, FindScan(c) PROVE CompareTypeOK'
  BY <1>2 DEF FindScan, spanVars
<1>3. ASSUME NEW c \in Compares, LoadRows(c) PROVE CompareTypeOK'
  <2>1. /\ findings[A(c)] \in SUBSET Finding /\ findings[B(c)] \in SUBSET Finding
        /\ ports[A(c)] \in SUBSET Ports
    BY PairsAreScans
  <2>2. at' \in [Compares -> {"idle", "a", "b", "fa", "fb", "pa", "pb", "answered", "not_found"}]
    BY <1>3 DEF LoadRows
  <2>3. seen' \in [Compares -> [fa : SUBSET Finding, fb : SUBSET Finding,
                               pa : SUBSET Ports, pb : SUBSET Ports]]
    <3> DEFINE Lists == [fa : SUBSET Finding, fb : SUBSET Finding, pa : SUBSET Ports, pb : SUBSET Ports]
    <3>1. PICK old : old = seen[c]
      OBVIOUS
    <3>2. old \in Lists
      BY <3>1
    <3>3. /\ [old EXCEPT !.fa = findings[A(c)]] \in Lists
          /\ [old EXCEPT !.fb = findings[B(c)]] \in Lists
          /\ [old EXCEPT !.pa = ports[A(c)]] \in Lists
      BY <2>1, <3>2
    <3>4. PICK new \in Lists : seen' = [seen EXCEPT ![c] = new]
      BY <1>3, <3>1, <3>3 DEF LoadRows
    <3> HIDE DEF Lists
    <3>5. seen \in [Compares -> Lists]
      BY DEF Lists
    <3>6. seen' \in [Compares -> Lists]
      BY <3>4, <3>5
    <3> QED
      BY <3>6 DEF Lists
  <2> QED
    BY <1>3, <2>2, <2>3 DEF LoadRows, spanVars
<1>4. ASSUME NEW c \in Compares, Compare(c) PROVE CompareTypeOK'
  <2>1. Comparison([seen[c] EXCEPT !.pb = ports[B(c)]]) \in Result
    BY PairsAreScans, ResultTyped
  <2> QED
    BY <1>4, <2>1 DEF Compare, Nothing, spanVars
<1>5. ASSUME NEW s \in Compared, Store(s) PROVE CompareTypeOK'
  <2>1. Storable[s] \subseteq Finding
    BY ComparisonAssumption DEF ComparisonAssumption
  <2>2. findings' \in [Compared -> SUBSET Finding] /\ ports' \in [Compared -> SUBSET Ports]
    <3>1. ASSUME NEW f \in Storable[s], findings' = [findings EXCEPT ![s] = @ \cup {f}]
          PROVE  findings' \in [Compared -> SUBSET Finding]
      BY <2>1, <3>1
    <3>2. ASSUME NEW p \in Ports, ports' = [ports EXCEPT ![s] = @ \cup {p}]
          PROVE  ports' \in [Compared -> SUBSET Ports]
      BY <3>2
    <3> QED
      BY <1>5, <3>1, <3>2 DEF Store
  <2>3. Remember
    BY <1>5 DEF Store
  <2> QED
    BY <1>5, <2>2, <2>3, RememberTyped DEF Store
<1>6. ASSUME NEW s \in Compared, DeleteScan(s) PROVE CompareTypeOK'
  <2>1. findings' \in [Compared -> SUBSET Finding] /\ Remember
    BY <1>6 DEF DeleteScan
  <2> QED
    BY <1>6, <2>1, RememberTyped DEF DeleteScan
<1>6a. ASSUME NEW s \in Compared, DeleteFinding(s) PROVE CompareTypeOK'
  <2>1. findings' \in [Compared -> SUBSET Finding] /\ Remember
    BY <1>6a DEF DeleteFinding
  <2> QED
    BY <1>6a, <2>1, RememberTyped DEF DeleteFinding
<1>7. CASE UNCHANGED compareVars
  BY <1>7, CompareIdle
<1> QED
  BY <1>1, <1>2, <1>3, <1>4, <1>5, <1>6, <1>6a, <1>7 DEF CompareNext

LEMMA CompareBoundKept ==
    ASSUME CompareTypeOK, NEW m \in Nat, Bounded(m), [CompareNext]_compareVars
    PROVE  \E n \in Nat : Bounded(n)'
<1> USE DEF CompareTypeOK, tables, To, Under
<1>1. ASSUME NEW c \in Compares, AskComparison(c) \/ FindScan(c) PROVE Bounded(m)'
  BY <1>1 DEF AskComparison, FindScan, Bounded
<1>2. ASSUME NEW c \in Compares, LoadRows(c) PROVE Bounded(m)'
  <2>1. /\ findings' = findings /\ A(c) \in Compared /\ B(c) \in Compared
        /\ \A d \in Compares \ {c} : seen'[d] = seen[d]
    BY <1>2, PairsAreScans DEF LoadRows
  <2>2. /\ seen'[c].fa \in {seen[c].fa, findings[A(c)]}
        /\ seen'[c].fb \in {seen[c].fb, findings[B(c)]}
    BY <1>2 DEF LoadRows
  <2>3. Under(seen'[c].fa, m) /\ Under(seen'[c].fb, m)
    BY <2>1, <2>2 DEF Bounded
  <2> QED
    BY <2>1, <2>3 DEF Bounded
<1>3. ASSUME NEW c \in Compares, Compare(c) PROVE Bounded(m)'
  BY <1>3 DEF Compare, Nothing, Bounded
<1>4. ASSUME NEW s \in Compared, Store(s) PROVE \E n \in Nat : Bounded(n)'
  <2>1. CASE UNCHANGED findings
    BY <1>4, <2>1 DEF Store, Bounded
  <2>2. ASSUME NEW f \in Storable[s], findings' = [findings EXCEPT ![s] = @ \cup {f}]
        PROVE  \E n \in Nat : Bounded(n)'
    <3> DEFINE n == m + f.score
    <3>0. /\ Scores \subseteq Nat /\ f \in Finding
          /\ \A g \in Finding : g.score \in Nat
      BY ComparisonAssumption DEF ComparisonAssumption, Finding
    <3>1. f.score \in Nat /\ \A t \in Compared : \A g \in findings[t] : g.score \in Nat
      BY <3>0
    <3>2. \A c \in Compares : (\A g \in seen[c].fa : g.score \in Nat) /\ (\A g \in seen[c].fb : g.score \in Nat)
      BY <3>0
    <3>3. n \in Nat /\ m <= n /\ f.score <= n
      BY <3>1
    <3>4. \A t \in Compared : Under(findings'[t], n)
      <4> HIDE DEF n
      <4> QED
        BY <2>2, <3>1, <3>3 DEF Bounded
    <3>5. \A c \in Compares : Under(seen'[c].fa, n) /\ Under(seen'[c].fb, n)
      <4>1. seen' = seen
        BY <1>4 DEF Store
      <4> HIDE DEF n
      <4> QED
        BY <3>2, <3>3, <4>1 DEF Bounded
    <3> HIDE DEF n
    <3> QED
      BY <3>3, <3>4, <3>5 DEF Bounded
  <2> QED
    BY <1>4, <2>1, <2>2 DEF Store
<1>5. ASSUME NEW s \in Compared, DeleteScan(s) \/ DeleteFinding(s) PROVE Bounded(m)'
  BY <1>5 DEF DeleteScan, DeleteFinding, Bounded
<1>6. CASE UNCHANGED compareVars
  BY <1>6 DEF compareVars, Bounded
<1> QED
  BY <1>1, <1>2, <1>3, <1>4, <1>5, <1>6 DEF CompareNext

\* A change of the findings leaves what lies between where it is.
LEMMA ChangesKeepLists ==
    ASSUME CompareTypeOK, CompareTypeOK', NEW c \in Compares,
           ListsLieBetween(c), DeltaLiesBetween(c),
           Remember, UNCHANGED <<at, seen, result>>
    PROVE  ListsLieBetween(c)' /\ DeltaLiesBetween(c)'
<1>1. CASE Loading(c)
  <2>1. /\ always'[c].a = always[c].a \cap KeysOf(findings'[A(c)])
        /\ always'[c].b = always[c].b \cap KeysOf(findings'[B(c)])
        /\ ever'[c].a = ever[c].a \cup KeysOf(findings'[A(c)])
        /\ ever'[c].b = ever[c].b \cup KeysOf(findings'[B(c)])
    BY <1>1 DEF Remember
  <2>2. at'[c] = at[c] /\ seen'[c] = seen[c] /\ at[c] # "answered"
    BY <1>1 DEF Loading
  <2> QED
    BY <2>1, <2>2 DEF ListsLieBetween, DeltaLiesBetween, Between
<1>2. CASE ~Loading(c)
  <2>1. always'[c] = always[c] /\ ever'[c] = ever[c]
    BY <1>2 DEF Remember
  <2>2. at[c] \notin {"fb", "pa", "pb"}
    BY <1>2 DEF Loading
  <2> QED
    BY <1>2, <2>1, <2>2 DEF ListsLieBetween, DeltaLiesBetween, Loading
<1> QED
  BY <1>1, <1>2

\* Lists that lie between make a delta that does.
LEMMA AnswerIsTrue ==
    ASSUME CompareTypeOK, NEW m \in Nat, Bounded(m), NEW c \in Compares, Compare(c),
           ListsLieBetween(c)
    PROVE  DeltaLiesBetween(c)'
<1> DEFINE s == [seen[c] EXCEPT !.pb = ports[B(c)]]
           delta == CompareFindings(s.fa, s.fb)
<1>0. result' = [result EXCEPT ![c] = Comparison(s)]
  BY DEF Compare
<1>1. /\ at[c] = "pb" /\ result'[c] = Comparison(s)
      /\ always' = always /\ ever' = ever
  <2> HIDE DEF s
  <2> QED
    BY <1>0 DEF Compare, CompareTypeOK, spanVars
<1>2. s.fa = seen[c].fa /\ s.fb = seen[c].fb /\ s.fa \in SUBSET Finding /\ s.fb \in SUBSET Finding
  BY DEF CompareTypeOK
<1>3. /\ KeysOf(delta.new) = KeysOf(s.fb) \ KeysOf(s.fa)
      /\ KeysOf(delta.fixed) = KeysOf(s.fa) \ KeysOf(s.fb)
      /\ KeysOf(delta.unchanged) = KeysOf(s.fa) \cap KeysOf(s.fb)
      /\ \A f, g \in delta.unchanged : f.key = g.key => f = g
  <2>1. Under(s.fa, m) /\ Under(s.fb, m)
    BY <1>2 DEF Bounded
  <2> QED
    BY <1>2, <2>1, DeltaOfLists
<1>4. /\ result'[c].new = delta.new /\ result'[c].fixed = delta.fixed
      /\ result'[c].unchanged = delta.unchanged /\ result'[c].rating = Rating(delta)
  <2> HIDE DEF s
  <2> QED
    BY <1>1 DEF Comparison
<1>5. Rating(delta) \in {"better", "unchanged"} => delta.new = {}
  BY DEF Rating
<1>6. delta.new = {} => KeysOf(delta.new) = {}
  BY DEF KeysOf
<1>7. /\ always[c].a \subseteq KeysOf(s.fa) /\ KeysOf(s.fa) \subseteq ever[c].a
      /\ always[c].b \subseteq KeysOf(s.fb) /\ KeysOf(s.fb) \subseteq ever[c].b
  BY <1>1, <1>2 DEF ListsLieBetween, Between
<1> HIDE DEF s, delta
<1> QED
  BY <1>1, <1>3, <1>4, <1>5, <1>6, <1>7 DEF DeltaLiesBetween

\* Every step keeps CompareInv.
LEMMA CompareKept == CompareInv /\ [CompareNext]_compareVars => CompareInv'
<1> SUFFICES ASSUME CompareInv, [CompareNext]_compareVars PROVE CompareInv'
  OBVIOUS
<1>1. CompareTypeOK /\ CompareTypeOK'
  BY CompareTypeKept DEF CompareInv
<1>2. PICK m \in Nat : Bounded(m)
  BY DEF CompareInv
<1>3. \E n \in Nat : Bounded(n)'
  BY <1>1, <1>2, CompareBoundKept
<1>4. ASSUME NEW c \in Compares
      PROVE  ListsLieBetween(c)' /\ DeltaLiesBetween(c)'
  <2>1. ListsLieBetween(c) /\ DeltaLiesBetween(c)
    BY DEF CompareInv
  <2>2. CASE \E s \in Compared : Store(s) \/ DeleteFinding(s) \/ DeleteScan(s)
    <3>1. Remember /\ UNCHANGED <<at, seen, result>>
      BY <2>2 DEF Store, DeleteFinding, DeleteScan
    <3> QED
      BY <1>1, <2>1, <3>1, ChangesKeepLists
  <2>3. CASE AskComparison(c)
    <3>1. /\ at'[c] = "a" /\ findings' = findings
          /\ always'[c] = [a |-> KeysOf(findings[A(c)]), b |-> KeysOf(findings[B(c)])]
          /\ ever'[c] = always'[c]
      BY <1>1, <2>3 DEF AskComparison, To, CompareTypeOK, tables
    <3> QED
      BY <3>1 DEF ListsLieBetween, DeltaLiesBetween, Between
  <2>4. CASE FindScan(c)
    <3>1. /\ at[c] \in {"a", "b"} /\ at'[c] \in {"b", "fa", "not_found"}
          /\ findings' = findings /\ always' = always /\ ever' = ever
      BY <1>1, <2>4 DEF FindScan, To, CompareTypeOK, tables, spanVars
    <3> QED
      BY <2>1, <3>1 DEF ListsLieBetween, DeltaLiesBetween, Loading
  <2>5. CASE LoadRows(c)
    <3>1. /\ findings' = findings /\ always' = always /\ ever' = ever /\ result' = result
          /\ \/ at[c] = "fa" /\ at'[c] = "fb" /\ seen'[c].fa = findings[A(c)]
             \/ /\ at[c] = "fb" /\ at'[c] = "pa" /\ seen'[c].fa = seen[c].fa
                /\ seen'[c].fb = findings[B(c)]
             \/ /\ at[c] = "pa" /\ at'[c] = "pb" /\ seen'[c].fa = seen[c].fa
                /\ seen'[c].fb = seen[c].fb
      BY <1>1, <2>5 DEF LoadRows, To, CompareTypeOK, tables, spanVars
    <3> QED
      BY <2>1, <3>1 DEF ListsLieBetween, DeltaLiesBetween, Loading
  <2>6. CASE Compare(c)
    <3>1. DeltaLiesBetween(c)'
      BY <1>1, <1>2, <2>1, <2>6, AnswerIsTrue
    <3>2. at'[c] = "answered"
      BY <1>1, <2>6 DEF Compare, To, CompareTypeOK
    <3> QED
      BY <3>1, <3>2 DEF ListsLieBetween, Loading
  <2>7. CASE /\ ~(AskComparison(c) \/ FindScan(c) \/ LoadRows(c) \/ Compare(c))
             /\ ~\E s \in Compared : Store(s) \/ DeleteFinding(s) \/ DeleteScan(s)
    <3> DEFINE Same == /\ at'[c] = at[c] /\ seen'[c] = seen[c] /\ result'[c] = result[c]
                       /\ always'[c] = always[c] /\ ever'[c] = ever[c] /\ findings' = findings
    <3>1. ASSUME NEW d \in Compares,
                 AskComparison(d) \/ FindScan(d) \/ LoadRows(d) \/ Compare(d)
          PROVE  Same
      <4>1. d # c
        BY <2>7, <3>1
      <4> QED
        BY <1>1, <3>1, <4>1
           DEF AskComparison, FindScan, LoadRows, Compare, To, CompareTypeOK, tables, spanVars
    <3>2. ASSUME UNCHANGED compareVars PROVE Same
      BY <3>2, CompareIdle
    <3>3. \/ UNCHANGED compareVars
          \/ \E d \in Compares : AskComparison(d) \/ FindScan(d) \/ LoadRows(d) \/ Compare(d)
      BY <2>7 DEF CompareNext
    <3>4. Same
      <4>1. CASE \E d \in Compares :
                    AskComparison(d) \/ FindScan(d) \/ LoadRows(d) \/ Compare(d)
        <5> PICK d \in Compares : AskComparison(d) \/ FindScan(d) \/ LoadRows(d) \/ Compare(d)
          BY <4>1
        <5> QED
          BY <3>1
      <4> QED
        BY <3>2, <3>3, <4>1
    <3> QED
      BY <2>1, <3>4 DEF ListsLieBetween, DeltaLiesBetween, Loading
  <2> QED
    BY <2>2, <2>3, <2>4, <2>5, <2>6, <2>7
<1> QED
  BY <1>1, <1>3, <1>4 DEF CompareInv

\* Whatever is stored and deleted while the lists are read, a delta lies between
\* what the two scans had all the time and what they ever had meanwhile, for any
\* findings, scores and comparisons (ScanComparator.compare).
THEOREM DeltaIsTrueCorrect == CompareSpec => []DeltaIsTrue
<1>1. CompareInv => DeltaIsTrue
  BY DEF CompareInv, DeltaIsTrue, DeltaLiesBetween
<1> QED
  BY CompareInitially, CompareKept, <1>1, PTL DEF CompareSpec

-----------------------------------------------------------------------------
(***************************************************************************)
(* ScanResults: rows, counts and results agree.                            *)
(***************************************************************************)

\* The phases that have begun, and the steps before the agent has answered.
Reached == {Phases[m] : m \in 1 .. nth}
Early == {"check", "tool", "insert", "start", "enter", "agent", "look"}

\* A phase for which nothing has been found yet.
NotBegun(p) == p \notin Reached \/ (p = ThisPhase /\ work \in Early)

\* What holds whether or not the scan is being deleted.
AmountsAgree ==
    /\ \A p \in PhaseNames : NotBegun(p) => found[p] = 0 /\ stored[p] = 0 /\ erased[p] = 0
    /\ work \in {"count", "store"} => Put(ThisPhase) + toStore <= found[ThisPhase]
    /\ work = "count" => Put(ThisPhase) = 0 /\ toStore = found[ThisPhase]
    /\ work = "persist" => kept + dropped + toStore <= found[VulnScan] + found[TlsAnalysis]
    /\ work \notin {"persist", "finished", "failed"} => kept = 0 /\ dropped = 0

\* The row of the current phase, where the task depends on it.
CurrentRecord ==
    LET r == record[ThisPhase]
    IN  /\ work = "start" => r = [status |-> "pending", count |-> 0]
        /\ work \in {"enter", "agent"} => r = [status |-> "running", count |-> 0]
        /\ work \in {"look", "count"} => r = [status |-> "completed", count |-> 0]
        /\ work = "store" => r = [status |-> "completed", count |-> found[ThisPhase]]

\* The row of p has its end and its count.
Settled(p) ==
    /\ Put(p) <= record[p].count
    /\ ~CutShort(p) => Put(p) = record[p].count
    /\ record[p].status \notin {"pending", "running"}

\* The phases whose results are all written.
Written(p) == ~(p = ThisPhase /\ work \in {"start", "enter", "agent", "count", "store"})

\* What holds while nobody deletes the scan.
RowsAgree ==
    /\ jobThere
    /\ CurrentRecord
    /\ \A p \in PhaseNames :
          /\ (p \notin Reached \/ (p = ThisPhase /\ work \in {"check", "tool", "insert"}))
                => record[p] = NoRecord
          /\ Written(p) => Settled(p)
          /\ Written(p) /\ work \notin {"aborted", "failed"} => Put(p) = found[p]
    /\ work = "store" => Put(ThisPhase) + toStore = found[ThisPhase]
    /\ work = "persist" => kept + dropped + toStore = found[VulnScan] + found[TlsAnalysis]
    /\ work = "finished" => kept + dropped = found[VulnScan] + found[TlsAnalysis]

\* What a deleted scan leaves.
NothingLeft ==
    /\ stored = NoResults /\ kept = 0
    /\ \A p \in PhaseNames : record[p] = NoRecord

ResultsInv ==
    /\ ResultsTypeOK
    /\ AmountsAgree
    /\ removal = "none" => RowsAgree
    /\ ~jobThere => NothingLeft

-----------------------------------------------------------------------------
USE DEF Put

\* The types of the phases.
LEMMA PhasesTyped ==
    /\ Len(Phases) \in Nat /\ Len(Phases) >= 1
    /\ Phases \in [1 .. Len(Phases) -> PhaseNames]
  BY ResultsAssumption DEF ResultsAssumption

LEMMA ThisPhaseTyped == ResultsTypeOK => ThisPhase \in PhaseNames
  BY PhasesTyped DEF ResultsTypeOK, ThisPhase

LEMMA ResultsInitially == ResultsInit => ResultsInv
<1> SUFFICES ASSUME ResultsInit PROVE ResultsInv
  OBVIOUS
<1> USE DEF ResultsInit, NoResults, NoRecord
<1>1. ResultsTypeOK
  <2>1. /\ 0 \in 0 .. MaxFound /\ 0 \in 0 .. 2 * MaxFound /\ 1 \in 1 .. Len(Phases)
        /\ 0 \in 0 .. MaxErased
    BY ResultsAssumption, PhasesTyped DEF ResultsAssumption
  <2>2. /\ found \in [PhaseNames -> 0 .. MaxFound] /\ stored \in [PhaseNames -> 0 .. MaxFound]
        /\ erased \in [PhaseNames -> 0 .. MaxErased]
        /\ record \in [PhaseNames ->
               [status : {"none", "pending", "running", "skipped", "completed", "failed"},
                count : 0 .. MaxFound]]
    BY <2>1
  <2> QED
    BY <2>1, <2>2 DEF ResultsTypeOK
<1>2. AmountsAgree
  BY DEF AmountsAgree
<1>3. RowsAgree
  BY DEF RowsAgree, CurrentRecord, Written, Settled
<1> QED
  BY <1>1, <1>2, <1>3 DEF ResultsInv

\* The UPDATE of a row writes that row.
LEMMA SetRecordWrites ==
    ASSUME ResultsTypeOK, NEW p \in PhaseNames,
           NEW status \in {"none", "pending", "running", "skipped", "completed", "failed"},
           NEW count \in 0 .. MaxFound, SetRecord(p, status, count)
    PROVE  /\ record' \in [PhaseNames ->
                  [status : {"none", "pending", "running", "skipped", "completed", "failed"},
                   count : 0 .. MaxFound]]
           /\ \A q \in PhaseNames : q # p => record'[q] = record[q]
           /\ HasRecord(p) => record'[p] = [status |-> status, count |-> count]
           /\ ~HasRecord(p) => record' = record
  BY DEF ResultsTypeOK, SetRecord

\* A phase is left with its row settled and its results written; the next
\* one is found untouched.
LEMMA PhaseLeft ==
    ASSUME ResultsInv, NextPhase(found), UNCHANGED <<stored, kept, erased, dropped, jobThere, removal, raised>>,
           work \in {"check", "enter", "agent", "store"},
           record' \in [PhaseNames ->
                  [status : {"none", "pending", "running", "skipped", "completed", "failed"},
                   count : 0 .. MaxFound]],
           \A q \in PhaseNames : q # ThisPhase => record'[q] = record[q],
           ~jobThere => record' = record,
           removal = "none" =>
               \A p \in PhaseNames : p = ThisPhase => Settled(p)' /\ Put(p) = found[p]
    PROVE  ResultsInv'
<1> DEFINE atEnd == nth = Len(Phases)
<1>1. /\ ThisPhase \in PhaseNames /\ nth \in 1 .. Len(Phases) /\ Len(Phases) \in Nat
      /\ found' = found /\ found \in [PhaseNames -> 0 .. MaxFound]
      /\ stored \in [PhaseNames -> 0 .. MaxFound] /\ MaxFound \in Nat
      /\ erased' = erased /\ \A p \in PhaseNames : Put(p)' = Put(p)
  BY ThisPhaseTyped, PhasesTyped, ResultsAssumption
     DEF ResultsInv, ResultsTypeOK, NextPhase, ResultsAssumption
<1>2. /\ AmountsAgree /\ kept = 0 /\ kept' = 0 /\ dropped = 0 /\ dropped' = 0
      /\ removal = "none" => RowsAgree
      /\ ~jobThere => NothingLeft
  BY DEF ResultsInv, AmountsAgree
<1>3. /\ nth' \in 1 .. Len(Phases)
      /\ work' \in {"check", "persist"}
      /\ \A p \in PhaseNames : NotBegun(p)' => p \notin Reached
      /\ ThisPhase \in Reached
      /\ work' = "persist" => toStore' = found[VulnScan] + found[TlsAnalysis] /\ ThisPhase' = ThisPhase
      /\ work' = "check" => toStore' = 0 /\ ThisPhase' \notin Reached
  <2>1. CASE atEnd
    <3>1. /\ nth' = nth /\ work' = "persist" /\ toStore' = found[VulnScan] + found[TlsAnalysis]
      BY <1>1, <2>1 DEF NextPhase
    <3>2. Reached' = Reached /\ ThisPhase' = ThisPhase
      BY <3>1 DEF Reached, ThisPhase
    <3>3. ThisPhase \in Reached
      BY <1>1 DEF Reached, ThisPhase
    <3>4. \A p \in PhaseNames : NotBegun(p)' => p \notin Reached
      BY <3>1, <3>2 DEF NotBegun, Early
    <3> QED
      BY <1>1, <3>1, <3>2, <3>3, <3>4
  <2>2. CASE ~atEnd
    <3>1. /\ nth < Len(Phases) /\ nth' = nth + 1 /\ work' = "check" /\ toStore' = 0
          /\ nth' \in 1 .. Len(Phases)
      BY <1>1, <2>2 DEF NextPhase
    <3>2. 1 .. nth' = (1 .. nth) \cup {nth'}
      BY <1>1, <3>1
    <3>3. Reached' = Reached \cup {ThisPhase'}
      BY <3>2 DEF Reached, ThisPhase
    <3>4. ThisPhase' \notin Reached
      <4>1. \A m, n \in 1 .. Len(Phases) : Phases[m] = Phases[n] => m = n
        BY ResultsAssumption DEF ResultsAssumption
      <4>2. \A m \in 1 .. nth : m \in 1 .. Len(Phases) /\ m # nth'
        BY <1>1, <3>1
      <4> QED
        BY <3>1, <4>1, <4>2 DEF Reached, ThisPhase
    <3>5. ThisPhase \in Reached
      BY <1>1 DEF Reached, ThisPhase
    <3> QED
      BY <3>1, <3>3, <3>4, <3>5 DEF NotBegun
  <2> QED
    BY <2>1, <2>2
<1>4. VulnScan \in PhaseNames /\ TlsAnalysis \in PhaseNames
  BY DEF PhaseNames
<1>5. ResultsTypeOK'
  <2>1. PICK v, w \in 0 .. MaxFound : v = found[VulnScan] /\ w = found[TlsAnalysis]
    BY <1>1, <1>4
  <2>2. toStore' = v + w \/ toStore' = 0
    BY <1>3, <2>1
  <2>3. /\ v \in Nat /\ w \in Nat /\ v <= MaxFound /\ w <= MaxFound
        /\ MaxFound \in Nat /\ 2 * MaxFound = MaxFound + MaxFound
    BY <1>1, <2>1
  <2>4. toStore' \in 0 .. 2 * MaxFound
    BY <2>2, <2>3
  <2> QED
    BY <1>1, <1>3, <2>4 DEF ResultsTypeOK, ResultsInv
<1>6. AmountsAgree'
  <2>1. \A p \in PhaseNames : NotBegun(p)' => found'[p] = 0 /\ stored'[p] = 0 /\ erased'[p] = 0
    BY <1>1, <1>2, <1>3 DEF AmountsAgree, NotBegun
  <2>2. work' = "persist" => kept' + dropped' + toStore' <= found'[VulnScan] + found'[TlsAnalysis]
    BY <1>1, <1>2, <1>3, <1>4
  <2> QED
    BY <1>2, <1>3, <2>1, <2>2 DEF AmountsAgree
<1>7. ASSUME removal = "none" PROVE RowsAgree'
  <2>1. /\ RowsAgree
        /\ \A p \in PhaseNames : p = ThisPhase => Settled(p)' /\ Put(p) = found[p]
    BY <1>2, <1>7
  <2>4. work \notin {"aborted", "failed"}
    OBVIOUS
  <2>2. ASSUME NEW p \in PhaseNames
        PROVE  /\ (p \notin Reached' \/ (p = ThisPhase' /\ work' \in {"check", "tool", "insert"}))
                      => record'[p] = NoRecord
               /\ Settled(p)' /\ Put(p)' = found'[p]
    <3>1. (p \notin Reached' \/ (p = ThisPhase' /\ work' \in {"check", "tool", "insert"}))
             => p \notin Reached
      BY <1>3 DEF NotBegun, Early
    <3>2. p \notin Reached => p # ThisPhase
      BY <1>3
    <3>3. p # ThisPhase => Written(p) /\ record'[p] = record[p]
      BY DEF Written
    <3>4. p # ThisPhase => Settled(p) /\ Put(p) = found[p]
      BY <2>1, <3>3, <2>4 DEF RowsAgree
    <3>5. p = ThisPhase => Settled(p)' /\ Put(p) = found[p]
      BY <2>1
    <3> QED
      BY <1>1, <2>1, <3>1, <3>2, <3>3, <3>4, <3>5 DEF RowsAgree, Settled, CutShort
  <2>3. work' = "persist" => kept' + dropped' + toStore' = found'[VulnScan] + found'[TlsAnalysis]
    BY <1>1, <1>2, <1>3, <1>4
  <2> QED
    BY <1>3, <2>1, <2>2, <2>3 DEF RowsAgree, CurrentRecord
<1>8. ASSUME ~jobThere PROVE NothingLeft'
  BY <1>2, <1>8 DEF NothingLeft
<1> QED
  BY <1>5, <1>6, <1>7, <1>8 DEF ResultsInv

\* A step within a phase: what each one has to show.
LEMMA WithinPhase ==
    ASSUME ResultsInv, UNCHANGED <<nth, found, toStore, stored, kept, erased, dropped, jobThere, removal, raised>>,
           work \notin {"persist", "finished", "failed"},
           work' \in {"tool", "insert", "start", "enter", "agent", "look", "failed"},
           work \in Early,
           record' \in [PhaseNames ->
                  [status : {"none", "pending", "running", "skipped", "completed", "failed"},
                   count : 0 .. MaxFound]],
           \A q \in PhaseNames : q # ThisPhase => record'[q] = record[q],
           ~jobThere => record' = record,
           removal = "none" =>
               /\ CurrentRecord'
               /\ work' \in {"tool", "insert"} => record' = record /\ work \in {"check", "tool"}
               /\ work' \in {"look", "failed"} =>
                      \A p \in PhaseNames : p = ThisPhase => Settled(p)'
    PROVE  ResultsInv'
<1>1. /\ ThisPhase \in PhaseNames /\ ThisPhase' = ThisPhase /\ Reached' = Reached
      /\ ThisPhase \in Reached
  BY ThisPhaseTyped, PhasesTyped DEF ResultsInv, ResultsTypeOK, ThisPhase, Reached
<1>2. ResultsTypeOK'
  BY DEF ResultsInv, ResultsTypeOK, Over
<1>3. AmountsAgree'
  BY <1>1 DEF ResultsInv, AmountsAgree, NotBegun
<1>4. ASSUME removal = "none" PROVE RowsAgree'
  <2>1. RowsAgree /\ CurrentRecord'
    BY <1>4 DEF ResultsInv
  <2>2. ASSUME NEW p \in PhaseNames
        PROVE  /\ (p \notin Reached' \/ (p = ThisPhase' /\ work' \in {"check", "tool", "insert"}))
                      => record'[p] = NoRecord
               /\ Written(p)' => Settled(p)'
               /\ Written(p)' /\ work' \notin {"aborted", "failed"} => Put(p)' = found'[p]
    <3>1. CASE p = ThisPhase
      <4>1. Put(p) = 0 /\ found[p] = 0
        BY <1>1, <3>1 DEF ResultsInv, AmountsAgree, NotBegun
      <4>2. Written(p)' => work' \in {"tool", "insert", "look", "failed"}
        BY <1>1, <3>1 DEF Written
      <4>3. work' \in {"tool", "insert"} => record'[p] = NoRecord
        BY <1>1, <1>4, <2>1, <3>1 DEF RowsAgree
      <4>4. record'[p] = NoRecord => Settled(p)'
        BY <4>1 DEF NoRecord, Settled, CutShort
      <4> QED
        BY <1>1, <1>4, <3>1, <4>1, <4>2, <4>3, <4>4
    <3>2. CASE p # ThisPhase
      BY <1>1, <2>1, <3>2 DEF RowsAgree, Written, Settled, CutShort, Early
    <3> QED
      BY <3>1, <3>2
  <2> QED
    BY <2>1, <2>2 DEF RowsAgree
<1>5. ASSUME ~jobThere PROVE NothingLeft'
  BY <1>5 DEF ResultsInv, NothingLeft
<1> QED
  BY <1>2, <1>3, <1>4, <1>5 DEF ResultsInv

\* The last status of a phase without results, written where it has its row.
LEMMA RecordSettles ==
    ASSUME ResultsInv, work \in {"enter", "agent"}, stored' = stored, erased' = erased,
           NEW status \in {"skipped", "completed", "failed"},
           SetRecord(ThisPhase, status, 0)
    PROVE  /\ record' \in [PhaseNames ->
                  [status : {"none", "pending", "running", "skipped", "completed", "failed"},
                   count : 0 .. MaxFound]]
           /\ \A q \in PhaseNames : q # ThisPhase => record'[q] = record[q]
           /\ ~jobThere => record' = record
           /\ removal = "none" =>
                  \A p \in PhaseNames : p = ThisPhase =>
                      /\ Settled(p)' /\ Put(p) = found[p]
                      /\ record'[p] = [status |-> status, count |-> 0]
<1>1. /\ ResultsTypeOK /\ AmountsAgree /\ ThisPhase \in PhaseNames /\ 0 \in 0 .. MaxFound
      /\ removal = "none" => RowsAgree
      /\ ~jobThere => NothingLeft
  BY ThisPhaseTyped, ResultsAssumption DEF ResultsInv, ResultsAssumption
<1>2. ~jobThere => ~HasRecord(ThisPhase)
  BY <1>1 DEF NothingLeft, HasRecord
<1>3. removal = "none" => HasRecord(ThisPhase)
  BY <1>1 DEF RowsAgree, CurrentRecord, HasRecord, NoRecord
<1>4. Put(ThisPhase) = 0 /\ found[ThisPhase] = 0
  BY <1>1 DEF AmountsAgree, NotBegun, Early
<1> QED
  BY <1>1, <1>2, <1>3, <1>4, SetRecordWrites DEF Settled, CutShort

\* A step of the task: of a phase, or of the orchestrator after the last one.
LEMMA TaskStep == ResultsInv /\ TaskWrites => ResultsInv'
<1> SUFFICES ASSUME ResultsInv, TaskWrites PROVE ResultsInv'
  OBVIOUS
<1>0. /\ UNCHANGED <<erased, dropped, raised, removal>> /\ ResultsTypeOK /\ AmountsAgree
      /\ removal = "none" => RowsAgree
      /\ ~jobThere => NothingLeft
      /\ ThisPhase \in PhaseNames /\ ThisPhase \in Reached /\ MaxFound \in Nat
  <2>1. /\ UNCHANGED <<erased, dropped, raised, removal>>
    BY DEF TaskWrites, erasedPart
  <2>2. /\ ResultsTypeOK /\ AmountsAgree
        /\ removal = "none" => RowsAgree
        /\ ~jobThere => NothingLeft
    BY DEF ResultsInv
  <2>3. ThisPhase \in PhaseNames /\ ThisPhase \in Reached
    BY <2>2, ThisPhaseTyped, PhasesTyped DEF ResultsTypeOK, ThisPhase, Reached
  <2> QED
    BY <2>1, <2>2, <2>3, ResultsAssumption DEF ResultsAssumption
<1> USE DEF Doing, GoOn, Fail, rowPart
<1>1. CASE AbortScan
  <2>1. /\ work = "check" /\ work' = "aborted" /\ found' = NoResults
        /\ UNCHANGED <<nth, toStore, record, stored, kept, jobThere>>
    BY <1>1 DEF AbortScan
  <2>2. ResultsTypeOK'
    BY <1>0, <2>1 DEF ResultsTypeOK, NoResults, Over
  <2>3. AmountsAgree'
    BY <1>0, <2>1 DEF AmountsAgree, NotBegun, Early, NoResults, Reached, ThisPhase
  <2>4. removal = "none" => RowsAgree'
    BY <1>0, <2>1 DEF RowsAgree, CurrentRecord, Written, Settled, CutShort, Reached, ThisPhase
  <2> QED
    BY <1>0, <2>1, <2>2, <2>3, <2>4 DEF ResultsInv, NothingLeft
<1>2. CASE LeaveOut
  <2>1. work = "check" /\ UNCHANGED <<record, stored, kept, jobThere>> /\ NextPhase(found)
    BY <1>2 DEF LeaveOut
  <2>2. removal = "none" => \A p \in PhaseNames : p = ThisPhase => Settled(p)' /\ Put(p) = found[p]
    BY <1>0, <2>1 DEF RowsAgree, Written, Settled, CutShort
  <2> QED
    BY <1>0, <2>1, <2>2, PhaseLeft DEF ResultsTypeOK
<1>3. CASE BeginPhase
  BY <1>0, <1>3, WithinPhase DEF BeginPhase, CurrentRecord, Early, ResultsTypeOK
<1>4. CASE RunTool
  <2>1. /\ work = "tool" /\ UNCHANGED <<record, stored, kept, jobThere, nth, found, toStore>>
        /\ work' \in {"insert", "failed"}
    BY <1>4 DEF RunTool
  <2>2. removal = "none" => \A p \in PhaseNames : p = ThisPhase => Settled(p)'
    BY <1>0, <2>1 DEF RowsAgree, Written, Settled, CutShort
  <2> QED
    BY <1>0, <2>1, <2>2, WithinPhase DEF CurrentRecord, Early, ResultsTypeOK
<1>5. CASE InsertRecord
  <2>1. CASE jobThere
    <3>1. /\ work = "insert" /\ work' = "start"
          /\ UNCHANGED <<nth, found, toStore, stored, kept, jobThere>>
          /\ record' = [record EXCEPT ![ThisPhase] = [status |-> "pending", count |-> 0]]
          /\ ThisPhase' = ThisPhase
      BY <1>5, <2>1 DEF InsertRecord, ThisPhase
    <3>2. [status |-> "pending", count |-> 0] \in
              [status : {"none", "pending", "running", "skipped", "completed", "failed"},
               count : 0 .. MaxFound]
      BY <1>0
    <3>3. /\ record' \in [PhaseNames ->
                  [status : {"none", "pending", "running", "skipped", "completed", "failed"},
                   count : 0 .. MaxFound]]
          /\ record'[ThisPhase] = [status |-> "pending", count |-> 0]
          /\ \A q \in PhaseNames : q # ThisPhase => record'[q] = record[q]
      BY <1>0, <3>1, <3>2 DEF ResultsTypeOK
    <3> QED
      BY <1>0, <2>1, <3>1, <3>3, WithinPhase DEF CurrentRecord, Early
  <2>2. CASE ~jobThere
    <3>1. removal # "none"
      BY <1>0, <2>2 DEF RowsAgree
    <3> QED
      BY <1>0, <1>5, <2>2, <3>1, WithinPhase DEF InsertRecord, Early, ResultsTypeOK
  <2> QED
    BY <2>1, <2>2
<1>6. CASE StartRecord
  <2>1. /\ work = "start" /\ work' = "enter" /\ UNCHANGED <<nth, found, toStore, stored, kept, jobThere>>
        /\ SetRecord(ThisPhase, "running", 0)
    BY <1>6 DEF StartRecord
  <2>2. 0 \in 0 .. MaxFound
    BY <1>0
  <2>3. ~jobThere => record' = record
    BY <1>0, <2>1, <2>2, SetRecordWrites DEF NothingLeft, HasRecord
  <2>4. removal = "none" => CurrentRecord'
    <3>1. removal = "none" => HasRecord(ThisPhase)
      BY <1>0, <2>1 DEF RowsAgree, CurrentRecord, HasRecord, NoRecord
    <3> QED
      BY <1>0, <2>1, <2>2, <3>1, SetRecordWrites DEF CurrentRecord, ThisPhase
  <2> QED
    BY <1>0, <2>1, <2>2, <2>3, <2>4, SetRecordWrites, WithinPhase DEF Early
<1>7. CASE SkipPhase
  <2>1. /\ work = "enter" /\ NextPhase(found) /\ UNCHANGED <<stored, kept, jobThere>>
        /\ SetRecord(ThisPhase, "skipped", 0)
    BY <1>7 DEF SkipPhase
  <2> QED
    BY <1>0, <2>1, RecordSettles, PhaseLeft
<1>8. CASE AskAgent
  BY <1>0, <1>8, WithinPhase DEF AskAgent, CurrentRecord, Early, ResultsTypeOK, RowsAgree, ThisPhase
<1>9. CASE AgentCompletes
  <2>1. /\ work = "agent" /\ UNCHANGED <<stored, kept, jobThere>>
        /\ SetRecord(ThisPhase, "completed", 0)
    BY <1>9 DEF AgentCompletes
  <2>2. CASE NextPhase(found)
    BY <1>0, <2>1, <2>2, RecordSettles, PhaseLeft
  <2>3. CASE GoOn("look")
    <3>1. removal = "none" => CurrentRecord'
      BY <1>0, <2>1, <2>3, RecordSettles DEF CurrentRecord, ThisPhase
    <3> QED
      BY <1>0, <2>1, <2>3, <3>1, RecordSettles, WithinPhase DEF Early
  <2> QED
    BY <1>9, <2>2, <2>3 DEF AgentCompletes
<1>10. CASE AgentGivesUp
  <2>1. /\ work = "agent" /\ NextPhase(found) /\ UNCHANGED <<stored, kept, jobThere>>
        /\ SetRecord(ThisPhase, "failed", 0)
    BY <1>10 DEF AgentGivesUp
  <2> QED
    BY <1>0, <2>1, RecordSettles, PhaseLeft
<1>11. CASE LookUpRecord
  <2>1. /\ work = "look" /\ work' \in {"count", "store"}
        /\ UNCHANGED <<nth, record, stored, kept, jobThere>>
        /\ HasRecord(ThisPhase) => work' = "count"
        /\ ThisPhase' = ThisPhase /\ Reached' = Reached
    BY <1>11 DEF LookUpRecord, ThisPhase, Reached
  <2>2. PICK n \in 0 .. MaxFound : found' = [found EXCEPT ![ThisPhase] = n] /\ toStore' = n
    BY <1>11 DEF LookUpRecord
  <2>3. /\ found'[ThisPhase] = n /\ Put(ThisPhase) = 0 /\ kept = 0 /\ dropped = 0
        /\ \A p \in PhaseNames : p # ThisPhase => found'[p] = found[p]
    BY <1>0, <2>1, <2>2 DEF ResultsTypeOK, AmountsAgree, NotBegun, Early
  <2>4. ResultsTypeOK'
    <3>1. toStore' \in 0 .. 2 * MaxFound
      BY <1>0, <2>2
    <3> QED
      BY <1>0, <2>1, <2>2, <3>1 DEF ResultsTypeOK
  <2>5. AmountsAgree'
    BY <1>0, <2>1, <2>2, <2>3 DEF AmountsAgree, NotBegun, Early
  <2>6. ASSUME removal = "none" PROVE RowsAgree'
    <3>1. RowsAgree /\ record[ThisPhase] = [status |-> "completed", count |-> 0]
      BY <1>0, <2>1, <2>6 DEF RowsAgree, CurrentRecord
    <3>2. work' = "count"
      BY <2>1, <3>1 DEF HasRecord, NoRecord
    <3> QED
      BY <1>0, <2>1, <2>3, <3>1, <3>2 DEF RowsAgree, CurrentRecord, Written, Settled, CutShort
  <2> QED
    BY <1>0, <2>1, <2>4, <2>5, <2>6 DEF ResultsInv, NothingLeft
<1>12. CASE CountResults
  <2>1. /\ work = "count" /\ work' = "store" /\ UNCHANGED <<nth, found, toStore, stored, kept, jobThere>>
        /\ SetRecord(ThisPhase, "completed", found[ThisPhase])
        /\ found[ThisPhase] \in 0 .. MaxFound
        /\ ThisPhase' = ThisPhase /\ Reached' = Reached
    BY <1>0, <1>12 DEF CountResults, ThisPhase, Reached, ResultsTypeOK
  <2>2. /\ record' \in [PhaseNames ->
                  [status : {"none", "pending", "running", "skipped", "completed", "failed"},
                   count : 0 .. MaxFound]]
        /\ \A q \in PhaseNames : q # ThisPhase => record'[q] = record[q]
        /\ HasRecord(ThisPhase) =>
               record'[ThisPhase] = [status |-> "completed", count |-> found[ThisPhase]]
        /\ ~HasRecord(ThisPhase) => record' = record
    BY <1>0, <2>1, SetRecordWrites
  <2>3. ResultsTypeOK'
    BY <1>0, <2>1, <2>2 DEF ResultsTypeOK
  <2>4. AmountsAgree'
    BY <1>0, <2>1 DEF AmountsAgree, NotBegun, Early
  <2>5. ASSUME removal = "none" PROVE RowsAgree'
    <3>1. RowsAgree /\ record[ThisPhase] = [status |-> "completed", count |-> 0]
      BY <1>0, <2>1, <2>5 DEF RowsAgree, CurrentRecord
    <3>2. record'[ThisPhase] = [status |-> "completed", count |-> found[ThisPhase]]
      BY <2>2, <3>1 DEF HasRecord, NoRecord
    <3>3. Put(ThisPhase) = 0 /\ toStore = found[ThisPhase]
      BY <1>0, <2>1 DEF AmountsAgree
    <3> QED
      BY <1>0, <2>1, <2>2, <3>1, <3>2, <3>3 DEF RowsAgree, CurrentRecord, Written, Settled, CutShort
  <2>6. ~jobThere => NothingLeft'
    BY <1>0, <2>1, <2>2 DEF NothingLeft, HasRecord
  <2> QED
    BY <1>0, <2>1, <2>3, <2>4, <2>5, <2>6 DEF ResultsInv
<1>13. CASE StoreResult
  <2>1. /\ work = "store" /\ toStore > 0 /\ UNCHANGED <<work, nth, found, record, kept, jobThere>>
        /\ stored' = [stored EXCEPT ![ThisPhase] = @ + 1]
        /\ toStore' = toStore - 1 /\ jobThere
        /\ ThisPhase' = ThisPhase /\ Reached' = Reached
    BY <1>13 DEF StoreResult, CanStore, ThisPhase, Reached
  <2>2. /\ toStore \in Nat /\ toStore <= 2 * MaxFound
        /\ stored \in [PhaseNames -> 0 .. MaxFound] /\ found \in [PhaseNames -> 0 .. MaxFound]
        /\ erased[ThisPhase] \in Nat
        /\ Put(ThisPhase) + toStore <= found[ThisPhase]
    BY <1>0, <2>1 DEF ResultsTypeOK, AmountsAgree
  <2>3. /\ stored'[ThisPhase] = stored[ThisPhase] + 1 /\ stored[ThisPhase] + 1 \in 0 .. MaxFound
        /\ Put(ThisPhase)' = Put(ThisPhase) + 1
    BY <1>0, <2>1, <2>2
  <2>4. \A p \in PhaseNames : p # ThisPhase => stored'[p] = stored[p] /\ Put(p)' = Put(p)
    BY <1>0, <2>1, <2>2
  <2>5. ResultsTypeOK'
    <3>1. stored' \in [PhaseNames -> 0 .. MaxFound] /\ toStore' \in 0 .. 2 * MaxFound
      BY <1>0, <2>1, <2>2, <2>3
    <3> QED
      BY <1>0, <2>1, <3>1 DEF ResultsTypeOK
  <2>6. Put(ThisPhase)' + toStore' = Put(ThisPhase) + toStore
    BY <1>0, <2>1, <2>2, <2>3
  <2>7. AmountsAgree'
    BY <1>0, <2>1, <2>4, <2>6 DEF AmountsAgree, NotBegun, Early
  <2>8. removal = "none" => RowsAgree'
    BY <1>0, <2>1, <2>4, <2>6 DEF RowsAgree, CurrentRecord, Written, Settled, CutShort
  <2> QED
    BY <1>0, <2>1, <2>5, <2>7, <2>8 DEF ResultsInv
<1>17. CASE StoreFails
  <2>1. /\ work = "store" /\ work' = "failed"
        /\ UNCHANGED <<nth, found, toStore, stored, record, kept, jobThere>>
        /\ ThisPhase' = ThisPhase /\ Reached' = Reached
        /\ ~CanStore \/ ThisPhase \in FindingPhases
    BY <1>17 DEF StoreFails, ThisPhase, Reached
  <2>2. ResultsTypeOK'
    BY <1>0, <2>1 DEF ResultsTypeOK, Over
  <2>3. AmountsAgree'
    BY <1>0, <2>1 DEF AmountsAgree, NotBegun, Early
  <2>4. ASSUME removal = "none" PROVE RowsAgree'
    <3>1. RowsAgree /\ record[ThisPhase] = [status |-> "completed", count |-> found[ThisPhase]]
      BY <1>0, <2>1, <2>4 DEF RowsAgree, CurrentRecord
    <3>2. ThisPhase \in FindingPhases
      BY <2>1, <3>1 DEF RowsAgree, CanStore, HasRecord, NoRecord
    <3>3. Put(ThisPhase) <= found[ThisPhase]
      <4>1. Put(ThisPhase) \in Nat /\ toStore \in Nat /\ found[ThisPhase] \in Nat
        BY <1>0 DEF ResultsTypeOK
      <4> QED
        BY <1>0, <2>1, <4>1 DEF AmountsAgree
    <3>4. Settled(ThisPhase)'
      BY <2>1, <1>0, <3>1, <3>2, <3>3 DEF Settled, CutShort
    <3>5. \A p \in PhaseNames : p # ThisPhase => Written(p)
      BY DEF Written
    <3>6. \A p \in PhaseNames : Settled(p)'
      BY <1>0, <2>1, <3>1, <3>4, <3>5 DEF RowsAgree, Settled, CutShort
    <3> QED
      BY <1>0, <2>1, <3>1, <3>6 DEF RowsAgree, CurrentRecord
  <2> QED
    BY <1>0, <2>1, <2>2, <2>3, <2>4 DEF ResultsInv, NothingLeft
<1>14. CASE AllStored
  <2>1. work = "store" /\ toStore = 0 /\ NextPhase(found) /\ UNCHANGED <<record, stored, kept, jobThere>>
    BY <1>14 DEF AllStored
  <2>2. removal = "none" =>
            \A p \in PhaseNames : p = ThisPhase => Settled(p)' /\ Put(p) = found[p]
    <3>1. Put(ThisPhase) \in Nat
      BY <1>0 DEF ResultsTypeOK
    <3> QED
      BY <1>0, <2>1, <3>1 DEF RowsAgree, CurrentRecord, Settled, CutShort
  <2> QED
    BY <1>0, <2>1, <2>2, PhaseLeft DEF ResultsTypeOK
<1>15. CASE KeepFinding
  <2>1. /\ work = "persist" /\ toStore > 0 /\ UNCHANGED <<nth, found, record, stored, jobThere>>
        /\ ThisPhase' = ThisPhase /\ Reached' = Reached
    BY <1>15 DEF KeepFinding, ThisPhase, Reached
  <2>4. /\ toStore \in Nat /\ toStore <= 2 * MaxFound /\ kept \in Nat /\ dropped \in Nat
        /\ found[VulnScan] \in 0 .. MaxFound /\ found[TlsAnalysis] \in 0 .. MaxFound
        /\ kept + dropped + toStore <= found[VulnScan] + found[TlsAnalysis]
    <3>1. VulnScan \in PhaseNames /\ TlsAnalysis \in PhaseNames
      BY DEF PhaseNames
    <3> QED
      BY <1>0, <2>1, <3>1 DEF ResultsTypeOK, AmountsAgree
  <2>2. CASE jobThere
    <3>1. kept' = kept + 1 /\ toStore' = toStore - 1 /\ work' = work
      BY <1>15, <2>2 DEF KeepFinding
    <3>2. /\ kept' + dropped' + toStore' = kept + dropped + toStore
          /\ kept' \in 0 .. 2 * MaxFound /\ toStore' \in 0 .. 2 * MaxFound
      BY <1>0, <2>1, <2>4, <3>1
    <3>3. ResultsTypeOK'
      BY <1>0, <2>1, <3>1, <3>2 DEF ResultsTypeOK
    <3>4. AmountsAgree'
      BY <1>0, <2>1, <3>1, <3>2 DEF AmountsAgree, NotBegun, Early
    <3>5. removal = "none" => RowsAgree'
      BY <1>0, <2>1, <3>1, <3>2 DEF RowsAgree, CurrentRecord, Written, Settled, CutShort
    <3> QED
      BY <1>0, <2>1, <2>2, <3>3, <3>4, <3>5 DEF ResultsInv
  <2>3. CASE ~jobThere
    <3>1. work' = "failed" /\ UNCHANGED <<toStore, kept>>
      BY <1>15, <2>3 DEF KeepFinding
    <3>2. removal # "none"
      BY <1>0, <2>3 DEF RowsAgree
    <3>3. ResultsTypeOK'
      BY <1>0, <2>1, <3>1 DEF ResultsTypeOK, Over
    <3>4. AmountsAgree'
      BY <1>0, <2>1, <3>1 DEF AmountsAgree, NotBegun, Early
    <3> QED
      BY <1>0, <2>1, <3>1, <3>2, <3>3, <3>4 DEF ResultsInv, NothingLeft
  <2> QED
    BY <2>2, <2>3
<1>16. CASE FinishScan
  <2>1. /\ work = "persist" /\ toStore = 0 /\ work' = "finished"
        /\ UNCHANGED <<nth, found, toStore, record, stored, kept, jobThere>>
        /\ ThisPhase' = ThisPhase /\ Reached' = Reached /\ kept \in Nat /\ dropped \in Nat
    BY <1>0, <1>16 DEF FinishScan, ThisPhase, Reached, ResultsTypeOK
  <2>2. ResultsTypeOK'
    BY <1>0, <2>1 DEF ResultsTypeOK, Over
  <2>3. AmountsAgree'
    BY <1>0, <2>1 DEF AmountsAgree, NotBegun, Early
  <2>4. removal = "none" => RowsAgree'
    BY <1>0, <2>1 DEF RowsAgree, CurrentRecord, Written, Settled, CutShort
  <2> QED
    BY <1>0, <2>1, <2>2, <2>3, <2>4 DEF ResultsInv, NothingLeft
<1> QED
  BY <1>1, <1>2, <1>3, <1>4, <1>5, <1>6, <1>7, <1>8, <1>9, <1>10, <1>11, <1>12,
     <1>13, <1>14, <1>15, <1>16, <1>17 DEF TaskWrites

\* A step of the deletion, table by table.
LEMMA DeletionStep == ResultsInv /\ DeleteFromTable => ResultsInv'
<1> SUFFICES ASSUME ResultsInv, DeleteFromTable PROVE ResultsInv'
  OBVIOUS
<1>0. /\ ResultsTypeOK /\ AmountsAgree /\ removal \in DeletedTables /\ MaxFound \in Nat
      /\ UNCHANGED <<work, nth, found, toStore, erased, dropped, raised>>
      /\ ThisPhase' = ThisPhase /\ Reached' = Reached
      /\ ~jobThere => NothingLeft
  BY ResultsAssumption DEF ResultsInv, DeleteFromTable, taskPart, erasedPart, ThisPhase, Reached, ResultsAssumption
<1>1. CASE KeptByOthers(removal)
  <2>1. removal' = "refused" /\ UNCHANGED <<record, stored, kept, jobThere>>
    BY <1>1 DEF DeleteFromTable, rowPart
  <2> QED
    BY <1>0, <2>1 DEF ResultsInv, ResultsTypeOK, AmountsAgree, NotBegun, NothingLeft
<1>2. CASE ~KeptByOthers(removal)
  <2>1. Empties(removal) /\ removal' = TableAfter[removal]
    BY <1>2 DEF DeleteFromTable
  <2>2. removal \in {"discovered_hosts", "open_ports", "findings", "scan_phases", "scan_jobs"}
    BY <1>0 DEF DeletedTables, TableAfter
  <2>3. removal' \in {"open_ports", "findings", "scan_phases", "scan_jobs", "over"}
    BY <2>1, <2>2 DEF TableAfter
  <2>4. /\ stored' \in [PhaseNames -> 0 .. MaxFound]
        /\ \A p \in PhaseNames : stored'[p] \in {0, stored[p]}
        /\ kept' \in {0, kept} /\ jobThere' \in BOOLEAN
        /\ record' = record \/ record' = [p \in PhaseNames |-> NoRecord]
    <3>1. ASSUME NEW phases, stored' = Leaves(phases)
          PROVE  /\ stored' \in [PhaseNames -> 0 .. MaxFound]
                 /\ \A p \in PhaseNames : stored'[p] \in {0, stored[p]}
      BY <1>0, <3>1 DEF Leaves, ResultsTypeOK
    <3>2. CASE removal \in {"discovered_hosts", "open_ports", "findings"}
      <4>1. \/ stored' = Leaves({HostDiscovery}) \/ stored' = Leaves({PortScan})
            \/ stored' = Leaves(FindingPhases)
        BY <2>1, <3>2 DEF Empties
      <4>2. kept' \in {0, kept} /\ jobThere' = jobThere /\ record' = record
        BY <2>1, <3>2 DEF Empties
      <4> QED
        BY <1>0, <3>1, <4>1, <4>2 DEF ResultsTypeOK
    <3>3. CASE removal \in {"scan_phases", "scan_jobs"}
      <4>1. /\ stored' = stored /\ kept' = kept /\ jobThere' \in {FALSE, jobThere}
            /\ record' = record \/ record' = [p \in PhaseNames |-> NoRecord]
        BY <2>1, <3>3 DEF Empties
      <4> QED
        BY <1>0, <4>1 DEF ResultsTypeOK
    <3> QED
      BY <2>2, <3>2, <3>3
  <2>5. \A p \in PhaseNames : stored[p] \in Nat /\ found[p] \in Nat /\ stored'[p] <= stored[p]
    <3>1. \A p \in PhaseNames : stored[p] \in Nat /\ found[p] \in Nat
      BY <1>0 DEF ResultsTypeOK
    <3> QED
      BY <2>4, <3>1
  <2>10. \A p \in PhaseNames :
            erased[p] \in Nat /\ Put(p) \in Nat /\ Put(p)' \in Nat /\ Put(p)' <= Put(p)
    <3>1. \A p \in PhaseNames : stored'[p] \in Nat
      BY <2>4
    <3>2. \A p \in PhaseNames : erased[p] \in Nat
      BY <1>0 DEF ResultsTypeOK
    <3> QED
      BY <1>0, <2>5, <3>1, <3>2
  <2>6. /\ kept \in Nat /\ dropped \in Nat /\ toStore \in Nat /\ kept' \in 0 .. 2 * MaxFound /\ kept' <= kept
        /\ ThisPhase \in PhaseNames /\ VulnScan \in PhaseNames /\ TlsAnalysis \in PhaseNames
    <3>1. kept \in 0 .. 2 * MaxFound /\ toStore \in Nat /\ dropped \in Nat
      BY <1>0 DEF ResultsTypeOK
    <3>2. VulnScan \in PhaseNames /\ TlsAnalysis \in PhaseNames
      BY DEF PhaseNames
    <3> QED
      BY <1>0, <2>4, <3>1, <3>2, ThisPhaseTyped
  <2>7. ResultsTypeOK'
    <3>1. record' \in [PhaseNames ->
             [status : {"none", "pending", "running", "skipped", "completed", "failed"},
              count : 0 .. MaxFound]]
      <4>1. NoRecord \in
               [status : {"none", "pending", "running", "skipped", "completed", "failed"},
                count : 0 .. MaxFound]
        BY <1>0 DEF NoRecord
      <4>2. record \in [PhaseNames ->
               [status : {"none", "pending", "running", "skipped", "completed", "failed"},
                count : 0 .. MaxFound]]
        BY <1>0 DEF ResultsTypeOK
      <4> QED
        BY <2>4, <4>1, <4>2
    <3>2. removal' \in {"none", "over", "refused"} \cup DeletedTables
      BY <2>3 DEF DeletedTables, TableAfter
    <3> QED
      BY <1>0, <2>4, <2>6, <3>1, <3>2 DEF ResultsTypeOK
  <2>8. AmountsAgree'
    <3>1. \A p \in PhaseNames : NotBegun(p)' => found'[p] = 0 /\ stored'[p] = 0 /\ erased'[p] = 0
      BY <1>0, <2>4 DEF AmountsAgree, NotBegun
    <3>3. work \in {"count", "store"} => Put(ThisPhase)' + toStore <= found[ThisPhase]
      <4>1. found[ThisPhase] \in Nat
        BY <2>5, <2>6
      <4>2. Put(ThisPhase)' + toStore <= Put(ThisPhase) + toStore
        BY <1>0, <2>6, <2>10
      <4>3. work \in {"count", "store"} => Put(ThisPhase) + toStore <= found[ThisPhase]
        BY <1>0 DEF AmountsAgree
      <4> HIDE DEF Put
      <4> QED
        BY <1>0, <2>6, <2>10, <4>1, <4>2, <4>3
    <3>4. work = "persist" => kept' + dropped + toStore <= found[VulnScan] + found[TlsAnalysis]
      BY <1>0, <2>4, <2>5, <2>6 DEF AmountsAgree
    <3>5. work = "count" => Put(ThisPhase)' = 0 /\ toStore = found[ThisPhase]
      BY <1>0, <2>6, <2>10 DEF AmountsAgree
    <3>6. work \notin {"persist", "finished", "failed"} => kept' = 0 /\ dropped = 0
      BY <1>0, <2>4 DEF AmountsAgree
    <3> QED
      BY <1>0, <3>1, <3>3, <3>4, <3>5, <3>6 DEF AmountsAgree
  <2>9. ASSUME ~jobThere' PROVE NothingLeft'
    <3>1. CASE jobThere
      <4>1. removal = "scan_jobs" /\ UNCHANGED <<record, stored, kept>>
        BY <2>1, <2>2, <2>9, <3>1 DEF Empties
      <4>2. \A p \in PhaseNames : ~(stored[p] > 0) /\ record[p] = NoRecord
        BY <1>2, <4>1 DEF KeptByOthers, HasRecord
      <4>3. ~(kept > 0)
        BY <1>2, <4>1 DEF KeptByOthers
      <4>4. kept = 0 /\ stored = NoResults
        <5>1. \A p \in PhaseNames : stored[p] = 0
          BY <2>5, <4>2
        <5> QED
          BY <1>0, <2>6, <4>3, <5>1 DEF ResultsTypeOK, NoResults
      <4> QED
        BY <4>1, <4>2, <4>4 DEF NothingLeft
    <3>2. CASE ~jobThere
      <4>1. NothingLeft
        BY <1>0, <3>2
      <4>2. \A p \in PhaseNames : stored'[p] = 0
        BY <2>4, <4>1 DEF NothingLeft, NoResults
      <4>3. stored' = NoResults
        BY <2>4, <4>2 DEF NoResults
      <4> QED
        BY <2>4, <4>1, <4>3 DEF NothingLeft
    <3> QED
      BY <3>1, <3>2
  <2> QED
    BY <2>3, <2>7, <2>8, <2>9 DEF ResultsInv
<1> QED
  BY <1>1, <1>2

\* A finding deleted by itself moves from the rows to the history.
LEMMA SingleStep == ResultsInv /\ DeleteOneFinding => ResultsInv'
<1> SUFFICES ASSUME ResultsInv, DeleteOneFinding PROVE ResultsInv'
  OBVIOUS
<1>0. /\ ResultsTypeOK /\ AmountsAgree /\ MaxFound \in Nat /\ MaxErased \in Nat
      /\ UNCHANGED <<work, nth, found, toStore, raised, record, jobThere, removal>>
      /\ ThisPhase' = ThisPhase /\ Reached' = Reached /\ ThisPhase \in PhaseNames
      /\ ~jobThere => NothingLeft
      /\ erased[VulnScan] + erased[TlsAnalysis] + dropped < MaxErased
      /\ FindingPhases \subseteq PhaseNames /\ VulnScan \in PhaseNames /\ TlsAnalysis \in PhaseNames
      /\ removal = "none" => RowsAgree
  BY ResultsAssumption, ThisPhaseTyped
     DEF ResultsInv, DeleteOneFinding, taskPart, ThisPhase, Reached, ResultsAssumption,
         FindingPhases, PhaseNames
<1>1. /\ stored \in [PhaseNames -> 0 .. MaxFound] /\ erased \in [PhaseNames -> 0 .. MaxErased]
      /\ kept \in 0 .. 2 * MaxFound /\ dropped \in 0 .. MaxErased
  BY <1>0 DEF ResultsTypeOK
<1>2. /\ stored' \in [PhaseNames -> 0 .. MaxFound] /\ erased' \in [PhaseNames -> 0 .. MaxErased]
      /\ kept' \in 0 .. 2 * MaxFound /\ dropped' \in 0 .. MaxErased
      /\ \A p \in PhaseNames : stored'[p] + erased'[p] = stored[p] + erased[p]
      /\ \A p \in PhaseNames : stored[p] = 0 => stored'[p] = 0 /\ erased'[p] = erased[p]
      /\ kept' + dropped' = kept + dropped
      /\ kept = 0 => kept' = 0 /\ dropped' = dropped
      /\ jobThere
  <2>1. jobThere
    BY <1>0 DEF DeleteOneFinding, NothingLeft, NoResults
  <2>2. CASE UNCHANGED <<kept, dropped>>
    <3>1. PICK p \in FindingPhases :
              /\ stored[p] > 0
              /\ stored' = [stored EXCEPT ![p] = @ - 1]
              /\ erased' = [erased EXCEPT ![p] = @ + 1]
      <4>1. ~(kept' = kept - 1)
        BY <1>0, <1>1, <2>2
      <4> QED
        BY <4>1 DEF DeleteOneFinding
    <3>2. erased[p] + 1 \in 0 .. MaxErased
      BY <1>0, <1>1 DEF FindingPhases
    <3> QED
      BY <1>0, <1>1, <2>1, <2>2, <3>1, <3>2
  <2>3. CASE UNCHANGED <<stored, erased>>
    <3>1. kept > 0 /\ kept' = kept - 1 /\ dropped' = dropped + 1
      <4>1. ASSUME NEW p \in FindingPhases, stored' = [stored EXCEPT ![p] = @ - 1] PROVE FALSE
        BY <1>0, <1>1, <2>3, <4>1
      <4> QED
        BY <4>1 DEF DeleteOneFinding
    <3>2. dropped + 1 \in 0 .. MaxErased
      BY <1>0, <1>1
    <3> QED
      BY <1>0, <1>1, <2>1, <2>3, <3>1, <3>2
  <2> QED
    BY <2>2, <2>3 DEF DeleteOneFinding
<1>3. ResultsTypeOK'
  BY <1>0, <1>2 DEF ResultsTypeOK
<1>4. AmountsAgree'
  <2>1. work = "persist" => kept' + dropped' + toStore <= found[VulnScan] + found[TlsAnalysis]
    BY <1>0, <1>2 DEF AmountsAgree
  <2> QED
    BY <1>0, <1>2, <2>1 DEF AmountsAgree, NotBegun
<1>5. removal = "none" => RowsAgree'
  BY <1>0, <1>2 DEF RowsAgree, CurrentRecord, Written, Settled, CutShort
<1> QED
  BY <1>0, <1>2, <1>3, <1>4, <1>5 DEF ResultsInv

\* Every step keeps ResultsInv.
LEMMA ResultsKept == ResultsInv /\ [ResultsNext]_resultVars => ResultsInv'
<1> SUFFICES ASSUME ResultsInv, [ResultsNext]_resultVars PROVE ResultsInv'
  OBVIOUS
<1>1. CASE TaskWrites
  BY <1>1, TaskStep
<1>2. ASSUME \/ RaiseOrReset \/ BeginDeletion \/ UNCHANGED resultVars PROVE ResultsInv'
  <2>1. /\ UNCHANGED <<work, nth, found, toStore, record, stored, kept, erased, dropped, jobThere>>
        /\ raised' \in BOOLEAN
        /\ removal' \in {removal, "discovered_hosts"}
    BY <1>2 DEF RaiseOrReset, BeginDeletion, resultVars, taskPart, rowPart, erasedPart, ResultsInv, ResultsTypeOK
  <2>2. ResultsTypeOK'
    BY <2>1 DEF ResultsInv, ResultsTypeOK, DeletedTables, TableAfter
  <2>3. AmountsAgree'
    BY <2>1 DEF ResultsInv, AmountsAgree, NotBegun, Reached, ThisPhase
  <2>4. removal' = "none" => RowsAgree'
    BY <2>1 DEF ResultsInv, RowsAgree, CurrentRecord, Written, Settled, CutShort, Reached, ThisPhase
  <2> QED
    BY <2>1, <2>2, <2>3, <2>4 DEF ResultsInv, NothingLeft
<1>3. CASE DeleteFromTable
  BY <1>3, DeletionStep
<1>4. CASE DeleteOneFinding
  BY <1>4, SingleStep
<1> QED
  BY <1>1, <1>2, <1>3, <1>4 DEF ResultsNext

\* Once the task is done every phase is settled.
LEMMA ResultsImply == ResultsInv => ResultsAgree
<1> SUFFICES ASSUME ResultsInv PROVE ResultsAgree
  OBVIOUS
<1>1. ASSUME removal = "none"
      PROVE  /\ \A p \in PhaseNames : Put(p) <= record[p].count
             /\ work \in Over =>
                   \A p \in PhaseNames :
                       /\ record[p].status \notin {"pending", "running"}
                       /\ ~CutShort(p) => Put(p) = record[p].count
             /\ work = "finished" => kept + dropped = Put(VulnScan) + Put(TlsAnalysis)
  <2>1. RowsAgree /\ AmountsAgree /\ ResultsTypeOK
    BY <1>1 DEF ResultsInv
  <2>2. ASSUME NEW p \in PhaseNames PROVE Put(p) <= record[p].count
    <3>1. Put(p) \in Nat /\ record[p].count \in Nat /\ toStore \in Nat
      BY <2>1 DEF ResultsTypeOK
    <3>2. CASE Written(p)
      BY <2>1, <3>1, <3>2 DEF RowsAgree, Settled, CutShort
    <3>3. CASE p = ThisPhase /\ work \in {"start", "enter", "agent"}
      BY <2>1, <3>1, <3>3 DEF AmountsAgree, NotBegun, Early
    <3>4. CASE p = ThisPhase /\ work = "count"
      BY <2>1, <3>1, <3>4 DEF AmountsAgree
    <3>5. CASE p = ThisPhase /\ work = "store"
      <4>1. Put(p) + toStore = record[p].count
        BY <2>1, <3>5 DEF RowsAgree, CurrentRecord
      <4> HIDE DEF Put
      <4> QED
        BY <3>1, <4>1
    <3> QED
      BY <3>2, <3>3, <3>4, <3>5 DEF Written
  <2>3. work \in Over => \A p \in PhaseNames : Settled(p)
    BY <2>1 DEF RowsAgree, Written, Over
  <2>4. work = "finished" => kept + dropped = Put(VulnScan) + Put(TlsAnalysis)
    BY <2>1 DEF RowsAgree, Written, PhaseNames
  <2> QED
    BY <2>2, <2>3, <2>4 DEF Settled, CutShort
<1>2. ~jobThere => NothingLeft
  BY DEF ResultsInv
<1> QED
  BY <1>1, <1>2 DEF ResultsAgree, NothingLeft, HasRecord

\* The counts that a scan shows are those of the rows it has stored, once it
\* is over, but for the phase whose findings it failed to store; they are
\* never below; of a deleted scan nothing is left (execute_phase, the four phase functions and persist_findings against
\* ScanJobRepository.delete).
THEOREM ResultsAgreeCorrect == ResultsSpec => []ResultsAgree
<1>1. ResultsSpec => []ResultsInv
  BY ResultsInitially, ResultsKept, PTL DEF ResultsSpec
<1> QED
  BY <1>1, ResultsImply, PTL

HIDE DEF Put

-----------------------------------------------------------------------------
(***************************************************************************)
(* ScopeValidation: what is let through is within the scope.               *)
(***************************************************************************)

LEMMA WidthType == Width \in Nat
  BY ScopeAssumption DEF ScopeAssumption, Width

\* The recursion that defines AddressCount has a solution ...
LEMMA AddressCountDef ==
    AddressCount = [i \in 0 .. Width |-> IF i = 0 THEN 1 ELSE 2 * AddressCount[i - 1]]
<1> DEFINE Solves(f, m) == f = [i \in 0 .. m |-> IF i = 0 THEN 1 ELSE 2 * f[i - 1]]
           Without == {m \in Nat : ~\E f : Solves(f, m)}
<1>1. \E f : Solves(f, Width)
  <2>1. CASE Without = {}
    BY <2>1, WidthType
  <2>2. CASE Without # {}
    <3>1. PICK m \in Without : \A k \in Without : m <= k
      BY <2>2, LeastNumber
    <3>2. m # 0
      <4>1. Solves([i \in 0 .. 0 |-> 1], 0)
        OBVIOUS
      <4> QED
        BY <4>1
    <3>3. m \in Nat /\ m - 1 \in Nat /\ ~(m <= m - 1)
      BY <3>1, <3>2
    <3>4. PICK f : Solves(f, m - 1)
      <4> HIDE DEF Solves
      <4>1. m - 1 \notin Without
        BY <3>1, <3>2
      <4> QED
        BY <3>3, <4>1
    <3> DEFINE g == [i \in 0 .. m |-> IF i = 0 THEN 1 ELSE 2 * f[i - 1]]
    <3>5. ASSUME NEW i \in 0 .. m - 1 PROVE g[i] = f[i]
      <4>1. f = [k \in 0 .. m - 1 |-> IF k = 0 THEN 1 ELSE 2 * f[k - 1]]
        BY <3>4
      <4>2. f[i] = IF i = 0 THEN 1 ELSE 2 * f[i - 1]
        BY <4>1
      <4>3. g[i] = IF i = 0 THEN 1 ELSE 2 * f[i - 1]
        BY <3>3
      <4> QED
        BY <4>2, <4>3
    <3>6. Solves(g, m)
      <4>1. \A i \in 0 .. m : i # 0 => i - 1 \in 0 .. m - 1
        BY <3>3
      <4> QED
        BY <3>5, <4>1
    <3> QED
      BY <3>1, <3>6
  <2> QED
    BY <2>1, <2>2
<1> QED
  BY <1>1, Zenon DEF AddressCount

\* ... and every network has addresses.
LEMMA AddressCountPositive ==
    ASSUME NEW bits \in 0 .. Width
    PROVE  AddressCount[bits] \in Nat \ {0}
<1> DEFINE Wrong == {n \in Nat : n <= Width /\ AddressCount[n] \notin Nat \ {0}}
<1>1. CASE Wrong = {}
  BY <1>1, WidthType
<1>2. CASE Wrong # {}
  <2>1. PICK n \in Wrong : \A k \in Wrong : n <= k
    BY <1>2, LeastNumber
  <2>2. n \in 0 .. Width /\ AddressCount[n] = IF n = 0 THEN 1 ELSE 2 * AddressCount[n - 1]
    BY <2>1, AddressCountDef, WidthType
  <2>3. n # 0
    BY <2>1, <2>2
  <2>4. n - 1 \in Nat /\ n - 1 <= Width /\ ~(n <= n - 1)
    BY <2>2, <2>3, WidthType
  <2>5. AddressCount[n - 1] \in Nat \ {0}
    BY <2>1, <2>4
  <2>6. AddressCount[n] \in Nat \ {0}
    BY <2>2, <2>3, <2>5
  <2> QED
    BY <2>1, <2>6
<1> QED
  BY <1>1, <1>2

LEMMA AddressIsNumber == Addresses \subseteq Nat
<1>1. AddressCount[Width] \in Nat
  BY WidthType, AddressCountPositive
<1> QED
  BY <1>1 DEF Addresses

\* Two numbers have the same quotient exactly when one lies in the block of
\* the other.
LEMMA SameQuotient ==
    ASSUME NEW a \in Nat, NEW n \in Nat, NEW size \in Nat \ {0}
    PROVE  a \div size = n \div size <=> a \in n - (n % size) .. n - (n % size) + size - 1
<1>1. \A k \in Nat : /\ k = size * (k \div size) + (k % size)
                     /\ (k % size) \in 0 .. size - 1
                     /\ (k \div size) \in Int
  OBVIOUS
<1> DEFINE p == a \div size
           q == n \div size
<1>2. p \in Int /\ q \in Int /\ n - (n % size) = size * q
  BY <1>1
<1>3. a - size * p \in 0 .. size - 1 /\ size * p \in Int /\ size * q \in Int
  BY <1>1, <1>2
<1>4. CASE p = q
  BY <1>2, <1>3, <1>4
<1>5. CASE p < q
  <2>1. size * (p + 1) <= size * q
    BY <1>2, <1>5
  <2>2. size * p + size <= size * q
    BY <1>2, <2>1
  <2> QED
    BY <1>2, <1>3, <1>5, <2>2
<1>6. CASE p > q
  <2>1. size * (q + 1) <= size * p
    BY <1>2, <1>6
  <2>2. size * q + size <= size * p
    BY <1>2, <2>1
  <2> QED
    BY <1>2, <1>3, <1>6, <2>2
<1> QED
  BY <1>2, <1>4, <1>5, <1>6

-----------------------------------------------------------------------------
\* An address is in a network exactly when it is one of its addresses.
LEMMA InNetworkIsMembership ==
    ASSUME NEW a \in Nat, NEW net \in Networks
    PROVE  InNetwork(a, net) <=> a \in AddressesOf(Net(net[1], net[2]))
<1> DEFINE size == AddressCount[Width - net[2]]
           low == net[1] - (net[1] % size)
<1>1. net[1] \in Nat /\ Width - net[2] \in 0 .. Width
  BY WidthType DEF Networks
<1>2. size \in Nat \ {0}
  BY <1>1, AddressCountPositive
<1>3. InNetwork(a, net) <=> a \in low .. low + size - 1
  <2> HIDE DEF size
  <2>1. a \div size = net[1] \div size <=> a \in low .. low + size - 1
    BY <1>1, <1>2, SameQuotient
  <2> QED
    BY <2>1 DEF InNetwork, size
<1>4. AddressesOf(Net(net[1], net[2])) = low .. low + size - 1
  BY DEF AddressesOf, Net
<1> QED
  BY <1>3, <1>4

\* The places of the last k of n elements.
LEMMA SuffixIndices ==
    ASSUME NEW n \in Nat, NEW k \in Nat, NEW skip \in Nat, n > k, skip = n - k
    PROVE  /\ n = skip + k /\ n - (skip + 1) + 1 = k
           /\ (IF skip + 1 <= n THEN n - (skip + 1) + 1 ELSE 0) = k
           /\ skip + 1 \in Int /\ n \in Int
           /\ \A i \in skip + 1 .. n : i \in 1 .. n
           /\ \A i \in 1 .. k : (skip + 1) + i - 1 = skip + i
<1>1. n = skip + k /\ skip + 1 \in Int /\ n \in Int
  OBVIOUS
<1>2. n - (skip + 1) + 1 = k /\ (skip + 1 <= n \/ k = 0)
  OBVIOUS
<1>5. (IF skip + 1 <= n THEN n - (skip + 1) + 1 ELSE 0) = k
  BY <1>2
<1>3. \A i \in skip + 1 .. n : i \in 1 .. n
  OBVIOUS
<1>4. \A i \in 1 .. k : (skip + 1) + i - 1 = skip + i
  OBVIOUS
<1> QED
  BY <1>1, <1>2, <1>3, <1>4, <1>5

\* A sequence ends in a shorter one exactly when its last elements are the
\* shorter one's.
LEMMA SuffixByElements ==
    ASSUME NEW S, NEW s \in Seq(S), NEW T, NEW t \in Seq(T), Len(s) > Len(t)
    PROVE  SubSeq(s, Len(s) - Len(t) + 1, Len(s)) = t <=>
              \A i \in DOMAIN t : t[i] = s[Len(s) - Len(t) + i]
<1> DEFINE n == Len(s)
           k == Len(t)
<1>0. n \in Nat /\ k \in Nat /\ n > k
  OBVIOUS
<1>1. PICK skip \in Nat : skip = n - k
  <2> HIDE DEF n, k
  <2> QED
    BY <1>0
<1>2. PICK ending : ending = SubSeq(s, skip + 1, Len(s))
  OBVIOUS
<1>3. /\ n = skip + k /\ n - (skip + 1) + 1 = k
      /\ (IF skip + 1 <= n THEN n - (skip + 1) + 1 ELSE 0) = k
      /\ skip + 1 \in Int /\ n \in Int
      /\ \A i \in skip + 1 .. n : i \in 1 .. n
      /\ \A i \in 1 .. k : (skip + 1) + i - 1 = skip + i
  <2> HIDE DEF n, k
  <2> QED
    BY <1>0, <1>1, SuffixIndices
<1>4. /\ ending \in Seq(S) /\ Len(ending) = k
      /\ \A i \in 1 .. k : ending[i] = s[skip + i]
  <2>1. \A i \in skip + 1 .. n : s[i] \in S
    <3>1. \A i \in 1 .. n : s[i] \in S
      OBVIOUS
    <3> QED
      BY <1>3, <3>1
  <2>2. /\ ending \in Seq(S)
        /\ Len(ending) = IF skip + 1 <= n THEN n - (skip + 1) + 1 ELSE 0
        /\ \A i \in 1 .. n - (skip + 1) + 1 : ending[i] = s[(skip + 1) + i - 1]
    <3>1. skip + 1 \in Int /\ n \in Int /\ ending = SubSeq(s, skip + 1, n)
      BY <1>2, <1>3
    <3> HIDE DEF n, k
    <3> QED
      BY <2>1, <3>1, SubSeqProperties
  <2>3. Len(ending) = k
    <3>1. PICK l : l = Len(ending)
      OBVIOUS
    <3>2. l = IF skip + 1 <= n THEN n - (skip + 1) + 1 ELSE 0
      BY <2>2, <3>1
    <3> HIDE DEF n, k
    <3>3. l = k
      BY <1>3, <3>2
    <3> QED
      BY <3>1, <3>3
  <2>4. \A i \in 1 .. k : ending[i] = s[(skip + 1) + i - 1]
    <3> DEFINE m == n - (skip + 1) + 1
    <3>1. m = k /\ \A i \in 1 .. m : ending[i] = s[(skip + 1) + i - 1]
      BY <1>3, <2>2
    <3> HIDE DEF m, n, k
    <3> QED
      BY <3>1
  <2> HIDE DEF n, k
  <2>5. ASSUME NEW i \in 1 .. k PROVE ending[i] = s[skip + i]
    BY <1>3, <2>4
  <2> QED
    BY <2>2, <2>3, <2>5
<1>5. ending = [i \in 1 .. k |-> ending[i]]
  BY <1>4
<1>6. t = [i \in 1 .. k |-> t[i]] /\ DOMAIN t = 1 .. k
  OBVIOUS
<1> HIDE DEF n, k
<1>7. ending = t <=> \A i \in DOMAIN t : t[i] = s[skip + i]
  BY <1>4, <1>5, <1>6
<1> QED
  BY <1>1, <1>2, <1>7 DEF n, k

\* An entry of the scope matches an address that it stands for.
LEMMA MatchIsMembership ==
    ASSUME NEW byName, byName.form = "ip", IsEntry(byName), NEW e, IsEntry(e)
    PROVE  MatchesEntry(byName, e) <=> byName.value \in AddressesOf(e)
<1>1. byName = Ip(byName.value) /\ byName.value \in Nat /\ byName.value \in Addresses
  BY AddressIsNumber DEF IsEntry
<1>2. CASE e.form = "ip"
  <2>1. e = Ip(e.value) /\ AddressesOf(e) = {e.value}
    BY <1>2 DEF IsEntry, AddressesOf
  <2>2. byName = e <=> byName.value = e.value
    BY <1>1, <2>1 DEF Ip
  <2> QED
    BY <1>2, <2>1, <2>2 DEF MatchesEntry
<1>3. CASE e.form = "net"
  <2>1. e.value \in Networks
    BY <1>3 DEF IsEntry
  <2>2. AddressesOf(e) = AddressesOf(Net(e.value[1], e.value[2]))
    BY <1>3 DEF AddressesOf, Net
  <2>3. byName # e
    BY <1>3
  <2> QED
    BY <1>1, <1>3, <2>1, <2>2, <2>3, InNetworkIsMembership DEF MatchesEntry
<1>4. CASE e.form = "name"
  <2>1. byName # e /\ AddressesOf(e) = {}
    BY <1>4 DEF AddressesOf
  <2> QED
    BY <1>4, <2>1 DEF MatchesEntry
<1>5. CASE e.form = "wild"
  <2> DEFINE text == [i \in 1 .. Octets |-> Octet(byName.value, i)]
             labels == e.value
  <2>1. labels \in Seq(Nat) /\ Octets \in Nat /\ byName # e
    BY <1>5, ScopeAssumption DEF IsEntry, ScopeAssumption
  <2>0. PICK octets : \A i \in 1 .. Octets : Octet(byName.value, i) \in octets
    <3> WITNESS {Octet(byName.value, i) : i \in 1 .. Octets}
    <3> QED
      OBVIOUS
  <2>2. text \in Seq(octets) /\ Len(text) = Octets
    <3>1. text \in [1 .. Octets -> octets]
      BY <2>0
    <3> HIDE DEF text
    <3> QED
      BY <2>1, <3>1
  <2>3. MatchesEntry(byName, e) <=>
            /\ Len(text) - Len(labels) > 0
            /\ SubSeq(text, Len(text) - Len(labels) + 1, Len(text)) = labels
    BY <1>5, <2>1 DEF MatchesEntry, Dotted
  <2>4. byName.value \in AddressesOf(e) <=>
            /\ Len(labels) < Octets
            /\ \A i \in DOMAIN labels :
                  labels[i] = Octet(byName.value, Octets - Len(labels) + i)
    BY <1>1, <1>5 DEF AddressesOf
  <2>5. ASSUME Len(labels) < Octets
        PROVE  SubSeq(text, Len(text) - Len(labels) + 1, Len(text)) = labels <=>
                  \A i \in DOMAIN labels :
                      labels[i] = Octet(byName.value, Octets - Len(labels) + i)
    <3>1. Len(text) > Len(labels) /\ Len(labels) \in Nat
      BY <2>1, <2>2, <2>5
    <3>2. SubSeq(text, Len(text) - Len(labels) + 1, Len(text)) = labels <=>
              \A i \in DOMAIN labels : labels[i] = text[Len(text) - Len(labels) + i]
      <4> HIDE DEF text, labels
      <4> QED
        BY <2>1, <2>2, <3>1, SuffixByElements
    <3>3. \A i \in DOMAIN labels : Len(text) - Len(labels) + i \in 1 .. Octets
      <4>1. DOMAIN labels = 1 .. Len(labels)
        BY <2>1
      <4> QED
        BY <2>1, <2>2, <3>1, <4>1
    <3>4. \A i \in DOMAIN labels :
              text[Len(text) - Len(labels) + i] = Octet(byName.value, Octets - Len(labels) + i)
      BY <2>2, <3>3
    <3> HIDE DEF text, labels
    <3> QED
      BY <3>2, <3>4
  <2>6. Len(text) - Len(labels) > 0 <=> Len(labels) < Octets
    BY <2>1, <2>2
  <2> HIDE DEF text, labels
  <2> QED
    BY <2>3, <2>4, <2>5, <2>6
<1> QED
  BY <1>2, <1>3, <1>4, <1>5 DEF IsEntry

\* Seven checks and a first that failed: the verdict is "all_passed" exactly
\* when nothing is forbidden, nothing raises and every check passes.
LEMMA AllPassed ==
    ASSUME NEW call
    PROVE  Validation(call) = "all_passed" <=>
              /\ ~ForbiddenAction(call) /\ ~PortsRaise(call) /\ ~TimeRaises
              /\ TargetInScope(call) /\ ~TargetExcluded(call) /\ ~TargetForbidden(call)
              /\ PortInScope(call) /\ InTimeWindow /\ LevelAllowed(call) /\ ToolAllowed(call)
<1> DEFINE refusing == {i \in DOMAIN Checks : ~Passes(call)[Checks[i]]}
<1>1. DOMAIN Checks = 1 .. 7
  BY DEF Checks
<1>2. refusing = {} <=>
          /\ TargetInScope(call) /\ ~TargetExcluded(call) /\ ~TargetForbidden(call)
          /\ PortInScope(call) /\ InTimeWindow /\ LevelAllowed(call) /\ ToolAllowed(call)
  <2>1. refusing = {} <=> \A i \in 1 .. 7 : Passes(call)[Checks[i]]
    BY <1>1
  <2>2. \A i \in 1 .. 7 : i = 1 \/ i = 2 \/ i = 3 \/ i = 4 \/ i = 5 \/ i = 6 \/ i = 7
    OBVIOUS
  <2>3. /\ Passes(call)[Checks[1]] <=> TargetInScope(call)
        /\ Passes(call)[Checks[2]] <=> ~TargetExcluded(call)
        /\ Passes(call)[Checks[3]] <=> ~TargetForbidden(call)
        /\ Passes(call)[Checks[4]] <=> PortInScope(call)
        /\ Passes(call)[Checks[5]] <=> InTimeWindow
        /\ Passes(call)[Checks[6]] <=> LevelAllowed(call)
        /\ Passes(call)[Checks[7]] <=> ToolAllowed(call)
    BY DEF Passes, Checks
  <2>4. (\A i \in 1 .. 7 : Passes(call)[Checks[i]]) <=>
            /\ Passes(call)[Checks[1]] /\ Passes(call)[Checks[2]] /\ Passes(call)[Checks[3]]
            /\ Passes(call)[Checks[4]] /\ Passes(call)[Checks[5]] /\ Passes(call)[Checks[6]]
            /\ Passes(call)[Checks[7]]
    BY <2>2
  <2> QED
    BY <2>1, <2>3, <2>4
<1>3. CASE refusing = {}
  BY <1>2, <1>3 DEF Validation
<1>4. CASE refusing # {}
  <2>1. PICK n \in refusing : \A k \in refusing : n <= k
    <3>1. refusing \in SUBSET Nat
      BY <1>1
    <3> QED
      BY <1>4, <3>1, LeastNumber
  <2> DEFINE first == CHOOSE i \in refusing : \A k \in refusing : i <= k
  <2>2. first \in 1 .. 7
    BY <1>1, <2>1
  <2>3. \A i \in 1 .. 7 : Checks[i] # "all_passed"
    BY DEF Checks
  <2>4. Validation(call) = "forbidden_actions" \/ Validation(call) = "raised" \/ Validation(call) = Checks[first]
    BY <1>4, Zenon DEF Validation
  <2>5. Validation(call) # "all_passed"
    <3> HIDE DEF first
    <3> QED
      BY <2>2, <2>3, <2>4
  <2> QED
    BY <1>2, <1>4, <2>5
<1> QED
  BY <1>3, <1>4

-----------------------------------------------------------------------------
\* The reference by which AllowedIsWithinScope judges a verdict.
WithinScope(call, time) ==
    /\ call.target.value \in Covered(scope.include)
            \ (Covered(scope.exclude)
                \cup Covered({Net(n[1], n[2]) : n \in ForbiddenNets}))
    /\ call.port = NoPort \/
         /\ call.port \in 1 .. MaxPort \ scope.portsExclude
         /\ \E p \in scope.ports : call.port \in p[1] .. p[2]
         /\ ~scope.portsBroken
    /\ \/ scope.start = NoTime
       \/ scope.start <= time /\ "start" \notin scope.naive
    /\ \/ scope.end = NoTime
       \/ time <= scope.end /\ "end" \notin scope.naive
    /\ \E l \in 0 .. scope.maxLevel : <<call.tool, l>> \in
            {<<t, LevelOf[t]>> : t \in DOMAIN LevelOf}
    /\ scope.tools # {} => call.tool \in scope.tools
    /\ \A i \in DOMAIN Patterns :
         \/ Patterns[i].action \notin scope.forbiddenActions
         \/ call.tool \notin Patterns[i].tools
         \/ Patterns[i].marker \notin call.arguments

\* An address is covered by entries exactly when one of them matches it,
LEMMA CoveredIsMatched ==
    ASSUME NEW byName, byName.form = "ip", IsEntry(byName),
           NEW entries, \A e \in entries : IsEntry(e)
    PROVE  byName.value \in Covered(entries) <=> \E e \in entries : MatchesEntry(byName, e)
<1>1. byName.value \in Covered(entries) <=> \E e \in entries : byName.value \in AddressesOf(e)
  BY DEF Covered
<1> QED
  BY <1>1, MatchIsMembership

\* so the three checks of a target say what they should,
LEMMA TargetsJudged ==
    ASSUME scope \in Scopes, NEW call \in Calls, call.target.form = "ip"
    PROVE  /\ TargetInScope(call) <=> call.target.value \in Covered(scope.include)
           /\ TargetExcluded(call) <=> call.target.value \in Covered(scope.exclude)
           /\ TargetForbidden(call) <=>
                  call.target.value \in Covered({Net(n[1], n[2]) : n \in ForbiddenNets})
<1>1. /\ IsEntry(call.target) /\ ForbiddenNets \subseteq Networks
      /\ \A e \in scope.include : IsEntry(e)
      /\ \A e \in scope.exclude : IsEntry(e)
  BY ScopeAssumption DEF ScopeAssumption, IsScope
<1>2. TargetForbidden(call) <=>
          \E n \in ForbiddenNets : call.target.value \in AddressesOf(Net(n[1], n[2]))
  <2>1. call.target.value \in Nat
    BY <1>1, AddressIsNumber DEF IsEntry
  <2>2. TargetForbidden(call) <=> \E n \in ForbiddenNets : InNetwork(call.target.value, n)
    BY DEF TargetForbidden, IsIpAddress
  <2> QED
    BY <1>1, <2>1, <2>2, InNetworkIsMembership
<1>3. call.target.value \in Covered({Net(n[1], n[2]) : n \in ForbiddenNets}) <=>
          \E n \in ForbiddenNets : call.target.value \in AddressesOf(Net(n[1], n[2]))
  BY DEF Covered
<1> QED
  BY <1>1, <1>2, <1>3, CoveredIsMatched DEF TargetInScope, TargetExcluded

\* as does the one of a port,
LEMMA PortsJudged ==
    ASSUME scope \in Scopes, NEW call \in Calls
    PROVE  ~PortsRaise(call) /\ PortInScope(call) <=>
              call.port = NoPort \/
                 /\ call.port \in 1 .. MaxPort \ scope.portsExclude
                 /\ \E p \in scope.ports : call.port \in p[1] .. p[2]
                 /\ ~scope.portsBroken
<1>1. /\ call.port \in Int /\ MaxPort \in Nat /\ scope.ports \subseteq Int \X Int
      /\ scope.portsBroken \in BOOLEAN
  BY ScopeAssumption DEF ScopeAssumption, IsScope
<1>2. ASSUME NEW p \in scope.ports
      PROVE  call.port \in (IF p[1] > 1 THEN p[1] ELSE 1) .. (IF p[2] < MaxPort THEN p[2] ELSE MaxPort)
                <=> call.port \in 1 .. MaxPort /\ call.port \in p[1] .. p[2]
  BY <1>1
<1>3. call.port \in ParsedPorts(scope.ports) <=>
          call.port \in 1 .. MaxPort /\ \E p \in scope.ports : call.port \in p[1] .. p[2]
  BY <1>2 DEF ParsedPorts
<1> QED
  BY <1>3 DEF PortsRaise, PortInScope

\* and a call passes exactly when it is within the scope.
LEMMA VerdictIsTrue ==
    ASSUME scope \in Scopes, clock \in 0 .. 2, NEW call \in Calls, call.target.form = "ip"
    PROVE  Validation(call) = "all_passed" <=> WithinScope(call, clock)
<1>1. ~TimeRaises /\ InTimeWindow <=>
          /\ \/ scope.start = NoTime
             \/ scope.start <= clock /\ "start" \notin scope.naive
          /\ \/ scope.end = NoTime
             \/ clock <= scope.end /\ "end" \notin scope.naive
  BY ScopeAssumption DEF ScopeAssumption, IsScope, InTimeWindow, TimeRaises
<1>2. LevelAllowed(call) <=>
          \E l \in 0 .. scope.maxLevel :
              <<call.tool, l>> \in {<<t, LevelOf[t]>> : t \in DOMAIN LevelOf}
  BY ScopeAssumption DEF ScopeAssumption, IsScope, LevelAllowed
<1>3. ForbiddenAction(call) <=>
          ~(\A i \in DOMAIN Patterns :
                \/ Patterns[i].action \notin scope.forbiddenActions
                \/ call.tool \notin Patterns[i].tools
                \/ Patterns[i].marker \notin call.arguments)
  BY DEF ForbiddenAction
<1>4. ToolAllowed(call) <=> (scope.tools # {} => call.tool \in scope.tools)
  BY DEF ToolAllowed
<1> QED
  BY <1>1, <1>2, <1>3, <1>4, AllPassed, TargetsJudged, PortsJudged DEF WithinScope

\* No more is needed: a verdict depends on the scope and the clock alone.
ScopeInv == ScopeTypeOK /\ AllowedIsWithinScope

LEMMA ScopeInitially == ScopeInit => ScopeInv
  BY DEF ScopeInit, ScopeInv, ScopeTypeOK, AllowedIsWithinScope

\* A verdict is one of those there are.
LEMMA VerdictIsOne == ASSUME NEW call PROVE Validation(call) \in Verdicts
<1> DEFINE refusing == {i \in DOMAIN Checks : ~Passes(call)[Checks[i]]}
<1>1. CASE refusing = {}
  BY <1>1 DEF Validation, Verdicts
<1>2. CASE refusing # {}
  <2> DEFINE first == CHOOSE i \in refusing : \A k \in refusing : i <= k
  <2>1. refusing \in SUBSET Nat
    BY DEF Checks
  <2>2. first \in DOMAIN Checks
    BY <1>2, <2>1, LeastNumber
  <2>3. Checks[first] \in Verdicts
    <3> HIDE DEF first
    <3> QED
      BY <2>2 DEF Verdicts
  <2>4. "forbidden_actions" \in Verdicts /\ "raised" \in Verdicts
    BY DEF Verdicts
  <2>5. Validation(call) = "forbidden_actions" \/ Validation(call) = "raised" \/ Validation(call) = Checks[first]
    BY <1>2, Zenon DEF Validation
  <2> HIDE DEF first
  <2> QED
    BY <2>3, <2>4, <2>5
<1> QED
  BY <1>1, <1>2

\* Every step keeps ScopeInv.
LEMMA ScopeKept == ScopeInv /\ [ScopeNext]_scopeVars => ScopeInv'
<1> SUFFICES ASSUME ScopeInv, [ScopeNext]_scopeVars PROVE ScopeInv'
  OBVIOUS
<1>1. ASSUME NEW call \in Calls, Validate(call) PROVE ScopeInv'
  <2> DEFINE v == [call |-> call, time |-> clock, verdict |-> Validation(call)]
  <2>1. last' = {v} /\ scope' = scope /\ clock' = clock /\ scope \in Scopes /\ clock \in 0 .. 2
    BY <1>1 DEF Validate, ScopeInv, ScopeTypeOK
  <2>2. ScopeTypeOK'
    BY <2>1, VerdictIsOne DEF ScopeTypeOK
  <2>3. ASSUME call.target.form = "ip"
        PROVE  Validation(call) = "all_passed" <=> WithinScope(call, clock)
    BY <2>1, <2>3, VerdictIsTrue
  <2>4. AllowedIsWithinScope'
    <3>1. AllowedIsWithinScope' <=>
              \A w \in last' : w.call.target.form = "ip" =>
                  (w.verdict = "all_passed" <=> WithinScope(w.call, w.time)')
      BY DEF AllowedIsWithinScope, WithinScope
    <3>2. ASSUME NEW w \in last', w.call.target.form = "ip"
          PROVE  w.verdict = "all_passed" <=> WithinScope(w.call, w.time)'
      <4>1. w = v /\ w.call = call /\ w.time = clock /\ w.verdict = Validation(call)
        BY <2>1, <3>2
      <4>2. WithinScope(w.call, w.time)' <=> WithinScope(call, clock)
        BY <2>1, <4>1 DEF WithinScope, Covered
      <4> QED
        BY <2>3, <3>2, <4>1, <4>2
    <3> QED
      BY <3>1, <3>2
  <2> QED
    BY <2>2, <2>4 DEF ScopeInv
<1>2. CASE ScopeTick
  <2>1. scope' = scope /\ last' = last /\ clock' \in 0 .. 2
    BY <1>2 DEF ScopeTick, ScopeInv, ScopeTypeOK
  <2> QED
    BY <2>1 DEF ScopeInv, ScopeTypeOK, AllowedIsWithinScope, Covered
<1>3. CASE UNCHANGED scopeVars
  BY <1>3 DEF scopeVars, ScopeInv, ScopeTypeOK, AllowedIsWithinScope, Covered
<1> QED
  BY <1>1, <1>2, <1>3 DEF ScopeNext

\* A call to an address passes exactly when the scope allows it in every
\* respect, for every scope, call and width of addresses
\* (ScopeValidator.validate and the checks of scope_checks.py).
THEOREM AllowedIsWithinScopeCorrect == ScopeSpec => []AllowedIsWithinScope
<1>1. ScopeInv => AllowedIsWithinScope
  BY DEF ScopeInv
<1> QED
  BY ScopeInitially, ScopeKept, <1>1, PTL DEF ScopeSpec

-----------------------------------------------------------------------------
(***************************************************************************)
(* MCServices: the components side by side.                                *)
(***************************************************************************)

\* The invariants of the components.
MCServicesInv ==
    /\ VerifyInv /\ SessionsInv /\ AccountsInv /\ OtherTypes /\ SocketsInv
    /\ ConfigInv /\ LimitsInv /\ CompareInv /\ ResultsInv
    /\ ScopeInv

\* A step is of one component or of none.
LEMMA StepOfOne ==
    [MCNext]_mcVars =>
        /\ [VerifyNext]_statusVars /\ [SessionsNext]_sessionVars
        /\ [AccountsNext]_accountVars /\ [WebSocketsNext]_socketVars
        /\ [ConfigNext]_configVars /\ [MiddlewareNext \/ LoginNext]_limitVars
        /\ [CompareNext]_compareVars /\ [ResultsNext]_resultVars
        /\ [ScopeNext]_scopeVars
<1>1. MCNext =>
        /\ [VerifyNext]_statusVars /\ [SessionsNext]_sessionVars
        /\ [AccountsNext]_accountVars /\ [WebSocketsNext]_socketVars
        /\ [ConfigNext]_configVars
        /\ [CompareNext]_compareVars /\ [ResultsNext]_resultVars
        /\ [ScopeNext]_scopeVars
  BY Zenon DEF MCNext
<1>2. MCNext => [MiddlewareNext \/ LoginNext]_limitVars
  BY Zenon DEF MCNext
<1>3. UNCHANGED mcVars =>
        /\ UNCHANGED statusVars /\ UNCHANGED sessionVars /\ UNCHANGED accountVars
        /\ UNCHANGED socketVars /\ UNCHANGED configVars /\ UNCHANGED limitVars
        /\ UNCHANGED compareVars /\ UNCHANGED resultVars /\ UNCHANGED scopeVars
  BY DEF mcVars
<1>. QED
  BY <1>1, <1>2, <1>3

(* The components of MCServices side by side keep their types; no address  *)
(* gets two accounts (register, the UNIQUE on users.email), no target two  *)
(* rows (authorize_target), for every value of the constants the runs fix. *)
THEOREM MCInvariantCorrect == MCSpec => []MCInvariant
<1>1. MCInit => MCServicesInv
  <2>1. MCInit => /\ VerifyInv /\ SessionsInv /\ AccountsInv /\ OtherTypes /\ SocketsInv
                  /\ ConfigInv
    BY VerifyInitially, SessionsInitInv, AccountsInitInv, OtherTypesInitially,
       SocketsInitially, ConfigInitInv DEF MCInit
  <2>2. MCInit => LimitsInv /\ CompareInv /\ ResultsInv /\ ScopeInv
    BY LimitsInitially, CompareInitially, ResultsInitially, ScopeInitially
       DEF MCInit
  <2>. QED
    BY <2>1, <2>2 DEF MCServicesInv
<1>2. MCServicesInv /\ [MCNext]_mcVars => MCServicesInv'
  <2>. SUFFICES ASSUME MCServicesInv, [MCNext]_mcVars PROVE MCServicesInv'
    OBVIOUS
  <2>1. /\ [VerifyNext]_statusVars /\ [SessionsNext]_sessionVars
        /\ [AccountsNext]_accountVars /\ [WebSocketsNext]_socketVars
        /\ [ConfigNext]_configVars /\ [MiddlewareNext \/ LoginNext]_limitVars
        /\ [CompareNext]_compareVars /\ [ResultsNext]_resultVars
        /\ [ScopeNext]_scopeVars
    BY StepOfOne
  <2>2. VerifyInv' /\ SessionsInv'
    BY <2>1, VerifyKept, SessionsStep, Zenon DEF MCServicesInv
  <2>3. AccountsInv' /\ OtherTypes'
    BY <2>1, AccountsStep, OtherTypesKept, Zenon DEF MCServicesInv
  <2>4. SocketsInv' /\ ConfigInv'
    BY <2>1, SocketsKept, ConfigStep, Zenon DEF MCServicesInv
  <2>5. LimitsInv' /\ CompareInv' /\ ResultsInv'
    BY <2>1, LimitsKept, CompareKept, ResultsKept, Zenon DEF MCServicesInv
  <2>6. ScopeInv'
    BY <2>1, ScopeKept, Zenon DEF MCServicesInv
  <2>. QED
    BY <2>2, <2>3, <2>4, <2>5, <2>6 DEF MCServicesInv
<1>3. MCServicesInv => MCInvariant
  <2>. SUFFICES ASSUME MCServicesInv PROVE MCInvariant
    OBVIOUS
  <2>1. /\ VerifyTypeOK /\ SessionsTypeOK /\ AccountsTypeOK /\ WebSocketsTypeOK
        /\ ConfigTypeOK
    BY AccountsTyped DEF MCServicesInv, ConfigInv, VerifyInv, SessionsInv, SocketsInv
  <2>2. LimitsTypeOK /\ CompareTypeOK /\ ResultsTypeOK /\ ScopeTypeOK
    BY DEF MCServicesInv, LimitsInv, CompareInv, ResultsInv, ScopeInv
  <2>3. OneAccountPerMail /\ OneRowPerTarget
    BY OneAccount DEF MCServicesInv, ConfigInv, TablesAgree, OneRowIn, OneRowPerTarget
  <2>. QED
    BY <2>1, <2>2, <2>3 DEF MCInvariant, MCTypeOK
<1>. QED
  BY <1>1, <1>2, <1>3, PTL DEF MCSpec

=============================================================================
