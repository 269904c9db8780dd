------------------------------- MODULE MCData -------------------------------
(***************************************************************************)
(* Small instances for TLC of the components that keep rows in the         *)
(* database: the deletions, the file itself, the settings and the chat.    *)
(* None calls another and each has its own tables, but for chat_messages:  *)
(* Chat looks at the order of its rows, DataDeletion, which has the chat's *)
(* statements among its requests, at whether a scan has any.  So a         *)
(* behaviour is one of one component, the part, while the others stay in   *)
(* an initial state.                                                       *)
(***************************************************************************)
EXTENDS DataDeletion, DatabaseFile, Settings, Chat, TLC

\* Model values that definitions below refer to.
CONSTANTS s1, s2, t1, t2

VARIABLE part

mcVars == <<part, dataVars, fileVars, settingsVars, chatVars>>

\* One scan with rows, old and ended, and one that is about to run.
MCStored == s1 :> {"scan_jobs", "findings", "scan_phases", "chat_messages"}
            @@ s2 :> {}
MCWritten == <<"scan_jobs", "scan_phases", "discovered_hosts">>

\* A version of one statement, one of two, one that writes a row.
MCMigrations == << <<"ddl">>, <<"ddl", "ddl">>, <<"ddl", "row">> >>
MCBase == {<<1, 1>>, <<2, 1>>}

MCSeedName == "quick" :> "Quick Scan"

\* One message about a scan, one about none.
MCScanOf == t1 :> s1 @@ t2 :> NoScan

MCInit ==
    /\ part \in {"deletion", "file", "settings", "chat"}
    /\ DataInit /\ FileInit /\ SettingsInit /\ ChatInit
    /\ part # "file" => file.version = 0 /\ backups = <<>>
    /\ part # "chat" => ~provider

\* Of a purge, a deletion and another request any two run at the same time.
TwoAtMost ==
    \/ \A d \in DeleteReqs : fate'[d] = "idle"
    \/ \A d \in PurgeReqs : fate'[d] = "idle"
    \/ \A r \in Requests : request'[r] = "idle"

MCNext ==
    /\ UNCHANGED part
    /\ IF part = "deletion" THEN DataNext /\ TwoAtMost ELSE UNCHANGED dataVars
    /\ IF part = "file" THEN FileNext ELSE UNCHANGED fileVars
    /\ IF part = "settings" THEN SettingsNext ELSE UNCHANGED settingsVars
    /\ IF part = "chat" THEN ChatNext ELSE UNCHANGED chatVars

(* The fairness of the components, each in its part: DataFairness,         *)
(* FileFairness and ChatFairness.                                          *)
MCFairness ==
    /\ WF_dataVars(part = "deletion" /\ (FinishRetention \/ RetentionFails))
    /\ \A d \in Deletions : WF_dataVars(part = "deletion" /\ DeletionStep(d))
    /\ \A s \in Scans : WF_dataVars(part = "deletion" /\ WriterStep(s))
    /\ \A r \in Requests : WF_dataVars(part = "deletion" /\ CommitRequest(r))
    /\ WF_fileVars(part = "file" /\ Starting)
    /\ WF_fileVars(part = "file" /\ Restoring)
    /\ \A t \in Turns : WF_chatVars(part = "chat" /\ Work(t))

MCSpec == MCInit /\ [][MCNext]_mcVars /\ MCFairness

MCTypeOK == DataTypeOK /\ FileTypeOK /\ SettingsTypeOK /\ ChatTypeOK

(* The types of the components, and what bounds the chat: a turn deals     *)
(* with no more tool calls than it may, however the agent spreads them     *)
(* over its answers (_run_tool_loop).                                      *)
MCInvariant == MCTypeOK /\ ToolsBounded
=============================================================================
