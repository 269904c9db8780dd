-------------------------- MODULE KillVerification --------------------------
(***************************************************************************)
(* GET /api/v1/kill/status (api/kill_verification_routes.py): five facts   *)
(* about a kill, read one after the other, and their conjunction           *)
(* all_verified; against the requests of ScanRequests that kill, reset,    *)
(* cancel, delete and start or stop the sandbox, and scans that begin and  *)
(* end.                                                                    *)
(*                                                                         *)
(* The first two facts are read without an await in between (the list of   *)
(* sandboxes is a blocking subprocess.run), the third in an executor, the  *)
(* last two from the database.  A fact that is false settles the answer;   *)
(* the facts read after it change nothing and are not followed.            *)
(***************************************************************************)
EXTENDS ScanRequests

CONSTANT StatusReqs     \* the GET /api/v1/kill/status requests sent

VARIABLES
    fact,       \* fact[v]: the fact request v reads next, or its answer
    calm        \* calm[v]: since v was sent nobody cleared the flag or
                \* created a sandbox, and openshell did not time out on it
                \* (history)

verifyVars == <<fact, calm>>
statusVars == <<repoVars, killVars, requestVars, verifyVars>>

Answers == {"verified", "unverified"}

VerifyTypeOK ==
    /\ RepoTypeOK /\ KillTypeOK /\ RequestTypeOK
    /\ fact \in [StatusReqs -> {"sent", "network", "scans", "audit"} \cup Answers]
    /\ calm \in [StatusReqs -> BOOLEAN]

VerifyInit ==
    /\ RepoInit /\ KillInit /\ RequestInit
    /\ fact = [v \in StatusReqs |-> "sent"]
    /\ calm = [v \in StatusReqs |-> TRUE]

ReadFact(v, from, holds, next) ==
    /\ fact[v] = from
    /\ fact' = [fact EXCEPT ![v] = IF holds THEN next ELSE "unverified"]

Untouched == UNCHANGED <<repoVars, killVars, requestVars>>

-----------------------------------------------------------------------------
(* _check_kill_active and _check_containers_stopped: a gateway that does   *)
(* not answer, a missing CLI and a timeout all count as stopped.           *)
ReadFlagAndContainers(v) ==
    /\ \E reachable \in BOOLEAN :
         ReadFact(v, "sent", killFlag["api"] /\ (reachable => sandbox = "absent"),
              "network")
    /\ Untouched /\ UNCHANGED calm

\* Mutant: a list that fails is no obstacle here either.
ReadNetworkLeniently(v) ==
    /\ \E listed \in BOOLEAN :
         ReadFact(v, "network", listed => sandbox = "absent", "scans")
    /\ Untouched /\ UNCHANGED calm

(* _check_sandbox_absent: a gateway that does not answer is "not blocked"  *)
(* here, but a missing CLI or a timeout is "blocked", whatever the sandbox *)
(* does.                                                                   *)
ReadNetwork(v) ==
    /\ \/ \E listed \in BOOLEAN :
            /\ ReadFact(v, "network", listed /\ sandbox = "absent", "scans")
            /\ UNCHANGED calm
       \/ /\ ReadFact(v, "network", TRUE, "scans")
          /\ calm' = [calm EXCEPT ![v] = FALSE]
    /\ Untouched

(* _check_scans_killed: no row is RUNNING; an error is "not killed".       *)
ReadScans(v) ==
    /\ ReadFact(v, "scans", HasStatus("running") = {}, "audit")
    /\ Untouched /\ UNCHANGED calm

(* _check_audit_logged: some kill was audited, this one or an earlier one. *)
ReadAudit(v) ==
    /\ ReadFact(v, "audit", <<"kill.activated", NoJob>> \in audit, "verified")
    /\ Untouched /\ UNCHANGED calm

GetKillStatus(v) ==
    \/ ReadFlagAndContainers(v) \/ ReadNetwork(v) \/ ReadScans(v) \/ ReadAudit(v)

-----------------------------------------------------------------------------
(* The rest of the system: requests, and the rows of scans.                *)

\* The calm of the requests sent so far ends when the kill is undone.
Disturbs == \/ killFlag["api"] /\ ~killFlag'["api"]
            \/ sandbox = "absent" /\ sandbox' = "ready"

KeepsCalm == calm' = [v \in StatusReqs |->
                        calm[v] /\ (fact[v] # "sent" => ~Disturbs)]

OtherRequest ==
    /\ \/ \E r \in Requests : SendRequest(r) \/ RequestStep(r)
       \/ StartSandboxRequest
       \/ StopSandboxRequest
    /\ KeepsCalm
    /\ UNCHANGED fact

(* Scan tasks, as far as these checks see them: rows appear, begin to run  *)
(* (also after a kill, when the update was on its way) and end.            *)
ScanRows(j) ==
    /\ \/ Create(j)
       \/ job[j].status = "pending" /\ SetStatus(j, "running")
       \/ job[j].status = "running" /\ SetStatus(j, "completed")
    /\ UNCHANGED <<audit, killVars, requestVars, verifyVars>>

VerifyNext ==
    \/ \E v \in StatusReqs : GetKillStatus(v)
    \/ OtherRequest
    \/ \E j \in Jobs : ScanRows(j)

VerifySpec == VerifyInit /\ [][VerifyNext]_statusVars

-----------------------------------------------------------------------------
(* get_kill_status, docstring: it says whether a kill is fully effective.  *)
(* all_verified = true, put together from facts of different moments,      *)
(* means that a kill was answered for, and, unless someone has undone it   *)
(* since, or openshell timed out, that the flag still is up and the        *)
(* sandbox still away.                                                     *)
VerifiedHolds ==
    \A v \in StatusReqs : fact[v] = "verified" =>
        /\ \E r \in Killers : rpc[r] = "done"
        /\ calm[v] => killFlag["api"] /\ sandbox = "absent"
=============================================================================
