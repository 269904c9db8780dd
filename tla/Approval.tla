------------------------------ MODULE Approval ------------------------------
(***************************************************************************)
(* The approval of a scan at a high escalation level: the orchestrator     *)
(* stores a request and polls it (shared/approval_service.py), while       *)
(* administrators decide and list requests (api/approval_routes.py) and    *)
(* the GDPR deletion empties the table.  All are coroutines of the API     *)
(* process, an action is what one does between two awaits.                 *)
(*                                                                         *)
(* Two clocks run: expires_at, computed from the timeout setting when the  *)
(* request is stored, and the poll loop's deadline, computed from the      *)
(* timeout as it was when the module was imported.  Neither implies the    *)
(* other.                                                                  *)
(***************************************************************************)
CONSTANTS
    Approvals,      \* the calls of check_and_request_approval
    BelowThreshold, \* those below agent_approval_required_level
    Approvers,      \* PUT /approvals/{id}/approve requests
    Rejecters,      \* PUT /approvals/{id}/reject requests
    Listers,        \* GET /approvals requests
    NoApproval

ASSUME ApprovalAssumption ==
    /\ BelowThreshold \subseteq Approvals
    /\ Approvers \cap Rejecters = {}
    /\ NoApproval \notin Approvals

Deciders == Approvers \cup Rejecters

VARIABLES
    status,     \* status[a]: the approval_requests row
    late,       \* the requests whose expires_at has passed
    waiter,     \* waiter[a]: where the orchestrator's check is
    overdue,    \* the checks whose deadline has passed
    decider,    \* decider[d]: where the decision request is
    decides,    \* decides[d]: the approval request it decides
    lister,     \* lister[l]: where the list request is
    listed,     \* listed[l]: the rows it has yet to mark expired
    log         \* the audit entries <<action, approval>>

waitVars == <<waiter, overdue>>
decideVars == <<decider, decides>>
listVars == <<lister, listed>>
vars == <<status, late, waitVars, decideVars, listVars, log>>

Decision == {"approved", "rejected"}
Statuses == {"none", "pending", "expired", "deleted"} \cup Decision

TypeOK ==
    /\ status \in [Approvals -> Statuses]
    /\ late \subseteq Approvals
    /\ waiter \in [Approvals -> {"start", "poll", "granted", "denied", "crashed"}]
    /\ overdue \subseteq Approvals
    /\ decider \in [Deciders -> {"sent", "write", "log", "done", "refused",
                                 "lost", "unlogged"}]
    /\ decides \in [Deciders -> Approvals \cup {NoApproval}]
    /\ lister \in [Listers -> {"sent", "expire", "done"}]
    /\ listed \in [Listers -> SUBSET Approvals]
    /\ log \subseteq (Decision \X Approvals)

Init ==
    /\ status = [a \in Approvals |-> "none"]
    /\ late = {}
    /\ waiter = [a \in Approvals |-> "start"]
    /\ overdue = {}
    /\ decider = [d \in Deciders |-> "sent"]
    /\ decides = [d \in Deciders |-> NoApproval]
    /\ lister = [l \in Listers |-> "sent"]
    /\ listed = [l \in Listers |-> {}]
    /\ log = {}

Exists(a) == status[a] \notin {"none", "deleted"}

\* UPDATE approval_requests SET status = s WHERE id = a
SetStatus(a, s) ==
    status' = IF Exists(a) THEN [status EXCEPT ![a] = s] ELSE status

-----------------------------------------------------------------------------
(* check_and_request_approval: free below the threshold, else the request  *)
(* is stored, and wait_for_approval begins.  Its one caller passes the     *)
(* scan's level as the highest allowed one, so that the branch for a level *)
(* beyond the scope is never taken.                                        *)
CheckAndRequest(a) ==
    /\ waiter[a] = "start"
    /\ IF a \in BelowThreshold
       THEN /\ waiter' = [waiter EXCEPT ![a] = "granted"]
            /\ UNCHANGED status
       ELSE /\ waiter' = [waiter EXCEPT ![a] = "poll"]
            /\ status' = [status EXCEPT ![a] = "pending"]
    /\ UNCHANGED <<late, overdue, decideVars, listVars, log>>

Returns(a, how) ==
    /\ waiter' = [waiter EXCEPT ![a] = how]
    /\ UNCHANGED <<status, late, overdue, decideVars, listVars, log>>

\* Mutant: every status but pending ends the loop, an expiry included.
PollExpired(a) ==
    /\ waiter[a] = "poll"
    /\ a \notin overdue
    /\ \/ status[a] = "approved" /\ Returns(a, "granted")
       \/ status[a] \in {"rejected", "expired", "deleted"} /\ Returns(a, "denied")

\* Mutant: a decision is taken for an approval.
PollAnyDecision(a) ==
    /\ waiter[a] = "poll"
    /\ a \notin overdue
    /\ \/ status[a] \in Decision /\ Returns(a, "granted")
       \/ status[a] = "deleted" /\ Returns(a, "denied")

(* One turn of the poll loop.  A pending request makes it sleep, and so    *)
(* does one that list_approvals has marked expired.                        *)
Poll(a) ==
    /\ waiter[a] = "poll"
    /\ a \notin overdue
    /\ \/ status[a] = "approved" /\ Returns(a, "granted")
       \/ status[a] \in {"rejected", "deleted"} /\ Returns(a, "denied")

\* Mutant: without AND status = 'pending'.
GiveUpUnguarded(a) ==
    /\ waiter[a] = "poll"
    /\ a \in overdue
    /\ SetStatus(a, "expired")
    /\ waiter' = [waiter EXCEPT ![a] = "denied"]
    /\ UNCHANGED <<late, overdue, decideVars, listVars, log>>

\* Mutant: gives up only while the request is pending.
GiveUpPending(a) ==
    /\ waiter[a] = "poll"
    /\ a \in overdue
    /\ status[a] = "pending"
    /\ SetStatus(a, "expired")
    /\ waiter' = [waiter EXCEPT ![a] = "denied"]
    /\ UNCHANGED <<late, overdue, decideVars, listVars, log>>

(* The deadline has passed: whatever the request's status is by now, the   *)
(* answer is no; only a pending one is marked expired.                     *)
GiveUp(a) ==
    /\ waiter[a] = "poll"
    /\ a \in overdue
    /\ IF status[a] = "pending" THEN SetStatus(a, "expired") ELSE UNCHANGED status
    /\ waiter' = [waiter EXCEPT ![a] = "denied"]
    /\ UNCHANGED <<late, overdue, decideVars, listVars, log>>

-----------------------------------------------------------------------------
(* approve_request and reject_request.                                     *)

Outcome(d) == IF d \in Approvers THEN "approved" ELSE "rejected"

(* 404 without a row, 409 unless it is pending, 403 without the role; an   *)
(* expires_at that has passed is not looked at.                            *)
DecideRead(d) ==
    /\ decider[d] = "sent"
    /\ \E a \in Approvals :
         /\ status[a] # "none"
         /\ decides' = [decides EXCEPT ![d] = a]
         /\ \/ /\ status[a] = "pending"
               /\ decider' = [decider EXCEPT ![d] = "write"]
            \/ decider' = [decider EXCEPT ![d] = "refused"]
    /\ UNCHANGED <<status, late, waitVars, listVars, log>>

(* The UPDATE asks for the id only.                                        *)
DecideWrite(d) ==
    /\ decider[d] = "write"
    /\ SetStatus(decides[d], Outcome(d))
    /\ decider' = [decider EXCEPT ![d] = "log"]
    /\ UNCHANGED <<late, waitVars, decides, listVars, log>>

DecideLog(d) ==
    /\ decider[d] = "log"
    /\ log' = log \cup {<<Outcome(d), decides[d]>>}
    /\ decider' = [decider EXCEPT ![d] = "done"]
    /\ UNCHANGED <<status, late, waitVars, decides, listVars>>

-----------------------------------------------------------------------------
(* list_approvals marks what it read as pending and late, row by row and   *)
(* without looking again.                                                  *)

ListRead(l) ==
    /\ lister[l] = "sent"
    /\ listed' = [listed EXCEPT ![l] = {a \in late : status[a] = "pending"}]
    /\ lister' = [lister EXCEPT ![l] = "expire"]
    /\ UNCHANGED <<status, late, waitVars, decideVars, log>>

ListExpire(l) ==
    /\ lister[l] = "expire"
    /\ \E a \in listed[l] :
         /\ SetStatus(a, "expired")
         /\ listed' = [listed EXCEPT ![l] = @ \ {a}]
    /\ UNCHANGED <<late, waitVars, decideVars, lister, log>>

ListDone(l) ==
    /\ lister[l] = "expire"
    /\ listed[l] = {}
    /\ lister' = [lister EXCEPT ![l] = "done"]
    /\ UNCHANGED <<status, late, waitVars, decideVars, listed, log>>

-----------------------------------------------------------------------------
(* delete_user_data (shared/gdpr_service.py) deletes the requests of every *)
(* scan there is.                                                          *)
Purge ==
    /\ \E a \in Approvals : Exists(a)
    /\ status' = [a \in Approvals |-> IF Exists(a) THEN "deleted" ELSE status[a]]
    /\ UNCHANGED <<late, waitVars, decideVars, listVars, log>>

(* The clocks.                                                             *)
ExpiresAt(a) ==
    /\ status[a] # "none"
    /\ a \notin late
    /\ late' = late \cup {a}
    /\ UNCHANGED <<status, waitVars, decideVars, listVars, log>>

Deadline(a) ==
    /\ waiter[a] = "poll"
    /\ a \notin overdue
    /\ overdue' = overdue \cup {a}
    /\ UNCHANGED <<status, late, waiter, decideVars, listVars, log>>

(* The API process dies and is started again: the checks and the requests  *)
(* under way are gone, the rows stay.                                      *)
Crash ==
    /\ waiter' = [a \in Approvals |->
                    IF waiter[a] = "poll" THEN "crashed" ELSE waiter[a]]
    /\ decider' = [d \in Deciders |->
                     CASE decider[d] = "write" -> "lost"
                       [] decider[d] = "log" -> "unlogged"
                       [] OTHER -> decider[d]]
    /\ lister' = [l \in Listers |->
                    IF lister[l] = "expire" THEN "done" ELSE lister[l]]
    /\ listed' = [l \in Listers |-> {}]
    /\ UNCHANGED <<status, late, overdue, decides, log>>

-----------------------------------------------------------------------------
Next ==
    \/ \E a \in Approvals :
         \/ CheckAndRequest(a) \/ Poll(a) \/ GiveUp(a)
         \/ ExpiresAt(a) \/ Deadline(a)
    \/ \E d \in Deciders : DecideRead(d) \/ DecideWrite(d) \/ DecideLog(d)
    \/ \E l \in Listers : ListRead(l) \/ ListExpire(l) \/ ListDone(l)
    \/ Purge
    \/ Crash

Spec == Init /\ [][Next]_vars

(* The poll loop is never blocked for good, and its deadline comes.        *)
FairSpec ==
    /\ Spec
    /\ \A a \in Approvals : WF_vars(Poll(a) \/ GiveUp(a)) /\ WF_vars(Deadline(a))
=============================================================================
