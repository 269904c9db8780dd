------------------------- MODULE ApprovalProperties -------------------------
(***************************************************************************)
(* What an approval is to guarantee, and what the code does not keep.      *)
(***************************************************************************)
EXTENDS Approval

\* The requests a decision of one of ds was written for.
DecidedBy(ds) ==
    {a \in Approvals : \E d \in ds :
        decides[d] = a /\ decider[d] \in {"log", "done", "unlogged"}}

Consented == DecidedBy(Approvers)

Answer ==
    [a \in Approvals |->
        CASE waiter[a] = "start" -> "unasked"
          [] waiter[a] = "poll" -> "waiting"
          [] waiter[a] = "crashed" -> "lost"
          [] OTHER -> waiter[a]]

Promise == INSTANCE ApprovalPromise WITH answer <- Answer, consent <- Consented

(* wait_for_approval: "True wenn genehmigt".  Whatever the races do to the *)
(* row, a check returns once, and True only after an administrator's       *)
(* approval of that request was written.                                   *)
KeepsPromise == Promise!Spec

(* ... and it does return, whether or not anyone decides, lists or deletes *)
(* the request.                                                            *)
AnswerComes == Promise!FairSpec

\* Someone has read the row as pending and will write it.
WriteInFlight(a) ==
    \/ \E d \in Deciders : decider[d] = "write" /\ decides[d] = a
    \/ \E l \in Listers : a \in listed[l]

(* The checks for pending in approve_request, reject_request,              *)
(* list_approvals and the UPDATE of wait_for_approval: once the requests   *)
(* that read it as pending have drained, a decided or expired request is   *)
(* never decided again, nor marked expired.                                *)
DecisionSettles ==
    [][\A a \in Approvals :
          Exists(a) /\ status[a] # "pending" /\ ~WriteInFlight(a) =>
              status'[a] \in {status[a], "deleted"} /\ ~WriteInFlight(a)']_vars

(* wait_for_approval: "False wenn abgelehnt oder Timeout".  A refusal has  *)
(* a cause: a rejection was written, the deadline has passed, or the row   *)
(* was deleted.  That somebody's list request marked it expired is none.   *)
DeniedHasCause ==
    \A a \in Approvals : waiter[a] = "denied" =>
        a \in overdue \/ status[a] = "deleted" \/ a \in DecidedBy(Rejecters)
=============================================================================
