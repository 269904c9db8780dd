--------------------------- MODULE ApprovalPromise ---------------------------
(***************************************************************************)
(* What the orchestrator relies on when it asks for an approval: it gets   *)
(* one answer, the answer comes, and it is yes only if somebody with the   *)
(* right to approve has approved the request before, or if its level needs *)
(* no approval.  ScanTask's RequestApproval and ApprovalAnswer are the     *)
(* asking side of this.                                                    *)
(***************************************************************************)
CONSTANTS
    Approvals,      \* the checks the orchestrators make
    BelowThreshold  \* those whose level needs no approval

VARIABLES
    answer,         \* answer[a]: what the orchestrator knows
    consent         \* the approvals somebody has given

promiseVars == <<answer, consent>>

Init ==
    /\ answer = [a \in Approvals |-> "unasked"]
    /\ consent = {}

Answered(a, by) == answer' = [answer EXCEPT ![a] = by]

Ask(a) ==
    /\ answer[a] = "unasked"
    /\ Answered(a, IF a \in BelowThreshold THEN "granted" ELSE "waiting")
    /\ UNCHANGED consent

Consent(a) ==
    /\ consent' = consent \cup {a}
    /\ UNCHANGED answer

Grant(a) ==
    /\ answer[a] = "waiting"
    /\ a \in consent
    /\ Answered(a, "granted")
    /\ UNCHANGED consent

Deny(a) ==
    /\ answer[a] = "waiting"
    /\ Answered(a, "denied")
    /\ UNCHANGED consent

\* The process that waits dies, and all its waiting with it.
Lose ==
    /\ answer' = [a \in Approvals |->
                    IF answer[a] = "waiting" THEN "lost" ELSE answer[a]]
    /\ UNCHANGED consent

Next ==
    \/ \E a \in Approvals : Ask(a) \/ Consent(a) \/ Grant(a) \/ Deny(a)
    \/ Lose

Spec == Init /\ [][Next]_promiseVars

FairSpec ==
    /\ Spec
    /\ \A a \in Approvals : WF_promiseVars(Grant(a) \/ Deny(a))
=============================================================================
