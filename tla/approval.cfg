SPECIFICATION FairSpec
CONSTANTS
    NoApproval = NoApproval
    Approvals = {a1, a2}
    BelowThreshold = {a2}
    Approvers = {p1, p2}
    Rejecters = {q1}
    Listers = {l1}
INVARIANTS
    DeniedHasCause
PROPERTIES
    KeepsPromise
    AnswerComes
    DecisionSettles
