SPECIFICATION Spec
CONSTANTS
    NoJob = NoJob
    Jobs = {j1}
    Tasks = {t1}
    NeedsApproval = {}
    MaxHosts = 3
    Plan <- MCFullPlan
    Cancellers = {}
    Deleters = {}
    Killers = {k1}
    Resetters = {z1}
    OutOfScope = {j1}
    MaxHealthFailures = 2
    MaxCrashes = 0
    MaxRestarts = 0
INVARIANTS
    TypeOK
    TaskEndsScan
    MarkedAfterKill
PROPERTIES
    KillSettles
    OnlyFollowUpsAfterKill
