SPECIFICATION Spec
CONSTANTS
    NoJob = NoJob
    Jobs = {j1, j2}
    Tasks = {t1, t2}
    NeedsApproval = {}
    MaxHosts = 3
    Plan <- MCTinyPlan
    Cancellers = {}
    Deleters = {}
    Killers = {k1}
    Resetters = {}
    OutOfScope = {j1}
    MaxHealthFailures = 3
    MaxCrashes = 0
    MaxRestarts = 0
INVARIANTS KillStopsAll
