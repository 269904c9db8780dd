SPECIFICATION Spec
CONSTANTS
    NoJob = NoJob
    j1 = j1
    j2 = j2
    t1 = t1
    t2 = t2
    Jobs = {j1, j2}
    Tasks = {t1, t2}
    NeedsApproval = {}
    MaxHosts = 3
    Plan <- MCAnalysis
    Cancellers = {}
    Deleters = {}
    Killers = {k1}
    Resetters = {}
    OutOfScope = {}
    MaxHealthFailures = 1
    MaxCrashes = 0
    MaxRestarts = 0
SYMMETRY MCSymmetry
INVARIANTS
    KillHolds
