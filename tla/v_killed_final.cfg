SPECIFICATION Spec
CONSTANTS
    NoJob = NoJob
    Jobs = {j1}
    Tasks = {t1}
    NeedsApproval = {}
    MaxHosts = 3
    Plan <- MCTinyPlan
    Cancellers = {}
    Deleters = {}
    Killers = {k1}
    Resetters = {}
    OutOfScope = {}
    MaxHealthFailures = 3
    MaxCrashes = 0
    MaxRestarts = 0
PROPERTIES KilledIsFinal
