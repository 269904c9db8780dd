SPECIFICATION Spec
CONSTANTS
    NoJob = NoJob
    Jobs = {j1, j2}
    Tasks = {t1}
    NeedsApproval = {t1}
    MaxHosts = 3
    Plan <- MCShortPlan
    Cancellers = {c1}
    Deleters = {d1}
    Killers = {}
    Resetters = {}
    OutOfScope = {}
    MaxHealthFailures = 1
    MaxCrashes = 0
    MaxRestarts = 0
INVARIANTS
    OneOutcomeLogged
    DeletedIsGone
PROPERTIES
    NeverRunsAgain
