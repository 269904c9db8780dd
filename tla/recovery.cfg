SPECIFICATION FairSpec
CONSTANTS
    NoJob = NoJob
    Jobs = {j1}
    Tasks = {t1}
    NeedsApproval = {}
    MaxHosts = 3
    Plan <- MCFollowUps
    Cancellers = {}
    Deleters = {}
    Killers = {k1}
    Resetters = {}
    OutOfScope = {}
    MaxHealthFailures = 1
    MaxCrashes = 1
    MaxRestarts = 1
INVARIANTS
    RunningHasTask
PROPERTIES
    TasksStop
    RunningEnds
