SPECIFICATION MCSpec
CONSTANTS
    s1 = s1
    s2 = s2
    t1 = t1
    t2 = t2
    Scans = {s1, s2}
    Stored <- MCStored
    Written <- MCWritten
    Expired = {s1, s2}
    Users = {u1}
    DeleteReqs = {d1}
    PurgeReqs = {p1}
    NoTarget = NoTarget
    Requests = {q1}
    MaxStarts = 2
    Migrations <- MCMigrations
    Base <- MCBase
    Known = {0, 2}
    MaxWrites = 2
    MaxBackups = 2
    MaxCrashes = 2
    Keys = {k1, k2}
    Builtins = {"quick"}
    Customs = {"c1"}
    Names = {"Quick Scan", "n1"}
    SeedName <- MCSeedName
    Updates = {r1}
    Edits = {e1, e2}
    NoRow = NoRow
    MaxSeeds = 2
    Turns = {t1, t2}
    ToolMax = 1
    BatchMax = 2
    HistoryLimit = 1
    ScanOf <- MCScanOf
    NoScan = NoScan
    StoredScans = {s1}
    MaxEvents = 1
INVARIANTS
    MCInvariant
    UserGoneDataGone
    RecordedIsApplied
    OldSchemaOnlyAfterRestore
    MessageInPrompt
PROPERTIES
    HalfDeletedByOthers
    LockReleased
    ComesUp
    StartsKeepChanges
    EveryMessageAnswered
CHECK_DEADLOCK FALSE
