SPECIFICATION MCSpec
CONSTANTS
    m1 = m1
    l1 = l1
    c2 = c2
    c1 = c1
    w1 = w1
    w2 = w2
    w3 = w3
    u1 = u1
    u2 = u2
    s1 = s1
    sa = sa
    sb = sb
    x1 = x1
    x2 = x2
    y1 = y1
    y2 = y2
    Jobs = {j1}
    NoJob = NoJob
    Cancellers = {g1}
    Deleters = {}
    Killers = {k1, k2}
    Resetters = {z1}
    StatusReqs = {v1}
    Members = {m1}
    Logins = {l1}
    MfaChanges = {c1, c2}
    AccountOf <- MCAccountOf
    MaxLives = 3
    MaxUsers = 3
    Mails = {h1, h2}
    AdminMail = h1
    Rank <- MCRank
    SystemAdmin = "system_admin"
    OrgAdmin = "org_admin"
    Analyst = "analyst"
    Admins = {a1, a2}
    PwChanges = {p1}
    NoRole = "-"
    MaxBoots = 2
    Sockets = {w1, w2, w3}
    Clients = {u1, u2}
    UserSends = {s1}
    Broadcasts = {b1}
    OwnerOf <- MCOwnerOf
    SendTo <- MCSendTo
    Entries = {x1, x2}
    HostOf <- MCHostOf
    Revokes = {r1}
    MaxSyncs = 2
    MaxRestarts = 1
    Paths = {y1, y2}
    LimitOf <- MCLimitOf
    Window = 2
    Sweep = 3
    Attempts = {f1, f2}
    MaxFailed = 2
    LoginWindow = 3
    MaxTime = 6
    Compared = {sa, sb}
    Keys = {"k1"}
    Scores = {1, 2}
    Ports = {q1}
    Storable <- MCStorable
    Compares = {n1}
    Phases <- MCPhases
    MaxFound = 2
    MaxErased = 1
    PairOf <- MCPairOf
    Absent = Absent
    Octets = 3
    OctetBits = 1
    MaxPort = 7
    ForbiddenNets <- MCForbiddenNets
    LevelOf <- MCLevelOf
    Patterns <- MCPatterns
    Scopes <- MCScopes
    Calls <- MCCalls
    NoPort = 99
    NoTime = 99
INVARIANTS
    MCInvariant
    VerifiedHolds
    EndedStaysEnded
    RefusedStaysRefused
    SeedPasswordFlagged
    DeliveredOnce
    OpenIsRegistered
    SettledConfig
    WindowLimit
    FailuresBounded
    DeltaIsTrue
    ResultsAgree
    
CHECK_DEADLOCK FALSE
