SPECIFICATION MCSpec
CONSTANTS
    Users = {u1, u2, u3}
    Keys = {k1, k2, k3}
    MaxOpens = 1
    maxOpen = 2
    CloseMayFail = TRUE
    NoUser = NoUser
    NoHandle = NoHandle
    r1 = r1
    r2 = r2
    Records = {r1, r2}
    Projections = {"graph"}
    Workers = {w1, w2}
    Admins = {a1}
    NoJob = NoJob
    Openers = {o1, o2}
    Paths = {p1, p2, p3}
    MaxIds = 3
    MaxChanges = 2
    NoPath = NoPath
    GitClients = {g1, g2}
    TrackedFiles = {f1, f2}
    FileContents = {v1}
    MaxCommits = 3
    MaxEdits = 1
    MaxGitCrashes = 1
    Empty = Empty
    Gone = Gone
    TornIndex = TornIndex
INVARIANTS
    PoolInv
    HeldStoreStaysOpen
    OverLimitOnlyWhenPinned
    StoresInv
PROPERTIES
    StoreSteps
    StoresSettle
CHECK_DEADLOCK FALSE
