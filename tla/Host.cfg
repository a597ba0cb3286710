SPECIFICATION Spec
CONSTANTS
    Plans = {1, 2}
    MaxNow = 2
    QueueCap = 4
    RingCap = 1
    AttestCap = 2
    MaxPlans = 1
    Retention = 0
    Damages = {"torn", "absent"}
    TelBudgets <- Budgets
    RequestPlans <- Requests
    MaxWrites = 1
    WorkFaults = 1
    WorkCrashes = 1
    Inputs = {1}
    Packages = {"amd64", "arm64"}
    DeployTroubles <- Hardships
    Members = {"d1", "d2"}
    LegacyAt = "d1"
    DirBudgets <- Announcements
    Nothing = Nothing
    Threads = {1, 2, 3}
    SessionPlans <- Visits
    NoSession = NoSession
    Attempts = {1, 2}
    CallPlans <- Callings
    StateKeys = {"k1", "k2", "k3"}
    Buckets = {"b1", "b2"}
    BucketOf <- Buckets3
    Users = {1, 2}
    StorePlans <- Storings
    Writers = {1, 2}
    Console = 1
    PruneEvery = 2
    MaxEvents = 2
    KeptFor = 1
    IndexMax = 3
    HeadLines = 1
    PageLimit = 1
    Inodes = {1, 2}
    TrailPlans <- Trails
    Sites = {"A", "B"}
    Passwords = {"x", "y"}
    ExportJobs = {0, 1}
    ExportPlans <- Exports
INVARIANTS
    HostSafe
    ConsoleSafe
    PasswordsGoWhereSent
PROPERTIES
    HostSteps
    HostConverges
\* With the outside events spent and everything settled nothing is left to do.
CHECK_DEADLOCK FALSE
