SPECIFICATION Spec
CONSTANTS
    i1 = i1
    i2 = i2
    run = run
    old = old
    Images = {i1, i2}
    Others = {run, old}
    Running = run
    MaxVersion = 2
    Capacity = 6
    MaxAttempts = 2
    MaxDefers = 2
    NoFile = NoFile
    Scenarios <- MCScenarios
    MaxBundle = 3
    Intact = {1, 3}
    MaxSkip = 1
    GuestCrashes = 1
    GuestFaults = 1
    RecipeKinds = {"switch", "nat", "xr"}
    RecipeFaults = 2
    RecipeReloads = 1
    RecipeSwaps = 1
    RecipeJobs = 2
    CredBudgets <- MCCredentials
    Absent = Absent
    MaxSeq = 3
    FailBad = 1
    ReportTries = 2
    ReportEvents <- MCReports
    HookRows = 2
    NamedRows = 1
    StoredRows = 1
    Senders = {1, 2, 3}
INVARIANTS
    DeviceSafe
PROPERTIES
    DeviceSteps
    DeviceConverge
\* With the outside events spent and everything settled nothing is left to do.
CHECK_DEADLOCK FALSE
