SPECIFICATION Spec
CONSTANTS
    d1 = d1
    Devices = {d1}
    Workers = 2
    MaxQueued = 2
    MaxJobs = 2
    MaxReg = 2
    MaxTries = 2
    JobScenarios <- QueueScenarios
    Attempts = {1, 2}
    MaxRec = 2
    Markers = {TRUE, FALSE}
    Budgets <- BoardBudgets
    Sessions = {1, 2}
    SupBudgets <- CustodyBudgets
    b1 = b1
    b2 = b2
    Boxes = {b1, b2}
    RoleNames = {"A", "B"}
    AclPeers = {"origin"}
    Editors = {1, 2}
    SettleAttempts = 2
    RolePlans <- Edits
INVARIANTS
    OnboardingSafe
PROPERTIES
    OnboardingSteps
    OnboardingEnds
\* With the outside events spent and everything settled nothing is left to do.
CHECK_DEADLOCK FALSE
