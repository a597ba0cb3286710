SPECIFICATION Spec
CONSTANTS
    MaxSerial = 3
    MaxKeylist = 2
    MaxDate = 3
    Lifetime = 2
    ResetAfter = 2
    SkewLimit = 3
    Tolerance = 1
    None = None
    Faults <- DeviceFaults
    StDevices = {d1}
    Late = {d1}
    Producers = {p1, p2}
    Bodies = {b1, b2, b3}
    Generations <- RoleGenerations
    MaxGenerations = 2
    StBudgets <- StamperEvents
    NoStamp = NoStamp
    MaxKey = 3
    MaxSeq = 3
    MaxDay = 3
    Life = 3
    Refuse = 1
    CustodyBudgets <- KeyEvents
    Operators = {o1, o2}
    RequestIds = {1, 2}
    PiBudgets <- IdentityEvents
    NoRecord = NoRecord
INVARIANTS
    InstructionsSafe
PROPERTIES
    InstructionSteps
    InstructionsConverge
\* With the outside events spent and everything settled nothing is left to do.
CHECK_DEADLOCK FALSE
