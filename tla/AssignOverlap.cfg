SPECIFICATION Spec
CONSTANTS
    o1 = o1
    i1 = i1
    Occs = {o1, o2}
    Devices = {d1}
    Images = {i1, i2}
    Payload <- Assign1
    Mode <- Mixed
    OpenAt <- Opening
    EndAt <- Closing
    MaxAssigned = 2
    MaxTime = 2
    Limits <- OverlapEvents
    None = None
INVARIANTS
    AtMostOneCommit
PROPERTIES
    CommitKeepsOthersWork
\* With the bounds spent and every occurrence ended nothing is left to do.
CHECK_DEADLOCK FALSE
