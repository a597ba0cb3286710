SPECIFICATION FairSpec
CONSTANTS
    o1 = o1
    i1 = i1
    Occs = {o1}
    Devices = {d1, d2}
    Images = {i1}
    Payload <- Assign1
    Mode <- Merge
    OpenAt <- Opening
    EndAt <- Closing
    MaxAssigned = 1
    MaxTime = 2
    Limits <- InterruptionEvents
    None = None
INVARIANTS
    UnreportedCommitHasClaim
    EndedMeansEveryDeviceReported
PROPERTIES
    EveryOccurrenceEnds
\* With the bounds spent and every occurrence ended nothing is left to do.
CHECK_DEADLOCK FALSE
