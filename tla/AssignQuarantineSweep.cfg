SPECIFICATION Spec
CONSTANTS
    o1 = o1
    i1 = i1
    Occs = {o1}
    Devices = {d1}
    Images = {i1, i2}
    Payload <- Assign1
    Mode <- Merge
    OpenAt <- Opening
    EndAt <- Closing
    MaxAssigned = 1
    MaxTime = 2
    Limits <- SweepRace
    None = None
PROPERTIES
    SweepRemovesOnlyQuarantined
\* With the bounds spent and every occurrence ended nothing is left to do.
CHECK_DEADLOCK FALSE
