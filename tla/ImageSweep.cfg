SPECIFICATION Spec
CONSTANTS
    good = good
    bad = bad
    Ids = {i1, i2}
    Contents = {good, bad}
    Devices = {d1}
    Slots = {p1, p2}
    Kinds = {"cli"}
    Feeds <- ChangedFeed
    Limits <- SweepEvents
    None = None
INVARIANTS
    TypeOK
    QuarantineUnassigned
