SPECIFICATION FairSpec
CONSTANTS
    good = good
    bad = bad
    Ids = {i1}
    Contents = {good, bad}
    Devices = {d1, d2}
    Slots = {p1, p2}
    Kinds = {"console"}
    Feeds <- AnyFeed
    Limits <- ConvergeEvents
    None = None
INVARIANTS
    QuarantineUnassigned
    QuarantineStopsSeeding
    VerifiedJobWasListed
PROPERTIES
    QuarantineConverges
