SPECIFICATION FairSpec
CONSTANTS
    Ids = {s1, s2}
    Payloads = {p1}
    Whens <- EqualWhens
    NoRow = NoRow
    NoSlot = NoSlot
    DaysPerWeek = 2
    HoursPerDay = 1
    MaxTime = 3
    Limits <- StoreEvents
    MaxClaims = 1
INVARIANTS
    TypeOK
    ETagNeverRecycled
    OneOccurrencePerSlot
    OccurrenceMatchesItsDefinition
    CursorNamesClaimedSlot
    NoSlotSkipped
PROPERTIES
    EverySlotAccountedFor
