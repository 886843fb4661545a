CONSTANTS
    e1 = e1
    e2 = e2
    e3 = e3
    e4 = e4
    Closer = closer
    Entries = {e1, e2, e3, e4}
    Loads <- ThreeOfThem
    LaneOf <- ThreeAndOne
    Slots = {w1, w2}
    Ticks = {t1}
    BatchSize = 2
    DbFails = TRUE
    MaxStops = 1
    MaxCrashes = 1
SPECIFICATION FairSpec
INVARIANTS OneFlushPerLane BatchBounded HeldOnce StoredOnce
PROPERTY DeliverySpec
PROPERTY EveryEntrySettles
PROPERTY ShutdownEnds
