CONSTANTS
    a1 = a1
    v1 = v1
    NaN = NaN
    None = None
    Alarms = {a1}
    Variables = {v1}
    VariableOf <- OneAlarm
    Conditions <- AboveOne
    Values <- LowHigh
    Slots = {w1, w2}
    Faults = {"tx", "cache", "read"}
    MaxJobs = 2
    Requests = {r1}
    Operations = {"acknowledge", "acknowledgeAll", "acknowledgeBatch", "create", "update", "remove", "initialize"}
    ChunkSize = 1
    MaxRequests = 1
    MaxCrashes = 1
    ReuseIds = FALSE
SPECIFICATION Spec
SYMMETRY SlotSymmetry
INVARIANTS StatusMatchesLog CacheNeverInvents
PROPERTY JournalSpec
