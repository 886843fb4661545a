CONSTANTS
    a1 = a1
    v1 = v1
    NaN = NaN
    None = None
    Alarms = {a1}
    Variables = {v1}
    VariableOf <- OneAlarm
    Conditions <- AboveOne
    Values <- LowHighNaN
    Slots = {w1, w2}
    Faults = {"tx", "cache"}
    MaxJobs = 2
    Requests = {r1}
    Operations = {"acknowledge", "acknowledgeAll"}
    ChunkSize = 1
    MaxRequests = 1
    MaxCrashes = 0
    ReuseIds = FALSE
SPECIFICATION FairSpec
PROPERTY StaleStatusHeals
