CONSTANTS
    a1 = a1
    v1 = v1
    NaN = NaN
    None = None
    Alarms = {a1}
    Variables = {v1}
    VariableOf <- OneAlarm
    Conditions <- AboveOne
    Values <- LowHigh
    Slots = {w1, w2}
    Faults = {}
    MaxJobs = 2
    Requests = {}
    Operations = {}
    ChunkSize = 1
    MaxRequests = 0
    MaxCrashes = 0
    ReuseIds = FALSE
SPECIFICATION Spec
SYMMETRY SlotSymmetry
INVARIANT NoRedundantTrigger
