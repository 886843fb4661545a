SPECIFICATION FairSpec
CONSTANTS
    v1 = v1
    v2 = v2
    v3 = v3
    Variables = {v1, v2, v3}
    Intervals = {2, 3}
    Batch = 2
    Faults = {"find", "mark", "advance", "add"}
    MaxTime = 4
    MaxFaults = 1
    MaxEvents = 1
INVARIANT NextFollowsLast
PROPERTIES StampsIncrease DueIsSampled
CHECK_DEADLOCK FALSE
