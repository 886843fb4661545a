SPECIFICATION FairSpec
CONSTANTS
    v1 = v1
    v2 = v2
    Names = {v1, v2}
    Variables <- SomeVariables
    Requests = {q1, q2}
    Messages = {m1, m2}
    Payloads <- SomePayloads
    Limit = 10
    MaxStart = 12
    MaxCalls = 2
    MaxFaults = 1
INVARIANTS ListAgrees RoundTrips ReadThrowsFromEnd
PROPERTY GoneFallsSilent
