CHECK_DEADLOCK FALSE
CONSTANTS
    pump = pump
    valve = valve
    Variables = {pump}
    Clients = {c1, c2}
    Readers = {r1}
    Width = 2
    Values = {1, 4}
    Default = Default
    Creates <- SomeCreates
    Places = 2
    Fails = TRUE
    MaxCalls = 2
    MaxResets = 1
    MaxCrashes = 1
SPECIFICATION Spec
SYMMETRY Symmetry
INVARIANTS TypeOK BitsAgree 
PROPERTY ToggleAlone
