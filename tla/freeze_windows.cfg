CONSTANTS
    f1 = f1
    f10 = f10
    Mappings = {f1, f10}
    Prefixed <- Ids
    Workers = {w1, w2}
    Client = client
    Boot = boot
    Days = 2
    Day = 2
    WindowSets <- SomeWindows
    Choices <- SomeChoices
    Faults = {"apply", "check", "reread", "plan"}
    MaxFaults = 1
    MaxCalls = 1
SPECIFICATION FairSpec
INVARIANTS TypeOK NextRunIsNext ChainAlive WindowRespected
PROPERTY EveryWindowServed
