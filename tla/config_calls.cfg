SPECIFICATION Spec
SYMMETRY RequestSymmetry
CONSTANTS
    g1 = g1
    g2 = g2
    ca = ca
    key = key
    x = x
    y = y
    z = z
    s = s
    r1 = r1
    r2 = r2
    Boot = Boot
    Configs = {g1, g2}
    Brokers = {x, y, z, s}
    Kinds = {ca, key}
    BrokerBase <- Address
    Mqtt <- MqttBrokers
    Odd <- Underscored
    Bodies <- MCBodies
    Requests = {r1, r2}
    Faults = {"write", "paths", "delAll"}
    MaxCalls = 2
    MaxFaults = 1
INVARIANTS TypeOK CachesAgree CertsKept SourcesFollow
CHECK_DEADLOCK FALSE
