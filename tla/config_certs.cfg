SPECIFICATION Spec
CONSTANTS
    g1 = g1
    g2 = g2
    ca = ca
    key = key
    x = x
    y = y
    z = z
    s = s
    r1 = r1
    r2 = r2
    Boot = Boot
    Configs = {g1}
    Brokers = {x, y, z, s}
    Kinds = {ca, key}
    BrokerBase <- Address
    Mqtt <- MqttBrokers
    Odd <- Underscored
    Bodies <- KeptBodies
    Requests = {r1, r2}
    Faults = {}
    MaxCalls = 1
    MaxFaults = 0
INVARIANT CertsOnDisk
CHECK_DEADLOCK FALSE
