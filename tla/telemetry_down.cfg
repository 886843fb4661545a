SPECIFICATION TelemetryFairSpec
CONSTANTS
  level = level
  pump = pump
  worker = worker
  closer = closer
  tick1 = tick1
  tick2 = tick2
  first = first
  second = second
  Variables <- TwoVariables
  MaxJobs = 3
  Worker = worker
  Ticks = {tick1}
  Closer = closer
  BatchSize = 2
  DbFails = TRUE
  MaxStops = 0
  MaxCrashes = 0
  Packets <- TwoPackets
  Holds <- BothThenOne
  MaxQueue = 0
  Faults = {}
PROPERTY EveryPacketKept
