SPECIFICATION TelemetryFairSpec
CONSTANTS
  level = level
  pump = pump
  worker = worker
  closer = closer
  tick1 = tick1
  tick2 = tick2
  first = first
  second = second
  Variables <- TwoVariables
  MaxJobs = 3
  Worker = worker
  Ticks = {tick1, tick2}
  Closer = closer
  BatchSize = 3
  DbFails = TRUE
  MaxStops = 1
  MaxCrashes = 1
  Packets <- TwoPackets
  Holds <- BothTwice
  MaxQueue = 0
  Faults <- AllFaults
INVARIANTS ShownIsKept LastValueKept StoppedEmpty
PROPERTY NoStaleOverwrite LastValueSettles
