SPECIFICATION SystemLiveSpec
CONSTANTS
  w1 = w1
  w2 = w2
  a = a
  b = b
  v1 = v1
  v2 = v2
  f = f
  NoVal = NoVal
  NoCmd = NoCmd
  Worker = {w1, w2}
  Key = {a, b}
  Utf8Key = {a, b}
  Val = {v1, v2}
  Field = {f}
  NumShards = 1
  ShardOf <- OneShard
  Workload <- OwnKeys
  Misreads <- SetMisreads
  MaxCommands = 3
  Unit = 2
  Load = {"short", "long"}
  Odds <- HalfUnlessSpent
  TopDrive = 3
  StartDrive = 3
  Grain = 2
  WriteTimes = {0, 2}
  MaxFaults = 0
  MaxCrashes = 0
PROPERTIES
  BacklogIsCommitted
