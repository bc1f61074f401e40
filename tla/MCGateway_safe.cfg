SPECIFICATION GatewaySpec
CONSTANTS
  w1 = w1
  w2 = w2
  a = a
  b = b
  z = z
  v1 = v1
  v2 = v2
  f = f
  g = g
  NoVal = NoVal
  NoCmd = NoCmd
  Worker = {w1, w2}
  Key = {a, b, z}
  Utf8Key = {a, b}
  Val = {v1, v2}
  Field = {f, g}
  NumShards = 2
  ShardOf <- Shards
  Workload <- Workloads
  Spell <- Spelling
  e1 = e1
  e2 = e2
  Block = 2
  MaxLen = 5
  Byte = {0, 1}
  Xor <- BitXor
  Expert = {e1, e2}
  BitKey <- BitKeys
  Router <- FirstBit
  KeyStream <- KeyStreams
  MaxPairs = 3
  MaxCommands = 4
CHECK_DEADLOCK FALSE
INVARIANTS
  GatewayTypeOK
  MemoryMatchesLog
  TopicMatchesMemory
  MemoryIsSomeLastWrite
  PackedHashesReadBack
