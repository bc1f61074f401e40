SPECIFICATION VectorSpec
CONSTANTS
  w1 = w1
  w2 = w2
  x1 = x1
  x2 = x2
  x3 = x3
  x4 = x4
  x5 = x5
  Worker = {w1, w2}
  Clearers = {w1}
  Vec = {x1, x2, x3, x4}
  Dim = 4
  Floats <- MCFloats
  QueryFloats <- MCQuery
  MaxScore = 9
  BlockSize = 2
  MinPool = 2
  TopK = 1
  NumShards = 2
  MaxSearches = 1
  MaxClears = 1
CHECK_DEADLOCK FALSE
INVARIANTS
  VectorTypeOK
  NoPanic
  ScoresBelongToKeys
  MissingForAReason
  ShardsBalanced
  ClearedStaysCleared
  BlocksCurrent
