SPECIFICATION PersistenceSpec
CONSTANTS
  a = a
  b = b
  v1 = v1
  v2 = v2
  f = f
  NoVal = NoVal
  Key = {a, b}
  Val = {v1, v2}
  Field = {f}
  Record <- Records
  Misreads <- SomeMisreads
  MaxSent = 2
  Unit = 2
  Load = {"short"}
  Odds <- HalfUnlessSpent
  TopDrive = 1
  StartDrive = 1
  Grain = 100
  WriteTimes = {0}
  IntLimit = 32
  Spelling <- Spellings
  FloatText <- Floats
  MaxFaults = 2
  MaxCrashes = 1
INVARIANTS
  PersistenceTypeOK
  NothingDropped
  CommittedIsDurable
  KeyspaceMatchesCommitted
  VectorsKept
  RecoveryIsFresh
  RecoveryIsAPrefix
  WholeRecordsReadBack
  PlainCutsAreSkipped
PROPERTIES
  DurablePrefixKept
  ImplementsDurableLog
