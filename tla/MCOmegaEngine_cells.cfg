SPECIFICATION EngineSpec
CONSTANTS
  t1 = t1
  t2 = t2
  NoSlot = NoSlot
  Table = {t1, t2}
  Pair <- Pairs
  MaxByte = 2
  CellSize = 7
  PoolValue <- Values
  SetSlots = {0, 2}
  MaxSlots = 3
  MaxListed = 2
  MaxBatch = 2
INVARIANTS
  EngineTypeOK
  SlotsNotShared
  TableListsItsCells
  TablesArrive
