SPECIFICATION Spec
CONSTANTS
  b1 = b1
  b2 = b2
  b3 = b3
  b4 = b4
  b5 = b5
  c4 = c4
  c5 = c5
  e0 = e0
  v1 = v1
  v2 = v2
  kCursor = kCursor
  kBalance = kBalance
  kDatum = kDatum
  Absent = Absent
  EmptyBytes = e0
  Bytes <- MCBytes
  Blocks <- MCBlocks
  Origin = Origin
  Parent <- MCParent
  Ancestors <- MCAncestors
  Slot <- MCSlot
  Size <- MCSize
  Keys <- MCKeys
  CursorKey = kCursor
  Counters = {kBalance}
  Actions <- MCActions
  StateAt <- MCStateAt
  NoAction = NoAction
  NoRows = NoRows
  NoMsg = NoMsg
  BatchLen = 1
  MaxBytes = 100
  MaxBufferLen = 3
  GcSlots = 60
  AdvertiseImmediately = FALSE
  SwitchAfter = {0, 2}
  WalMayMiss = FALSE
  RedisMayFail = FALSE
INVARIANTS
  StoreIsChainState
  UnitExtendsStore
  BufferIsChain
  RunwayIsPersisted
  RedisIsCommitted
  ChainInv
PROPERTY
  ReadersSeeAChain
