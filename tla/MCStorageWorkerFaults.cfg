SPECIFICATION Spec
CONSTANTS
  b1 = b1
  b2 = b2
  b3 = b3
  b4 = b4
  b5 = b5
  c4 = c4
  c5 = c5
  e0 = e0
  v1 = v1
  v2 = v2
  kCursor = kCursor
  kBalance = kBalance
  kDatum = kDatum
  Absent = Absent
  EmptyBytes = e0
  Bytes <- MCBytes
  Blocks <- MCFewBlocks
  Origin = Origin
  Parent <- MCFewParent
  Ancestors <- MCFewAncestors
  Slot <- MCFewSlot
  Size <- MCFewSize
  Keys <- MCKeys
  CursorKey = kCursor
  Counters = {kBalance}
  Actions <- MCFewActions
  StateAt <- MCFewStateAt
  NoAction = NoAction
  NoRows = NoRows
  NoMsg = NoMsg
  BatchLen = 1
  MaxBytes = 100
  MaxBufferLen = 2
  GcSlots = 40
  AdvertiseImmediately = FALSE
  SwitchAfter = {0, 1, 2}
  WalMayMiss = FALSE
  RedisMayFail = TRUE
PROPERTY
  AdvertisedAfterMutable
