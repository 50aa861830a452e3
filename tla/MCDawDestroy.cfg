SPECIFICATION Spec
CONSTANTS
  MAX_BYRON_ADDRESS_LEN = 1
  U64Max = 9
  Blake2b <- NoHash
  Retired <- MCRetired
  Live <- MCLive
  DataKeys <- MCDataKeys
  OtherCommands <- MCOther
  ScanSizes = {0, 3}
  MaxMessage = 2
  UnforcedDestroy = TRUE
  MaxCommands = 2
INVARIANT OnlyWhatIsForced
CHECK_DEADLOCK FALSE
