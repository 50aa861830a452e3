SPECIFICATION FairSpec
CONSTANTS
  MAX_BYRON_ADDRESS_LEN = 1
  U64Max = 9
  Blake2b <- NoHash
  Retired <- MCRetired
  Live <- MCLive
  DataKeys <- MCDataKeys
  OtherCommands <- MCOther
  ScanSizes = {0, 3}
  MaxMessage = 2
  UnforcedDestroy = FALSE
  MaxCommands = 2
INVARIANTS TypeOK OnlyWhatIsForced DoneMeansGone CursorGoesFirst
PROPERTY Ends
CHECK_DEADLOCK FALSE
