SPECIFICATION PagesSpec
CONSTANTS
  MAX_BYRON_ADDRESS_LEN = 2
  U64Max = 1000
  Blake2b <- MCBlake2b
  Absent = Absent
  NoOutput = NoOutput
  NoDatum = NoDatum
  NoScript = NoScript
  NoMetadata = NoMetadata
  NoFilter = NoFilter
  MissingData = "skip"
  AnyError = "none"
  Filters <- MCFilters
  CborFilter = NoFilter
  Encoder <- MCEncoder
  Genesis <- MCPagesGenesis
  TxPool <- MCPagesPool
  BlockHash <- MCPagesHash
  Followed <- MCFollowed
  MaxBlocks = 4
  MaxTxs = 1
  MaxSlot = 4
  DEFAULT_MAX_ITEMS_PER_PAGE = 2
  SCAN_SIZE = 4
  MaxMessage = 3
  NetworkId = 1
  EmptyBytesHash = 99
  ReferenceNft = 96
  UserNft = 98
  UserFt = 99
  Cip68Fields <- MCCip68Fields
  AddressText <- MCAddressText
  Prefix <- MCPrefix
  Queries <- MCQueries
INVARIANTS
  PageIsNext
  HoldingAnswers
  ChainAnswers
PROPERTY
  SessionEnds
