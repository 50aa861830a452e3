SPECIFICATION Spec
CHECK_DEADLOCK FALSE
CONSTANTS
  MAX_BYRON_ADDRESS_LEN = 2
  U64Max = 1000
  Blake2b <- MCBlake2b
  Absent = Absent
  NoOutput = NoOutput
  NoDatum = NoDatum
  NoScript = NoScript
  NoMetadata = NoMetadata
  NoFilter = NoFilter
  MissingData = "skip"
  AnyError = "none"
  Filters <- MCFilters
  CborFilter = NoFilter
  Encoder <- MCEncoder
  Genesis <- MCGenesis
  TxPool <- MCTxPool
  BlockHash <- MCBlockHash
  Followed <- MCFollowed
  MaxBlocks = 3
  MaxTxs = 2
  MaxSlot = 3
INVARIANTS
  UtxoIndexesAreTheLedger
  AggregatesAreSums
  HistoriesAreComplete
  LookupsAreTheChain
  RecordsAgree
