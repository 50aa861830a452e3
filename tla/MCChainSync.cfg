SPECIFICATION FairSpec
CONSTANTS
  b1 = b1
  b2 = b2
  b3 = b3
  c2 = c2
  c3 = c3
  c4 = c4
  g0 = g0
  g1 = g1
  o1 = o1
  o2 = o2
  o3 = o3
  o4 = o4
  Origin = Origin
  None = None
  Blocks <- MCBlocks
  Parent <- MCParent
  Ancestors <- MCAncestors
  Slot <- MCSlot
  Txs <- MCTxs
  Outputs <- MCOutputs
  Genesis = {g0, g1}
  ImmutableAfter = 3
  MaxCrumbs = 3
  QueueLen = 2
  MaxAdopts = 2
  MaxOutages = 2
INVARIANTS
  StoreIsOneChain
  EventsAccepted
  OutputsAreUnspent
  ResolversAreComplete
  LogLeadsToTip
PROPERTY
  CatchesUp
CHECK_DEADLOCK FALSE
