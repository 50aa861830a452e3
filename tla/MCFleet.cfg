SPECIFICATION Spec
CONSTANTS
  b1 = b1
  b2 = b2
  b3 = b3
  c3 = c3
  root = root
  Root = root
  Instances = {i1, i2}
  Network <- MCNetwork
  Blocks <- MCBlocks
  Slot <- MCSlot
  Parent <- MCParent
  Ancestors <- MCAncestors
  Immutable <- MCImmutable
  SafeZone = 3
  PublishTime = 1
  FetchTime = 1
  ClockAhead = 1
  PerTick = 1
  MaxTso = 7
  MaxEvents = 1
  MaxJobs = 2
SYMMETRY InstancesSymmetry
INVARIANTS ReadersAreSafe CommonBlockKept AnswererHasData
PROPERTY TipKept
CHECK_DEADLOCK FALSE
