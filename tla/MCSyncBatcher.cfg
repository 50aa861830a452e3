SPECIFICATION Spec
CONSTANTS
  b0 = b0
  b1 = b1
  b2 = b2
  Bytes <- MCBytes
  EmptyBytes = b0
  Absent = Absent
  Kinds <- AllKinds
  Deltas = {1, 2, 3}
  MaxCount = 6
INVARIANTS
  BatchEqualsSequence
  InverseRestores
