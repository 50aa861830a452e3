SPECIFICATION Spec
CONSTANTS
  MaxLag = 8
  MaxUndo = 2
  MinKept = 2
PROPERTIES
  NothingSkipped
  ClosedOnlyIfLost
  SentOrClosed
