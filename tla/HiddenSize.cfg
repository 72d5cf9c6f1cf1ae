CONSTANTS
  Ids = {1, 2}
  Size = 3
  MinSplit = 2
  Floor = 1
  Alignment = 2
  MaxCopies = 2
  MaxChunk = 2
  Piece = 3
  HiddenSize = TRUE
  MaxFaults = 0
SPECIFICATION FairSpec
PROPERTY Completes
\* a task without connections is idle
CHECK_DEADLOCK FALSE
