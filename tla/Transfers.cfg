CONSTANTS
  Ids = {1, 2, 3}
  Size = 5
  MinSplit = 2
  Floor = 1
  Alignment = 2
  MaxCopies = 2
  MaxChunk = 2
  Piece = 3
  HiddenSize = FALSE
  MaxFaults = 1
  Scenes = {"planner", "set", "sources", "pool"}
  SourceScenarios <- MCSources
SPECIFICATION MCSpec
INVARIANTS
  FileExact WorkExact RangesExact SourcesExact SourcesSuffice SeatsExact
PROPERTY PausesKept
