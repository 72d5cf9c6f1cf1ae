CONSTANTS
  Scenes = {"http", "bt", "media", "planner", "pool"}
  HttpScenarios <- MCHttp
  BtScenarios <- MCBt
  Last = 2
  Width = 2
  MaxPath = 3
  MaxVersion = 2
  MediaScenarios <- MCMedia
SPECIFICATION MCSpec
INVARIANTS
  RecordTruthful CompleteIsRight FilesKept TorrentKept MediaSound
PROPERTIES
  PublicationSafe TasksStop TasksEnd TasksKeepContract
