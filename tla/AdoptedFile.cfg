CONSTANTS
  Scenes = {"http"}
  HttpScenarios <- AdoptThenPause
  BtScenarios <- MCBt
  Last = 2
  Width = 2
  MaxPath = 3
  MaxVersion = 2
  MediaScenarios <- MCMedia
SPECIFICATION MCSpec
INVARIANT AdoptedFileKept
