CONSTANTS
  h = h
  b = b
  m = m
  Gid = {h, b}
  NoGid = NoGid
  Kind <- MCKind
  Input <- MCInput
  Limits = {1, 2}
  MaxResults = 1
  KeepUnfinished = FALSE
  Rpc = TRUE
  Ed2k = FALSE
  Calls = {"add", "pause", "unpause", "remove", "forceRemove", "pauseAll", "unpauseAll", "moveDownload", "changePosition", "changeLimit", "removeResult", "purge", "shutdown", "forceShutdown"}
  Situations = {}
  RpcScenarios <- MCRpc
SPECIFICATION ScenesSpec
INVARIANTS
  TypeOK OneQueue InFlightAgrees MovesOnlyQuiet NoTaskCutOff SessionExact
  AnsweredExactly PerformedProperly
PROPERTIES
  LimitKept EngineProgress ExitExact
