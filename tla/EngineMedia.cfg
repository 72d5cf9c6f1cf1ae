CONSTANTS
  h = h
  b = b
  m = m
  Gid = {h, b}
  NoGid = NoGid
  Kind <- MCKind
  Input <- MCInput
  Limits = {1, 2}
  MaxResults = 0
  KeepUnfinished = TRUE
  Rpc = TRUE
  Ed2k = TRUE
  Calls = {"add", "pause", "unpause", "remove", "forceRemove", "moveDownload", "retry", "purge", "pauseAll", "unpauseAll", "changePosition", "changeLimit", "removeResult", "saveSession", "shutdown", "forceShutdown"}
  Situations = {"moving", "nodisk", "sharing"}
INIT Init
NEXT Next
VIEW ButSession
INVARIANT QueueSound
