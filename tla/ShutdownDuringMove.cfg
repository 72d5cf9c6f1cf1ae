CONSTANTS
  h = h
  b = b
  m = m
  Gid = {h}
  NoGid = NoGid
  Kind <- MCKind
  Input <- MCInput
  Limits = {1}
  MaxResults = 1
  KeepUnfinished = FALSE
  Rpc = TRUE
  Ed2k = FALSE
  Calls = {"pause", "moveDownload", "shutdown"}
  Situations = {"moving"}
SPECIFICATION FairSpec
INVARIANT SessionExact
