CONSTANTS
  m = m
  Gid = {m}
  NoGid = NoGid
  Kind <- MCKind
  Input <- MCInput
  Limits = {1}
  MaxResults = 1
  KeepUnfinished = FALSE
  Rpc = TRUE
  Ed2k = FALSE
  Calls = {"pause", "remove"}
  Situations = {}
SPECIFICATION RequestsSpec
PROPERTY RemovalHappens
\* a daemon nobody calls any more is idle
CHECK_DEADLOCK FALSE
