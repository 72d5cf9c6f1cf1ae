CONSTANTS
  Scenes = {"file"}
  Admitted = {}
  Size = 3
  PartLength = 2
  BlockLength = 1
  Sources = {"a", "b"}
  Available <- MCAvailable
  Preview = FALSE
  BlocksAhead = 1
  MaxQueue = 2
  LateWrong = TRUE
  OpenErrors = FALSE
  FileScenarios <- WrongDuplicate
  ClientScenarios <- MCClient
  ServerScenarios <- MCServer
  KadScenarios <- MCKad
  ConnectionScenarios <- MCConnection
  MapperScenarios <- MCMapper
  Messages <- MCMessages
  Keywords <- MCKeywords
SPECIFICATION MCSpec
INVARIANT VerifiedIsRight
CHECK_DEADLOCK FALSE
