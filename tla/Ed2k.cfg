CONSTANTS
  Scenes = {"file", "clients", "server", "kad", "connection", "codec", "ports"}
  Admitted = {}
  Size = 3
  PartLength = 2
  BlockLength = 1
  Sources = {"a", "b"}
  Available <- MCAvailable
  Preview = FALSE
  BlocksAhead = 1
  MaxQueue = 2
  LateWrong = FALSE
  OpenErrors = FALSE
  FileScenarios <- MCFile
  ClientScenarios <- MCClient
  ServerScenarios <- MCServer
  KadScenarios <- MCKad
  ConnectionScenarios <- MCConnection
  MapperScenarios <- MCMapper
  Messages <- MCMessages
  Keywords <- MCKeywords
SPECIFICATION MCSpec
INVARIANTS
  VerifiedIsRight FileSound PeersSound StreamSound CodecSound PortsSound
PROPERTIES
  EndgameOnly FileEnds FileKeepsContract SessionSound KadSound NetworkProgress
CHECK_DEADLOCK FALSE
