SPECIFICATION Spec
CONSTANTS
  p1 = p1
  p2 = p2
  p3 = p3
  common = common
  wrapped = wrapped
  missing = missing
  Boot = Boot
  NoAddr = NoAddr
  Peer <- MCPeer
  File <- MCFile
  FileId <- MCFileId
  NodeId <- MCNodeId
  MyFile <- MCMyFile
  Patient = FALSE
  Quiet = FALSE
  MaxStarts = 2
  MaxSearches = 1
INVARIANTS
  TypeOK
  ConfiguredAfterAll
  OneRing
  AnswersAreTrue
CHECK_DEADLOCK FALSE
