SPECIFICATION Spec
CONSTANTS
  p1 = p1
  p2 = p2
  p3 = p3
  common = common
  wrapped = wrapped
  missing = missing
  Boot = Boot
  NoAddr = NoAddr
  Peer <- MCPeer
  File <- MCFile
  FileId <- MCFileId
  NodeId <- MCNodeId
  MyFile <- MCMyFile
  Patient = TRUE
  Quiet = FALSE
  MaxStarts = 1
  MaxSearches = 1
INVARIANT
  TopologyReady
CHECK_DEADLOCK FALSE
