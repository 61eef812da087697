SPECIFICATION FairSpec
CONSTANTS
  p1 = p1
  p2 = p2
  p3 = p3
  common = common
  wrapped = wrapped
  missing = missing
  Boot = Boot
  NoAddr = NoAddr
  Peer <- MCPeer
  File <- MCFile
  FileId <- MCFileId
  NodeId <- MCNodeId
  MyFile <- MCMyFile
  Patient = TRUE
  Quiet = TRUE
  MaxStarts = 1
  MaxSearches = 1
PROPERTY
  EveryPeerConfigured
CHECK_DEADLOCK FALSE
