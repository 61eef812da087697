SPECIFICATION FairSpec
CONSTANTS
  middle = middle
  wrapped = wrapped
  swallowed = swallowed
  missing = missing
  File <- MCFile
  FileId <- MCFileId
  N = 3
  NodeId <- LiveNodeId
  MyFile <- LiveMyFile
  OwnerOfNamed <- MCOwnerOfNamed
  Cmd = {c1, c2}
  Patient = TRUE
PROPERTIES
  SharedFileIsFound
  UnsharedSearchNeverEnds
CHECK_DEADLOCK FALSE
