SPECIFICATION Spec
CONSTANTS
  middle = middle
  wrapped = wrapped
  swallowed = swallowed
  missing = missing
  File <- MCFile
  FileId <- MCFileId
  N = 4
  NodeId <- MCNodeId
  MyFile <- MCMyFile
  OwnerOfNamed <- MCOwnerOfNamed
  Cmd = {c1, c2}
  Patient = FALSE
SYMMETRY Symmetry
INVARIANTS
  TypeOK
  OneDatagramPerSearch
  AnswersAreTrue
  NoPeerAskedTwice
PROPERTY
  ImplementsLookup
CHECK_DEADLOCK FALSE
