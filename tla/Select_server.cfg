SPECIFICATION FairSpec
CONSTANTS
  Client = {c1, c2}
  song = song
  empty = empty
  locked = locked
  gone = gone
  File = {song, empty, locked, gone}
  NoClient = NoClient
  NoFile = NoFile
  Content <- MCContent
  Given <- MCGiven
  Buffer = 2
  Window = 2
  Backlog = 2
  MayKill = TRUE
INVARIANTS
  TypeOK
  MasterIsOpen
  WholeReplies
  EndOnlyWithServer
PROPERTY
  LastIsServed
CHECK_DEADLOCK FALSE
