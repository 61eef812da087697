SPECIFICATION Spec
CONSTANTS
  Client = {c1, c2}
  song = song
  empty = empty
  locked = locked
  gone = gone
  File = {song, empty, locked, gone}
  NoClient = NoClient
  NoFile = NoFile
  Content <- MCContent
  Given <- MCGiven
  Buffer = 2
  Window = 2
  Backlog = 2
  MayKill = FALSE
INVARIANT
  OwnReply
CHECK_DEADLOCK FALSE
