SPECIFICATION FairSpec
CONSTANTS
  Client = {c1, c2}
  song = song
  gone = gone
  here = here
  File = {song, gone}
  Directory = {here}
  NoClient = NoClient
  NoFile = NoFile
  Content <- MCContent
  DirectoryOf <- MCDirectoryOf
  Buffer = 2
  Window = 2
  Backlog = 2
  MaxProcesses = 2
  MaxDownloads = 3
  MayKill = TRUE
  NoMode = TRUE
INVARIANTS
  TypeOK
  OnlySourceBytes
  EndMeansAll
  WholeWhenQuiet
PROPERTY
  EveryDownloadEnds
CHECK_DEADLOCK FALSE
