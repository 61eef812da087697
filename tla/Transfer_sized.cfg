SPECIFICATION SizedFairSpec
CONSTANTS
  Client = {c1, c2}
  song = song
  torn = torn
  empty = empty
  File = {song, torn, empty}
  Directory = {c1, c2}
  NoClient = NoClient
  NoFile = NoFile
  Kept <- MCKept
  Given <- MCGiven
  Content <- MCContent
  DirectoryOf <- MCDirectoryOf
  Ten = 2
  Hundred = 2
  MaxInt = 6
  Buffer = 3
  Window = 3
  Backlog = 2
  MaxProcesses = 2
  MaxDownloads = 2
  MayKill = TRUE
  NoMode = FALSE
INVARIANTS
  AfterTheHeader
  PercentageTells
PROPERTY
  EveryDownloadEnds
CHECK_DEADLOCK FALSE
