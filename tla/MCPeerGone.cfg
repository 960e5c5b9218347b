\* The console closes the connection.
SPECIFICATION FairSessionSpec
CONSTANTS
  u = u
  v = v
  x = x
  y = y
  Empty = Empty
  NoTarget = NoTarget
  NoContent = NoContent
  Garbled = Garbled
  Val <- MCVal
  Num = {1}
  Part = {0}
  SubscribedTypes = {"GROUP"}
  CueListIds = {}
  ShowTargets <- OneGroupTarget
  Contents <- TwoContents
  InitialConnect = {"IN_PROGRESS"}
  InitialShows <- OneGroup
  ArgsPerPacket = 3
  Changes = {"target"}
  MaxEdits = 0
  Platforms = {"Mac"}
  MaxInits = 1
PROPERTY ConsoleGoneIsNoticed
CHECK_DEADLOCK FALSE
