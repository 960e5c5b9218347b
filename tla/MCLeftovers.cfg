\* A second connection starts with the requests that the first has left in the queue.
SPECIFICATION FairSessionSpec
CONSTANTS
  u = u
  v = v
  x = x
  y = y
  Empty = Empty
  NoTarget = NoTarget
  NoContent = NoContent
  Garbled = Garbled
  Val <- MCVal
  Num = {1}
  Part = {0}
  SubscribedTypes = {"GROUP", "MACRO"}
  CueListIds = {}
  ShowTargets <- MacroTargets
  Contents <- OneContent
  InitialConnect = {"IN_PROGRESS"}
  InitialShows <- NoMacro
  ArgsPerPacket = 3
  Changes = {"target"}
  MaxEdits = 1
  Platforms = {"Mac"}
  MaxInits = 2
PROPERTY MirrorsEveryConnection
CHECK_DEADLOCK FALSE
