\* The console splits a reply of three arguments into a list of two packets.
SPECIFICATION FairSpec
CONSTANTS
  u = u
  v = v
  x = x
  y = y
  Empty = Empty
  NoTarget = NoTarget
  NoContent = NoContent
  Garbled = Garbled
  Val <- MCVal
  Num = {1}
  Part = {0}
  SubscribedTypes = {"GROUP"}
  CueListIds = {}
  ShowTargets <- OneGroupTarget
  Contents <- TwoContents
  InitialConnect = {"IN_PROGRESS"}
  InitialShows <- OneGroup
  ArgsPerPacket = 2
  Changes = {}
  MaxEdits = 0
PROPERTY EventuallySynchronized
CHECK_DEADLOCK FALSE
