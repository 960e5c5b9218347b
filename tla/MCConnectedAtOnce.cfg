\* The connection is established before the first Tick.
SPECIFICATION FairSpec
CONSTANTS
  u = u
  v = v
  x = x
  y = y
  Empty = Empty
  NoTarget = NoTarget
  NoContent = NoContent
  Garbled = Garbled
  Val <- MCVal
  Num = {1}
  Part = {0}
  SubscribedTypes = {"GROUP"}
  CueListIds = {}
  ShowTargets <- OneGroupTarget
  Contents <- TwoContents
  InitialConnect = {"CONNECTED"}
  InitialShows <- OneGroup
  ArgsPerPacket = 3
  Changes = {"target"}
  MaxEdits = 1
PROPERTY EventuallySynchronized
CHECK_DEADLOCK FALSE
