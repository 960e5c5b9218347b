\* A patched channel of two parts, one of which changes.
SPECIFICATION FairSpec
CONSTANTS
  u = u
  v = v
  x = x
  y = y
  Empty = Empty
  NoTarget = NoTarget
  NoContent = NoContent
  Garbled = Garbled
  Val <- MCVal
  Num = {1}
  Part = {0, 1, 2}
  SubscribedTypes = {"PATCH"}
  CueListIds = {}
  ShowTargets <- PatchTargets
  Contents <- ThreeContents
  InitialConnect = {"IN_PROGRESS"}
  InitialShows <- TwoParts
  ArgsPerPacket = 3
  Changes = {"target"}
  MaxEdits = 1
PROPERTY EventuallySynchronized
CHECK_DEADLOCK FALSE
