\* Two groups; every kind of change of one list, twice. The system stops when nothing changes.
SPECIFICATION Spec
CONSTANTS
  u = u
  v = v
  x = x
  y = y
  Empty = Empty
  NoTarget = NoTarget
  NoContent = NoContent
  Garbled = Garbled
  Val <- MCVal
  Num = {1, 2}
  Part = {0}
  SubscribedTypes = {"GROUP"}
  CueListIds = {}
  ShowTargets <- GroupTargets
  Contents <- ThreeContents
  InitialConnect = {"IN_PROGRESS"}
  InitialShows <- TwoGroups
  ArgsPerPacket = 3
  Changes = {"target", "swap", "list", "load"}
  MaxEdits = 2
INVARIANTS WaitsAreAnswered SynchronizedLists SynchronizedUids ResyncIsDirty
PROPERTY ImplementsShowMirror
CHECK_DEADLOCK FALSE
