\* Two lists, of no groups and at most one macro; two connections, one change. The system stops when nothing changes.
SPECIFICATION FairSessionSpec
CONSTANTS
  u = u
  v = v
  x = x
  y = y
  Empty = Empty
  NoTarget = NoTarget
  NoContent = NoContent
  Garbled = Garbled
  Val <- MCVal
  Num = {1}
  Part = {0}
  SubscribedTypes = {"GROUP", "MACRO"}
  CueListIds = {}
  ShowTargets <- MacroTargets
  Contents <- OneContent
  InitialConnect = {"IN_PROGRESS"}
  InitialShows <- NoneOrOneMacro
  ArgsPerPacket = 3
  Changes = {"target"}
  MaxEdits = 1
  Platforms = {"Mac", "Win"}
  MaxInits = 2
INVARIANTS NothingCarriedOver WaitsAreAnsweredWhileUp WinsockPaired
PROPERTIES ImplementsShowMirrorAcrossSessions BrokenUntilShutdown ResynchronizesWhenUp ConnectingEnds
CHECK_DEADLOCK FALSE
