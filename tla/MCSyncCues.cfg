\* Cue lists and their cues, recorded and deleted together, with fairness. The system stops when nothing changes.
SPECIFICATION FairSpec
CONSTANTS
  u = u
  v = v
  x = x
  y = y
  Empty = Empty
  NoTarget = NoTarget
  NoContent = NoContent
  Garbled = Garbled
  Val <- MCVal
  Num = {1, 2}
  Part = {0}
  SubscribedTypes = {"CUELIST", "CUE"}
  CueListIds = {1, 2}
  ShowTargets <- CueTargets
  Contents <- TwoContents
  InitialConnect = {"IN_PROGRESS"}
  InitialShows <- NoneOrTwoCueLists
  ArgsPerPacket = 3
  Changes = {"target", "list", "cuelist", "load"}
  MaxEdits = 1
INVARIANT NoOrphanedCues
PROPERTIES ImplementsShowMirror EventuallySynchronized
CHECK_DEADLOCK FALSE
