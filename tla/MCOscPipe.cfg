\* Packets, bundles, lists and lines of text through either kind of frame. It ends when all has been read.
SPECIFICATION Spec
CONSTANTS
  MaxFrameSize = 44
  MaxBufSize = 176
  Programs <- MCPrograms
  Methods <- MCMethods
  ChunkSizes = {5, 10}
  Uninitialized = {0, 192}
INVARIANTS StreamBounded FramesInOrder NothingHeldBack Resynchronizes OverflowOnlyWhenLate HandledAsSent ListsReassemble
CHECK_DEADLOCK FALSE
