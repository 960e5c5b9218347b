\* A color that AddRGBA was given is not what the method finds.
SPECIFICATION Spec
CONSTANTS
  MaxFrameSize = 44
  MaxBufSize = 176
  Programs <- MCColors
  Methods <- MCMethods
  ChunkSizes = {5, 10}
  Uninitialized = {0, 192}
INVARIANTS HandledAsSent
CHECK_DEADLOCK FALSE
