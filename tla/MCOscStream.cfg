\* Three packets through the stream. Nothing happens when all have arrived.
SPECIFICATION Spec
CONSTANTS
  Base = 4
  HeaderSize = 2
  RecvBufSize = 5
  Packets <- MCPackets
  EmptyHeaders <- MCEmptyHeaders
  MaxPackets = 3
INVARIANTS DeliveredInOrder NothingHeldBack BufferBounded
PROPERTY EverythingArrives
CHECK_DEADLOCK FALSE
