CONSTANTS
  Threads = {"receiver", "processor"}
  Size = 8
  Block = 2
  MaxPacketSize = 100
  Streams <- ShortStreams
SPECIFICATION Spec
INVARIANTS TypeOK UnreadIntact NeverBothWait
PROPERTIES ImplementsPipe SpaceNoticed
CHECK_DEADLOCK FALSE
