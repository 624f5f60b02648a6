CONSTANTS
  Threads = {"receiver", "processor"}
  Size = 8
  Block = 2
  MaxPacketSize = 100
  Streams <- ShortStreams
SPECIFICATION Spec
PROPERTY StopReturns
CHECK_DEADLOCK FALSE
