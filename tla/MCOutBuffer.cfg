CONSTANTS
  Threads = {"w1", "w2", "sender", "stop"}
  Writers = {"w1", "w2"}
  Size = 4
  Block = 2
  Todo <- ShortPackets
SPECIFICATION Spec
INVARIANTS TypeOK StallCause
PROPERTIES ImplementsSendPipe WriteReturns
CHECK_DEADLOCK FALSE
