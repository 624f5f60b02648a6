CONSTANTS
  PktIds = {1, 2, 3}
  MsgTypes = {"PUBLISH"}
  Acks = {"PUBREC", "PUBCOMP"}
  InitSize = 2
  MaxSize = 4
  MaxWait = 5
SPECIFICATION Spec
INVARIANTS TypeOK EmapExact InOrderExactlyOnce AckOfOwnMessage AckedIsComplete
PROPERTY ImplementsFifo
CHECK_DEADLOCK FALSE
