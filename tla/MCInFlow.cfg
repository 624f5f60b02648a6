CONSTANTS
  PktIds = {1, 2}
  MaxMsgs = 3
  MaxConns = 3
SPECIFICATION Spec
INVARIANTS AtMostOnce SentOrder CompletedPublished OnlyReleased
CHECK_DEADLOCK FALSE
