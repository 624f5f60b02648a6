CONSTANTS
  PktIds = {1, 2}
  MaxMsgs = 3
  MaxConns = 3
SPECIFICATION Spec
INVARIANT CleanStartIsClean
CHECK_DEADLOCK FALSE
