CONSTANTS
  MaxConns = 2
  MaxSent = 2
  Wills = {"none", "now", "later"}
SPECIFICATION Spec
INVARIANTS TreeMatches SessionKept WillOnce Cancelled
PROPERTY WillSent
CHECK_DEADLOCK FALSE
