CONSTANTS
  p1 = p1
  p2 = p2
  Publishers = {p1, p2}
  QosOf <- QosMC
  NoLocalMsgs = {3}
  RetainedId <- RetainedIdMC
  Quota = 2
  MaxId = 2
  MaxConns = 2
  PubrecCodes = {0, 128}
SPECIFICATION Spec
SYMMETRY Perms
INVARIANTS InFlightBounded QuotaAccounted Recorded AckFindsRecord Drained
CHECK_DEADLOCK FALSE
