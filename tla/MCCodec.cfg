CONSTANTS
  Setters <- AllSetters
  Later <- LaterSetters
  MaxSets <- SetsOf
  MaxTrips = 2
  FirstIds = {0, 65535}
SPECIFICATION Spec
INVARIANTS LengthsRight BufAgrees RoundTrip RetainedKeepsLast
CHECK_DEADLOCK FALSE
