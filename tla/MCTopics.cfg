SPECIFICATION Spec
CONSTANTS
  Clients = {c1, c2}
  Levels <- MCLevels
  PubQos = 1
  MaxMsgs = 2
  TopicNames <- MCTopicNames
  Packets <- MCPackets
SYMMETRY Symmetric
INVARIANTS
  TypeOK
  Routed
  NoDeadBranches
  RetainedAgrees
  RetainedOrLive
