SPECIFICATION Spec
CONSTANTS
  n1 = n1
  n2 = n2
  c1 = c1
  c2 = c2
  c3 = c3
  Nodes = {n1, n2}
  Clients = {c1, c2, c3}
  NodeOf <- NodeOfMC
  Persistent = {c1, c3}
  Filters = {"a", "#"}
  Groups = {"g"}
  Messages = {1}
  MaxOps = 3
INVARIANTS
  GroupOnce
  SubscribersKnown
