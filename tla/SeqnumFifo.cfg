SPECIFICATION FairSpec
CONSTANTS
  c1 = c1
  c2 = c2
  c3 = c3
  None = None
  Clients <- ThreeClients
  Abnormal <- OneAbnormal
  Lengths = {1, 2}
  INT_MAX = 3
  Faults = {"client", "server"}
INVARIANTS
  DisjointRanges
PROPERTIES
  ImplementsService
  ReadyClientAnswered
CHECK_DEADLOCK FALSE
