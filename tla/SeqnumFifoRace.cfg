SPECIFICATION FairSpec
CONSTANTS
  c1 = c1
  c2 = c2
  c3 = c3
  None = None
  Clients <- TwoClients
  Abnormal = {}
  Lengths = {1}
  INT_MAX = 7
  Faults = {}
PROPERTY NormalClientAnswered
CHECK_DEADLOCK FALSE
