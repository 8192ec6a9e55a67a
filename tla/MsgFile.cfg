SPECIFICATION FairSpec
CONSTANTS
  c1 = c1
  c2 = c2
  None = None
  Clients <- TwoClients
  Sizes <- AllSizes
  LONG = 2
  RESP_MSG_SIZE = 3
  FAIL_LEN = 2
  MAXMSG = 1
  Faults = {"kill", "fork"}
INVARIANTS
  ZombieNoticed
  ReportIsFileSize
  NoCrossTalk
PROPERTIES
  RequestsServed
  ClientAnswered
CHECK_DEADLOCK FALSE
