SPECIFICATION Spec
CONSTANTS
  c1 = c1
  c2 = c2
  None = None
  Clients <- TwoClients
  Sizes <- AllSizes
  LONG = 2
  RESP_MSG_SIZE = 3
  FAIL_LEN = 2
  MAXMSG = 1
  Faults = {}
INVARIANT ServerStaysReachable
CHECK_DEADLOCK FALSE
