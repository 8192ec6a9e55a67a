SPECIFICATION FairSpec
CONSTANTS
  d1 = d1
  d2 = d2
  r1 = r1
  r2 = r2
  r3 = r3
  NoData = NoData
  Readers <- TwoReaders
  Data <- OneBlock
  SizeOf <- OneSize
  BUF_SIZE = 2
  MaxInput = 2
  MaxRuns = 2
  Faults = {"kill"}
PROPERTIES
  RerunSafeWhenQuiet
  TransferCompletes
CHECK_DEADLOCK FALSE
