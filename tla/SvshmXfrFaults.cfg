SPECIFICATION Spec
CONSTANTS
  d1 = d1
  d2 = d2
  r1 = r1
  r2 = r2
  r3 = r3
  NoData = NoData
  Readers <- ThreeReaders
  Data <- MCData
  SizeOf <- MCSizeOf
  BUF_SIZE = 2
  MaxInput = 3
  MaxRuns = 1
  Faults = {"kill", "read", "write"}
SYMMETRY ReaderSymmetry
INVARIANTS
  MutualExclusion
  StreamIntegrity
  TotalsAgree
PROPERTY ImplementsStream
CHECK_DEADLOCK FALSE
