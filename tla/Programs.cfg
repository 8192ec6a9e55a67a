SPECIFICATION MCSpec
CONSTANTS
  Programs = {"sig_speed", "tree", "dictionary", "copy", "notify", "filter",
              "popen", "system_v", "seqnum"}
  numSigs = 3
  MaxStrays = 2
  Files = {"f", "g"}
  MaxChanges = 3
  Procs = {1, 2, 3, 4}
  FilterLines = 3
  Signals = {"INT", "QUIT"}
  MaxSent = 3
  c1 = c1
  c2 = c2
  c3 = c3
  None = None
  Clients = {c1, c2, c3}
  Lengths = {1, 2}
  INT_MAX = 3
  CAPACITY = 2
  PollFaults = {"client", "server"}
  OPEN_MAX = 6
  BUF = 2
  PIPE_CAPACITY = 1
  MaxOutput = 3
  Bytes = {"a"}
  BLOCK = 2
  MaxLen = 3
  Lines = {"a", "b"}
  MaxText = 6
  MaxPid = 5
  MaxDeaths = 2
INVARIANTS
  Alternation
  TreeShown
  LookupRight
  CopyFaithful
  QuietMeansWatched
  OneReader
  PromptAfterCommand
  NoLostWakeup
PROPERTIES
  PartnersFinish
  LineComesOut
  CommandReturns
  PollingImplementsService
  PollingClientAnswered
CHECK_DEADLOCK FALSE
