SPECIFICATION FairSpec
CONSTANTS
  Scripts <- MCScripts
  Commands = {"few", "many", "none", "bad"}
  Output <- MCOutput
  Failing = {"bad"}
  Capacity = 1
  MaxLines = 4
  Faults = {"fork", "kill"}
INVARIANTS
  InOrder
  PromptLast
PROPERTY ScriptEnds
CHECK_DEADLOCK FALSE
