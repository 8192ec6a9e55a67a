SPECIFICATION Spec
CONSTANTS
  Lines = {"a", "b"}
  MaxLines = 4
INVARIANT WholeDefinitionShown
CHECK_DEADLOCK FALSE
