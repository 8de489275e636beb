SPECIFICATION Spec
CONSTANTS
  NumMxu = 2
  Words = 2
  Banks = 2
  MaxAccess = 1
  ClearCmds <- MCClearCmds
  None = None
INVARIANT ClearsWholeRange
