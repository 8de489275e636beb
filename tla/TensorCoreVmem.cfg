SPECIFICATION FairSpec
CONSTANTS
  NumMxu = 2
  Words = 2
  Banks = 2
  MaxAccess = 2
  ClearCmds <- MCClearCmds
  None = None
INVARIANTS TypeOK WaitIsAnswered OneAccessPerBank ClearsUnrefused ClearsOnlyRange
PROPERTIES ClearEnds DmaServed
