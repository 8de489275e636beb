SPECIFICATION MCSpec
CONSTANTS
  NumTC = 2
  NumMxu = 2
  Depth = 4
  Instr <- MCInstr
  HostSlots = {}
  Images <- MCImages
  HbmCell = {0}
  VmemCell = {0, 1}
  Programs <- MCPrograms
  Compute <- MCCompute
  Initial <- MCInitial
  MaxRuns = 2
INVARIANTS RaceFree HaltMatchesGolden
