SPECIFICATION FairSpec
CONSTANTS
  NumTC = 2
  NumMxu = 2
  Depth = 3
  Instr <- MCInstr
  HostSlots = {1}
  Images <- MCImages
INVARIANTS TypeOK BarrierDrains HaltQuiescent StartQuiescent CommandCoherent ErrorAttribution
PROPERTIES IssueExactlyOnce RunTerminates
