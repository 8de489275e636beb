SPECIFICATION UnitsFairSpec
CONSTANTS
  Words = 6
  Half = 128
  Values = {5}
  MaxCmds = 2
  Memories <- Patterns
  Cmds <- VectorCmds
  Fp <- Mix
  ReduceCmds <- Reductions
  ReduceFp <- MixReduce
  R = 4
  ARRAY_M = 2
  ARRAY_N = 2
  ARRAY_K = 2
  MatmulCmds <- Matmuls22
  PowerUp = {1}
  Space <- Spaces
  Hbm = "HBM"
  Bytes <- Sizes
  AddrMod = 64
  Label <- Labels
  Latency = 1
  DmaCmds <- Transfers
  InitMem <- Distinct
  NoData <- None
INVARIANTS UnitTypeOK UnitMatchesGolden UnitNeverFaults
PROPERTIES DmaImplementsCopy MxuUndisturbed UnitCommandEnds
