SPECIFICATION MCSpec
CONSTANTS
  P = 251
  Exp <- MCExp
  Recip <- MCRecip
  Rsqrt <- MCRsqrt
  hbm_bytes = 1048576
  cmem_bytes = 524288
  vmem_bytes = 262144
  Weight <- MCWeight
  RopeCos <- MCRopeCos
  RopeSin <- MCRopeSin
  InvSqrt <- MCInvSqrt
  OneOver <- MCOneOver
  RmsEps = 19
  Stale = 191
  Config <- MCConfig
  Prompts <- MCPrompts
  NewTokens <- MCNewTokens
  Job <- MCJob
  Key <- MCKey
  Value = {"a", "b"}
  Unset = Unset
  None = None
  Payload <- MCPayload
  Rtl = {2}
  Environ0 <- MCEnviron0
  Reader = {r}
  Proc = {"first", "second"}
  Programs = {"matmul", "faulty", "endless"}
  Tile = {"x", "y"}
  Words = 2
INVARIANTS OneJobAtATime BuildSeesOwnSettings SucceededHasResult PassIsOwnRun DecodeMatchesPrefill
           NoConflictInFlight ResultsMatchReference CommandsAccepted
PROPERTY ProcessEnds
\* Jobs, processes and a generation come to an end.
CHECK_DEADLOCK FALSE
