SPECIFICATION CountSpec
CONSTANTS
  P = 251
  Exp <- MCExp
  Recip <- MCRecip
  Rsqrt <- MCRsqrt
  hbm_bytes = 1048576
  cmem_bytes = 524288
  vmem_bytes = 262144
  Weight <- MCWeight
  RopeCos <- MCRopeCos
  RopeSin <- MCRopeSin
  InvSqrt <- MCInvSqrt
  OneOver <- MCOneOver
  RmsEps = 19
  Stale = 191
INVARIANT MatmulsAsReported
