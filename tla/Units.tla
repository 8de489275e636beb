------------------------------- MODULE Units -------------------------------
(***************************************************************************)
(* The units that read and write memory for a command: the vector and the  *)
(* reduce lane and an MXU, each on a VMEM behind its port, and the DMA     *)
(* engine on an HBM and local memories.  A behaviour exercises one of      *)
(* them; registers of the same name are one variable.                      *)
(***************************************************************************)
EXTENDS VectorUnit

CONSTANTS
  Memories,                          \* contents VMEM may have at reset
  ReduceCmds, ReduceFp(_, _, _),     \* Cmds and Fp of ReduceUnit
  R, ARRAY_M, ARRAY_N, ARRAY_K,      \* of MxuTop, whose Cmds are MatmulCmds
  MatmulCmds, PowerUp,
  Space, Hbm, Bytes, AddrMod, Label, \* of DmaEngine, whose words are Label
  Latency, DmaCmds, InitMem, NoData

VARIABLES
  lane,                                                   \* the unit at work
  acc_q, value_q, write_value_q, write_addr_q,            \* ReduceUnit
  cnt_i_q, cnt_j_q, byte_sel_q, a_tile, b_tile, c_in,     \* MxuTop
  array_start_q, arr, k_idx_q, pe_acc,
  st, cmd, offset, data, req, resp, hbm, golden           \* DmaEngine

Reduce == INSTANCE ReduceUnit WITH Cmds <- ReduceCmds, Fp <- ReduceFp
Mxu    == INSTANCE MxuTop WITH Cmds <- MatmulCmds
Dma    == INSTANCE DmaEngine WITH Word <- Label, Cmds <- DmaCmds

ASSUME UnitsAssumption ==
  /\ Memories \subseteq [Addr -> Word]
  /\ Reduce!ConstantsOK /\ Mxu!ConstantsOK /\ Dma!ConstantsOK

-----------------------------------------------------------------------------
(* Behaviours of one unit                                                  *)

lhsRegs    == <<lhs_q, result_q>>
reduceRegs == <<value_q, write_value_q, write_addr_q>>
mxuRegs    == <<cnt_i_q, cnt_j_q, byte_sel_q, a_tile, b_tile, c_in, array_start_q, arr, k_idx_q, pe_acc>>
dmaRegs    == <<st, cmd, offset, data, req, resp, hbm, golden>>
unitsVars  == <<vars, lane, acc_q, reduceRegs, mxuRegs, dmaRegs>>

LhsIdle    == lhs_q = 0 /\ result_q = 0
ReduceIdle == value_q = 0 /\ write_value_q = 0 /\ write_addr_q = 0
MxuIdle    == /\ cnt_i_q = 0 /\ cnt_j_q = 0 /\ byte_sel_q = 0 /\ array_start_q = FALSE
              /\ a_tile = <<>> /\ b_tile = <<>> /\ c_in = <<>>
              /\ arr = "IDLE" /\ k_idx_q = 0 /\ pe_acc = <<>>
DmaIdle    == /\ st = "IDLE" /\ cmd = 0 /\ offset = 0 /\ data = 0
              /\ req = <<>> /\ resp = <<>> /\ hbm = 0 /\ golden = <<>>
PortIdle   == /\ state_q = "IDLE" /\ vmem_req_q = NoReq /\ vmem_resp = NoResp /\ mem0 = <<>>
              /\ cmd_q = 0 /\ index_q = 0

UnitsInit ==
  \/ /\ lane = "vector" /\ \E memory \in Memories : InitWith(memory)
     /\ acc_q = 0 /\ ReduceIdle /\ MxuIdle /\ DmaIdle
  \/ /\ lane = "reduce" /\ \E memory \in Memories : Reduce!InitWith(memory)
     /\ LhsIdle /\ MxuIdle /\ DmaIdle
  \/ /\ lane = "mxu" /\ \E memory \in Memories, garbage \in PowerUp : Mxu!InitWith(memory, garbage)
     /\ index_q = 0 /\ LhsIdle /\ ReduceIdle /\ DmaIdle
  \/ /\ lane = "dma" /\ Dma!Init
     /\ PortIdle /\ acc_q = 0 /\ LhsIdle /\ ReduceIdle /\ MxuIdle

Vectors == /\ lane = "vector"
           /\ UNCHANGED <<lane, acc_q, reduceRegs, mxuRegs, dmaRegs>>
Reduces == /\ lane = "reduce"
           /\ UNCHANGED <<lane, lhsRegs, mxuRegs, dmaRegs>>
Matmuls == /\ lane = "mxu"
           /\ UNCHANGED <<lane, index_q, lhsRegs, reduceRegs, dmaRegs>>
Copying == /\ lane = "dma"
           /\ UNCHANGED <<lane, acc_q, state_q, vmem_req_q, vmem_resp, mem0, cmd_q, index_q,
                          lhsRegs, reduceRegs, mxuRegs>>

UnitsNext == \/ Vectors /\ Next
             \/ Reduces /\ Reduce!Next
             \/ Matmuls /\ Mxu!Next
             \/ Copying /\ Dma!Next

UnitsSpec == UnitsInit /\ [][UnitsNext]_unitsVars

\* The fairness of the four units.
UnitsFairSpec ==
  /\ UnitsSpec
  /\ WF_unitsVars(Vectors /\ UnitStep)
  /\ WF_unitsVars(Reduces /\ Reduce!UnitStep)
  /\ WF_unitsVars(Matmuls /\ Mxu!MxuStep /\ Mxu!ArrayStep)
  /\ WF_unitsVars(Copying /\ Dma!Next)
  /\ WF_unitsVars(Copying /\ Dma!Granted)

-----------------------------------------------------------------------------
(* Properties                                                              *)

\* The type of every register of the unit at work.
UnitTypeOK ==
  CASE lane = "vector" -> TypeOK
    [] lane = "reduce" -> Reduce!TypeOK
    [] lane = "mxu"    -> Mxu!TypeOK
    [] lane = "dma"    -> Dma!TypeOK

\* A finished command leaves in memory exactly what GoldenExecutor leaves:
\* MatchesGolden of the unit at work.
UnitMatchesGolden ==
  CASE lane = "vector" -> MatchesGolden
    [] lane = "reduce" -> Reduce!MatchesGolden
    [] lane = "mxu"    -> Mxu!MatchesGolden
    [] lane = "dma"    -> Dma!MatchesGolden

\* No access of an accepted command fails (NeverFaults of the units on VMEM), or
\* leaves its space (AccessInRange of the DMA engine).
UnitNeverFaults ==
  CASE lane = "vector" -> NeverFaults
    [] lane = "reduce" -> Reduce!NeverFaults
    [] lane = "mxu"    -> Mxu!NeverFaults
    [] lane = "dma"    -> Dma!AccessInRange

\* The DMA engine implements word-at-a-time copying (Implements of DmaEngine).
DmaImplementsCopy == [][lane = "dma" => Dma!Copy!CopyNext(DmaCmds)]_(Dma!Copy!copyVars)

\* Neither the MXU's tiles nor the sums of its array change while they are used
\* (ArrayUndisturbed of MxuTop).
MxuUndisturbed == [][lane = "mxu" => Mxu!ArrayUndisturbedStep]_unitsVars

\* Every command a unit has accepted ends.
UnitCommandEnds ==
  /\ state_q \in {"READ0_REQ", "READ_VALUE_REQ", "LOAD_A_REQ"} ~> state_q = "DONE"
  /\ st = "READ_REQ" ~> st = "DONE"
=============================================================================
