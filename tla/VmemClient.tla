----------------------------- MODULE VmemClient -----------------------------
(***************************************************************************)
(* The memory side that vector_unit, reduce_unit and mxu_top share: a      *)
(* request register that holds one word access until vmem_top grants it,   *)
(* and a wait state that takes the response.  A request may stay ungranted *)
(* for any number of cycles; meanwhile the other ports write words the     *)
(* running command does not use.                                           *)
(***************************************************************************)
EXTENDS Integers

CONSTANTS
  Words,     \* VMEM_BYTES / 4
  Half,      \* 2^31: a word is a signed number in -Half .. Half - 1
  Values,    \* words the other ports write
  MaxCmds    \* bound: commands accepted in one behaviour

VARIABLES
  state_q,      \* the unit's state register
  vmem_req_q,   \* its request register
  vmem_resp,    \* the response register of its port
  mem,          \* VMEM contents, by word
  mem0          \* history: mem as it would be had the running command not written

port == <<vmem_req_q, vmem_resp, mem, mem0>>

Word == -Half .. Half - 1
Addr == 0 .. Words - 1

ASSUME ClientAssumption == /\ Half \in Nat \ {0} /\ Words \in Nat \ {0}
                           /\ Values \subseteq Word /\ MaxCmds \in Nat

\* What 32-bit arithmetic leaves of an integer.
Wrap(x) == ((x + Half) % (2 * Half)) - Half

NoReq  == [valid |-> FALSE, write |-> FALSE, addr |-> 0, wdata |-> 0]
NoResp == [valid |-> FALSE, error |-> FALSE, rdata |-> 0]
ReadOf(addr)        == [valid |-> TRUE, write |-> FALSE, addr |-> addr, wdata |-> 0]
WriteOf(addr, data) == [valid |-> TRUE, write |-> TRUE, addr |-> addr, wdata |-> data]

\* vmem_bank: an access must be aligned and inside the memory.
Serviceable(r) == r.addr % 4 = 0 /\ r.addr \div 4 \in Addr

-----------------------------------------------------------------------------
\* The request of a *_REQ state goes into the register and stays there.
Drive(state, request) ==
  /\ state_q = state /\ ~vmem_req_q.valid
  /\ vmem_req_q' = request
  /\ UNCHANGED <<state_q, vmem_resp, mem, mem0>>

\* The edge at which vmem_top grants the request: the access takes effect and
\* its response is valid in the next cycle, the first of the *_WAIT state.
Grant(state, waiting) ==
  /\ state_q = state /\ vmem_req_q.valid
  /\ state_q' = waiting /\ vmem_req_q' = NoReq
  /\ vmem_resp' = [valid |-> TRUE, error |-> ~Serviceable(vmem_req_q),
                   rdata |-> IF Serviceable(vmem_req_q) /\ ~vmem_req_q.write
                             THEN mem[vmem_req_q.addr \div 4] ELSE 0]
  /\ mem' = IF Serviceable(vmem_req_q) /\ vmem_req_q.write
            THEN [mem EXCEPT ![vmem_req_q.addr \div 4] = vmem_req_q.wdata] ELSE mem
  /\ UNCHANGED mem0

\* A *_WAIT state that takes its response; "next" is the state it goes to.
Answered(waiting, next) ==
  /\ state_q = waiting /\ vmem_resp.valid
  /\ state_q' = IF vmem_resp.error THEN "ERROR" ELSE next
  /\ vmem_resp' = NoResp
  /\ UNCHANGED <<vmem_req_q, mem, mem0>>

\* Another port of the VMEM writes a word outside the command's footprint.
OtherPortWrites(footprint, values) ==
  \E a \in Addr \ footprint, v \in values :
    /\ mem' = [mem EXCEPT ![a] = v] /\ mem0' = [mem0 EXCEPT ![a] = v]
    /\ UNCHANGED <<state_q, vmem_req_q, vmem_resp>>

PortInit == /\ vmem_req_q = NoReq /\ vmem_resp = NoResp

PortTypeOK ==
  /\ vmem_req_q \in [valid : BOOLEAN, write : BOOLEAN, addr : Nat, wdata : Word]
  /\ vmem_resp \in [valid : BOOLEAN, error : BOOLEAN, rdata : Word]
  /\ mem \in [Addr -> Word] /\ mem0 \in [Addr -> Word]
=============================================================================
