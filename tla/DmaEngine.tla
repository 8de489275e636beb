----------------------------- MODULE DmaEngine -----------------------------
(***************************************************************************)
(* dma_engine together with the memories at its ports: hbm_model, which    *)
(* holds one request for a fixed latency, and the local memories (CMEM,    *)
(* VMEM0, VMEM1), which answer a granted request at the next edge and may  *)
(* withhold the grant while another port has the bank.  One step is one    *)
(* rising clock edge.                                                      *)
(***************************************************************************)
EXTENDS Integers

CONSTANTS Space, Bytes, AddrMod, Word,
          Hbm,          \* the member of Space with a latency
          Latency,      \* READ_LATENCY = WRITE_LATENCY of the HBM
          Cmds,         \* commands control_fsm may present
          InitMem,      \* contents of the memories at reset
          MaxCmds,      \* bound: commands accepted in one behaviour
          NoData        \* rdata of a response that carries none

VARIABLES
  st, cmd, offset, data,  \* dma_engine: state_q, cmd_q, offset_q, data_q
  req,        \* request register of every port: hbm_req_q, cmem_req_q, ...
  resp,       \* response register of every port: valid and rdata
  hbm,        \* hbm_model: busy_q, resp_q.ready, cycles_left_q, req_q
  mem,        \* contents of every memory
  golden,     \* history: contents the golden model's copy would leave
  accepted    \* history: commands accepted so far

vars == <<st, cmd, offset, data, req, resp, hbm, mem, golden, accepted>>

Phase == IF st \in {"IDLE", "DONE", "ERROR"} THEN st ELSE "COPY"

\* A word counts as copied from the edge at which the write takes effect,
\* which is the edge that makes its response valid.
Copied == IF Phase # "COPY" THEN 0
          ELSE offset \div 4 + (IF st = "WRITE_WAIT" /\ resp[cmd.dst].valid THEN 1 ELSE 0)

Copy == INSTANCE DmaCopy WITH phase <- Phase, copied <- Copied

\* What the constants must be; assumed by the module that instantiates this one.
ConstantsOK ==
  /\ Copy!SizesOK
  /\ Hbm \in Space /\ Latency \in Nat /\ MaxCmds \in Nat
  /\ \A c \in Cmds : Copy!IsCmd(c)
  /\ \E c \in Cmds : Copy!Verdict(c) = "NONE"
  /\ Copy!IsMemory(InitMem)

NoReq == [valid |-> FALSE, write |-> FALSE, addr |-> 0, wdata |-> NoData]
Read(a)     == [valid |-> TRUE, write |-> FALSE, addr |-> a, wdata |-> NoData]
Write(a, w) == [valid |-> TRUE, write |-> TRUE, addr |-> a, wdata |-> w]
NoReqs == [s \in Space |-> NoReq]
NoResp == [valid |-> FALSE, rdata |-> NoData]

-----------------------------------------------------------------------------
(* Memories                                                                *)

\* resp.ready: a register of the HBM, the arbiter's grant for the others.
Ready(s, grant) == IF s = Hbm THEN hbm.ready ELSE req[s].valid => grant

\* The request that takes effect at this edge: the HBM's when its latency has
\* passed, a local memory's when it is granted.
Effect(s, grant) ==
  IF s = Hbm THEN IF hbm.busy /\ hbm.left = 0 THEN hbm.req ELSE NoReq
  ELSE IF grant THEN req[s] ELSE NoReq

\* The HBM takes a request whenever it is not busy, whatever ready says.
HbmStep ==
  hbm' = CASE ~hbm.busy /\ req[Hbm].valid ->
                [busy |-> TRUE, ready |-> FALSE, left |-> Latency, req |-> req[Hbm]]
           [] hbm.busy /\ hbm.left = 0 -> [hbm EXCEPT !.busy = FALSE, !.ready = TRUE]
           [] hbm.busy /\ hbm.left > 0 -> [hbm EXCEPT !.ready = FALSE, !.left = @ - 1]
           [] OTHER                    -> [hbm EXCEPT !.ready = TRUE]

MemoryStep(grant) ==
  /\ HbmStep
  /\ mem' = [s \in Space |->
       LET r == Effect(s, grant)
       IN  IF r.write THEN [mem[s] EXCEPT ![r.addr \div 4] = r.wdata] ELSE mem[s]]
  /\ resp' = [s \in Space |->
       LET r == Effect(s, grant)
       IN  IF ~r.valid THEN NoResp
           ELSE [valid |-> TRUE,
                 rdata |-> IF r.write THEN NoData ELSE mem[s][r.addr \div 4]]]

-----------------------------------------------------------------------------
(* dma_engine, one action per state                                        *)

\* GoldenExecutor._execute_dma raises on a range outside a memory; else it reads
\* the whole payload before it writes any.
GoldenInRange(c) == c.from + c.len <= Bytes[c.src] /\ c.to + c.len <= Bytes[c.dst]
GoldenWrite(m, c) ==
  IF ~GoldenInRange(c) THEN m
  ELSE [m EXCEPT ![c.dst] = [a \in Copy!WordAddr(c.dst) |->
         IF a \in Copy!Target(c, 0) .. Copy!Target(c, Copy!WordCount(c) - 1)
         THEN m[c.src][Copy!Source(c, a - Copy!Target(c, 0))] ELSE m[c.dst][a]]]

Accept(c) ==
  /\ st = "IDLE" /\ Copy!Verdict(c) = "NONE" /\ accepted < MaxCmds
  /\ cmd' = c /\ offset' = 0
  /\ st' = IF c.len = 0 THEN "DONE" ELSE "READ_REQ"
  /\ req' = NoReqs
  /\ golden' = GoldenWrite(mem, c) /\ accepted' = accepted + 1
  /\ UNCHANGED data

Reject(c) ==
  /\ st = "IDLE" /\ Copy!Verdict(c) # "NONE" /\ accepted < MaxCmds
  /\ st' = "ERROR" /\ req' = NoReqs
  /\ accepted' = accepted + 1
  /\ UNCHANGED <<cmd, offset, data, golden>>

NoCommand ==
  /\ st \in {"IDLE", "ERROR"}
  /\ req' = NoReqs
  /\ UNCHANGED <<st, cmd, offset, data, golden, accepted>>

ReadReq(grant) ==
  /\ st = "READ_REQ"
  /\ IF req[cmd.src].valid /\ Ready(cmd.src, grant)
     THEN st' = "READ_WAIT" /\ req' = NoReqs
     ELSE req' = [req EXCEPT ![cmd.src] = Read(cmd.from + offset)] /\ UNCHANGED st
  /\ UNCHANGED <<cmd, offset, data, golden, accepted>>

ReadWaitIgnoresValid ==
  /\ st = "READ_WAIT"
  /\ req' = NoReqs
  /\ st' = "WRITE_REQ" /\ data' = resp[cmd.src].rdata
  /\ UNCHANGED <<cmd, offset, golden, accepted>>

ReadWait ==
  /\ st = "READ_WAIT"
  /\ req' = NoReqs
  /\ IF resp[cmd.src].valid
     THEN st' = "WRITE_REQ" /\ data' = resp[cmd.src].rdata
     ELSE UNCHANGED <<st, data>>
  /\ UNCHANGED <<cmd, offset, golden, accepted>>

WriteReq(grant) ==
  /\ st = "WRITE_REQ"
  /\ IF req[cmd.dst].valid /\ Ready(cmd.dst, grant)
     THEN st' = "WRITE_WAIT" /\ req' = NoReqs
     ELSE req' = [req EXCEPT ![cmd.dst] = Write(cmd.to + offset, data)] /\ UNCHANGED st
  /\ UNCHANGED <<cmd, offset, data, golden, accepted>>

WriteWait ==
  /\ st = "WRITE_WAIT"
  /\ req' = NoReqs
  /\ IF ~resp[cmd.dst].valid THEN UNCHANGED <<st, offset>>
     ELSE IF offset + 4 >= cmd.len THEN st' = "DONE" /\ UNCHANGED offset
     ELSE st' = "READ_REQ" /\ offset' = offset + 4
  /\ UNCHANGED <<cmd, data, golden, accepted>>

Done ==
  /\ st = "DONE"
  /\ st' = "IDLE" /\ req' = NoReqs
  /\ UNCHANGED <<cmd, offset, data, golden, accepted>>

EngineStep(grant) ==
  \/ \E c \in Cmds : Accept(c) \/ Reject(c)
  \/ NoCommand
  \/ ReadReq(grant) \/ ReadWait \/ WriteReq(grant) \/ WriteWait
  \/ Done

-----------------------------------------------------------------------------
Init ==
  /\ st = "IDLE" /\ offset = 0 /\ data = NoData
  /\ cmd = CHOOSE c \in Cmds : Copy!Verdict(c) = "NONE"   \* cmd_q is read only after a load
  /\ req = NoReqs /\ resp = [s \in Space |-> NoResp]
  /\ hbm = [busy |-> FALSE, ready |-> TRUE, left |-> 0, req |-> NoReq]
  /\ mem = InitMem /\ golden = InitMem
  /\ accepted = 0

Edge(grant) == EngineStep(grant) /\ MemoryStep(grant)
Next == \E grant \in BOOLEAN : Edge(grant)

Spec == Init /\ [][Next]_vars

\* The clock ticks, and a request that keeps waiting at a local memory is
\* granted in the end: the ports with priority drop their request after every
\* grant and wait for its response.
Granted == Edge(TRUE) /\ \E s \in Space \ {Hbm} : req[s].valid
FairSpec == Spec /\ WF_vars(Next) /\ WF_vars(Granted)

-----------------------------------------------------------------------------
(* Properties                                                              *)

\* The type of every register.
TypeOK ==
  /\ st \in {"IDLE", "READ_REQ", "READ_WAIT", "WRITE_REQ", "WRITE_WAIT", "DONE", "ERROR"}
  /\ cmd \in Cmds
  /\ offset \in 0 .. cmd.len /\ offset % 4 = 0 /\ (offset = cmd.len => offset = 0)
  /\ data \in Word \cup {NoData}
  /\ req \in [Space -> [valid : BOOLEAN, write : BOOLEAN, addr : Nat, wdata : Word \cup {NoData}]]
  /\ resp \in [Space -> [valid : BOOLEAN, rdata : Word \cup {NoData}]]
  /\ hbm \in [busy : BOOLEAN, ready : BOOLEAN, left : 0 .. Latency,
              req : [valid : BOOLEAN, write : BOOLEAN, addr : Nat, wdata : Word \cup {NoData}]]
  /\ Copy!IsMemory(mem)
  /\ Copy!IsMemory(golden)
  /\ accepted \in 0 .. MaxCmds

\* The engine implements word-at-a-time copying: no word is lost, duplicated,
\* taken from another address or written early, whatever the latency and
\* however often a bank conflict stalls a port.
Implements == [][Copy!CopyNext(Cmds)]_(Copy!copyVars)

\* Source and destination are in one memory, overlap, and the destination is
\* ahead: a forward copy reads words it has already overwritten.
ForwardOverlap(c) ==
  c.src = c.dst /\ c.from < c.to /\ c.to < c.from + c.len

\* A finished command has left in every memory what the golden model's
\* read-all-then-write copy leaves, outside the overlap it cannot honour.
MatchesGolden == st = "DONE" /\ ~ForwardOverlap(cmd) => mem = golden

\* No memory access leaves its space, so the range check at accept makes the
\* error responses of the memories unreachable for any 32-bit address.
AccessInRange ==
  \A s \in Space : /\ req[s].valid => req[s].addr \div 4 \in Copy!WordAddr(s)
                   /\ hbm.busy => hbm.req.addr \div 4 \in Copy!WordAddr(Hbm)

\* Every accepted command ends.
CommandEnds == st = "READ_REQ" ~> st = "DONE"
=============================================================================
