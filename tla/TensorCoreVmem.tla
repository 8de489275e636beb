--------------------------- MODULE TensorCoreVmem ---------------------------
(***************************************************************************)
(* One TensorCore's VMEM and the engines that share it: vmem_top with its  *)
(* banks and fixed priority, the CLEAR engine of tensor_core, and the      *)
(* request/wait loop that mxu_top, vector_unit, reduce_unit and dma_engine *)
(* have in common.  What a command computes is left out: an engine makes   *)
(* some number of accesses at addresses of its choice.                     *)
(*                                                                         *)
(* One step is one rising clock edge.                                      *)
(***************************************************************************)
EXTENDS Integers

CONSTANTS
  NumMxu,      \* MXUS_PER_TC
  Words,       \* VMEM_BYTES / 4
  Banks,       \* BANKS
  MaxAccess,   \* bound: memory accesses of one command
  ClearCmds,   \* CLEAR commands: byte address and byte length
  None

Mxu  == 0 .. NumMxu - 1
Vec  == NumMxu
Red  == NumMxu + 1           \* shared by reduce_unit and CLEAR
Dma  == NumMxu + 2
Port == 0 .. NumMxu + 2      \* in the order of priority
Clr  == NumMxu + 3           \* not a port: the CLEAR engine as owner of Red
Addr == 0 .. Words - 1

ASSUME VmemAssumption ==
  /\ NumMxu \in Nat \ {0} /\ Words \in Nat \ {0} /\ Banks \in Nat \ {0}
  /\ MaxAccess \in Nat \ {0}
  /\ ClearCmds \subseteq [dst : Nat, len : Nat]
  /\ None \notin Addr \cup Port /\ None \notin [addr : Addr, by : Port \cup {Clr}]

VARIABLES
  st,        \* state of the engine at every port
  left,      \* accesses the engine's command still has to make
  req,       \* request register of the engine: a word address or None
  resp,      \* response register of the port: the access it answers, or None
  clear,     \* tensor_core.clear_state_q
  clr,       \* clear_cmd_q
  offset,    \* clear_offset_q
  cleared,   \* history: words zeroed since the last CLEAR was accepted
  refused    \* history: words of CLEAR a bank conflict refused since then

engines == <<st, left, req>>
clearEngine == <<clear, clr, offset, cleared, refused>>
vars == <<engines, resp, clearEngine>>

-----------------------------------------------------------------------------
(* Ports                                                                   *)

ClearWord == (clr.dst + offset) \div 4
ClearWords(c) == {a \in Addr : 4 * a >= c.dst /\ 4 * a < c.dst + c.len}

\* While CLEAR runs it owns the reduce port and reduce_unit sees no response.
PortReq(p) == IF p = Red /\ clear = "RUN" THEN ClearWord ELSE req[p]
Owner(p)   == IF p = Red /\ clear = "RUN" THEN Clr ELSE p
Seen(p)    == IF p = Red /\ clear = "RUN" THEN None ELSE resp[p]

Bank(a) == a % Banks

\* vmem_top: a bank serves the first port that asks for it.
GrantedIgnoringVector(p) ==
  /\ PortReq(p) # None
  /\ \A q \in Port : q < p /\ q # Vec /\ PortReq(q) # None =>
       Bank(PortReq(q)) # Bank(PortReq(p))

GrantedMutualBlock(p) ==
  /\ PortReq(p) # None
  /\ \A q \in Port \ {p} : PortReq(q) # None =>
       Bank(PortReq(q)) # Bank(PortReq(p))

Granted(p) ==
  /\ PortReq(p) # None
  /\ \A q \in Port : q < p /\ PortReq(q) # None =>
       Bank(PortReq(q)) # Bank(PortReq(p))

ReadyUngated(p) == Owner(p) = p

Ready(p) == Owner(p) = p /\ Granted(p)

VmemStep ==
  resp' = [p \in Port |-> IF Granted(p) THEN [addr |-> PortReq(p), by |-> Owner(p)]
                          ELSE None]

-----------------------------------------------------------------------------
(* Dispatch                                                                *)

AnyChildBusy ==
  \/ \E p \in Mxu \cup {Vec, Red} : st[p] \in {"REQ", "WAIT", "RUN"}
  \/ clear = "RUN"

\* MATMUL needs an idle MXU only; the other commands wait for every child.
MayAccept(p) == st[p] = "IDLE" /\ (p \in Mxu \cup {Dma} \/ ~AnyChildBusy)

ClearRangeOK(c) == c.dst % 4 = 0 /\ c.len % 4 = 0 /\ c.dst + c.len <= 4 * Words

AcceptClear(c) ==
  /\ clear = "IDLE" /\ ~AnyChildBusy
  /\ IF ~ClearRangeOK(c)
     THEN clear' = "ERROR" /\ UNCHANGED <<clr, offset, cleared, refused>>
     ELSE /\ clear' = IF c.len = 0 THEN "DONE" ELSE "RUN"
          /\ clr' = c /\ offset' = 0 /\ cleared' = {} /\ refused' = {}

-----------------------------------------------------------------------------
(* CLEAR engine                                                            *)

ClearAdvanceEarlyDone ==
  IF resp[Red] = None THEN UNCHANGED <<clear, offset>>
  ELSE IF offset + 8 >= clr.len THEN clear' = "DONE" /\ UNCHANGED offset
  ELSE offset' = offset + 4 /\ UNCHANGED clear

ClearAdvanceLate ==
  IF resp[Red] = None THEN UNCHANGED <<clear, offset>>
  ELSE IF offset + 4 > clr.len THEN clear' = "DONE" /\ UNCHANGED offset
  ELSE offset' = offset + 4 /\ UNCHANGED clear

ClearAdvanceMuxed ==
  IF Seen(Red) = None THEN UNCHANGED <<clear, offset>>
  ELSE IF offset + 4 >= clr.len THEN clear' = "DONE" /\ UNCHANGED offset
  ELSE offset' = offset + 4 /\ UNCHANGED clear

\* The request of the current offset is on the port in every RUN cycle; the
\* offset moves on when a response arrives, whatever request it answers.
ClearAdvance ==
  IF resp[Red] = None THEN UNCHANGED <<clear, offset>>
  ELSE IF offset + 4 >= clr.len THEN clear' = "DONE" /\ UNCHANGED offset
  ELSE offset' = offset + 4 /\ UNCHANGED clear

ClearRun ==
  /\ clear = "RUN"
  /\ ClearAdvance
  /\ cleared' = IF Granted(Red) THEN cleared \cup {ClearWord} ELSE cleared
  /\ refused' = IF Granted(Red) THEN refused ELSE refused \cup {ClearWord}
  /\ UNCHANGED clr

ClearRest ==
  /\ clear # "RUN"
  /\ clear' = IF clear = "DONE" THEN "IDLE" ELSE clear
  /\ UNCHANGED <<clr, offset, cleared, refused>>

-----------------------------------------------------------------------------
(* Engines.  "RUN" stands for cycles without a VMEM access: the systolic    *)
(* array computing, or the DMA engine at another memory.                   *)

\* accepted: the port whose engine takes a command of n accesses, or None.
\* choice: addresses driven by engines that raise a request.
\* pause: engines that go to or stay in RUN.
Pausing == Mxu \cup {Dma}
Raising == {p \in Port : st[p] = "REQ" /\ req[p] = None}
MayPause == {p \in Pausing : st[p] = "RUN" \/ (st[p] = "WAIT" /\ left[p] > 1)}
Answered(p) == st[p] = "WAIT" /\ Seen(p) # None

EnginesStep(accepted, n, choice, pause) ==
  /\ st' = [p \in Port |->
       CASE p = accepted                           -> "REQ"
         [] st[p] = "REQ" /\ req[p] # None /\ Ready(p) -> "WAIT"
         [] Answered(p) /\ left[p] = 1             -> "DONE"
         [] Answered(p) /\ left[p] > 1             -> IF p \in pause THEN "RUN" ELSE "REQ"
         [] st[p] = "RUN"                          -> IF p \in pause THEN "RUN" ELSE "REQ"
         [] st[p] = "DONE"                         -> "IDLE"
         [] OTHER                                  -> st[p]]
  /\ left' = [p \in Port |-> IF p = accepted THEN n
                             ELSE IF Answered(p) THEN left[p] - 1 ELSE left[p]]
  /\ req' = [p \in Port |->
       IF st[p] # "REQ" \/ (req[p] # None /\ Ready(p)) THEN None
       ELSE IF p \in Raising THEN choice[p] ELSE req[p]]

-----------------------------------------------------------------------------
Init ==
  /\ st = [p \in Port |-> "IDLE"] /\ left = [p \in Port |-> 0]
  /\ req = [p \in Port |-> None] /\ resp = [p \in Port |-> None]
  /\ clear = "IDLE" /\ clr = [dst |-> 0, len |-> 0] /\ offset = 0
  /\ cleared = {} /\ refused = {}

\* At most one command is accepted at an edge: one TensorCore command port,
\* and control_fsm issues one instruction at a time.
NoCommand(choice, pause) ==
  /\ EnginesStep(None, 0, choice, pause)
  /\ ClearRun \/ ClearRest

AcceptCommand(choice, pause) ==
  \E p \in Port, n \in 1 .. MaxAccess :
    /\ MayAccept(p)
    /\ EnginesStep(p, n, choice, pause)
    /\ ClearRun \/ ClearRest

AcceptClearCommand(choice, pause) ==
  /\ EnginesStep(None, 0, choice, pause)
  /\ \E c \in ClearCmds : AcceptClear(c)

Next ==
  /\ VmemStep
  /\ \E choice \in [Raising -> Addr], pause \in SUBSET MayPause :
       \/ NoCommand(choice, pause)
       \/ AcceptCommand(choice, pause)
       \/ AcceptClearCommand(choice, pause)

Spec == Init /\ [][Next]_vars

\* The clock ticks, and an engine does not compute forever.
Resume(p) == st[p] = "RUN" /\ Next /\ st'[p] # "RUN"
FairSpec == Spec /\ WF_vars(Next) /\ \A p \in Pausing : WF_vars(Resume(p))

-----------------------------------------------------------------------------
(* Properties                                                              *)

\* The type of every register.
TypeOK ==
  /\ st \in [Port -> {"IDLE", "REQ", "WAIT", "RUN", "DONE"}]
  /\ left \in [Port -> 0 .. MaxAccess]
  /\ req \in [Port -> Addr \cup {None}]
  /\ \A p \in Port : resp[p] = None \/ resp[p] \in [addr : Addr, by : Port \cup {Clr}]
  /\ clear \in {"IDLE", "RUN", "DONE", "ERROR"}
  /\ clr \in ClearCmds \cup {[dst |-> 0, len |-> 0]}
  /\ offset \in Nat
  /\ cleared \subseteq Addr /\ refused \subseteq Addr

\* Responses carry no identity and the wait states no timeout: an engine takes
\* whatever is valid on its port in the cycle after the grant.  That is always
\* there and the answer to its own request, never CLEAR's trailing duplicate on
\* the port it shares with reduce_unit.
WaitIsAnswered == \A p \in Port : st[p] = "WAIT" => Seen(p) # None /\ Seen(p).by = p

\* The banks are single ported: two ports never reach one bank at one edge, so
\* the write of one engine cannot meet an access of another.
OneAccessPerBank ==
  \A p, q \in Port : p # q /\ resp[p] # None /\ resp[q] # None =>
    Bank(resp[p].addr) # Bank(resp[q].addr)

\* When CLEAR is done every word of its range is zeroed, save for words whose
\* write a bank conflict refused.
ClearsUnrefused ==
  clear = "DONE" /\ clr.len > 0 => ClearWords(clr) \subseteq cleared \cup refused

\* CLEAR zeroes nothing but its range, although it writes words more than once.
ClearsOnlyRange == cleared \subseteq ClearWords(clr)

\* "OPC_CLEAR: zero a byte range in one memory space" (rtl/common/vtpu_pkg.sv).
ClearsWholeRange == clear = "DONE" => ClearWords(clr) \subseteq cleared

\* CLEAR finishes: with two MXUs the priority of their ports leaves every bank
\* free often enough, however many MATMULs follow one another.
ClearEnds == clear = "RUN" ~> clear = "DONE"

\* The DMA port has the lowest priority and still gets an answer.
DmaServed == st[Dma] = "REQ" ~> st[Dma] = "WAIT"
=============================================================================
