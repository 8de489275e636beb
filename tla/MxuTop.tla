------------------------------- MODULE MxuTop -------------------------------
(***************************************************************************)
(* mxu_top with its systolic arrays: operand tiles are loaded from VMEM    *)
(* one element at a time, the array multiplies one k slice every two       *)
(* cycles, and the result tile is stored.  A byte is a digit of radix R    *)
(* (256 in the code), a word four of them.  int8 and bf16 commands differ  *)
(* in the width of an operand and the tiles they use; the arithmetic of    *)
(* both is that of integers, so floating-point rounding is left out.       *)
(***************************************************************************)
EXTENDS VmemClient

CONSTANTS
  R,                           \* values of a byte: 2^8
  ARRAY_M, ARRAY_N, ARRAY_K,   \* processing elements, and k slices a tile holds
  Cmds,                        \* commands a TensorCore may hand to an MXU
  PowerUp                      \* what the tile registers may hold before a first load

VARIABLES
  cmd_q, cnt_i_q, cnt_j_q,     \* command, outer and inner counter
  byte_sel_q,                  \* lane of the operand in the requested word
  a_tile, b_tile, c_in,        \* operand tiles; one set per type, by bf16
  array_start_q,
  arr, k_idx_q, acc_q, pe_acc, \* systolic_array: state_q, k_idx_q, acc_q, outputs of the PEs
  accepted                     \* history: commands accepted so far

counters == <<cmd_q, cnt_i_q, cnt_j_q, byte_sel_q, accepted>>
tiles == <<a_tile, b_tile, c_in>>
array == <<arr, k_idx_q, acc_q, pe_acc>>
vars  == <<state_q, port, counters, tiles, array_start_q, array>>

Cmd == [m : Nat, n : Nat, k : Nat, a : Nat, b : Nat, dst : Nat,
        bf16 : BOOLEAN, accumulate : BOOLEAN, transpose : BOOLEAN]

\* What the constants must be; assumed by the module that instantiates this one.
ConstantsOK ==
  /\ R \in Nat \ {0} /\ 2 * Half = R * R * R * R /\ R % 2 = 0
  /\ {ARRAY_M, ARRAY_N, ARRAY_K} \subseteq Nat \ {0}
  /\ Cmds \subseteq Cmd /\ PowerUp \subseteq Word

-----------------------------------------------------------------------------
(* Words, bytes and half words                                             *)

Unsigned(word) == word % (R * R * R * R)
SignedIn(x, range) == IF x >= range \div 2 THEN x - range ELSE x

\* select_i8 and select_u16: lane 0 is the least significant.
Lane(word, sel) == (Unsigned(word) \div (CASE sel = 0 -> 1 [] sel = 1 -> R
                                           [] sel = 2 -> R * R [] sel = 3 -> R * R * R)) % R
SelectI8(word, sel) == SignedIn(Lane(word, sel), R)
HalfWord(word, upper) == (Unsigned(word) \div (IF upper THEN R * R ELSE 1)) % (R * R)
SelectBf16(word, upper) == SignedIn(HalfWord(word, upper), R * R)

Select(word, sel, bf16) == IF bf16 THEN SelectBf16(word, sel >= 2) ELSE SelectI8(word, sel)

-----------------------------------------------------------------------------
(* Addresses and command check                                             *)

Size(c) == IF c.bf16 THEN 2 ELSE 1
AAddr(c, row, kk) == c.a + (row * c.k + kk) * Size(c)
BAddr(c, kk, col) == c.b + (IF c.transpose THEN col * c.k + kk ELSE kk * c.n + col) * Size(c)
CAddr(c, row, col) == c.dst + 4 * (row * c.n + col)
AlignWord(addr) == addr - (addr % 4)

DimensionsOK(c) == c.m \in 1 .. ARRAY_M /\ c.n \in 1 .. ARRAY_N /\ c.k \in 1 .. ARRAY_K

RangesOK(c) ==
  /\ c.a + c.m * c.k * Size(c) <= 4 * Words /\ c.b + c.k * c.n * Size(c) <= 4 * Words
  /\ c.dst + 4 * c.m * c.n <= 4 * Words
  /\ c.dst % 4 = 0
  /\ c.bf16 => c.a % 2 = 0 /\ c.b % 2 = 0

Legal(c) == DimensionsOK(c) /\ RangesOK(c)

\* Places of an element in the flattened tiles; B and C have one row pitch.
AIdx(row, kk)  == row * ARRAY_K + kk
BnIdx(row, col) == row * ARRAY_N + col
ATile == 0 .. ARRAY_M * ARRAY_K - 1
BTile == 0 .. ARRAY_K * ARRAY_N - 1
CTile == 0 .. ARRAY_M * ARRAY_N - 1

-----------------------------------------------------------------------------
(* The golden model: read A, B and, to accumulate, C; multiply; write.     *)

Element(m, base, i, bf16) ==
  LET addr == base + (IF bf16 THEN 2 * i ELSE i)
  IN  IF bf16 THEN SelectBf16(m[addr \div 4], addr % 4 = 2) ELSE SelectI8(m[addr \div 4], addr % 4)

GoldenElement(c, m, row, col) ==
  LET A(kk) == Element(m, c.a, row * c.k + kk, c.bf16)
      B(kk) == Element(m, c.b, IF c.transpose THEN col * c.k + kk ELSE kk * c.n + col, c.bf16)
      base  == IF c.accumulate THEN m[c.dst \div 4 + row * c.n + col] ELSE 0
      sum[n \in 0 .. c.k] == IF n = 0 THEN base ELSE sum[n - 1] + A(n - 1) * B(n - 1)
  IN  Wrap(sum[c.k])

GoldenMatmul(c, m) ==
  [w \in Addr |-> LET i == w - c.dst \div 4
                  IN  IF i \in 0 .. c.m * c.n - 1
                      THEN GoldenElement(c, m, i \div c.n, i % c.n) ELSE m[w]]

Inputs(c) == {AAddr(c, r, k) \div 4 : r \in 0 .. c.m - 1, k \in 0 .. c.k - 1}
               \cup {BAddr(c, k, s) \div 4 : k \in 0 .. c.k - 1, s \in 0 .. c.n - 1}
Outputs(c) == {CAddr(c, r, s) \div 4 : r \in 0 .. c.m - 1, s \in 0 .. c.n - 1}

-----------------------------------------------------------------------------
(* systolic_array and systolic_array_bf16.  Every processing element adds  *)
(* one product in FEED; CAPTURE takes the sums back.  Their dimension check *)
(* repeats DimensionsOK, which the command has passed.                     *)

Product(row, col) ==
  a_tile[cmd_q.bf16][AIdx(row, k_idx_q)] * b_tile[cmd_q.bf16][BnIdx(k_idx_q, col)]

ArrayIdle == arr = "IDLE" /\ ~array_start_q /\ UNCHANGED array

ArrayStart ==
  /\ arr = "IDLE" /\ array_start_q
  /\ arr' = "FEED" /\ k_idx_q' = 0
  /\ acc_q' = [i \in CTile |-> IF cmd_q.accumulate THEN c_in[cmd_q.bf16][i] ELSE 0]
  /\ UNCHANGED pe_acc

ArrayFeedWide ==
  /\ arr = "FEED" /\ arr' = "CAPTURE"
  /\ pe_acc' = [i \in CTile |-> acc_q[i] + Product(i \div ARRAY_N, i % ARRAY_N)]
  /\ UNCHANGED <<k_idx_q, acc_q>>

ArrayFeed ==
  /\ arr = "FEED" /\ arr' = "CAPTURE"
  /\ pe_acc' = [i \in CTile |-> Wrap(acc_q[i] + Product(i \div ARRAY_N, i % ARRAY_N))]
  /\ UNCHANGED <<k_idx_q, acc_q>>

ArrayCapture ==
  /\ arr = "CAPTURE" /\ acc_q' = pe_acc
  /\ IF k_idx_q = cmd_q.k - 1 THEN arr' = "DONE" /\ UNCHANGED k_idx_q
     ELSE arr' = "FEED" /\ k_idx_q' = k_idx_q + 1
  /\ UNCHANGED pe_acc

ArrayDone == arr = "DONE" /\ arr' = "IDLE" /\ UNCHANGED <<k_idx_q, acc_q, pe_acc>>

ArrayStep == ArrayIdle \/ ArrayStart \/ ArrayFeed \/ ArrayCapture \/ ArrayDone

-----------------------------------------------------------------------------
(* mxu_top, one action per state or pair of REQ and WAIT states            *)

Accept(c) ==
  /\ state_q = "IDLE" /\ accepted < MaxCmds /\ Legal(c)
  /\ cmd_q' = c /\ cnt_i_q' = 0 /\ cnt_j_q' = 0 /\ state_q' = "LOAD_A_REQ"
  /\ mem0' = mem /\ accepted' = accepted + 1
  /\ UNCHANGED <<byte_sel_q, tiles, array_start_q, vmem_req_q, vmem_resp, mem>>

Reject(c) ==
  /\ state_q = "IDLE" /\ accepted < MaxCmds /\ ~Legal(c)
  /\ state_q' = "ERROR" /\ accepted' = accepted + 1
  /\ UNCHANGED <<cmd_q, cnt_i_q, cnt_j_q, byte_sel_q, tiles, array_start_q, port>>

\* The request of an operand names its word; the lane is kept aside.
Fetch(state, waiting, addr) ==
  /\ \/ Drive(state, ReadOf(AlignWord(addr))) /\ byte_sel_q' = addr % 4
     \/ Grant(state, waiting) /\ UNCHANGED byte_sel_q
  /\ UNCHANGED <<cmd_q, cnt_i_q, cnt_j_q, accepted, tiles, array_start_q>>

\* The counters walk a tile of "rows" by "cols", inner one first.
LastOf(rows, cols) == cnt_j_q = cols - 1 /\ cnt_i_q = rows - 1
Advance(rows, cols) ==
  /\ cnt_j_q' = IF cnt_j_q = cols - 1 THEN 0 ELSE cnt_j_q + 1
  /\ cnt_i_q' = IF cnt_j_q # cols - 1 THEN cnt_i_q
                ELSE IF cnt_i_q = rows - 1 THEN 0 ELSE cnt_i_q + 1
  /\ UNCHANGED <<cmd_q, byte_sel_q, accepted, array_start_q>>

LoadAReq == Fetch("LOAD_A_REQ", "LOAD_A_WAIT", AAddr(cmd_q, cnt_i_q, cnt_j_q))
LoadAWait ==
  /\ Answered("LOAD_A_WAIT", IF LastOf(cmd_q.m, cmd_q.k) THEN "LOAD_B_REQ" ELSE "LOAD_A_REQ")
  /\ IF vmem_resp.error THEN UNCHANGED <<counters, tiles, array_start_q>>
     ELSE /\ a_tile' = [a_tile EXCEPT ![cmd_q.bf16][AIdx(cnt_i_q, cnt_j_q)] =
                          Select(vmem_resp.rdata, byte_sel_q, cmd_q.bf16)]
          /\ Advance(cmd_q.m, cmd_q.k) /\ UNCHANGED <<b_tile, c_in>>

LoadBReq == Fetch("LOAD_B_REQ", "LOAD_B_WAIT", BAddr(cmd_q, cnt_i_q, cnt_j_q))
AfterLoadB == IF cmd_q.accumulate THEN "LOAD_C_REQ" ELSE "RUN_START"
LoadBWait ==
  /\ Answered("LOAD_B_WAIT", IF LastOf(cmd_q.k, cmd_q.n) THEN AfterLoadB ELSE "LOAD_B_REQ")
  /\ IF vmem_resp.error THEN UNCHANGED <<counters, tiles, array_start_q>>
     ELSE /\ b_tile' = [b_tile EXCEPT ![cmd_q.bf16][BnIdx(cnt_i_q, cnt_j_q)] =
                          Select(vmem_resp.rdata, byte_sel_q, cmd_q.bf16)]
          /\ Advance(cmd_q.k, cmd_q.n) /\ UNCHANGED <<a_tile, c_in>>

\* A result word is requested whole.
LoadCReq ==
  /\ \/ Drive("LOAD_C_REQ", ReadOf(CAddr(cmd_q, cnt_i_q, cnt_j_q)))
     \/ Grant("LOAD_C_REQ", "LOAD_C_WAIT")
  /\ UNCHANGED <<counters, tiles, array_start_q>>
LoadCWait ==
  /\ Answered("LOAD_C_WAIT", IF LastOf(cmd_q.m, cmd_q.n) THEN "RUN_START" ELSE "LOAD_C_REQ")
  /\ IF vmem_resp.error THEN UNCHANGED <<counters, tiles, array_start_q>>
     ELSE /\ c_in' = [c_in EXCEPT ![cmd_q.bf16][BnIdx(cnt_i_q, cnt_j_q)] = vmem_resp.rdata]
          /\ Advance(cmd_q.m, cmd_q.n) /\ UNCHANGED <<a_tile, b_tile>>

RunStartWithoutPulse ==
  /\ state_q = "RUN_START" /\ state_q' = "RUN_WAIT"
  /\ UNCHANGED <<counters, tiles, port, array_start_q>>

\* array_start_q is a pulse of one cycle.
RunStart ==
  /\ state_q = "RUN_START" /\ state_q' = "RUN_WAIT" /\ array_start_q' = TRUE
  /\ UNCHANGED <<counters, tiles, port>>

RunWaitCountsCycles ==
  /\ state_q = "RUN_WAIT" /\ array_start_q' = FALSE
  /\ IF k_idx_q = cmd_q.k - 1 /\ arr = "FEED"
     THEN state_q' = "STORE_REQ" /\ cnt_i_q' = 0 /\ cnt_j_q' = 0
     ELSE UNCHANGED <<state_q, cnt_i_q, cnt_j_q>>
  /\ UNCHANGED <<cmd_q, byte_sel_q, accepted, tiles, port>>

RunWait ==
  /\ state_q = "RUN_WAIT" /\ array_start_q' = FALSE
  /\ IF arr = "DONE"
     THEN state_q' = "STORE_REQ" /\ cnt_i_q' = 0 /\ cnt_j_q' = 0
     ELSE UNCHANGED <<state_q, cnt_i_q, cnt_j_q>>
  /\ UNCHANGED <<cmd_q, byte_sel_q, accepted, tiles, port>>

StoreReq ==
  /\ \/ Drive("STORE_REQ", WriteOf(CAddr(cmd_q, cnt_i_q, cnt_j_q), acc_q[BnIdx(cnt_i_q, cnt_j_q)]))
     \/ Grant("STORE_REQ", "STORE_WAIT")
  /\ UNCHANGED <<counters, tiles, array_start_q>>

StoreWait ==
  /\ Answered("STORE_WAIT", IF LastOf(cmd_q.m, cmd_q.n) THEN "DONE" ELSE "STORE_REQ")
  /\ IF vmem_resp.error THEN UNCHANGED <<counters, array_start_q>>
     ELSE /\ cnt_j_q' = IF cnt_j_q = cmd_q.n - 1 THEN 0 ELSE cnt_j_q + 1
          /\ cnt_i_q' = IF cnt_j_q = cmd_q.n - 1 /\ cnt_i_q # cmd_q.m - 1
                        THEN cnt_i_q + 1 ELSE cnt_i_q
          /\ UNCHANGED <<cmd_q, byte_sel_q, accepted, array_start_q>>
  /\ UNCHANGED tiles

Done ==
  /\ state_q = "DONE" /\ state_q' = "IDLE"
  /\ UNCHANGED <<port, counters, tiles, array_start_q>>

MxuStep == \/ \E c \in Cmds : Accept(c) \/ Reject(c)
           \/ LoadAReq \/ LoadAWait \/ LoadBReq \/ LoadBWait \/ LoadCReq \/ LoadCWait
           \/ RunStart \/ RunWait \/ StoreReq \/ StoreWait \/ Done

\* Cycles without a command, and ST_ERROR, which only reset leaves.
Rest == state_q \in {"IDLE", "ERROR"} /\ UNCHANGED vars

Running == state_q \notin {"IDLE", "DONE", "ERROR"}

\* The other engines of the VMEM, on words the command does not use.
OtherPort == /\ Running
             /\ OtherPortWrites(Inputs(cmd_q) \cup Outputs(cmd_q), Values)
             /\ UNCHANGED <<counters, tiles, array_start_q, array>>

InitWith(memory, garbage) ==
  /\ state_q = "IDLE" /\ PortInit /\ mem = memory /\ mem0 = memory
  /\ cmd_q = [m |-> 0, n |-> 0, k |-> 0, a |-> 0, b |-> 0, dst |-> 0,
              bf16 |-> FALSE, accumulate |-> FALSE, transpose |-> FALSE]
  /\ cnt_i_q = 0 /\ cnt_j_q = 0 /\ byte_sel_q = 0 /\ accepted = 0 /\ array_start_q = FALSE
  /\ a_tile = [t \in BOOLEAN |-> [i \in ATile |-> garbage]]
  /\ b_tile = [t \in BOOLEAN |-> [i \in BTile |-> garbage]]
  /\ c_in = [t \in BOOLEAN |-> [i \in CTile |-> garbage]]
  /\ arr = "IDLE" /\ k_idx_q = 0
  /\ acc_q = [i \in CTile |-> 0] /\ pe_acc = [i \in CTile |-> 0]

Init == \E memory \in [Addr -> Word], garbage \in PowerUp : InitWith(memory, garbage)
Next == (MxuStep /\ ArrayStep) \/ Rest \/ OtherPort
Spec == Init /\ [][Next]_vars

\* The clock ticks and vmem_top grants every request in the end.
FairSpec == Spec /\ WF_vars(MxuStep /\ ArrayStep)

-----------------------------------------------------------------------------
(* Properties                                                              *)

States == {"IDLE", "LOAD_A_REQ", "LOAD_A_WAIT", "LOAD_B_REQ", "LOAD_B_WAIT", "LOAD_C_REQ",
           "LOAD_C_WAIT", "RUN_START", "RUN_WAIT", "STORE_REQ", "STORE_WAIT", "DONE", "ERROR"}

\* The type of every register.
TypeOK ==
  /\ state_q \in States /\ PortTypeOK
  /\ cmd_q \in Cmd /\ cnt_i_q \in Nat /\ cnt_j_q \in Nat /\ byte_sel_q \in 0 .. 3
  /\ accepted \in 0 .. MaxCmds /\ array_start_q \in BOOLEAN
  /\ a_tile \in [BOOLEAN -> [ATile -> Int]] /\ b_tile \in [BOOLEAN -> [BTile -> Int]]
  /\ c_in \in [BOOLEAN -> [CTile -> Word]]
  /\ arr \in {"IDLE", "FEED", "CAPTURE", "DONE"} /\ k_idx_q \in Nat
  /\ acc_q \in [CTile -> Word] /\ pe_acc \in [CTile -> Word]

\* A finished MATMUL leaves in VMEM exactly the golden model's product, for
\* every tile shape, alignment of an operand in its words, and placement of the
\* result on top of the operands; nothing of an earlier command's tiles or of
\* the registers' power-up contents gets into it.
MatchesGolden == state_q = "DONE" => mem = GoldenMatmul(cmd_q, mem0)

\* The check at accept covers every word the command touches.
NeverFaults == /\ vmem_req_q.valid => Serviceable(vmem_req_q)
               /\ ~vmem_resp.error

\* The tiles feed the array combinationally: while it computes, and until the
\* last result is stored, the MXU neither starts it again nor changes a tile,
\* and the sums it stores do not change under it.
ArrayUndisturbedStep ==
  /\ arr # "IDLE" => ~array_start_q /\ UNCHANGED <<tiles, cmd_q>>
  /\ state_q \in {"STORE_REQ", "STORE_WAIT"} => UNCHANGED acc_q
ArrayUndisturbed == [][ArrayUndisturbedStep]_vars

\* RUN_WAIT watches only a done flag that is up for one cycle; every accepted
\* command ends all the same.
CommandEnds == state_q = "LOAD_A_REQ" ~> state_q = "DONE"
=============================================================================
