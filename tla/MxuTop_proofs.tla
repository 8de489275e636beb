--------------------------- MODULE MxuTop_proofs ---------------------------
(***************************************************************************)
(* Proofs about MxuTop, for any array size, memory, set of commands and     *)
(* interleaving with other ports: types, accesses in range, an undisturbed  *)
(* array, and a finished MATMUL leaves the golden model's product.          *)
(***************************************************************************)
EXTENDS MxuTop, TLAPS, WellFoundedInduction

USE ClientAssumption

-----------------------------------------------------------------------------
(* Arithmetic                                                              *)

\* A nonempty set of naturals has a least element.
LEMMA LeastElement ==
  ASSUME NEW S, S \subseteq Nat, S # {}
  PROVE  \E x \in S : \A y \in S : x <= y
<1>1. PICK x \in S : \A y \in S : ~(<<y, x>> \in OpToRel(<, Nat))
  BY NatLessThanWellFounded, WFMin
<1>2. \A y \in S : ~(y < x)
  BY <1>1, S \subseteq Nat DEF OpToRel
<1>3. x \in Nat /\ \A y \in S : y \in Nat
  BY S \subseteq Nat
<1> QED BY <1>2, <1>3

LEMMA Division ==
  ASSUME NEW M \in Nat \ {0}, NEW x \in Int
  PROVE  x \div M \in Int /\ x % M \in 0 .. M - 1 /\ x = M * (x \div M) + (x % M)
OBVIOUS

\* The remainder is the one number of its range that differs by a multiple.
LEMMA Remainder ==
  ASSUME NEW M \in Nat \ {0}, NEW q \in Int, NEW r \in 0 .. M - 1
  PROVE  (M * q + r) % M = r /\ (M * q + r) \div M = q
<1> DEFINE x == M * q + r
<1>1. x \in Int
  OBVIOUS
<1>2. PICK p \in Int, s \in 0 .. M - 1 : x = M * p + s /\ p = x \div M /\ s = x % M
  <2>1. x \div M \in Int /\ x % M \in 0 .. M - 1 /\ x = M * (x \div M) + (x % M)
    BY <1>1, Division
  <2> QED BY <2>1
<1> HIDE DEF x
<1>3. M * (q - p) = s - r
  BY <1>2 DEF x
<1>4. ~(q - p >= 1)
  <2> SUFFICES ASSUME q - p >= 1 PROVE FALSE
    OBVIOUS
  <2>1. M * (q - p) >= M * 1
    BY <1>2
  <2> QED BY <1>2, <1>3, <2>1
<1>5. ~(q - p <= -1)
  <2> SUFFICES ASSUME q - p <= -1 PROVE FALSE
    OBVIOUS
  <2>1. M * (q - p) <= M * (-1)
    BY <1>2
  <2> QED BY <1>2, <1>3, <2>1
<1>6. q = p
  BY <1>2, <1>4, <1>5
<1> QED BY <1>2, <1>3, <1>6 DEF x

\* Wrapping yields a word, keeps words, and may come before an addition.
LEMMA WrapFacts ==
  /\ 0 \in Word
  /\ \A x \in Int : Wrap(x) \in Word
  /\ \A x \in Word : Wrap(x) = x
  /\ \A x, y \in Int : Wrap(Wrap(x) + y) = Wrap(x + y)
<1> DEFINE M == 2 * Half
<1>1. M \in Nat \ {0} /\ Half \in Nat /\ M = 2 * Half
  OBVIOUS
<1> HIDE DEF M
<1>2. \A x : Wrap(x) = ((x + Half) % M) - Half
  BY DEF Wrap, M
<1>3. \A x \in Int : Wrap(x) \in Word
  BY <1>1, <1>2 DEF Word
<1>4. ASSUME NEW x \in Word PROVE Wrap(x) = x
  <2>1. x + Half \in 0 .. M - 1 /\ x \in Int
    BY <1>1 DEF Word
  <2>2. (M * 0 + (x + Half)) % M = x + Half
    BY <1>1, <2>1, Remainder
  <2>3. M * 0 + (x + Half) = x + Half
    BY <1>1, <2>1
  <2>4. (x + Half) % M = x + Half
    BY <2>2, <2>3
  <2> QED BY <1>1, <1>2, <2>1, <2>4
<1>5. ASSUME NEW x \in Int, NEW y \in Int PROVE Wrap(Wrap(x) + y) = Wrap(x + y)
  <2>1. PICK p \in Int, r \in 0 .. M - 1 : x + Half = M * p + r /\ Wrap(x) = r - Half
    <3> DEFINE z == x + Half
    <3>1. z \in Int
      BY <1>1
    <3>2. z \div M \in Int /\ z % M \in 0 .. M - 1 /\ z = M * (z \div M) + (z % M)
      BY <1>1, <3>1, Division
    <3> QED BY <1>2, <3>2
  <2>2. PICK q \in Int, s \in 0 .. M - 1 : x + y + Half = M * q + s /\ Wrap(x + y) = s - Half
    <3> DEFINE z == x + y + Half
    <3>1. z \in Int
      BY <1>1
    <3>2. z \div M \in Int /\ z % M \in 0 .. M - 1 /\ z = M * (z \div M) + (z % M)
      BY <1>1, <3>1, Division
    <3> QED BY <1>2, <3>2
  <2>3. Wrap(x) + y + Half = M * (q - p) + s
    <3>1. M * (q - p) = M * q - M * p
      BY <1>1
    <3>2. M * q \in Int /\ M * p \in Int
      BY <1>1
    <3> QED BY <1>1, <2>1, <2>2, <3>1, <3>2
  <2>4. (M * (q - p) + s) % M = s
    <3>1. q - p \in Int
      BY <2>1, <2>2
    <3> QED BY <1>1, <2>2, <3>1, Remainder
  <2> QED BY <1>2, <2>2, <2>3, <2>4
<1>6. 0 \in Word
  BY <1>1 DEF Word
<1> QED BY <1>3, <1>4, <1>5, <1>6

\* An element of a flattened tile lies before its end.
LEMMA Flat ==
  ASSUME NEW rows \in Nat, NEW cols \in Nat, NEW row \in 0 .. rows - 1, NEW col \in 0 .. cols - 1
  PROVE  row * cols + col \in 0 .. rows * cols - 1
PROOF
<1>1. row * cols \in Nat /\ rows * cols \in Nat /\ (rows - 1) * cols = rows * cols - cols
  OBVIOUS
<1>2. row * cols <= (rows - 1) * cols
  <2>1. (rows - 1 - row) \in Nat
    OBVIOUS
  <2>2. (rows - 1 - row) * cols >= 0
    BY <2>1
  <2>3. (rows - 1 - row) * cols = (rows - 1) * cols - row * cols
    BY <2>1
  <2> QED
    BY <1>1, <2>2, <2>3
<1> QED
  BY <1>1, <1>2

\* The row and the column of a place in a flattened tile.
LEMMA Unflat ==
  ASSUME NEW rows \in Nat, NEW cols \in Nat \ {0}, NEW i \in 0 .. rows * cols - 1
  PROVE  i \div cols \in 0 .. rows - 1 /\ i % cols \in 0 .. cols - 1
PROOF
<1> DEFINE q == i \div cols  r == i % cols
<1>1. i \in Nat /\ rows * cols \in Nat /\ i < rows * cols
  OBVIOUS
<1>2. q \in Int /\ r \in 0 .. cols - 1 /\ i = cols * q + r
  BY <1>1
<1> HIDE DEF q, r
<1>3. q >= 0
  <2>1. ASSUME q <= -1 PROVE FALSE
    <3>1. cols * q <= cols * (-1)
      BY <1>2, <2>1
    <3> QED
      BY <1>1, <1>2, <3>1
  <2> QED
    BY <1>2, <2>1
<1>4. q < rows
  <2>1. ASSUME q >= rows PROVE FALSE
    <3>1. cols * q >= cols * rows
      BY <1>2, <2>1
    <3> QED
      BY <1>1, <1>2, <3>1
  <2> QED
    BY <1>2, <2>1
<1> QED
  BY <1>2, <1>3, <1>4 DEF q, r

\* Flattening and unflattening are inverse.
LEMMA Table ==
  ASSUME NEW rows \in Nat, NEW cols \in Nat \ {0}
  PROVE  /\ \A i \in 0 .. rows * cols - 1 :
              /\ i \div cols \in 0 .. rows - 1 /\ i % cols \in 0 .. cols - 1
              /\ (i \div cols) * cols + (i % cols) = i
         /\ \A row \in 0 .. rows - 1, col \in 0 .. cols - 1 :
              /\ row * cols + col \in 0 .. rows * cols - 1
              /\ (row * cols + col) \div cols = row /\ (row * cols + col) % cols = col
<1>1. ASSUME NEW i \in 0 .. rows * cols - 1
      PROVE  /\ i \div cols \in 0 .. rows - 1 /\ i % cols \in 0 .. cols - 1
             /\ (i \div cols) * cols + (i % cols) = i
  <2>1. i \div cols \in 0 .. rows - 1 /\ i % cols \in 0 .. cols - 1
    BY Unflat
  <2>2. i \in Int
    OBVIOUS
  <2>3. i = cols * (i \div cols) + (i % cols)
    BY <2>2, Division
  <2> DEFINE q == i \div cols
             r == i % cols
  <2>4. q \in Int /\ r \in Int /\ i = cols * q + r
    BY <2>1, <2>3
  <2> HIDE DEF q, r
  <2>5. q * cols + r = i
    BY <2>4
  <2> QED BY <2>1, <2>5 DEF q, r
<1>2. ASSUME NEW row \in 0 .. rows - 1, NEW col \in 0 .. cols - 1
      PROVE  /\ row * cols + col \in 0 .. rows * cols - 1
             /\ (row * cols + col) \div cols = row /\ (row * cols + col) % cols = col
  <2>1. row * cols + col \in 0 .. rows * cols - 1
    BY Flat
  <2>2. (cols * row + col) % cols = col /\ (cols * row + col) \div cols = row
    BY Remainder
  <2>3. cols * row = row * cols
    OBVIOUS
  <2> QED BY <2>1, <2>2, <2>3
<1> QED BY <1>1, <1>2

\* The word of a byte address inside the memory.
LEMMA WordOf ==
  ASSUME NEW addr \in Nat, addr < 4 * Words
  PROVE  /\ AlignWord(addr) \in Nat /\ AlignWord(addr) % 4 = 0
         /\ AlignWord(addr) \div 4 \in Addr /\ addr % 4 \in 0 .. 3
BY DEF AlignWord, Addr

\* What an operand lane holds is a number.
LEMMA SelectIsInt ==
  ASSUME ConstantsOK, NEW word \in Word, NEW sel \in 0 .. 3, NEW bf16 \in BOOLEAN
  PROVE  Select(word, sel, bf16) \in Int
PROOF
<1>1. R \in Nat /\ R > 0
  BY DEF ConstantsOK
<1>2. R * R \in Nat /\ R * R > 0
  BY <1>1
<1>3. R * R * R \in Nat /\ R * R * R > 0
  BY <1>1, <1>2
<1>4. R * R * R * R \in Nat /\ R * R * R * R > 0
  BY <1>1, <1>3
<1>5. Unsigned(word) \in Int
  BY <1>4 DEF Unsigned, Word
<1>6. Lane(word, sel) \in Int
  <2> DEFINE scale == CASE sel = 0 -> 1 [] sel = 1 -> R [] sel = 2 -> R * R [] sel = 3 -> R * R * R
  <2>1. scale \in Nat /\ scale > 0
    BY <1>1, <1>2, <1>3
  <2>2. Lane(word, sel) = (Unsigned(word) \div scale) % R
    BY DEF Lane
  <2> HIDE DEF scale
  <2>3. Unsigned(word) \div scale \in Int
    BY <1>5, <2>1
  <2> QED
    BY <1>1, <2>2, <2>3
<1>7. \A upper \in BOOLEAN : HalfWord(word, upper) \in Int
  <2> SUFFICES ASSUME NEW upper \in BOOLEAN PROVE HalfWord(word, upper) \in Int
    OBVIOUS
  <2>1. Unsigned(word) \div (R * R) \in Int /\ Unsigned(word) \div 1 \in Int
    BY <1>2, <1>5
  <2> QED
    BY <1>2, <2>1 DEF HalfWord
<1>8. \A x \in Int, y \in Int : SignedIn(x, y) \in Int
  BY DEF SignedIn
<1>9. SelectI8(word, sel) \in Int
  BY <1>1, <1>6, <1>8 DEF SelectI8
<1>10. SelectBf16(word, sel >= 2) \in Int
  <2>1. (sel >= 2) \in BOOLEAN
    OBVIOUS
  <2>2. HalfWord(word, sel >= 2) \in Int
    BY <1>7, <2>1
  <2>3. R * R \in Int
    BY <1>2
  <2>4. SignedIn(HalfWord(word, sel >= 2), R * R) \in Int
    BY <1>8, <2>2, <2>3
  <2> QED
    BY <2>4 DEF SelectBf16
<1> QED
  BY <1>9, <1>10 DEF Select

-----------------------------------------------------------------------------
(* The commands                                                            *)

LEMMA LegalSays ==
  ASSUME ConstantsOK, NEW c \in Cmd, Legal(c)
  PROVE  /\ c.m \in 1 .. ARRAY_M /\ c.n \in 1 .. ARRAY_N /\ c.k \in 1 .. ARRAY_K
         /\ ARRAY_M \in Nat /\ ARRAY_N \in Nat /\ ARRAY_K \in Nat
         /\ c.m \in Nat /\ c.n \in Nat /\ c.k \in Nat
         /\ c.a \in Nat /\ c.b \in Nat /\ c.dst \in Nat /\ c.dst % 4 = 0
         /\ c.bf16 \in BOOLEAN /\ Size(c) \in {1, 2}
         /\ c.a + c.m * c.k * Size(c) <= 4 * Words /\ c.b + c.k * c.n * Size(c) <= 4 * Words
         /\ c.dst + 4 * c.m * c.n <= 4 * Words
BY DEF Legal, DimensionsOK, RangesOK, Cmd, Size, ConstantsOK

\* An operand that starts at "base" and ends inside the memory.
LEMMA OperandInRange ==
  ASSUME NEW base \in Nat, NEW size \in {1, 2}, NEW elements \in Nat, NEW i \in 0 .. elements - 1,
         base + elements * size <= 4 * Words
  PROVE  base + i * size \in Nat /\ base + i * size < 4 * Words
PROOF
<1>1. CASE size = 1
  BY <1>1
<1>2. CASE size = 2
  BY <1>2
<1> QED
  BY <1>1, <1>2

\* The check at accept covers the operands and the results.
LEMMA AInRange ==
  ASSUME ConstantsOK, NEW c \in Cmd, Legal(c), NEW row \in 0 .. c.m - 1, NEW kk \in 0 .. c.k - 1
  PROVE  AAddr(c, row, kk) \in Nat /\ AAddr(c, row, kk) < 4 * Words
PROOF
<1>1. c.m \in Nat /\ c.k \in Nat /\ c.a \in Nat /\ Size(c) \in {1, 2}
      /\ c.a + (c.m * c.k) * Size(c) <= 4 * Words
  BY LegalSays
<1>2. row * c.k + kk \in 0 .. c.m * c.k - 1
  BY <1>1, Flat
<1>3. c.m * c.k \in Nat
  BY <1>1
<1> QED
  BY <1>1, <1>2, <1>3, OperandInRange DEF AAddr

LEMMA BInRange ==
  ASSUME ConstantsOK, NEW c \in Cmd, Legal(c), NEW kk \in 0 .. c.k - 1, NEW col \in 0 .. c.n - 1
  PROVE  BAddr(c, kk, col) \in Nat /\ BAddr(c, kk, col) < 4 * Words
PROOF
<1>1. c.n \in Nat /\ c.k \in Nat /\ c.b \in Nat /\ Size(c) \in {1, 2}
      /\ c.b + (c.k * c.n) * Size(c) <= 4 * Words
  BY LegalSays
<1>2. kk * c.n + col \in 0 .. c.k * c.n - 1
  BY <1>1, Flat
<1>3. col * c.k + kk \in 0 .. c.n * c.k - 1
  BY <1>1, Flat
<1>4. c.k * c.n \in Nat /\ c.n * c.k = c.k * c.n
  BY <1>1
<1>5. CASE c.transpose
  <2>1. BAddr(c, kk, col) = c.b + (col * c.k + kk) * Size(c)
    BY <1>5 DEF BAddr
  <2> QED
    BY <1>1, <1>3, <1>4, <2>1, OperandInRange
<1>6. CASE ~c.transpose
  <2>1. BAddr(c, kk, col) = c.b + (kk * c.n + col) * Size(c)
    BY <1>6 DEF BAddr
  <2> QED
    BY <1>1, <1>2, <1>4, <2>1, OperandInRange
<1> QED
  BY <1>5, <1>6

LEMMA CInRange ==
  ASSUME ConstantsOK, NEW c \in Cmd, Legal(c), NEW row \in 0 .. c.m - 1, NEW col \in 0 .. c.n - 1
  PROVE  /\ CAddr(c, row, col) \in Nat /\ CAddr(c, row, col) % 4 = 0
         /\ CAddr(c, row, col) \div 4 \in Addr
         /\ BnIdx(row, col) \in CTile
PROOF
<1>1. /\ c.m \in Nat /\ c.n \in Nat /\ c.dst \in Nat /\ c.dst % 4 = 0
      /\ c.dst + 4 * c.m * c.n <= 4 * Words
      /\ c.m <= ARRAY_M /\ c.n <= ARRAY_N /\ ARRAY_M \in Nat /\ ARRAY_N \in Nat
  BY LegalSays
<1>2. row * c.n + col \in 0 .. c.m * c.n - 1
  BY <1>1, Flat
<1>3. CAddr(c, row, col) = c.dst + 4 * (row * c.n + col)
  BY DEF CAddr
<1>4. (4 * c.m) * c.n = 4 * (c.m * c.n) /\ c.m * c.n \in Nat
  BY <1>1
<1> DEFINE d == c.dst  i == row * c.n + col  total == c.m * c.n
<1>5. d \in Nat /\ d % 4 = 0 /\ i \in 0 .. total - 1 /\ total \in Nat /\ d + 4 * total <= 4 * Words
  BY <1>1, <1>2, <1>4
<1>6. CAddr(c, row, col) = d + 4 * i
  BY <1>3
<1> HIDE DEF d, i, total
<1>7. d + 4 * i \in Nat /\ (d + 4 * i) % 4 = 0 /\ (d + 4 * i) \div 4 \in 0 .. Words - 1
  BY <1>5
<1>8. row \in 0 .. ARRAY_M - 1 /\ col \in 0 .. ARRAY_N - 1
  BY <1>1
<1>9. row * ARRAY_N + col \in 0 .. ARRAY_M * ARRAY_N - 1
  BY <1>1, <1>8, Flat
<1> QED
  BY <1>6, <1>7, <1>9 DEF Addr, BnIdx, CTile

-----------------------------------------------------------------------------
(* The invariant                                                           *)

Storing == {"STORE_REQ", "STORE_WAIT"}

\* A running command has passed the check, and the counters are inside the
\* tile that is being walked.
WalkInv ==
  /\ Running => Legal(cmd_q)
  /\ state_q \in {"LOAD_A_REQ", "LOAD_A_WAIT"} => cnt_i_q < cmd_q.m /\ cnt_j_q < cmd_q.k
  /\ state_q \in {"LOAD_B_REQ", "LOAD_B_WAIT"} => cnt_i_q < cmd_q.k /\ cnt_j_q < cmd_q.n
  /\ state_q \in {"LOAD_C_REQ", "LOAD_C_WAIT"} \cup Storing =>
       cnt_i_q < cmd_q.m /\ cnt_j_q < cmd_q.n

\* The array works only while the MXU waits for it, on slices that were loaded.
ArrayInv ==
  /\ array_start_q => state_q = "RUN_WAIT" /\ arr = "IDLE"
  /\ arr # "IDLE" => state_q = "RUN_WAIT"
  /\ arr \in {"FEED", "CAPTURE"} => k_idx_q < cmd_q.k

IInv == TypeOK /\ NeverFaults /\ WalkInv /\ ArrayInv

\* What an edge of mxu_top itself keeps: everything but the array.
MxuTypes ==
  /\ state_q \in States /\ PortTypeOK
  /\ cmd_q \in Cmd /\ cnt_i_q \in Nat /\ cnt_j_q \in Nat /\ byte_sel_q \in 0 .. 3
  /\ accepted \in 0 .. MaxCmds /\ array_start_q \in BOOLEAN
  /\ a_tile \in [BOOLEAN -> [ATile -> Int]] /\ b_tile \in [BOOLEAN -> [BTile -> Int]]
  /\ c_in \in [BOOLEAN -> [CTile -> Word]]
Keeps == MxuTypes /\ NeverFaults /\ WalkInv

\* What the array may rely on: a start comes from RUN_START, and while the MXU
\* waits for the array it leaves everything alone until the array is done.
Handover ==
  /\ array_start_q' => state_q = "RUN_START" /\ state_q' = "RUN_WAIT"
  /\ state_q = "RUN_WAIT" =>
       /\ state_q' = IF arr = "DONE" THEN "STORE_REQ" ELSE "RUN_WAIT"
       /\ UNCHANGED <<tiles, cmd_q>>

-----------------------------------------------------------------------------
(* The port                                                                *)

LEMMA Requests ==
  ASSUME NEW addr \in Nat, addr % 4 = 0, addr \div 4 \in Addr, NEW word \in Word
  PROVE  /\ ReadOf(addr) \in [valid : BOOLEAN, write : BOOLEAN, addr : Nat, wdata : Word]
         /\ Serviceable(ReadOf(addr))
         /\ WriteOf(addr, word) \in [valid : BOOLEAN, write : BOOLEAN, addr : Nat, wdata : Word]
         /\ Serviceable(WriteOf(addr, word))
BY DEF ReadOf, WriteOf, Serviceable, Word

LEMMA DriveKeeps ==
  ASSUME PortTypeOK, NeverFaults, NEW state,
         NEW request \in [valid : BOOLEAN, write : BOOLEAN, addr : Nat, wdata : Word],
         Serviceable(request), Drive(state, request)
  PROVE  PortTypeOK' /\ NeverFaults' /\ state_q = state /\ state_q' = state
BY DEF Drive, PortTypeOK, NeverFaults, Serviceable

LEMMA GrantKeeps ==
  ASSUME PortTypeOK, NeverFaults, NEW state, NEW waiting, Grant(state, waiting)
  PROVE  PortTypeOK' /\ NeverFaults' /\ state_q = state /\ state_q' = waiting
PROOF
<1>1. vmem_req_q.valid /\ Serviceable(vmem_req_q)
  BY DEF Grant, NeverFaults
<1>2. vmem_req_q.addr \div 4 \in Addr /\ vmem_req_q.wdata \in Word /\ 0 \in Word
  BY <1>1 DEF Serviceable, PortTypeOK, Word
<1>3. vmem_resp' = [valid |-> TRUE, error |-> FALSE,
                    rdata |-> IF ~vmem_req_q.write THEN mem[vmem_req_q.addr \div 4] ELSE 0]
  BY <1>1 DEF Grant
<1>4. vmem_resp' \in [valid : BOOLEAN, error : BOOLEAN, rdata : Word] /\ vmem_resp'.error = FALSE
  BY <1>2, <1>3 DEF PortTypeOK
<1>5. mem' \in [Addr -> Word]
  <2>1. mem' = IF vmem_req_q.write
               THEN [mem EXCEPT ![vmem_req_q.addr \div 4] = vmem_req_q.wdata] ELSE mem
    BY <1>1 DEF Grant
  <2> QED
    BY <1>2, <2>1 DEF PortTypeOK
<1>6. vmem_req_q' = NoReq /\ mem0' = mem0 /\ state_q = state /\ state_q' = waiting
  BY DEF Grant
<1> QED
  BY <1>2, <1>4, <1>5, <1>6 DEF PortTypeOK, NeverFaults, NoReq, Addr, Word

LEMMA AnswerKeeps ==
  ASSUME PortTypeOK, NeverFaults, NEW waiting, NEW next, Answered(waiting, next)
  PROVE  /\ PortTypeOK' /\ NeverFaults' /\ state_q = waiting /\ state_q' = next
         /\ ~vmem_resp.error /\ vmem_resp.rdata \in Word
BY DEF Answered, PortTypeOK, NeverFaults, NoResp, Word, Addr, Serviceable

-----------------------------------------------------------------------------
(* mxu_top, action by action                                               *)

LEMMA AcceptKeeps ==
  ASSUME ConstantsOK, IInv, NEW c \in Cmds, Accept(c)
  PROVE  Keeps' /\ Handover
PROOF
<1>1. c \in Cmd /\ Legal(c) /\ state_q = "IDLE" /\ state_q' = "LOAD_A_REQ" /\ cmd_q' = c
      /\ cnt_i_q' = 0 /\ cnt_j_q' = 0 /\ accepted' = accepted + 1 /\ accepted < MaxCmds
      /\ mem0' = mem
      /\ UNCHANGED <<byte_sel_q, tiles, array_start_q, vmem_req_q, vmem_resp, mem>>
  BY DEF Accept, ConstantsOK
<1>2. c.m \in Nat /\ c.m >= 1 /\ c.k \in Nat /\ c.k >= 1
  BY <1>1, LegalSays
<1>3. Legal(cmd_q)'
  BY <1>1 DEF Legal, DimensionsOK, RangesOK, Size
<1>4. MxuTypes'
  BY <1>1 DEF MxuTypes, IInv, TypeOK, PortTypeOK, tiles, States
<1>5. NeverFaults' /\ ~array_start_q
  BY <1>1 DEF IInv, NeverFaults, Serviceable, ArrayInv
<1>6. WalkInv'
  BY <1>1, <1>2, <1>3 DEF WalkInv, Storing
<1> QED
  BY <1>1, <1>4, <1>5, <1>6 DEF Keeps, Handover

\* Edges that change neither command, counters nor tiles and stay in range.
LEMMA QuietKeeps ==
  ASSUME ConstantsOK, IInv, PortTypeOK', NeverFaults', byte_sel_q' \in 0 .. 3,
         UNCHANGED <<cmd_q, cnt_i_q, cnt_j_q, accepted, tiles, array_start_q>>,
         state_q # "RUN_WAIT",
         \/ state_q' = state_q
         \/ state_q' \in {"IDLE", "ERROR"}
         \/ state_q = "LOAD_A_REQ" /\ state_q' = "LOAD_A_WAIT"
         \/ state_q = "LOAD_B_REQ" /\ state_q' = "LOAD_B_WAIT"
         \/ state_q = "LOAD_C_REQ" /\ state_q' = "LOAD_C_WAIT"
         \/ state_q = "STORE_REQ" /\ state_q' = "STORE_WAIT"
  PROVE  Keeps' /\ Handover
PROOF
<1>1. ~array_start_q
  BY DEF IInv, ArrayInv
<1>2. MxuTypes'
  BY DEF MxuTypes, IInv, TypeOK, tiles, States
<1>3. Running' => Running /\ Legal(cmd_q)'
  BY DEF IInv, WalkInv, Running, Legal, DimensionsOK, RangesOK, Size
<1>4. WalkInv'
  BY <1>3 DEF IInv, WalkInv, Storing
<1> QED
  BY <1>1, <1>2, <1>4 DEF Keeps, Handover

LEMMA RequestKeeps ==
  ASSUME ConstantsOK, IInv, LoadAReq \/ LoadBReq \/ LoadCReq \/ StoreReq
  PROVE  Keeps' /\ Handover
PROOF
<1>1. PortTypeOK /\ NeverFaults /\ WalkInv /\ cmd_q \in Cmd /\ cnt_i_q \in Nat /\ cnt_j_q \in Nat
      /\ byte_sel_q \in 0 .. 3
  BY DEF IInv, TypeOK
<1>2. state_q \in {"LOAD_A_REQ", "LOAD_B_REQ", "LOAD_C_REQ", "STORE_REQ"}
  BY DEF LoadAReq, LoadBReq, LoadCReq, StoreReq, Fetch, Drive, Grant
<1>3. /\ Legal(cmd_q)
      /\ cmd_q.m \in Nat /\ cmd_q.n \in Nat /\ cmd_q.k \in Nat
  <2>1. Legal(cmd_q)
    BY <1>1, <1>2 DEF WalkInv, Running
  <2> QED
    BY <1>1, <2>1, LegalSays
<1>4. ASSUME NEW state, NEW waiting, NEW addr \in Nat, addr < 4 * Words, Fetch(state, waiting, addr)
      PROVE  /\ PortTypeOK' /\ NeverFaults' /\ byte_sel_q' \in 0 .. 3
             /\ UNCHANGED <<cmd_q, cnt_i_q, cnt_j_q, accepted, tiles, array_start_q>>
             /\ state_q = state /\ state_q' \in {state, waiting}
  <2>1. /\ AlignWord(addr) \in Nat /\ AlignWord(addr) % 4 = 0
        /\ AlignWord(addr) \div 4 \in Addr /\ addr % 4 \in 0 .. 3
    BY <1>4, WordOf
  <2>2. /\ ReadOf(AlignWord(addr)) \in [valid : BOOLEAN, write : BOOLEAN, addr : Nat, wdata : Word]
        /\ Serviceable(ReadOf(AlignWord(addr)))
    BY <2>1, Requests, WrapFacts
  <2>3. CASE Drive(state, ReadOf(AlignWord(addr))) /\ byte_sel_q' = addr % 4
    BY <1>1, <1>4, <2>1, <2>2, <2>3, DriveKeeps DEF Fetch
  <2>4. CASE Grant(state, waiting) /\ UNCHANGED byte_sel_q
    BY <1>1, <1>4, <2>4, GrantKeeps DEF Fetch
  <2> QED
    BY <1>4, <2>3, <2>4 DEF Fetch
<1>5. CASE LoadAReq
  <2>1. state_q = "LOAD_A_REQ"
    BY <1>5 DEF LoadAReq, Fetch, Drive, Grant
  <2>2. cnt_i_q \in 0 .. cmd_q.m - 1 /\ cnt_j_q \in 0 .. cmd_q.k - 1
    BY <1>1, <1>3, <2>1 DEF WalkInv
  <2>3. AAddr(cmd_q, cnt_i_q, cnt_j_q) \in Nat /\ AAddr(cmd_q, cnt_i_q, cnt_j_q) < 4 * Words
    BY <1>1, <1>3, <2>2, AInRange
  <2> QED
    BY <1>4, <1>5, <2>1, <2>3, QuietKeeps DEF LoadAReq
<1>6. CASE LoadBReq
  <2>1. state_q = "LOAD_B_REQ"
    BY <1>6 DEF LoadBReq, Fetch, Drive, Grant
  <2>2. cnt_i_q \in 0 .. cmd_q.k - 1 /\ cnt_j_q \in 0 .. cmd_q.n - 1
    BY <1>1, <1>3, <2>1 DEF WalkInv
  <2>3. BAddr(cmd_q, cnt_i_q, cnt_j_q) \in Nat /\ BAddr(cmd_q, cnt_i_q, cnt_j_q) < 4 * Words
    BY <1>1, <1>3, <2>2, BInRange
  <2> QED
    BY <1>4, <1>6, <2>1, <2>3, QuietKeeps DEF LoadBReq
<1> DEFINE addr == CAddr(cmd_q, cnt_i_q, cnt_j_q)
<1>7. ASSUME state_q \in {"LOAD_C_REQ", "STORE_REQ"}
      PROVE  /\ addr \in Nat /\ addr % 4 = 0 /\ addr \div 4 \in Addr
             /\ BnIdx(cnt_i_q, cnt_j_q) \in CTile
  <2>1. cnt_i_q \in 0 .. cmd_q.m - 1 /\ cnt_j_q \in 0 .. cmd_q.n - 1
    BY <1>1, <1>3, <1>7 DEF WalkInv, Storing
  <2> QED
    BY <1>1, <1>3, <2>1, CInRange
<1> HIDE DEF addr
<1>8. CASE LoadCReq
  <2>1. state_q = "LOAD_C_REQ" /\ UNCHANGED <<counters, tiles, array_start_q>>
    BY <1>8 DEF LoadCReq, Drive, Grant
  <2>2. /\ ReadOf(addr) \in [valid : BOOLEAN, write : BOOLEAN, addr : Nat, wdata : Word]
        /\ Serviceable(ReadOf(addr))
    BY <1>7, <2>1, Requests, WrapFacts
  <2>3. PortTypeOK' /\ NeverFaults' /\ state_q' \in {"LOAD_C_REQ", "LOAD_C_WAIT"}
    BY <1>1, <1>8, <2>2, DriveKeeps, GrantKeeps DEF LoadCReq, addr
  <2> QED
    BY <1>1, <2>1, <2>3, QuietKeeps DEF counters
<1>9. CASE StoreReq
  <2>1. state_q = "STORE_REQ" /\ UNCHANGED <<counters, tiles, array_start_q>>
    BY <1>9 DEF StoreReq, Drive, Grant
  <2> DEFINE word == acc_q[BnIdx(cnt_i_q, cnt_j_q)]
  <2>2. word \in Word
    BY <1>7, <2>1 DEF IInv, TypeOK
  <2>3. /\ WriteOf(addr, word) \in [valid : BOOLEAN, write : BOOLEAN, addr : Nat, wdata : Word]
        /\ Serviceable(WriteOf(addr, word))
    BY <1>7, <2>1, <2>2, Requests
  <2>4. PortTypeOK' /\ NeverFaults' /\ state_q' \in {"STORE_REQ", "STORE_WAIT"}
    BY <1>1, <1>9, <2>3, DriveKeeps, GrantKeeps DEF StoreReq, addr
  <2> QED
    BY <1>1, <2>1, <2>4, QuietKeeps DEF counters
<1> QED
  BY <1>5, <1>6, <1>8, <1>9

\* The counters stay inside a tile of "rows" by "cols" until its last element,
\* and start over there.
LEMMA AdvanceInTile ==
  ASSUME NEW rows \in Nat, NEW cols \in Nat, cnt_i_q \in 0 .. rows - 1, cnt_j_q \in 0 .. cols - 1,
         Advance(rows, cols)
  PROVE  /\ LastOf(rows, cols) => cnt_i_q' = 0 /\ cnt_j_q' = 0
         /\ cnt_i_q' \in 0 .. rows - 1 /\ cnt_j_q' \in 0 .. cols - 1
BY DEF Advance, LastOf

\* An answer to a load: a tile takes an element and the counters advance.
LEMMA LoadedKeeps ==
  ASSUME ConstantsOK, IInv, PortTypeOK', NeverFaults',
         NEW rows \in Nat, NEW cols \in Nat, cnt_i_q < rows, cnt_j_q < cols, Advance(rows, cols),
         /\ a_tile' \in [BOOLEAN -> [ATile -> Int]] /\ b_tile' \in [BOOLEAN -> [BTile -> Int]]
         /\ c_in' \in [BOOLEAN -> [CTile -> Word]],
         \/ /\ state_q = "LOAD_A_WAIT" /\ rows = cmd_q.m /\ cols = cmd_q.k
            /\ state_q' = IF LastOf(rows, cols) THEN "LOAD_B_REQ" ELSE "LOAD_A_REQ"
         \/ /\ state_q = "LOAD_B_WAIT" /\ rows = cmd_q.k /\ cols = cmd_q.n
            /\ state_q' = IF LastOf(rows, cols) THEN AfterLoadB ELSE "LOAD_B_REQ"
         \/ /\ state_q = "LOAD_C_WAIT" /\ rows = cmd_q.m /\ cols = cmd_q.n
            /\ state_q' = IF LastOf(rows, cols) THEN "RUN_START" ELSE "LOAD_C_REQ"
  PROVE  Keeps' /\ Handover
PROOF
<1>1. Running /\ Legal(cmd_q) /\ cmd_q \in Cmd /\ cnt_i_q \in Nat /\ cnt_j_q \in Nat
  BY DEF IInv, WalkInv, Running, TypeOK
<1>2. /\ cmd_q.m \in Nat /\ cmd_q.m >= 1 /\ cmd_q.n \in Nat /\ cmd_q.n >= 1
      /\ cmd_q.k \in Nat /\ cmd_q.k >= 1
  BY <1>1, LegalSays
<1>3. cmd_q' = cmd_q /\ byte_sel_q' = byte_sel_q /\ accepted' = accepted
      /\ array_start_q' = array_start_q
  BY DEF Advance
<1>4. /\ LastOf(rows, cols) => cnt_i_q' = 0 /\ cnt_j_q' = 0
      /\ cnt_i_q' \in 0 .. rows - 1 /\ cnt_j_q' \in 0 .. cols - 1
  BY <1>1, AdvanceInTile
<1>5. ~array_start_q
  BY DEF IInv, ArrayInv
<1>6. Legal(cmd_q)'
  BY <1>1, <1>3 DEF Legal, DimensionsOK, RangesOK, Size
<1>7. state_q' \in States
  BY DEF AfterLoadB, States
<1>8. MxuTypes'
  BY <1>3, <1>4, <1>5, <1>7 DEF MxuTypes, IInv, TypeOK
<1>9. WalkInv'
  <2>1. CASE state_q = "LOAD_A_WAIT"
    BY <1>2, <1>3, <1>4, <1>6, <2>1 DEF WalkInv, Storing
  <2>2. CASE state_q = "LOAD_B_WAIT"
    BY <1>2, <1>3, <1>4, <1>6, <2>2 DEF WalkInv, Storing, AfterLoadB
  <2>3. CASE state_q = "LOAD_C_WAIT"
    BY <1>2, <1>3, <1>4, <1>6, <2>3 DEF WalkInv, Storing
  <2> QED
    BY <2>1, <2>2, <2>3
<1> QED
  BY <1>3, <1>5, <1>8, <1>9 DEF Keeps, Handover

LEMMA LoadKeeps ==
  ASSUME ConstantsOK, IInv, LoadAWait \/ LoadBWait \/ LoadCWait
  PROVE  Keeps' /\ Handover
PROOF
<1>1. /\ PortTypeOK /\ NeverFaults /\ WalkInv /\ cmd_q \in Cmd /\ byte_sel_q \in 0 .. 3
      /\ a_tile \in [BOOLEAN -> [ATile -> Int]] /\ b_tile \in [BOOLEAN -> [BTile -> Int]]
      /\ c_in \in [BOOLEAN -> [CTile -> Word]]
  BY DEF IInv, TypeOK
<1>2. state_q \in {"LOAD_A_WAIT", "LOAD_B_WAIT", "LOAD_C_WAIT"}
  BY DEF LoadAWait, LoadBWait, LoadCWait, Answered
<1>3. /\ cmd_q.m \in Nat /\ cmd_q.n \in Nat /\ cmd_q.k \in Nat /\ cmd_q.bf16 \in BOOLEAN
  <2>1. Legal(cmd_q)
    BY <1>1, <1>2 DEF WalkInv, Running
  <2> QED
    BY <1>1, <2>1, LegalSays
<1>4. vmem_resp.rdata \in Word
  BY <1>1 DEF PortTypeOK
<1>5. Select(vmem_resp.rdata, byte_sel_q, cmd_q.bf16) \in Int
  BY <1>1, <1>3, <1>4, SelectIsInt
<1> DEFINE element == Select(vmem_resp.rdata, byte_sel_q, cmd_q.bf16)
<1> HIDE DEF element
<1>6. CASE LoadAWait
  <2>1. /\ PortTypeOK' /\ NeverFaults' /\ ~vmem_resp.error /\ state_q = "LOAD_A_WAIT"
        /\ state_q' = IF LastOf(cmd_q.m, cmd_q.k) THEN "LOAD_B_REQ" ELSE "LOAD_A_REQ"
    BY <1>1, <1>6, AnswerKeeps DEF LoadAWait
  <2>2. /\ a_tile' = [a_tile EXCEPT ![cmd_q.bf16][AIdx(cnt_i_q, cnt_j_q)] = element]
        /\ Advance(cmd_q.m, cmd_q.k) /\ UNCHANGED <<b_tile, c_in>>
    BY <1>6, <2>1 DEF LoadAWait, element
  <2>3. a_tile' \in [BOOLEAN -> [ATile -> Int]]
    BY <1>1, <1>3, <1>5, <2>2 DEF element
  <2>4. cnt_i_q < cmd_q.m /\ cnt_j_q < cmd_q.k
    BY <1>1, <2>1 DEF WalkInv
  <2> QED
    BY <1>1, <1>3, <2>1, <2>2, <2>3, <2>4, LoadedKeeps
<1>7. CASE LoadBWait
  <2>1. /\ PortTypeOK' /\ NeverFaults' /\ ~vmem_resp.error /\ state_q = "LOAD_B_WAIT"
        /\ state_q' = IF LastOf(cmd_q.k, cmd_q.n) THEN AfterLoadB ELSE "LOAD_B_REQ"
    BY <1>1, <1>7, AnswerKeeps DEF LoadBWait
  <2>2. /\ b_tile' = [b_tile EXCEPT ![cmd_q.bf16][BnIdx(cnt_i_q, cnt_j_q)] = element]
        /\ Advance(cmd_q.k, cmd_q.n) /\ UNCHANGED <<a_tile, c_in>>
    BY <1>7, <2>1 DEF LoadBWait, element
  <2>3. b_tile' \in [BOOLEAN -> [BTile -> Int]]
    BY <1>1, <1>3, <1>5, <2>2 DEF element
  <2>4. cnt_i_q < cmd_q.k /\ cnt_j_q < cmd_q.n
    BY <1>1, <2>1 DEF WalkInv
  <2> QED
    BY <1>1, <1>3, <2>1, <2>2, <2>3, <2>4, LoadedKeeps
<1>8. CASE LoadCWait
  <2>1. /\ PortTypeOK' /\ NeverFaults' /\ ~vmem_resp.error /\ state_q = "LOAD_C_WAIT"
        /\ state_q' = IF LastOf(cmd_q.m, cmd_q.n) THEN "RUN_START" ELSE "LOAD_C_REQ"
    BY <1>1, <1>8, AnswerKeeps DEF LoadCWait
  <2>2. /\ c_in' = [c_in EXCEPT ![cmd_q.bf16][BnIdx(cnt_i_q, cnt_j_q)] = vmem_resp.rdata]
        /\ Advance(cmd_q.m, cmd_q.n) /\ UNCHANGED <<a_tile, b_tile>>
    BY <1>8, <2>1 DEF LoadCWait
  <2>3. c_in' \in [BOOLEAN -> [CTile -> Word]]
    BY <1>1, <1>3, <1>4, <2>2
  <2>4. cnt_i_q < cmd_q.m /\ cnt_j_q < cmd_q.n
    BY <1>1, <2>1 DEF WalkInv, Storing
  <2> QED
    BY <1>1, <1>3, <2>1, <2>2, <2>3, <2>4, LoadedKeeps
<1> QED
  BY <1>6, <1>7, <1>8

\* The array runs and its result is stored.
LEMMA RunKeeps ==
  ASSUME ConstantsOK, IInv, RunStart \/ RunWait
  PROVE  Keeps' /\ Handover
PROOF
<1>1. state_q \in {"RUN_START", "RUN_WAIT"} /\ UNCHANGED <<cmd_q, byte_sel_q, accepted, tiles, port>>
  BY DEF RunStart, RunWait, counters
<1>2. Legal(cmd_q) /\ cmd_q \in Cmd
  BY <1>1 DEF IInv, WalkInv, Running, TypeOK
<1>3. cmd_q.m \in Nat /\ cmd_q.m >= 1 /\ cmd_q.n \in Nat /\ cmd_q.n >= 1
  BY <1>2, LegalSays
<1>4. NeverFaults' /\ PortTypeOK'
  BY <1>1 DEF IInv, TypeOK, NeverFaults, Serviceable, PortTypeOK, port
<1>5. Legal(cmd_q)'
  BY <1>1, <1>2 DEF Legal, DimensionsOK, RangesOK, Size
<1>6. CASE RunStart
  <2>1. /\ state_q = "RUN_START" /\ state_q' = "RUN_WAIT" /\ array_start_q' = TRUE
        /\ UNCHANGED <<cnt_i_q, cnt_j_q>>
    BY <1>6 DEF RunStart, counters
  <2>2. MxuTypes'
    BY <1>1, <1>4, <2>1 DEF MxuTypes, IInv, TypeOK, States, tiles
  <2>3. WalkInv'
    BY <1>1, <1>5, <2>1 DEF WalkInv, Storing
  <2> QED
    BY <1>4, <2>1, <2>2, <2>3 DEF Keeps, Handover
<1>7. CASE RunWait
  <2>1. /\ state_q = "RUN_WAIT" /\ array_start_q' = FALSE
        /\ \/ arr = "DONE" /\ state_q' = "STORE_REQ" /\ cnt_i_q' = 0 /\ cnt_j_q' = 0
           \/ arr # "DONE" /\ state_q' = "RUN_WAIT" /\ UNCHANGED <<cnt_i_q, cnt_j_q>>
    BY <1>7 DEF RunWait
  <2>2. MxuTypes'
    <3>1. cnt_i_q' \in Nat /\ cnt_j_q' \in Nat
      BY <2>1 DEF IInv, TypeOK
    <3>2. state_q' \in States /\ array_start_q' \in BOOLEAN
      BY <2>1 DEF States
    <3> QED
      BY <1>1, <1>4, <3>1, <3>2 DEF MxuTypes, IInv, TypeOK, tiles
  <2>3. WalkInv'
    BY <1>1, <1>3, <1>5, <2>1 DEF WalkInv, Storing
  <2> QED
    BY <1>1, <1>4, <2>1, <2>2, <2>3 DEF Keeps, Handover
<1> QED
  BY <1>6, <1>7

LEMMA StoreWaitKeeps ==
  ASSUME ConstantsOK, IInv, StoreWait
  PROVE  Keeps' /\ Handover
PROOF
<1>1. /\ PortTypeOK' /\ NeverFaults' /\ ~vmem_resp.error /\ state_q = "STORE_WAIT"
      /\ state_q' = IF LastOf(cmd_q.m, cmd_q.n) THEN "DONE" ELSE "STORE_REQ"
  BY AnswerKeeps DEF StoreWait, IInv, TypeOK
<1>2. /\ cnt_j_q' = IF cnt_j_q = cmd_q.n - 1 THEN 0 ELSE cnt_j_q + 1
      /\ cnt_i_q' = IF cnt_j_q = cmd_q.n - 1 /\ cnt_i_q # cmd_q.m - 1
                    THEN cnt_i_q + 1 ELSE cnt_i_q
      /\ UNCHANGED <<cmd_q, byte_sel_q, accepted, array_start_q>> /\ UNCHANGED tiles
  BY <1>1 DEF StoreWait
<1>3. /\ Legal(cmd_q) /\ cmd_q \in Cmd /\ cnt_i_q \in Nat /\ cnt_j_q \in Nat
      /\ cnt_i_q < cmd_q.m /\ cnt_j_q < cmd_q.n /\ ~array_start_q
  BY <1>1 DEF IInv, WalkInv, Running, Storing, TypeOK, ArrayInv
<1>4. cmd_q.m \in Nat /\ cmd_q.n \in Nat
  BY <1>3, LegalSays
<1>5. /\ cnt_i_q' \in Nat /\ cnt_j_q' \in Nat
      /\ cnt_i_q' < cmd_q.m /\ cnt_j_q' < cmd_q.n
  BY <1>2, <1>3, <1>4
<1>6. Legal(cmd_q)'
  BY <1>2, <1>3 DEF Legal, DimensionsOK, RangesOK, Size
<1>7. MxuTypes'
  BY <1>1, <1>2, <1>5 DEF MxuTypes, IInv, TypeOK, States, tiles
<1>8. WalkInv'
  BY <1>1, <1>2, <1>5, <1>6 DEF WalkInv, Storing
<1> QED
  BY <1>1, <1>2, <1>3, <1>7, <1>8 DEF Keeps, Handover

\* A rejected command and the end of one.
LEMMA RestKeeps ==
  ASSUME ConstantsOK, IInv, Done \/ \E c \in Cmds : Reject(c)
  PROVE  Keeps' /\ Handover
PROOF
<1>1. CASE Done
  <2>1. PortTypeOK' /\ NeverFaults'
    BY <1>1 DEF Done, port, IInv, TypeOK, PortTypeOK, NeverFaults, Serviceable
  <2> QED
    BY <1>1, <2>1, QuietKeeps DEF Done, counters, IInv, TypeOK
<1>2. CASE \E c \in Cmds : Reject(c)
  <2>1. /\ state_q = "IDLE" /\ state_q' = "ERROR" /\ accepted' = accepted + 1 /\ accepted < MaxCmds
        /\ UNCHANGED <<cmd_q, cnt_i_q, cnt_j_q, byte_sel_q, tiles, array_start_q, port>>
    BY <1>2 DEF Reject
  <2>2. PortTypeOK' /\ NeverFaults' /\ ~array_start_q
    BY <2>1 DEF port, IInv, TypeOK, PortTypeOK, NeverFaults, Serviceable, ArrayInv
  <2>3. MxuTypes'
    BY <2>1, <2>2 DEF MxuTypes, IInv, TypeOK, States, tiles
  <2>4. WalkInv'
    BY <2>1 DEF WalkInv, Running, Storing
  <2> QED
    BY <2>1, <2>2, <2>3, <2>4 DEF Keeps, Handover
<1> QED
  BY <1>1, <1>2

LEMMA MxuKeeps ==
  ASSUME ConstantsOK, IInv, MxuStep
  PROVE  Keeps' /\ Handover
BY AcceptKeeps, RequestKeeps, LoadKeeps, RunKeeps, StoreWaitKeeps, RestKeeps DEF MxuStep

-----------------------------------------------------------------------------
(* The array                                                               *)

\* The array's own registers keep their types, and it works from the edge of
\* a start to its done flag.
LEMMA ArrayKeeps ==
  ASSUME ConstantsOK, IInv, ArrayStep
  PROVE  /\ arr' \in {"IDLE", "FEED", "CAPTURE", "DONE"} /\ k_idx_q' \in Nat
         /\ acc_q' \in [CTile -> Word] /\ pe_acc' \in [CTile -> Word]
         /\ arr = "IDLE" /\ ~array_start_q => arr' = "IDLE" /\ acc_q' = acc_q
         /\ arr = "DONE" => arr' = "IDLE"
         /\ arr' \in {"FEED", "CAPTURE"} => k_idx_q' < cmd_q.k
PROOF
<1>1. /\ arr \in {"IDLE", "FEED", "CAPTURE", "DONE"} /\ k_idx_q \in Nat
      /\ acc_q \in [CTile -> Word] /\ pe_acc \in [CTile -> Word]
      /\ c_in \in [BOOLEAN -> [CTile -> Word]]
      /\ a_tile \in [BOOLEAN -> [ATile -> Int]] /\ b_tile \in [BOOLEAN -> [BTile -> Int]]
      /\ cmd_q \in Cmd
  BY DEF IInv, TypeOK
<1>2. arr # "IDLE" \/ array_start_q =>
        /\ Legal(cmd_q) /\ cmd_q.k \in Nat /\ cmd_q.k >= 1 /\ cmd_q.k <= ARRAY_K
        /\ cmd_q.bf16 \in BOOLEAN
  <2>1. arr # "IDLE" \/ array_start_q => Legal(cmd_q)
    BY DEF IInv, ArrayInv, WalkInv, Running
  <2> QED
    BY <1>1, <2>1, LegalSays
<1>3. CASE ArrayIdle
  BY <1>1, <1>3 DEF ArrayIdle, array
<1>4. CASE ArrayStart
  <2>1. cmd_q.bf16 \in BOOLEAN /\ 0 \in Word
    BY <1>1, WrapFacts DEF Cmd
  <2>2. \A i \in CTile : (IF cmd_q.accumulate THEN c_in[cmd_q.bf16][i] ELSE 0) \in Word
    BY <1>1, <2>1
  <2>3. acc_q' \in [CTile -> Word]
    BY <1>4, <2>2 DEF ArrayStart
  <2> QED
    BY <1>1, <1>2, <1>4, <2>3 DEF ArrayStart
<1>5. CASE ArrayFeed
  <2>1. pe_acc' = [i \in CTile |-> Wrap(acc_q[i] + Product(i \div ARRAY_N, i % ARRAY_N))]
    BY <1>5 DEF ArrayFeed
  <2>2. ASSUME NEW i \in CTile
        PROVE  Wrap(acc_q[i] + Product(i \div ARRAY_N, i % ARRAY_N)) \in Word
    <3> DEFINE row == i \div ARRAY_N  col == i % ARRAY_N
    <3>1. /\ ARRAY_M \in Nat /\ ARRAY_N \in Nat \ {0} /\ ARRAY_K \in Nat
      BY DEF ConstantsOK
    <3>2. row \in 0 .. ARRAY_M - 1 /\ col \in 0 .. ARRAY_N - 1
      BY <3>1, Unflat DEF CTile
    <3>3. k_idx_q \in 0 .. ARRAY_K - 1
      BY <1>1, <1>2, <1>5, <3>1 DEF ArrayFeed, IInv, ArrayInv
    <3> HIDE DEF row, col
    <3>4. row * ARRAY_K + k_idx_q \in ATile
      BY <3>1, <3>2, <3>3, Flat DEF ATile
    <3>5. k_idx_q * ARRAY_N + col \in BTile
      BY <3>1, <3>2, <3>3, Flat DEF BTile
    <3>6. a_tile[cmd_q.bf16][AIdx(row, k_idx_q)] \in Int
      BY <1>1, <1>2, <1>5, <3>4 DEF AIdx, ArrayFeed
    <3>7. b_tile[cmd_q.bf16][BnIdx(k_idx_q, col)] \in Int
      BY <1>1, <1>2, <1>5, <3>5 DEF BnIdx, ArrayFeed
    <3>8. Product(row, col) \in Int
      BY <3>6, <3>7 DEF Product
    <3>9. acc_q[i] + Product(row, col) \in Int
      BY <1>1, <3>8 DEF Word
    <3> QED
      BY <3>9, WrapFacts DEF row, col
  <2>3. pe_acc' \in [CTile -> Word]
    BY <2>1, <2>2
  <2> QED
    BY <1>1, <1>5, <2>3 DEF ArrayFeed, IInv, ArrayInv
<1>6. CASE ArrayCapture
  <2>1. k_idx_q < cmd_q.k /\ cmd_q.k \in Nat
    BY <1>2, <1>6 DEF ArrayCapture, IInv, ArrayInv
  <2>2. \/ arr' = "DONE" /\ k_idx_q' = k_idx_q
        \/ arr' = "FEED" /\ k_idx_q' = k_idx_q + 1 /\ k_idx_q # cmd_q.k - 1
    BY <1>6 DEF ArrayCapture
  <2>3. k_idx_q' \in Nat /\ (arr' = "FEED" => k_idx_q' < cmd_q.k)
    <3>1. k_idx_q \in Nat
      BY <1>1
    <3>2. k_idx_q # cmd_q.k - 1 => k_idx_q + 1 < cmd_q.k
      BY <2>1, <3>1
    <3> QED
      BY <2>2, <3>1, <3>2
  <2>4. arr = "CAPTURE" /\ acc_q' = pe_acc /\ pe_acc' = pe_acc
    BY <1>6 DEF ArrayCapture
  <2> QED
    BY <1>1, <2>2, <2>3, <2>4
<1>7. CASE ArrayDone
  BY <1>1, <1>7 DEF ArrayDone
<1> QED
  BY <1>3, <1>4, <1>5, <1>6, <1>7 DEF ArrayStep

-----------------------------------------------------------------------------
(* The invariant is inductive                                              *)

LEMMA InitIInv == ConstantsOK /\ Init => IInv
PROOF
<1> SUFFICES ASSUME ConstantsOK, Init PROVE IInv
  OBVIOUS
<1>1. PICK memory \in [Addr -> Word], garbage \in PowerUp : InitWith(memory, garbage)
  BY DEF Init
<1>2. garbage \in Word /\ 0 \in Word /\ Word \subseteq Int
  BY WrapFacts DEF ConstantsOK, Word
<1>3. cmd_q \in Cmd
  BY <1>1 DEF InitWith, Cmd
<1>4. /\ a_tile \in [BOOLEAN -> [ATile -> Int]] /\ b_tile \in [BOOLEAN -> [BTile -> Int]]
      /\ c_in \in [BOOLEAN -> [CTile -> Word]]
      /\ acc_q \in [CTile -> Word] /\ pe_acc \in [CTile -> Word]
  BY <1>1, <1>2 DEF InitWith
<1>5. PortTypeOK /\ NeverFaults
  BY <1>1, <1>2 DEF InitWith, PortInit, PortTypeOK, NeverFaults, NoReq, NoResp
<1>6. TypeOK
  <2>1. /\ state_q = "IDLE" /\ cnt_i_q = 0 /\ cnt_j_q = 0 /\ byte_sel_q = 0 /\ accepted = 0
        /\ array_start_q = FALSE /\ arr = "IDLE" /\ k_idx_q = 0
    BY <1>1 DEF InitWith
  <2>2. /\ state_q \in States /\ cnt_i_q \in Nat /\ cnt_j_q \in Nat /\ byte_sel_q \in 0 .. 3
        /\ accepted \in 0 .. MaxCmds /\ k_idx_q \in Nat
        /\ arr \in {"IDLE", "FEED", "CAPTURE", "DONE"}
    BY <2>1 DEF States
  <2>3. array_start_q \in BOOLEAN
    BY <2>1
  <2> QED
    BY <1>3, <1>4, <1>5, <2>2, <2>3, Zenon DEF TypeOK
<1>7. WalkInv /\ ArrayInv
  BY <1>1 DEF InitWith, WalkInv, ArrayInv, Running, Storing
<1> QED
  BY <1>5, <1>6, <1>7 DEF IInv

\* A lock-step edge of the MXU and its array.
LEMMA EdgeKeeps ==
  ASSUME ConstantsOK, IInv, MxuStep, ArrayStep
  PROVE  IInv' /\ ArrayUndisturbedStep
PROOF
<1>1. Keeps' /\ Handover
  BY MxuKeeps
<1>2. /\ arr' \in {"IDLE", "FEED", "CAPTURE", "DONE"} /\ k_idx_q' \in Nat
      /\ acc_q' \in [CTile -> Word] /\ pe_acc' \in [CTile -> Word]
      /\ arr = "IDLE" /\ ~array_start_q => arr' = "IDLE" /\ acc_q' = acc_q
      /\ arr = "DONE" => arr' = "IDLE"
      /\ arr' \in {"FEED", "CAPTURE"} => k_idx_q' < cmd_q.k
  BY ArrayKeeps
<1>3. TypeOK'
  BY <1>1, <1>2 DEF Keeps, MxuTypes, TypeOK, ATile, BTile, CTile, Cmd, Word, States
<1>4. array_start_q \in BOOLEAN /\ array_start_q' \in BOOLEAN
  BY <1>3 DEF IInv, TypeOK
<1>5. arr # "IDLE" \/ array_start_q => state_q = "RUN_WAIT"
  BY DEF IInv, ArrayInv
<1>6. arr' # "IDLE" => state_q = "RUN_WAIT" /\ arr # "DONE"
  BY <1>2, <1>4, <1>5
<1>7. ArrayInv'
  BY <1>1, <1>2, <1>4, <1>5, <1>6 DEF Handover, ArrayInv
<1>8. ArrayUndisturbedStep
  <2>1. arr # "IDLE" => ~array_start_q /\ UNCHANGED <<tiles, cmd_q>>
    BY <1>1, <1>5 DEF Handover, IInv, ArrayInv
  <2>2. state_q \in Storing => acc_q' = acc_q
    BY <1>2, <1>5 DEF Storing
  <2> QED
    BY <2>1, <2>2 DEF ArrayUndisturbedStep, Storing
<1> QED
  BY <1>1, <1>3, <1>7, <1>8 DEF Keeps, IInv

\* Another port writes, or nothing happens.
LEMMA ElsewhereKeeps ==
  ASSUME ConstantsOK, IInv, OtherPort \/ UNCHANGED vars
  PROVE  IInv' /\ ArrayUndisturbedStep
PROOF
<1>1. UNCHANGED <<state_q, vmem_req_q, vmem_resp, counters, tiles, array_start_q, array>>
  BY DEF OtherPort, OtherPortWrites, vars, port
<1>2. mem' \in [Addr -> Word] /\ mem0' \in [Addr -> Word]
  <2>1. mem \in [Addr -> Word] /\ mem0 \in [Addr -> Word] /\ Values \subseteq Word
    BY DEF IInv, TypeOK, PortTypeOK
  <2>2. CASE UNCHANGED vars
    BY <2>1, <2>2 DEF vars, port
  <2>3. CASE OtherPort
    <3>1. PICK a \in Addr, v \in Values : mem' = [mem EXCEPT ![a] = v] /\ mem0' = [mem0 EXCEPT ![a] = v]
      BY <2>3 DEF OtherPort, OtherPortWrites
    <3> QED
      BY <2>1, <3>1
  <2> QED
    BY <2>2, <2>3
<1>3. PortTypeOK' /\ NeverFaults'
  BY <1>1, <1>2 DEF IInv, TypeOK, PortTypeOK, NeverFaults, Serviceable, Addr, Word
<1>4. TypeOK'
  BY <1>1, <1>3 DEF IInv, TypeOK, counters, tiles, array, ATile, BTile, CTile, Cmd, Word, States
<1>5. WalkInv' /\ ArrayInv'
  BY <1>1 DEF IInv, WalkInv, ArrayInv, Running, Storing, Legal, DimensionsOK, RangesOK, Size,
              counters, array
<1>6. ArrayUndisturbedStep
  BY <1>1 DEF ArrayUndisturbedStep, IInv, ArrayInv, counters, array
<1> QED
  BY <1>3, <1>4, <1>5, <1>6 DEF IInv

LEMMA NextIInv ==
  ASSUME ConstantsOK, IInv, [Next]_vars
  PROVE  IInv' /\ ArrayUndisturbedStep
BY EdgeKeeps, ElsewhereKeeps DEF Next, Rest

-----------------------------------------------------------------------------
(* Sums                                                                    *)

\* s[k] is base and the first k terms of f.
IsSum(s, base, f, n) ==
  s = [k \in 0 .. n |-> IF k = 0 THEN base ELSE s[k - 1] + f[k - 1]]
SumOf(base, f, n) == CHOOSE s : IsSum(s, base, f, n)

LEMMA SumExists ==
  ASSUME NEW base, NEW f, NEW n \in Nat
  PROVE  \E s : IsSum(s, base, f, n)
<1> DEFINE Missing == {k \in Nat : ~\E s : IsSum(s, base, f, k)}
<1>1. SUFFICES ASSUME Missing # {} PROVE FALSE
  OBVIOUS
<1>2. PICK k \in Missing : \A l \in Missing : k <= l
  <2>1. Missing \subseteq Nat
    OBVIOUS
  <2> HIDE DEF Missing
  <2> QED BY <1>1, <2>1, LeastElement
<1>3. k \in Nat /\ ~\E s : IsSum(s, base, f, k)
  BY <1>2
<1>4. CASE k = 0
  <2> DEFINE s == [i \in 0 .. 0 |-> base]
  <2>1. IsSum(s, base, f, 0)
    BY DEF IsSum
  <2> QED BY <1>3, <1>4, <2>1
<1>5. CASE k # 0
  <2>1. k - 1 \in Nat /\ k - 1 \notin Missing
    BY <1>2, <1>3, <1>5
  <2>2. PICK s : IsSum(s, base, f, k - 1)
    BY <2>1
  <2> DEFINE t == [i \in 0 .. k |-> IF i = k THEN s[k - 1] + f[k - 1] ELSE s[i]]
  <2>3. \A i \in 0 .. k : t[i] = IF i = k THEN s[k - 1] + f[k - 1] ELSE s[i]
    OBVIOUS
  <2>4. t = [i \in 0 .. k |-> t[i]]
    OBVIOUS
  <2> HIDE DEF t
  <2>5. ASSUME NEW i \in 0 .. k
        PROVE  t[i] = IF i = 0 THEN base ELSE t[i - 1] + f[i - 1]
    <3>1. CASE i = k
      <4>1. k - 1 \in 0 .. k /\ k - 1 # k
        BY <1>3, <1>5
      <4> QED BY <1>5, <2>3, <3>1, <4>1
    <3>2. CASE i # k
      <4>1. i \in 0 .. k - 1 /\ t[i] = s[i]
        BY <1>3, <2>3, <3>2
      <4>2. s[i] = IF i = 0 THEN base ELSE s[i - 1] + f[i - 1]
        BY <2>2, <4>1 DEF IsSum
      <4>3. i # 0 => i - 1 \in 0 .. k /\ i - 1 # k
        BY <1>3, <4>1
      <4> QED BY <2>3, <4>1, <4>2, <4>3
    <3> QED BY <3>1, <3>2
  <2>6. IsSum(t, base, f, k)
    BY <2>4, <2>5 DEF IsSum
  <2> QED BY <1>3, <2>6
<1> QED BY <1>4, <1>5

LEMMA SumUnique ==
  ASSUME NEW base, NEW f, NEW n \in Nat, NEW s, NEW t, IsSum(s, base, f, n), IsSum(t, base, f, n)
  PROVE  s = t
<1> DEFINE Differ == {k \in 0 .. n : s[k] # t[k]}
<1>1. Differ = {}
  <2> SUFFICES ASSUME Differ # {} PROVE FALSE
    OBVIOUS
  <2>1. PICK k \in Differ : \A l \in Differ : k <= l
    <3>1. Differ \subseteq Nat
      OBVIOUS
    <3> HIDE DEF Differ
    <3> QED BY <3>1, LeastElement
  <2>2. k \in 0 .. n /\ s[k] # t[k]
    BY <2>1
  <2>3. /\ s[k] = IF k = 0 THEN base ELSE s[k - 1] + f[k - 1]
        /\ t[k] = IF k = 0 THEN base ELSE t[k - 1] + f[k - 1]
    BY <2>2 DEF IsSum
  <2>4. k # 0
    BY <2>2, <2>3
  <2>5. k - 1 \in 0 .. n /\ k - 1 \notin Differ
    BY <2>1, <2>2, <2>4
  <2> QED BY <2>2, <2>3, <2>4, <2>5
<1>2. \A k \in 0 .. n : s[k] = t[k]
  BY <1>1
<1>3. s = [k \in 0 .. n |-> s[k]] /\ t = [k \in 0 .. n |-> t[k]]
  BY DEF IsSum
<1> QED BY <1>2, <1>3

\* A sum grows by one term at a time, and sums of integers are integers.
LEMMA SumFacts ==
  ASSUME NEW base \in Int, NEW n \in Nat, NEW f \in [0 .. n - 1 -> Int]
  PROVE  /\ IsSum(SumOf(base, f, n), base, f, n)
         /\ SumOf(base, f, n)[0] = base
         /\ \A k \in 0 .. n : SumOf(base, f, n)[k] \in Int
         /\ \A k \in 0 .. n - 1 : SumOf(base, f, n)[k + 1] = SumOf(base, f, n)[k] + f[k]
<1> DEFINE s == SumOf(base, f, n)
<1>1. IsSum(s, base, f, n)
  BY SumExists DEF SumOf
<1> HIDE DEF s
<1>2. \A k \in 0 .. n : s[k] = IF k = 0 THEN base ELSE s[k - 1] + f[k - 1]
  BY <1>1 DEF IsSum
<1>3. s[0] = base
  BY <1>2
<1>4. \A k \in 0 .. n - 1 : s[k + 1] = s[k] + f[k]
  <2> TAKE k \in 0 .. n - 1
  <2>1. k + 1 \in 0 .. n /\ k + 1 # 0 /\ (k + 1) - 1 = k
    OBVIOUS
  <2>2. s[k + 1] = s[(k + 1) - 1] + f[(k + 1) - 1]
    BY <1>2, <2>1
  <2> QED BY <2>1, <2>2
<1> DEFINE Wrong == {k \in 0 .. n : s[k] \notin Int}
<1>5. Wrong = {}
  <2> SUFFICES ASSUME Wrong # {} PROVE FALSE
    OBVIOUS
  <2>1. PICK k \in Wrong : \A l \in Wrong : k <= l
    <3>1. Wrong \subseteq Nat
      OBVIOUS
    <3> HIDE DEF Wrong
    <3> QED BY <3>1, LeastElement
  <2>2. k \in 0 .. n /\ s[k] \notin Int
    BY <2>1
  <2>3. k # 0
    BY <1>3, <2>2
  <2>4. k - 1 \in 0 .. n - 1 /\ k - 1 \in 0 .. n /\ k - 1 \notin Wrong /\ f[k - 1] \in Int
    BY <2>1, <2>2, <2>3
  <2>5. s[k - 1] \in Int /\ s[k] = s[k - 1] + f[k - 1]
    BY <1>2, <2>2, <2>3, <2>4
  <2> QED BY <2>2, <2>4, <2>5
<1>6. \A k \in 0 .. n : s[k] \in Int
  BY <1>5
<1> QED BY <1>1, <1>3, <1>4, <1>6 DEF s

-----------------------------------------------------------------------------
(* The golden operands                                                     *)

AValue(c, m, row, kk) == Element(m, c.a, row * c.k + kk, c.bf16)
BValue(c, m, kk, col) ==
  Element(m, c.b, IF c.transpose THEN col * c.k + kk ELSE kk * c.n + col, c.bf16)
OutWord(c, row, col) == c.dst \div 4 + row * c.n + col
Base(c, m, row, col) == IF c.accumulate THEN m[OutWord(c, row, col)] ELSE 0

\* A tile as the golden model reads it.
AMatrix(c, m) == [row \in 0 .. c.m - 1 |-> [kk \in 0 .. c.k - 1 |-> AValue(c, m, row, kk)]]
BMatrix(c, m) == [kk \in 0 .. c.k - 1 |-> [col \in 0 .. c.n - 1 |-> BValue(c, m, kk, col)]]
CMatrix(c, m) == [row \in 0 .. c.m - 1 |-> [col \in 0 .. c.n - 1 |-> m[OutWord(c, row, col)]]]

\* The golden model's sums of a result, after each number of k slices.
Products(c, m, row, col) ==
  [kk \in 0 .. c.k - 1 |-> AMatrix(c, m)[row][kk] * BMatrix(c, m)[kk][col]]
Sums(c, m, row, col) == SumOf(Base(c, m, row, col), Products(c, m, row, col), c.k)

\* The byte address of element i of an operand in memory.
Located(addr, base, i, bf16) ==
  /\ addr = base + (IF bf16 THEN 2 * i ELSE i) /\ addr < 4 * Words
  /\ bf16 => base % 2 = 0

\* The lane that a byte address selects in its word holds the element.
LEMMA LaneOfElement ==
  ASSUME ConstantsOK, NEW m \in [Addr -> Word], NEW base \in Nat, NEW i \in Nat, NEW bf16 \in BOOLEAN,
         NEW addr, Located(addr, base, i, bf16)
  PROVE  /\ addr \div 4 \in Addr /\ AlignWord(addr) \div 4 = addr \div 4
         /\ Select(m[addr \div 4], addr % 4, bf16) = Element(m, base, i, bf16)
         /\ Element(m, base, i, bf16) \in Int
<1> USE DEF Located
<1>1. addr \in Nat /\ addr \div 4 \in Addr /\ AlignWord(addr) \div 4 = addr \div 4 /\ addr % 4 \in 0 .. 3
  BY DEF AlignWord, Addr
<1>2. m[addr \div 4] \in Word
  BY <1>1
<1>3. Select(m[addr \div 4], addr % 4, bf16) \in Int
  BY <1>1, <1>2, SelectIsInt
<1>4. Select(m[addr \div 4], addr % 4, bf16) = Element(m, base, i, bf16)
  <2>1. CASE bf16
    <3>1. addr % 2 = 0
      BY <2>1
    <3>2. (addr % 4 >= 2) = (addr % 4 = 2)
      BY <1>1, <3>1
    <3> QED BY <2>1, <3>2 DEF Select, Element
  <2>2. CASE ~bf16
    BY <2>2 DEF Select, Element
  <2> QED BY <2>1, <2>2
<1> QED BY <1>1, <1>3, <1>4

\* What mxu_top loads for a place of the A tile is the golden operand, and its
\* word is one of the command's inputs.
LEMMA AOperand ==
  ASSUME ConstantsOK, NEW c \in Cmd, Legal(c), NEW m \in [Addr -> Word],
         NEW row \in 0 .. c.m - 1, NEW kk \in 0 .. c.k - 1
  PROVE  /\ AAddr(c, row, kk) \div 4 \in Addr \cap Inputs(c)
         /\ AlignWord(AAddr(c, row, kk)) \div 4 = AAddr(c, row, kk) \div 4
         /\ Select(m[AAddr(c, row, kk) \div 4], AAddr(c, row, kk) % 4, c.bf16) = AMatrix(c, m)[row][kk]
         /\ AMatrix(c, m)[row][kk] = AValue(c, m, row, kk) /\ AValue(c, m, row, kk) \in Int
<1> DEFINE i == row * c.k + kk
<1>1. /\ c.m \in Nat /\ c.k \in Nat /\ c.a \in Nat /\ c.bf16 \in BOOLEAN
      /\ c.bf16 => c.a % 2 = 0
  BY LegalSays DEF Legal, RangesOK
<1>2. AAddr(c, row, kk) \in Nat /\ AAddr(c, row, kk) < 4 * Words
  BY AInRange
<1>3. i \in Nat
  BY <1>1
<1>4. AAddr(c, row, kk) = c.a + (IF c.bf16 THEN 2 * i ELSE i)
  <2>1. AAddr(c, row, kk) = c.a + i * Size(c)
    BY DEF AAddr
  <2> HIDE DEF i
  <2> QED BY <1>1, <1>3, <2>1 DEF Size
<1>5. AValue(c, m, row, kk) = Element(m, c.a, i, c.bf16)
  BY DEF AValue
<1> HIDE DEF i
<1>6. /\ AAddr(c, row, kk) \div 4 \in Addr
      /\ AlignWord(AAddr(c, row, kk)) \div 4 = AAddr(c, row, kk) \div 4
      /\ Select(m[AAddr(c, row, kk) \div 4], AAddr(c, row, kk) % 4, c.bf16) = AValue(c, m, row, kk)
      /\ AValue(c, m, row, kk) \in Int
  <2>1. Located(AAddr(c, row, kk), c.a, i, c.bf16)
    BY <1>1, <1>2, <1>4 DEF Located
  <2> QED BY <1>1, <1>3, <1>5, <2>1, LaneOfElement
<1>7. AMatrix(c, m)[row][kk] = AValue(c, m, row, kk)
  BY DEF AMatrix
<1>8. AAddr(c, row, kk) \div 4 \in Inputs(c)
  BY DEF Inputs
<1> QED BY <1>6, <1>7, <1>8

\* So is what it loads for a place of the B tile, transposed or not.
LEMMA BOperand ==
  ASSUME ConstantsOK, NEW c \in Cmd, Legal(c), NEW m \in [Addr -> Word],
         NEW kk \in 0 .. c.k - 1, NEW col \in 0 .. c.n - 1
  PROVE  /\ BAddr(c, kk, col) \div 4 \in Addr \cap Inputs(c)
         /\ AlignWord(BAddr(c, kk, col)) \div 4 = BAddr(c, kk, col) \div 4
         /\ Select(m[BAddr(c, kk, col) \div 4], BAddr(c, kk, col) % 4, c.bf16) = BMatrix(c, m)[kk][col]
         /\ BMatrix(c, m)[kk][col] = BValue(c, m, kk, col) /\ BValue(c, m, kk, col) \in Int
<1> DEFINE i == IF c.transpose THEN col * c.k + kk ELSE kk * c.n + col
<1>1. /\ c.n \in Nat /\ c.k \in Nat /\ c.b \in Nat /\ c.bf16 \in BOOLEAN
      /\ c.bf16 => c.b % 2 = 0
  BY LegalSays DEF Legal, RangesOK
<1>2. BAddr(c, kk, col) \in Nat /\ BAddr(c, kk, col) < 4 * Words
  BY BInRange
<1>3. i \in Nat
  BY <1>1
<1>4. BAddr(c, kk, col) = c.b + (IF c.bf16 THEN 2 * i ELSE i)
  <2>1. BAddr(c, kk, col) = c.b + i * Size(c)
    BY DEF BAddr
  <2> HIDE DEF i
  <2> QED BY <1>1, <1>3, <2>1 DEF Size
<1>5. BValue(c, m, kk, col) = Element(m, c.b, i, c.bf16)
  BY DEF BValue
<1> HIDE DEF i
<1>6. /\ BAddr(c, kk, col) \div 4 \in Addr
      /\ AlignWord(BAddr(c, kk, col)) \div 4 = BAddr(c, kk, col) \div 4
      /\ Select(m[BAddr(c, kk, col) \div 4], BAddr(c, kk, col) % 4, c.bf16) = BValue(c, m, kk, col)
      /\ BValue(c, m, kk, col) \in Int
  <2>1. Located(BAddr(c, kk, col), c.b, i, c.bf16)
    BY <1>1, <1>2, <1>4 DEF Located
  <2> QED BY <1>1, <1>3, <1>5, <2>1, LaneOfElement
<1>7. BMatrix(c, m)[kk][col] = BValue(c, m, kk, col)
  BY DEF BMatrix
<1>8. BAddr(c, kk, col) \div 4 \in Inputs(c)
  BY DEF Inputs
<1> QED BY <1>6, <1>7, <1>8

\* A result has a word of its own.
LEMMA OutWords ==
  ASSUME ConstantsOK, NEW c \in Cmd, Legal(c)
  PROVE  /\ \A row \in 0 .. c.m - 1, col \in 0 .. c.n - 1 :
              /\ CAddr(c, row, col) \div 4 = OutWord(c, row, col)
              /\ OutWord(c, row, col) \in Addr \cap Outputs(c)
              /\ OutWord(c, row, col) - c.dst \div 4 \in 0 .. c.m * c.n - 1
              /\ (OutWord(c, row, col) - c.dst \div 4) \div c.n = row
              /\ (OutWord(c, row, col) - c.dst \div 4) % c.n = col
         /\ \A w \in Addr : w - c.dst \div 4 \in 0 .. c.m * c.n - 1 =>
              /\ (w - c.dst \div 4) \div c.n \in 0 .. c.m - 1 /\ (w - c.dst \div 4) % c.n \in 0 .. c.n - 1
              /\ w = OutWord(c, (w - c.dst \div 4) \div c.n, (w - c.dst \div 4) % c.n)
<1> DEFINE d == c.dst \div 4
<1>1. /\ c.m \in Nat /\ c.n \in Nat \ {0} /\ c.dst \in Nat /\ c.dst % 4 = 0 /\ d \in Nat
  BY LegalSays
<1>2. \A row, col : OutWord(c, row, col) = d + row * c.n + col
  BY DEF OutWord
<1> DEFINE rows == c.m
           cols == c.n
<1>5. rows \in Nat /\ cols \in Nat \ {0}
  BY <1>1
<1> HIDE DEF rows, cols
<1>6. /\ \A i \in 0 .. rows * cols - 1 :
           /\ i \div cols \in 0 .. rows - 1 /\ i % cols \in 0 .. cols - 1
           /\ (i \div cols) * cols + (i % cols) = i
      /\ \A row \in 0 .. rows - 1, col \in 0 .. cols - 1 :
           /\ row * cols + col \in 0 .. rows * cols - 1
           /\ (row * cols + col) \div cols = row /\ (row * cols + col) % cols = col
  BY <1>5, Table, ZenonT(30)
<1> USE DEF rows, cols
<1>3. ASSUME NEW row \in 0 .. c.m - 1, NEW col \in 0 .. c.n - 1
      PROVE  /\ CAddr(c, row, col) \div 4 = OutWord(c, row, col)
             /\ OutWord(c, row, col) \in Addr \cap Outputs(c)
             /\ OutWord(c, row, col) - d \in 0 .. c.m * c.n - 1
             /\ (OutWord(c, row, col) - d) \div c.n = row
             /\ (OutWord(c, row, col) - d) % c.n = col
  <2> DEFINE i == row * c.n + col
  <2>1. i \in 0 .. c.m * c.n - 1 /\ i \div c.n = row /\ i % c.n = col
    BY <1>6, Zenon
  <2>2. i \in Nat
    BY <1>1
  <2>3. CAddr(c, row, col) = c.dst + 4 * i
    BY DEF CAddr
  <2>4. OutWord(c, row, col) = d + i
    BY <1>1, <1>2
  <2>5. CAddr(c, row, col) \div 4 \in Addr
    BY CInRange
  <2>6. CAddr(c, row, col) \div 4 \in Outputs(c)
    BY DEF Outputs
  <2> HIDE DEF i
  <2>7. CAddr(c, row, col) \div 4 = d + i
    BY <1>1, <2>2, <2>3
  <2> HIDE DEF d
  <2>8. OutWord(c, row, col) - d = i
    BY <1>1, <2>2, <2>4
  <2> QED BY <2>1, <2>4, <2>5, <2>6, <2>7, <2>8
<1>4. ASSUME NEW w \in Addr, w - d \in 0 .. c.m * c.n - 1
      PROVE  /\ (w - d) \div c.n \in 0 .. c.m - 1 /\ (w - d) % c.n \in 0 .. c.n - 1
             /\ w = OutWord(c, (w - d) \div c.n, (w - d) % c.n)
  <2> DEFINE i == w - d
             q == i \div c.n
             r == i % c.n
  <2>1. i \in 0 .. c.m * c.n - 1
    BY <1>4
  <2>2. q \in 0 .. c.m - 1 /\ r \in 0 .. c.n - 1 /\ q * c.n + r = i
    <3> HIDE DEF i
    <3> QED BY <1>6, <2>1, Zenon
  <2>3. OutWord(c, q, r) = d + q * c.n + r
    BY <1>2
  <2>4. w = d + i
    BY <1>1 DEF Addr
  <2> HIDE DEF i, q, r, d
  <2>5. q * c.n \in Int
    BY <1>1, <2>2
  <2>6. w = OutWord(c, q, r)
    BY <1>1, <2>2, <2>3, <2>4, <2>5
  <2> QED BY <2>2, <2>6 DEF i, q, r
<1> QED BY <1>3, <1>4 DEF d

\* The golden sums start from the word in memory or from zero, and grow by one
\* product at a time; wrapping the last one gives the golden result.
LEMMA SumsFacts ==
  ASSUME ConstantsOK, NEW c \in Cmd, Legal(c), NEW m \in [Addr -> Word],
         NEW row \in 0 .. c.m - 1, NEW col \in 0 .. c.n - 1
  PROVE  /\ Base(c, m, row, col) \in Word /\ Sums(c, m, row, col)[0] = Base(c, m, row, col)
         /\ \A k \in 0 .. c.k : Sums(c, m, row, col)[k] \in Int
         /\ \A k \in 0 .. c.k - 1 :
              Sums(c, m, row, col)[k + 1] =
                Sums(c, m, row, col)[k] + AMatrix(c, m)[row][k] * BMatrix(c, m)[k][col]
         /\ GoldenElement(c, m, row, col) = Wrap(Sums(c, m, row, col)[c.k])
<1> DEFINE base == Base(c, m, row, col)
           f == Products(c, m, row, col)
<1>1. c.k \in Nat
  BY LegalSays
<1>2. base \in Word
  <2>1. OutWord(c, row, col) \in Addr
    BY OutWords
  <2> QED BY <2>1, WrapFacts DEF Base
<1>3. base \in Int
  BY <1>2 DEF Word
<1>4. ASSUME NEW k \in 0 .. c.k - 1
      PROVE  /\ AMatrix(c, m)[row][k] = AValue(c, m, row, k) /\ AMatrix(c, m)[row][k] \in Int
             /\ BMatrix(c, m)[k][col] = BValue(c, m, k, col) /\ BMatrix(c, m)[k][col] \in Int
  BY AOperand, BOperand
<1>5. f \in [0 .. c.k - 1 -> Int]
  BY <1>4 DEF Products
<1>6. \A k \in 0 .. c.k - 1 :
        /\ f[k] = AMatrix(c, m)[row][k] * BMatrix(c, m)[k][col]
        /\ f[k] = AValue(c, m, row, k) * BValue(c, m, k, col)
  BY <1>4 DEF Products
<1>7. Sums(c, m, row, col) = SumOf(base, f, c.k)
  BY DEF Sums
<1> HIDE DEF base, f
<1>8. /\ IsSum(SumOf(base, f, c.k), base, f, c.k) /\ SumOf(base, f, c.k)[0] = base
      /\ \A k \in 0 .. c.k : SumOf(base, f, c.k)[k] \in Int
      /\ \A k \in 0 .. c.k - 1 : SumOf(base, f, c.k)[k + 1] = SumOf(base, f, c.k)[k] + f[k]
  BY <1>1, <1>3, <1>5, SumFacts
<1> DEFINE Eqn(s) == s = [n \in 0 .. c.k |-> IF n = 0 THEN base
                            ELSE s[n - 1] + AValue(c, m, row, n - 1) * BValue(c, m, n - 1, col)]
           golden == CHOOSE s : Eqn(s)
<1>9. \A s : Eqn(s) <=> IsSum(s, base, f, c.k)
  <2> TAKE s
  <2>1. \A n \in 0 .. c.k :
          (IF n = 0 THEN base ELSE s[n - 1] + AValue(c, m, row, n - 1) * BValue(c, m, n - 1, col))
            = IF n = 0 THEN base ELSE s[n - 1] + f[n - 1]
    <3> TAKE n \in 0 .. c.k
    <3>1. CASE n # 0
      <4>1. n - 1 \in 0 .. c.k - 1
        BY <1>1, <3>1
      <4> QED BY <1>6, <4>1
    <3> QED BY <3>1
  <2> QED BY <2>1 DEF IsSum
<1>10. IsSum(golden, base, f, c.k)
  <2>1. \E s : Eqn(s)
    BY <1>8, <1>9
  <2> HIDE DEF Eqn
  <2>2. Eqn(golden)
    BY <2>1
  <2> QED BY <1>9, <2>2
<1>11. golden = SumOf(base, f, c.k)
  <2> HIDE DEF golden
  <2> QED BY <1>1, <1>8, <1>10, SumUnique
<1>12. GoldenElement(c, m, row, col) = Wrap(golden[c.k])
  BY DEF GoldenElement, AValue, BValue, base, Base, OutWord
<1>13. GoldenElement(c, m, row, col) = Wrap(Sums(c, m, row, col)[c.k])
  BY <1>7, <1>11, <1>12, Zenon
<1>14. \A k \in 0 .. c.k - 1 :
              Sums(c, m, row, col)[k + 1] =
                Sums(c, m, row, col)[k] + AMatrix(c, m)[row][k] * BMatrix(c, m)[k][col]
  BY <1>6, <1>7, <1>8
<1> HIDE DEF golden, Eqn
<1> QED BY <1>2, <1>7, <1>8, <1>13, <1>14 DEF base

\* Memories that agree on the words a command names.
Agree(c, m, w) == \A a \in Inputs(c) \cup Outputs(c) : w[a] = m[a]

\* They have the same operands and results.
LEMMA SameOperands ==
  ASSUME ConstantsOK, NEW c \in Cmd, Legal(c), NEW m \in [Addr -> Word], NEW w \in [Addr -> Word],
         Agree(c, m, w)
  PROVE  /\ AMatrix(c, w) = AMatrix(c, m) /\ BMatrix(c, w) = BMatrix(c, m)
         /\ CMatrix(c, w) = CMatrix(c, m)
         /\ \A row \in 0 .. c.m - 1, col \in 0 .. c.n - 1 :
              /\ Sums(c, w, row, col) = Sums(c, m, row, col)
              /\ GoldenElement(c, w, row, col) = GoldenElement(c, m, row, col)
<1>1. \A row \in 0 .. c.m - 1, kk \in 0 .. c.k - 1 : AValue(c, w, row, kk) = AValue(c, m, row, kk)
  <2> TAKE row \in 0 .. c.m - 1, kk \in 0 .. c.k - 1
  <2> DEFINE a == AAddr(c, row, kk)
  <2>1. w[a \div 4] = m[a \div 4]
    BY AOperand DEF Agree
  <2>2. Select(m[a \div 4], a % 4, c.bf16) = AValue(c, m, row, kk)
    BY AOperand
  <2>3. Select(w[a \div 4], a % 4, c.bf16) = AValue(c, w, row, kk)
    BY AOperand
  <2> HIDE DEF a
  <2> QED BY <2>1, <2>2, <2>3, Zenon
<1>2. \A kk \in 0 .. c.k - 1, col \in 0 .. c.n - 1 : BValue(c, w, kk, col) = BValue(c, m, kk, col)
  <2> TAKE kk \in 0 .. c.k - 1, col \in 0 .. c.n - 1
  <2> DEFINE b == BAddr(c, kk, col)
  <2>1. w[b \div 4] = m[b \div 4]
    BY BOperand DEF Agree
  <2>2. Select(m[b \div 4], b % 4, c.bf16) = BValue(c, m, kk, col)
    BY BOperand
  <2>3. Select(w[b \div 4], b % 4, c.bf16) = BValue(c, w, kk, col)
    BY BOperand
  <2> HIDE DEF b
  <2> QED BY <2>1, <2>2, <2>3, Zenon
<1>3. \A row \in 0 .. c.m - 1, col \in 0 .. c.n - 1 : w[OutWord(c, row, col)] = m[OutWord(c, row, col)]
  BY OutWords DEF Agree
<1>4. AMatrix(c, w) = AMatrix(c, m)
  BY <1>1 DEF AMatrix
<1>5. BMatrix(c, w) = BMatrix(c, m)
  BY <1>2 DEF BMatrix
<1>6. CMatrix(c, w) = CMatrix(c, m)
  BY <1>3 DEF CMatrix
<1>7. ASSUME NEW row \in 0 .. c.m - 1, NEW col \in 0 .. c.n - 1
      PROVE  /\ Sums(c, w, row, col) = Sums(c, m, row, col)
             /\ GoldenElement(c, w, row, col) = GoldenElement(c, m, row, col)
  <2>1. Base(c, w, row, col) = Base(c, m, row, col)
    BY <1>3 DEF Base
  <2>2. Products(c, w, row, col) = Products(c, m, row, col)
    BY <1>4, <1>5 DEF Products
  <2>3. Sums(c, w, row, col) = Sums(c, m, row, col)
    BY <2>1, <2>2, Zenon DEF Sums
  <2> QED BY <2>3, SumsFacts
<1> QED BY <1>4, <1>5, <1>6, <1>7

-----------------------------------------------------------------------------
(* The walk over a tile                                                    *)

\* The walk has passed a place when it is at <<i, j>>.
Passed(row, col, i, j) == row < i \/ (row = i /\ col < j)

\* The places that the walk has passed hold the matrix.
TileOK(tile, pitch, matrix, rows, cols, i, j) ==
  \A row \in 0 .. rows - 1, col \in 0 .. cols - 1 :
    Passed(row, col, i, j) => tile[row * pitch + col] = matrix[row][col]

\* Where Advance goes from <<i, j>>, or the end of the tile.
Follows(rows, cols, i, j, k, l) ==
  \/ j # cols - 1 /\ k = i /\ l = j + 1
  \/ j = cols - 1 /\ i # rows - 1 /\ k = i + 1 /\ l = 0
  \/ j = cols - 1 /\ i = rows - 1 /\ k = rows /\ l = 0

\* A step of the walk passes one place.
LEMMA PassesOne ==
  ASSUME NEW rows \in Nat, NEW cols \in Nat, NEW i \in 0 .. rows - 1, NEW j \in 0 .. cols - 1,
         NEW k, NEW l, Follows(rows, cols, i, j, k, l)
  PROVE  \A row \in 0 .. rows - 1, col \in 0 .. cols - 1 :
           Passed(row, col, k, l) <=> Passed(row, col, i, j) \/ (row = i /\ col = j)
BY DEF Follows, Passed

\* Places of a flattened tile are different.
LEMMA FlatInjective ==
  ASSUME NEW pitch \in Nat, NEW row \in Nat, NEW other \in Nat,
         NEW col \in 0 .. pitch - 1, NEW place \in 0 .. pitch - 1,
         row * pitch + col = other * pitch + place
  PROVE  row = other /\ col = place
<1>1. (row - other) * pitch = place - col
  BY row * pitch \in Int, other * pitch \in Int
<1>2. ~(row - other >= 1)
  <2> SUFFICES ASSUME row - other >= 1 PROVE FALSE
    OBVIOUS
  <2>1. (row - other) * pitch >= 1 * pitch
    OBVIOUS
  <2> QED BY <1>1, <2>1
<1>3. ~(row - other <= -1)
  <2> SUFFICES ASSUME row - other <= -1 PROVE FALSE
    OBVIOUS
  <2>1. (row - other) * pitch <= (-1) * pitch
    OBVIOUS
  <2> QED BY <1>1, <2>1
<1>4. row = other
  BY <1>2, <1>3
<1> QED BY <1>1, <1>4

\* Nothing has been passed at the start.
LEMMA TileStart ==
  ASSUME NEW tile, NEW pitch, NEW matrix, NEW rows, NEW cols
  PROVE  TileOK(tile, pitch, matrix, rows, cols, 0, 0)
BY DEF TileOK, Passed

\* A place of a tile takes an element.
Takes(new, old, size, place, e) == \A x \in 0 .. size - 1 : new[x] = IF x = place THEN e ELSE old[x]

\* Loading the element of the place the walk is at, and going on, keeps the tile.
LEMMA TileGrows ==
  ASSUME NEW pitch \in Nat, NEW rows \in Nat, NEW cols \in Nat, cols <= pitch, NEW size \in Nat,
         rows * pitch <= size,
         NEW tile, NEW new, NEW matrix, NEW i \in 0 .. rows - 1, NEW j \in 0 .. cols - 1, NEW k, NEW l,
         NEW place, place = i * pitch + j, NEW e, e = matrix[i][j],
         TileOK(tile, pitch, matrix, rows, cols, i, j), Follows(rows, cols, i, j, k, l),
         Takes(new, tile, size, place, e)
  PROVE  TileOK(new, pitch, matrix, rows, cols, k, l)
<1> SUFFICES ASSUME NEW row \in 0 .. rows - 1, NEW col \in 0 .. cols - 1, Passed(row, col, k, l)
             PROVE  new[row * pitch + col] = matrix[row][col]
  BY DEF TileOK
<1>1. Passed(row, col, i, j) \/ (row = i /\ col = j)
  BY PassesOne
<1>2. row * pitch + col \in 0 .. size - 1
  <2>1. col \in 0 .. pitch - 1
    OBVIOUS
  <2>2. row * pitch + col \in 0 .. rows * pitch - 1
    BY <2>1, Flat
  <2>3. rows * pitch \in Int
    OBVIOUS
  <2> QED BY <2>2, <2>3
<1>3. row * pitch + col = i * pitch + j => row = i /\ col = j
  BY FlatInjective
<1>4. CASE row = i /\ col = j
  BY <1>2, <1>4 DEF Takes
<1>5. CASE ~(row = i /\ col = j)
  <2>1. new[row * pitch + col] = tile[row * pitch + col]
    BY <1>2, <1>3, <1>5 DEF Takes
  <2> QED BY <1>1, <1>5, <2>1 DEF TileOK
<1> QED BY <1>4, <1>5

-----------------------------------------------------------------------------
(* The data: what the tiles, the sums and the memory hold                  *)

LoadingA  == {"LOAD_A_REQ", "LOAD_A_WAIT"}
LoadingB  == {"LOAD_B_REQ", "LOAD_B_WAIT"}
LoadingC  == {"LOAD_C_REQ", "LOAD_C_WAIT"}
Computing == {"RUN_START", "RUN_WAIT"}

\* The tiles of command c as far as <<i, j>>.
ATileOK(c, m, tile, i, j) == TileOK(tile[c.bf16], ARRAY_K, AMatrix(c, m), c.m, c.k, i, j)
BTileOK(c, m, tile, i, j) == TileOK(tile[c.bf16], ARRAY_N, BMatrix(c, m), c.k, c.n, i, j)
CTileOK(c, m, tile, i, j) == TileOK(tile[c.bf16], ARRAY_N, CMatrix(c, m), c.m, c.n, i, j)

\* The processing elements hold the sums over the first n slices.
SumsOK(c, m, acc, n) ==
  \A row \in 0 .. c.m - 1, col \in 0 .. c.n - 1 :
    acc[BnIdx(row, col)] = Wrap(Sums(c, m, row, col)[n])

\* The results that the walk has passed are in memory, and nothing else changed.
ResultsOK(c, m, now, i, j) ==
  /\ \A row \in 0 .. c.m - 1, col \in 0 .. c.n - 1 :
       Passed(row, col, i, j) => now[OutWord(c, row, col)] = GoldenElement(c, m, row, col)
  /\ \A w \in Addr : w - c.dst \div 4 \notin 0 .. c.m * c.n - 1 => now[w] = m[w]

\* Tiles already loaded are whole, the one being loaded as far as the walk is.
TileInv ==
  /\ state_q \in LoadingA => ATileOK(cmd_q, mem0, a_tile, cnt_i_q, cnt_j_q)
  /\ state_q \in LoadingB \cup LoadingC \cup Computing => ATileOK(cmd_q, mem0, a_tile, cmd_q.m, 0)
  /\ state_q \in LoadingB => BTileOK(cmd_q, mem0, b_tile, cnt_i_q, cnt_j_q)
  /\ state_q \in LoadingC \cup Computing => BTileOK(cmd_q, mem0, b_tile, cmd_q.k, 0)
  /\ state_q \in LoadingC => CTileOK(cmd_q, mem0, c_in, cnt_i_q, cnt_j_q)
  /\ state_q \in Computing /\ cmd_q.accumulate => CTileOK(cmd_q, mem0, c_in, cmd_q.m, 0)

\* A request or an answer is for the place the walk is at.
APlace == AAddr(cmd_q, cnt_i_q, cnt_j_q)
BPlace == BAddr(cmd_q, cnt_i_q, cnt_j_q)
CPlace == CAddr(cmd_q, cnt_i_q, cnt_j_q)
PlaceInv ==
  /\ vmem_req_q.valid =>
       \/ state_q = "LOAD_A_REQ" /\ vmem_req_q = ReadOf(AlignWord(APlace)) /\ byte_sel_q = APlace % 4
       \/ state_q = "LOAD_B_REQ" /\ vmem_req_q = ReadOf(AlignWord(BPlace)) /\ byte_sel_q = BPlace % 4
       \/ state_q = "LOAD_C_REQ" /\ vmem_req_q = ReadOf(CPlace)
       \/ state_q = "STORE_REQ" /\ vmem_req_q = WriteOf(CPlace, acc_q[BnIdx(cnt_i_q, cnt_j_q)])
  /\ state_q = "LOAD_A_WAIT" => vmem_resp.rdata = mem0[APlace \div 4] /\ byte_sel_q = APlace % 4
  /\ state_q = "LOAD_B_WAIT" => vmem_resp.rdata = mem0[BPlace \div 4] /\ byte_sel_q = BPlace % 4
  /\ state_q = "LOAD_C_WAIT" => vmem_resp.rdata = mem0[CPlace \div 4]

\* The sums are those of the slices the array has taken.
SumInv ==
  /\ arr = "FEED" => SumsOK(cmd_q, mem0, acc_q, k_idx_q)
  /\ arr = "CAPTURE" => SumsOK(cmd_q, mem0, pe_acc, k_idx_q + 1)
  /\ arr = "DONE" \/ state_q \in Storing => SumsOK(cmd_q, mem0, acc_q, cmd_q.k)

\* Memory changes only while results are stored.
MemoryInv ==
  /\ state_q \in LoadingA \cup LoadingB \cup LoadingC \cup Computing => mem = mem0
  /\ state_q = "STORE_REQ" => ResultsOK(cmd_q, mem0, mem, cnt_i_q, cnt_j_q)
  /\ state_q = "STORE_WAIT" => ResultsOK(cmd_q, mem0, mem, cnt_i_q, cnt_j_q + 1)
  /\ state_q = "DONE" => mem = GoldenMatmul(cmd_q, mem0)

DataInv == TileInv /\ PlaceInv /\ SumInv /\ MemoryInv

\* What a running command and its memory are.
LEMMA Command ==
  ASSUME ConstantsOK, IInv, Running
  PROVE  /\ cmd_q \in Cmd /\ Legal(cmd_q) /\ mem \in [Addr -> Word] /\ mem0 \in [Addr -> Word]
         /\ cmd_q.m \in 1 .. ARRAY_M /\ cmd_q.n \in 1 .. ARRAY_N /\ cmd_q.k \in 1 .. ARRAY_K
         /\ ARRAY_M \in Nat /\ ARRAY_N \in Nat \ {0} /\ ARRAY_K \in Nat \ {0}
         /\ cmd_q.bf16 \in BOOLEAN /\ cnt_i_q \in Nat /\ cnt_j_q \in Nat
         /\ acc_q \in [CTile -> Word] /\ pe_acc \in [CTile -> Word] /\ k_idx_q \in Nat
<1>1. /\ cmd_q \in Cmd /\ mem \in [Addr -> Word] /\ mem0 \in [Addr -> Word]
      /\ cnt_i_q \in Nat /\ cnt_j_q \in Nat /\ acc_q \in [CTile -> Word] /\ pe_acc \in [CTile -> Word]
      /\ k_idx_q \in Nat
  BY DEF IInv, TypeOK, PortTypeOK
<1>2. Legal(cmd_q)
  BY DEF IInv, WalkInv
<1> QED BY <1>1, <1>2, LegalSays DEF ConstantsOK

\* The array rests unless the MXU waits for it.
LEMMA ArrayRests ==
  ASSUME IInv, ArrayStep, state_q # "RUN_WAIT"
  PROVE  arr = "IDLE" /\ UNCHANGED array
BY DEF IInv, ArrayInv, ArrayStep, ArrayIdle, ArrayStart, ArrayFeed, ArrayCapture, ArrayDone

LEMMA InitData == Init => DataInv
BY DEF Init, InitWith, PortInit, NoReq, DataInv, TileInv, PlaceInv, SumInv, MemoryInv,
       LoadingA, LoadingB, LoadingC, Computing, Storing

\* A command starts with nothing loaded.
LEMMA AcceptData ==
  ASSUME IInv, DataInv, NEW c \in Cmds, Accept(c), ArrayStep
  PROVE  DataInv'
<1>1. /\ state_q = "IDLE" /\ state_q' = "LOAD_A_REQ" /\ cnt_i_q' = 0 /\ cnt_j_q' = 0
      /\ mem' = mem0' /\ vmem_req_q' = vmem_req_q
  BY DEF Accept
<1>2. arr' = "IDLE"
  BY <1>1, ArrayRests DEF array
<1>3. ~vmem_req_q.valid
  BY <1>1 DEF DataInv, PlaceInv
<1>4. ATileOK(cmd_q', mem0', a_tile', cnt_i_q', cnt_j_q')
  BY <1>1, TileStart DEF ATileOK
<1>5. TileInv'
  BY <1>1, <1>4 DEF TileInv, LoadingA, LoadingB, LoadingC, Computing
<1>6. PlaceInv'
  BY <1>1, <1>3 DEF PlaceInv
<1>7. SumInv' /\ MemoryInv'
  BY <1>1, <1>2 DEF SumInv, MemoryInv, Storing, LoadingA, LoadingB, LoadingC, Computing
<1> QED BY <1>5, <1>6, <1>7 DEF DataInv

\* The end of a command and a rejected one.
LEMMA RestData ==
  ASSUME IInv, DataInv, Done \/ \E c \in Cmds : Reject(c), ArrayStep
  PROVE  DataInv'
<1>1. state_q \in {"DONE", "IDLE"} /\ state_q' \in {"IDLE", "ERROR"} /\ vmem_req_q' = vmem_req_q
  BY DEF Done, Reject, port
<1>2. arr' = "IDLE"
  BY <1>1, ArrayRests DEF array
<1>3. ~vmem_req_q.valid
  BY <1>1 DEF DataInv, PlaceInv
<1> QED BY <1>1, <1>2, <1>3 DEF DataInv, TileInv, PlaceInv, SumInv, MemoryInv,
             LoadingA, LoadingB, LoadingC, Computing, Storing

\* A request is driven for the place the walk is at.
LEMMA DriveData ==
  ASSUME DataInv, state_q \in {"LOAD_A_REQ", "LOAD_B_REQ", "LOAD_C_REQ", "STORE_REQ"},
         UNCHANGED <<state_q, mem, mem0, cmd_q, cnt_i_q, cnt_j_q, tiles, array>>,
         \/ /\ state_q = "LOAD_A_REQ" /\ vmem_req_q' = ReadOf(AlignWord(APlace))
            /\ byte_sel_q' = APlace % 4
         \/ /\ state_q = "LOAD_B_REQ" /\ vmem_req_q' = ReadOf(AlignWord(BPlace))
            /\ byte_sel_q' = BPlace % 4
         \/ state_q = "LOAD_C_REQ" /\ vmem_req_q' = ReadOf(CPlace)
         \/ state_q = "STORE_REQ" /\ vmem_req_q' = WriteOf(CPlace, acc_q[BnIdx(cnt_i_q, cnt_j_q)])
  PROVE  DataInv'
<1>1. /\ state_q' = state_q /\ mem' = mem /\ mem0' = mem0 /\ cmd_q' = cmd_q /\ cnt_i_q' = cnt_i_q
      /\ cnt_j_q' = cnt_j_q /\ a_tile' = a_tile /\ b_tile' = b_tile /\ c_in' = c_in
      /\ arr' = arr /\ acc_q' = acc_q /\ pe_acc' = pe_acc /\ k_idx_q' = k_idx_q
  BY DEF tiles, array
<1>2. TileInv' /\ SumInv' /\ MemoryInv'
  BY <1>1 DEF DataInv, TileInv, SumInv, MemoryInv
<1>3. APlace' = APlace /\ BPlace' = BPlace /\ CPlace' = CPlace
  BY <1>1 DEF APlace, BPlace, CPlace, AAddr, BAddr, CAddr, Size
<1>4. PlaceInv'
  BY <1>1, <1>3 DEF PlaceInv
<1> QED BY <1>2, <1>4 DEF DataInv

\* What a grant hands to the waiting state.
LEMMA Granted ==
  ASSUME IInv, NEW state, NEW waiting, Grant(state, waiting)
  PROVE  /\ state_q = state /\ state_q' = waiting /\ vmem_req_q.valid /\ ~vmem_req_q'.valid
         /\ mem0' = mem0
         /\ ~vmem_req_q.write => mem' = mem /\ vmem_resp'.rdata = mem[vmem_req_q.addr \div 4]
         /\ vmem_req_q.write => mem' = [mem EXCEPT ![vmem_req_q.addr \div 4] = vmem_req_q.wdata]
BY DEF Grant, IInv, NeverFaults, NoReq

\* The answer to a read is the golden operand's word.
LEMMA ReadData ==
  ASSUME ConstantsOK, IInv, DataInv, UNCHANGED <<cmd_q, cnt_i_q, cnt_j_q, byte_sel_q, tiles, array>>,
         arr = "IDLE",
         \/ Grant("LOAD_A_REQ", "LOAD_A_WAIT")
         \/ Grant("LOAD_B_REQ", "LOAD_B_WAIT")
         \/ Grant("LOAD_C_REQ", "LOAD_C_WAIT")
  PROVE  DataInv'
<1>1. /\ cmd_q' = cmd_q /\ cnt_i_q' = cnt_i_q /\ cnt_j_q' = cnt_j_q /\ byte_sel_q' = byte_sel_q
      /\ a_tile' = a_tile /\ b_tile' = b_tile /\ c_in' = c_in /\ arr' = "IDLE"
  BY DEF tiles, array
<1>2. /\ vmem_req_q.valid /\ ~vmem_req_q'.valid /\ mem0' = mem0
      /\ \/ state_q = "LOAD_A_REQ" /\ state_q' = "LOAD_A_WAIT"
         \/ state_q = "LOAD_B_REQ" /\ state_q' = "LOAD_B_WAIT"
         \/ state_q = "LOAD_C_REQ" /\ state_q' = "LOAD_C_WAIT"
      /\ ~vmem_req_q.write => mem' = mem /\ vmem_resp'.rdata = mem[vmem_req_q.addr \div 4]
  BY Granted
<1>3. mem = mem0
  BY <1>2 DEF DataInv, MemoryInv, LoadingA, LoadingB, LoadingC
<1>4. /\ cmd_q \in Cmd /\ Legal(cmd_q) /\ mem0 \in [Addr -> Word]
      /\ cmd_q.m \in Nat /\ cmd_q.n \in Nat /\ cmd_q.k \in Nat /\ cnt_i_q \in Nat /\ cnt_j_q \in Nat
  <2>1. Running
    BY <1>2 DEF Running
  <2> QED BY <2>1, Command
<1>5. APlace' = APlace /\ BPlace' = BPlace /\ CPlace' = CPlace
  BY <1>1 DEF APlace, BPlace, CPlace, AAddr, BAddr, CAddr, Size
<1>6. CASE state_q = "LOAD_A_REQ"
  <2>1. vmem_req_q = ReadOf(AlignWord(APlace)) /\ byte_sel_q = APlace % 4
    BY <1>2, <1>6 DEF DataInv, PlaceInv
  <2>2. cnt_i_q \in 0 .. cmd_q.m - 1 /\ cnt_j_q \in 0 .. cmd_q.k - 1
    BY <1>4, <1>6 DEF IInv, WalkInv
  <2>3. AlignWord(APlace) \div 4 = APlace \div 4
    BY <1>4, <2>2, AOperand DEF APlace
  <2>4. vmem_req_q.addr = AlignWord(APlace) /\ ~vmem_req_q.write
    BY <2>1 DEF ReadOf
  <2>5. vmem_resp'.rdata = mem0[APlace \div 4] /\ mem' = mem0
    BY <1>2, <1>3, <2>3, <2>4
  <2>6. PlaceInv'
    BY <1>1, <1>2, <1>5, <1>6, <2>1, <2>5 DEF PlaceInv
  <2> QED BY <1>1, <1>2, <1>6, <2>5, <2>6 DEF DataInv, TileInv, SumInv, MemoryInv,
               LoadingA, LoadingB, LoadingC, Computing, Storing
<1>7. CASE state_q = "LOAD_B_REQ"
  <2>1. vmem_req_q = ReadOf(AlignWord(BPlace)) /\ byte_sel_q = BPlace % 4
    BY <1>2, <1>7 DEF DataInv, PlaceInv
  <2>2. cnt_i_q \in 0 .. cmd_q.k - 1 /\ cnt_j_q \in 0 .. cmd_q.n - 1
    BY <1>4, <1>7 DEF IInv, WalkInv
  <2>3. AlignWord(BPlace) \div 4 = BPlace \div 4
    BY <1>4, <2>2, BOperand DEF BPlace
  <2>4. vmem_req_q.addr = AlignWord(BPlace) /\ ~vmem_req_q.write
    BY <2>1 DEF ReadOf
  <2>5. vmem_resp'.rdata = mem0[BPlace \div 4] /\ mem' = mem0
    BY <1>2, <1>3, <2>3, <2>4
  <2>6. PlaceInv'
    BY <1>1, <1>2, <1>5, <1>7, <2>1, <2>5 DEF PlaceInv
  <2> QED BY <1>1, <1>2, <1>7, <2>5, <2>6 DEF DataInv, TileInv, SumInv, MemoryInv,
               LoadingA, LoadingB, LoadingC, Computing, Storing
<1>8. CASE state_q = "LOAD_C_REQ"
  <2>1. vmem_req_q = ReadOf(CPlace)
    BY <1>2, <1>8 DEF DataInv, PlaceInv
  <2>4. vmem_req_q.addr = CPlace /\ ~vmem_req_q.write
    BY <2>1 DEF ReadOf
  <2>5. vmem_resp'.rdata = mem0[CPlace \div 4] /\ mem' = mem0
    BY <1>2, <1>3, <2>4
  <2>6. PlaceInv'
    BY <1>1, <1>2, <1>5, <1>8, <2>5 DEF PlaceInv
  <2> QED BY <1>1, <1>2, <1>8, <2>5, <2>6 DEF DataInv, TileInv, SumInv, MemoryInv,
               LoadingA, LoadingB, LoadingC, Computing, Storing
<1> QED BY <1>2, <1>6, <1>7, <1>8

\* A stored word is the golden result of its place.
LEMMA StoreData ==
  ASSUME ConstantsOK, IInv, DataInv, UNCHANGED <<cmd_q, cnt_i_q, cnt_j_q, tiles, array>>,
         arr = "IDLE", Grant("STORE_REQ", "STORE_WAIT")
  PROVE  DataInv'
<1> DEFINE c == cmd_q
           word == OutWord(c, cnt_i_q, cnt_j_q)
<1>1. cmd_q' = cmd_q /\ cnt_i_q' = cnt_i_q /\ cnt_j_q' = cnt_j_q /\ arr' = "IDLE" /\ acc_q' = acc_q
  BY DEF array
<1>2. /\ vmem_req_q.valid /\ ~vmem_req_q'.valid /\ mem0' = mem0
      /\ state_q = "STORE_REQ" /\ state_q' = "STORE_WAIT"
      /\ vmem_req_q.write => mem' = [mem EXCEPT ![vmem_req_q.addr \div 4] = vmem_req_q.wdata]
  BY Granted
<1>3. /\ c \in Cmd /\ Legal(c) /\ mem0 \in [Addr -> Word] /\ mem \in [Addr -> Word]
      /\ c.m \in Nat /\ c.n \in Nat /\ c.k \in Nat /\ cnt_i_q \in Nat /\ cnt_j_q \in Nat
  <2>1. Running
    BY <1>2 DEF Running
  <2> QED BY <2>1, Command
<1>4. cnt_i_q \in 0 .. c.m - 1 /\ cnt_j_q \in 0 .. c.n - 1
  BY <1>2, <1>3 DEF IInv, WalkInv, Storing
<1>5. vmem_req_q = WriteOf(CPlace, acc_q[BnIdx(cnt_i_q, cnt_j_q)])
  BY <1>2 DEF DataInv, PlaceInv
<1>6. SumsOK(c, mem0, acc_q, c.k) /\ ResultsOK(c, mem0, mem, cnt_i_q, cnt_j_q)
  BY <1>2 DEF DataInv, SumInv, MemoryInv, Storing
<1>7. acc_q[BnIdx(cnt_i_q, cnt_j_q)] = GoldenElement(c, mem0, cnt_i_q, cnt_j_q)
  <2>1. acc_q[BnIdx(cnt_i_q, cnt_j_q)] = Wrap(Sums(c, mem0, cnt_i_q, cnt_j_q)[c.k])
    BY <1>4, <1>6 DEF SumsOK
  <2>2. GoldenElement(c, mem0, cnt_i_q, cnt_j_q) = Wrap(Sums(c, mem0, cnt_i_q, cnt_j_q)[c.k])
    BY <1>3, <1>4, SumsFacts
  <2> QED BY <2>1, <2>2
<1> HIDE DEF c
<1>8. /\ \A row \in 0 .. c.m - 1, col \in 0 .. c.n - 1 :
           /\ OutWord(c, row, col) \in Addr
           /\ OutWord(c, row, col) - c.dst \div 4 \in 0 .. c.m * c.n - 1
           /\ (OutWord(c, row, col) - c.dst \div 4) \div c.n = row
           /\ (OutWord(c, row, col) - c.dst \div 4) % c.n = col
      /\ CAddr(c, cnt_i_q, cnt_j_q) \div 4 = word
  BY <1>3, <1>4, OutWords
<1>9. mem' = [mem EXCEPT ![word] = GoldenElement(c, mem0, cnt_i_q, cnt_j_q)]
  <2>1. vmem_req_q.addr = CPlace /\ vmem_req_q.write
        /\ vmem_req_q.wdata = acc_q[BnIdx(cnt_i_q, cnt_j_q)]
    BY <1>5 DEF WriteOf
  <2>2. CPlace = CAddr(c, cnt_i_q, cnt_j_q)
    BY DEF CPlace, c
  <2>3. vmem_req_q.addr \div 4 = word
    BY <1>8, <2>1, <2>2, Zenon
  <2> HIDE DEF word
  <2> QED BY <1>2, <1>7, <2>1, <2>3, Zenon DEF c
<1>10. ResultsOK(c, mem0, mem', cnt_i_q, cnt_j_q + 1)
  <2>1. ASSUME NEW row \in 0 .. c.m - 1, NEW col \in 0 .. c.n - 1, Passed(row, col, cnt_i_q, cnt_j_q + 1)
        PROVE  mem'[OutWord(c, row, col)] = GoldenElement(c, mem0, row, col)
    <3>1. Passed(row, col, cnt_i_q, cnt_j_q) \/ (row = cnt_i_q /\ col = cnt_j_q)
      BY <1>3, <2>1 DEF Passed
    <3>2. OutWord(c, row, col) \in Addr /\ word \in Addr
      BY <1>4, <1>8, Zenon
    <3>3. OutWord(c, row, col) = word => row = cnt_i_q /\ col = cnt_j_q
      <4>1. /\ (OutWord(c, row, col) - c.dst \div 4) \div c.n = row
            /\ (OutWord(c, row, col) - c.dst \div 4) % c.n = col
        BY <1>8, Zenon
      <4>2. /\ (word - c.dst \div 4) \div c.n = cnt_i_q
            /\ (word - c.dst \div 4) % c.n = cnt_j_q
        BY <1>4, <1>8, Zenon
      <4> HIDE DEF word
      <4> QED BY <4>1, <4>2, Zenon
    <3>4. Passed(row, col, cnt_i_q, cnt_j_q) => mem[OutWord(c, row, col)] = GoldenElement(c, mem0, row, col)
      BY <1>6 DEF ResultsOK, c
    <3> DEFINE w == OutWord(c, row, col)
    <3>5. mem'[w] = IF w = word THEN GoldenElement(c, mem0, cnt_i_q, cnt_j_q) ELSE mem[w]
      <4> HIDE DEF w, word
      <4> QED BY <1>3, <1>9, <3>2 DEF w
    <3>6. word = OutWord(c, cnt_i_q, cnt_j_q)
      OBVIOUS
    <3> HIDE DEF w, word
    <3> QED BY <3>1, <3>3, <3>4, <3>5, <3>6 DEF w
  <2>2. ASSUME NEW w \in Addr, w - c.dst \div 4 \notin 0 .. c.m * c.n - 1
        PROVE  mem'[w] = mem0[w]
    <3>1. w # word
      BY <1>4, <1>8, <2>2, Zenon
    <3>2. mem[w] = mem0[w]
      BY <1>6, <2>2 DEF ResultsOK, c
    <3> HIDE DEF word
    <3> QED BY <1>3, <1>9, <3>1, <3>2
  <2> QED BY <2>1, <2>2 DEF ResultsOK
<1> HIDE DEF word
<1>11. /\ cmd_q = c /\ SumsOK(c, mem0, acc_q, c.k)
  BY <1>6 DEF c
<1>12. MemoryInv' /\ SumInv'
  BY <1>1, <1>2, <1>10, <1>11 DEF SumInv, MemoryInv, Storing, LoadingA, LoadingB, LoadingC, Computing
<1> QED BY <1>2, <1>12 DEF DataInv, TileInv, PlaceInv, LoadingA, LoadingB, LoadingC, Computing

LEMMA RequestData ==
  ASSUME ConstantsOK, IInv, DataInv, LoadAReq \/ LoadBReq \/ LoadCReq \/ StoreReq, ArrayStep
  PROVE  DataInv'
<1>1. state_q \in {"LOAD_A_REQ", "LOAD_B_REQ", "LOAD_C_REQ", "STORE_REQ"}
      /\ UNCHANGED <<cmd_q, cnt_i_q, cnt_j_q, tiles>>
  BY DEF LoadAReq, LoadBReq, LoadCReq, StoreReq, Fetch, Drive, Grant, counters
<1>2. arr = "IDLE" /\ UNCHANGED array
  BY <1>1, ArrayRests
<1>3. CASE LoadAReq
  BY <1>1, <1>2, <1>3, DriveData, ReadData DEF LoadAReq, Fetch, Drive, APlace
<1>4. CASE LoadBReq
  BY <1>1, <1>2, <1>4, DriveData, ReadData DEF LoadBReq, Fetch, Drive, BPlace
<1>5. CASE LoadCReq
  BY <1>1, <1>2, <1>5, DriveData, ReadData DEF LoadCReq, Drive, CPlace, counters
<1>6. CASE StoreReq
  BY <1>1, <1>2, <1>6, DriveData, StoreData DEF StoreReq, Drive, CPlace, counters
<1> QED BY <1>3, <1>4, <1>5, <1>6

\* A place in one of the two tiles of a kind takes an element.
LEMMA WriteElement ==
  ASSUME NEW size \in Nat, NEW S, NEW tile \in [BOOLEAN -> [0 .. size - 1 -> S]], NEW t \in BOOLEAN,
         NEW place, NEW e, NEW new, new = [tile EXCEPT ![t][place] = e]
  PROVE  Takes(new[t], tile[t], size, place, e)
BY DEF Takes

\* The counters walk a tile in order.
LEMMA AdvanceFollows ==
  ASSUME NEW rows \in Nat, NEW cols \in Nat, cnt_i_q \in 0 .. rows - 1, cnt_j_q \in 0 .. cols - 1,
         Advance(rows, cols)
  PROVE  /\ LastOf(rows, cols) => /\ Follows(rows, cols, cnt_i_q, cnt_j_q, rows, 0)
                                  /\ cnt_i_q' = 0 /\ cnt_j_q' = 0
         /\ ~LastOf(rows, cols) => Follows(rows, cols, cnt_i_q, cnt_j_q, cnt_i_q', cnt_j_q')
BY DEF Advance, LastOf, Follows

\* Part of the array's pitch is no longer than the array.
LEMMA Fits ==
  ASSUME NEW rows \in Nat, NEW all \in Nat, rows <= all, NEW pitch \in Nat
  PROVE  rows * pitch <= all * pitch
<1>1. (all - rows) * pitch >= 0
  BY all - rows \in Nat
<1>2. (all - rows) * pitch = all * pitch - rows * pitch
  OBVIOUS
<1>3. all * pitch \in Int /\ rows * pitch \in Int
  OBVIOUS
<1> QED BY <1>1, <1>2, <1>3

\* Each loaded operand goes to its place of the tile.
LEMMA LoadAData ==
  ASSUME ConstantsOK, IInv, DataInv, LoadAWait, ArrayStep
  PROVE  DataInv'
<1> DEFINE c == cmd_q
           element == Select(vmem_resp.rdata, byte_sel_q, cmd_q.bf16)
<1>1. /\ state_q = "LOAD_A_WAIT" /\ ~vmem_resp.error /\ vmem_req_q' = vmem_req_q
      /\ mem' = mem /\ mem0' = mem0
      /\ state_q' = IF LastOf(c.m, c.k) THEN "LOAD_B_REQ" ELSE "LOAD_A_REQ"
      /\ a_tile' = [a_tile EXCEPT ![c.bf16][AIdx(cnt_i_q, cnt_j_q)] = element]
      /\ Advance(c.m, c.k) /\ cmd_q' = cmd_q
  BY DEF LoadAWait, Answered, IInv, NeverFaults, Advance
<1>2. arr = "IDLE" /\ arr' = "IDLE" /\ ~vmem_req_q'.valid
  BY <1>1, ArrayRests DEF array, DataInv, PlaceInv
<1>3. /\ c \in Cmd /\ Legal(c) /\ mem0 \in [Addr -> Word]
      /\ c.m \in Nat /\ c.n \in Nat /\ c.k \in Nat /\ cnt_i_q \in Nat /\ cnt_j_q \in Nat
      /\ c.m <= ARRAY_M /\ c.k <= ARRAY_K /\ ARRAY_M \in Nat /\ ARRAY_K \in Nat /\ c.bf16 \in BOOLEAN
  <2>1. Running
    BY <1>1 DEF Running
  <2> QED BY <2>1, Command
<1>4. cnt_i_q \in 0 .. c.m - 1 /\ cnt_j_q \in 0 .. c.k - 1
  BY <1>1, <1>3 DEF IInv, WalkInv
<1>5. element = AMatrix(c, mem0)[cnt_i_q][cnt_j_q]
  <2>1. vmem_resp.rdata = mem0[APlace \div 4] /\ byte_sel_q = APlace % 4
    BY <1>1 DEF DataInv, PlaceInv
  <2>2. Select(mem0[APlace \div 4], APlace % 4, c.bf16) = AMatrix(c, mem0)[cnt_i_q][cnt_j_q]
    BY <1>3, <1>4, AOperand DEF APlace
  <2> QED BY <2>1, <2>2, Zenon
<1>6. a_tile \in [BOOLEAN -> [ATile -> Int]]
  BY DEF IInv, TypeOK
<1>7. ATileOK(c, mem0, a_tile, cnt_i_q, cnt_j_q)
  BY <1>1 DEF DataInv, TileInv, LoadingA
<1> HIDE DEF c, element
<1>8. ASSUME NEW k, NEW l, Follows(c.m, c.k, cnt_i_q, cnt_j_q, k, l)
      PROVE  ATileOK(c, mem0, a_tile', k, l)
  <2> DEFINE size == ARRAY_M * ARRAY_K
             matrix == AMatrix(c, mem0)
             place == AIdx(cnt_i_q, cnt_j_q)
  <2>1. size \in Nat /\ c.m * ARRAY_K <= size
    BY <1>3, Fits
  <2>2. place = cnt_i_q * ARRAY_K + cnt_j_q /\ element = matrix[cnt_i_q][cnt_j_q]
    BY <1>5 DEF AIdx
  <2>3. TileOK(a_tile[c.bf16], ARRAY_K, matrix, c.m, c.k, cnt_i_q, cnt_j_q)
    BY <1>7 DEF ATileOK
  <2>4. a_tile \in [BOOLEAN -> [0 .. size - 1 -> Int]]
    BY <1>6 DEF ATile
  <2> HIDE DEF size, matrix, place
  <2>5. Takes(a_tile'[c.bf16], a_tile[c.bf16], size, place, element)
    BY <1>1, <1>3, <2>1, <2>4, WriteElement DEF place
  <2>6. TileOK(a_tile'[c.bf16], ARRAY_K, matrix, c.m, c.k, k, l)
    BY <1>3, <1>4, <1>8, <2>1, <2>2, <2>3, <2>5, TileGrows
  <2> QED BY <2>6 DEF ATileOK, matrix
<1>9. c = cmd_q
  BY DEF c
<1>10. CASE LastOf(c.m, c.k)
  <2>1. ATileOK(c, mem0, a_tile', c.m, 0) /\ cnt_i_q' = 0 /\ cnt_j_q' = 0
    BY <1>1, <1>3, <1>4, <1>8, <1>10, AdvanceFollows
  <2>2. BTileOK(c, mem0, b_tile', 0, 0)
    BY TileStart DEF BTileOK
  <2>3. TileInv'
    BY <1>1, <1>9, <1>10, <2>1, <2>2 DEF TileInv, LoadingA, LoadingB, LoadingC, Computing
  <2> QED BY <1>1, <1>2, <1>10, <2>3 DEF DataInv, PlaceInv, SumInv, MemoryInv,
               LoadingA, LoadingB, LoadingC, Computing, Storing
<1>11. CASE ~LastOf(c.m, c.k)
  <2>1. ATileOK(c, mem0, a_tile', cnt_i_q', cnt_j_q')
    BY <1>1, <1>3, <1>4, <1>8, <1>11, AdvanceFollows
  <2>2. TileInv'
    BY <1>1, <1>9, <1>11, <2>1 DEF TileInv, LoadingA, LoadingB, LoadingC, Computing
  <2> QED BY <1>1, <1>2, <1>11, <2>2 DEF DataInv, PlaceInv, SumInv, MemoryInv,
               LoadingA, LoadingB, LoadingC, Computing, Storing
<1> QED BY <1>10, <1>11

LEMMA LoadBData ==
  ASSUME ConstantsOK, IInv, DataInv, LoadBWait, ArrayStep
  PROVE  DataInv'
<1> DEFINE c == cmd_q
           element == Select(vmem_resp.rdata, byte_sel_q, cmd_q.bf16)
<1>1. /\ state_q = "LOAD_B_WAIT" /\ ~vmem_resp.error /\ vmem_req_q' = vmem_req_q
      /\ mem' = mem /\ mem0' = mem0 /\ a_tile' = a_tile
      /\ state_q' = IF LastOf(c.k, c.n) THEN AfterLoadB ELSE "LOAD_B_REQ"
      /\ b_tile' = [b_tile EXCEPT ![c.bf16][BnIdx(cnt_i_q, cnt_j_q)] = element]
      /\ Advance(c.k, c.n) /\ cmd_q' = cmd_q
  BY DEF LoadBWait, Answered, IInv, NeverFaults, Advance
<1>2. arr = "IDLE" /\ arr' = "IDLE" /\ ~vmem_req_q'.valid
  BY <1>1, ArrayRests DEF array, DataInv, PlaceInv
<1>3. /\ c \in Cmd /\ Legal(c) /\ mem0 \in [Addr -> Word]
      /\ c.m \in Nat /\ c.n \in Nat /\ c.k \in Nat /\ cnt_i_q \in Nat /\ cnt_j_q \in Nat
      /\ c.k <= ARRAY_K /\ c.n <= ARRAY_N /\ ARRAY_K \in Nat /\ ARRAY_N \in Nat /\ c.bf16 \in BOOLEAN
  <2>1. Running
    BY <1>1 DEF Running
  <2> QED BY <2>1, Command
<1>4. cnt_i_q \in 0 .. c.k - 1 /\ cnt_j_q \in 0 .. c.n - 1
  BY <1>1, <1>3 DEF IInv, WalkInv
<1>5. element = BMatrix(c, mem0)[cnt_i_q][cnt_j_q]
  <2>1. vmem_resp.rdata = mem0[BPlace \div 4] /\ byte_sel_q = BPlace % 4
    BY <1>1 DEF DataInv, PlaceInv
  <2>2. Select(mem0[BPlace \div 4], BPlace % 4, c.bf16) = BMatrix(c, mem0)[cnt_i_q][cnt_j_q]
    BY <1>3, <1>4, BOperand DEF BPlace
  <2> QED BY <2>1, <2>2, Zenon
<1>6. b_tile \in [BOOLEAN -> [BTile -> Int]]
  BY DEF IInv, TypeOK
<1>7. BTileOK(c, mem0, b_tile, cnt_i_q, cnt_j_q) /\ ATileOK(c, mem0, a_tile, c.m, 0)
  BY <1>1 DEF DataInv, TileInv, LoadingB
<1>8. state_q' = IF LastOf(c.k, c.n) THEN IF c.accumulate THEN "LOAD_C_REQ" ELSE "RUN_START"
                 ELSE "LOAD_B_REQ"
  BY <1>1 DEF AfterLoadB
<1> HIDE DEF c, element
<1>9. ASSUME NEW k, NEW l, Follows(c.k, c.n, cnt_i_q, cnt_j_q, k, l)
      PROVE  BTileOK(c, mem0, b_tile', k, l)
  <2> DEFINE size == ARRAY_K * ARRAY_N
             matrix == BMatrix(c, mem0)
             place == BnIdx(cnt_i_q, cnt_j_q)
  <2>1. size \in Nat /\ c.k * ARRAY_N <= size
    BY <1>3, Fits
  <2>2. place = cnt_i_q * ARRAY_N + cnt_j_q /\ element = matrix[cnt_i_q][cnt_j_q]
    BY <1>5 DEF BnIdx
  <2>3. TileOK(b_tile[c.bf16], ARRAY_N, matrix, c.k, c.n, cnt_i_q, cnt_j_q)
    BY <1>7 DEF BTileOK
  <2>4. b_tile \in [BOOLEAN -> [0 .. size - 1 -> Int]]
    BY <1>6 DEF BTile
  <2> HIDE DEF size, matrix, place
  <2>5. Takes(b_tile'[c.bf16], b_tile[c.bf16], size, place, element)
    BY <1>1, <1>3, <2>1, <2>4, WriteElement DEF place
  <2>6. TileOK(b_tile'[c.bf16], ARRAY_N, matrix, c.k, c.n, k, l)
    BY <1>3, <1>4, <1>9, <2>1, <2>2, <2>3, <2>5, TileGrows
  <2> QED BY <2>6 DEF BTileOK, matrix
<1>10. c = cmd_q
  BY DEF c
<1>11. CASE LastOf(c.k, c.n)
  <2>1. BTileOK(c, mem0, b_tile', c.k, 0) /\ cnt_i_q' = 0 /\ cnt_j_q' = 0
    BY <1>1, <1>3, <1>4, <1>9, <1>11, AdvanceFollows
  <2>2. CTileOK(c, mem0, c_in', 0, 0)
    BY TileStart DEF CTileOK
  <2>3. TileInv'
    BY <1>1, <1>7, <1>8, <1>10, <1>11, <2>1, <2>2 DEF TileInv, LoadingA, LoadingB, LoadingC, Computing
  <2> QED BY <1>1, <1>2, <1>8, <1>11, <2>3 DEF DataInv, PlaceInv, SumInv, MemoryInv,
               LoadingA, LoadingB, LoadingC, Computing, Storing
<1>12. CASE ~LastOf(c.k, c.n)
  <2>1. BTileOK(c, mem0, b_tile', cnt_i_q', cnt_j_q')
    BY <1>1, <1>3, <1>4, <1>9, <1>12, AdvanceFollows
  <2>2. TileInv'
    BY <1>1, <1>7, <1>10, <1>12, <2>1 DEF TileInv, LoadingA, LoadingB, LoadingC, Computing
  <2> QED BY <1>1, <1>2, <1>12, <2>2 DEF DataInv, PlaceInv, SumInv, MemoryInv,
               LoadingA, LoadingB, LoadingC, Computing, Storing
<1> QED BY <1>11, <1>12

LEMMA LoadCData ==
  ASSUME ConstantsOK, IInv, DataInv, LoadCWait, ArrayStep
  PROVE  DataInv'
<1> DEFINE c == cmd_q
           element == vmem_resp.rdata
<1>1. /\ state_q = "LOAD_C_WAIT" /\ ~vmem_resp.error /\ vmem_req_q' = vmem_req_q
      /\ mem' = mem /\ mem0' = mem0 /\ a_tile' = a_tile /\ b_tile' = b_tile
      /\ state_q' = IF LastOf(c.m, c.n) THEN "RUN_START" ELSE "LOAD_C_REQ"
      /\ c_in' = [c_in EXCEPT ![c.bf16][BnIdx(cnt_i_q, cnt_j_q)] = element]
      /\ Advance(c.m, c.n) /\ cmd_q' = cmd_q
  BY DEF LoadCWait, Answered, IInv, NeverFaults, Advance
<1>2. arr = "IDLE" /\ arr' = "IDLE" /\ ~vmem_req_q'.valid
  BY <1>1, ArrayRests DEF array, DataInv, PlaceInv
<1>3. /\ c \in Cmd /\ Legal(c) /\ mem0 \in [Addr -> Word]
      /\ c.m \in Nat /\ c.n \in Nat /\ c.k \in Nat /\ cnt_i_q \in Nat /\ cnt_j_q \in Nat
      /\ c.m <= ARRAY_M /\ c.n <= ARRAY_N /\ ARRAY_M \in Nat /\ ARRAY_N \in Nat /\ c.bf16 \in BOOLEAN
  <2>1. Running
    BY <1>1 DEF Running
  <2> QED BY <2>1, Command
<1>4. cnt_i_q \in 0 .. c.m - 1 /\ cnt_j_q \in 0 .. c.n - 1
  BY <1>1, <1>3 DEF IInv, WalkInv, Storing
<1>5. element = CMatrix(c, mem0)[cnt_i_q][cnt_j_q]
  <2>1. vmem_resp.rdata = mem0[CPlace \div 4]
    BY <1>1 DEF DataInv, PlaceInv
  <2>2. CPlace \div 4 = OutWord(c, cnt_i_q, cnt_j_q)
    BY <1>3, <1>4, OutWords DEF CPlace
  <2>3. CMatrix(c, mem0)[cnt_i_q][cnt_j_q] = mem0[OutWord(c, cnt_i_q, cnt_j_q)]
    BY <1>4 DEF CMatrix
  <2> QED BY <2>1, <2>2, <2>3, Zenon
<1>6. c_in \in [BOOLEAN -> [CTile -> Word]]
  BY DEF IInv, TypeOK
<1>7. /\ CTileOK(c, mem0, c_in, cnt_i_q, cnt_j_q) /\ ATileOK(c, mem0, a_tile, c.m, 0)
      /\ BTileOK(c, mem0, b_tile, c.k, 0)
  BY <1>1 DEF DataInv, TileInv, LoadingC
<1> HIDE DEF c, element
<1>8. ASSUME NEW k, NEW l, Follows(c.m, c.n, cnt_i_q, cnt_j_q, k, l)
      PROVE  CTileOK(c, mem0, c_in', k, l)
  <2> DEFINE size == ARRAY_M * ARRAY_N
             matrix == CMatrix(c, mem0)
             place == BnIdx(cnt_i_q, cnt_j_q)
  <2>1. size \in Nat /\ c.m * ARRAY_N <= size
    BY <1>3, Fits
  <2>2. place = cnt_i_q * ARRAY_N + cnt_j_q /\ element = matrix[cnt_i_q][cnt_j_q]
    BY <1>5 DEF BnIdx
  <2>3. TileOK(c_in[c.bf16], ARRAY_N, matrix, c.m, c.n, cnt_i_q, cnt_j_q)
    BY <1>7 DEF CTileOK
  <2>4. c_in \in [BOOLEAN -> [0 .. size - 1 -> Word]]
    BY <1>6 DEF CTile
  <2> HIDE DEF size, matrix, place
  <2>5. Takes(c_in'[c.bf16], c_in[c.bf16], size, place, element)
    BY <1>1, <1>3, <2>1, <2>4, WriteElement DEF place
  <2>6. TileOK(c_in'[c.bf16], ARRAY_N, matrix, c.m, c.n, k, l)
    BY <1>3, <1>4, <1>8, <2>1, <2>2, <2>3, <2>5, TileGrows
  <2> QED BY <2>6 DEF CTileOK, matrix
<1>9. c = cmd_q
  BY DEF c
<1>10. CASE LastOf(c.m, c.n)
  <2>1. CTileOK(c, mem0, c_in', c.m, 0)
    BY <1>1, <1>3, <1>4, <1>8, <1>10, AdvanceFollows
  <2>2. TileInv'
    BY <1>1, <1>7, <1>9, <1>10, <2>1 DEF TileInv, LoadingA, LoadingB, LoadingC, Computing
  <2> QED BY <1>1, <1>2, <1>10, <2>2 DEF DataInv, PlaceInv, SumInv, MemoryInv,
               LoadingA, LoadingB, LoadingC, Computing, Storing
<1>11. CASE ~LastOf(c.m, c.n)
  <2>1. CTileOK(c, mem0, c_in', cnt_i_q', cnt_j_q')
    BY <1>1, <1>3, <1>4, <1>8, <1>11, AdvanceFollows
  <2>2. TileInv'
    BY <1>1, <1>7, <1>9, <1>11, <2>1 DEF TileInv, LoadingA, LoadingB, LoadingC, Computing
  <2> QED BY <1>1, <1>2, <1>11, <2>2 DEF DataInv, PlaceInv, SumInv, MemoryInv,
               LoadingA, LoadingB, LoadingC, Computing, Storing
<1> QED BY <1>10, <1>11

\* The array is started on whole tiles.
LEMMA RunStartData ==
  ASSUME IInv, DataInv, RunStart, ArrayStep
  PROVE  DataInv'
<1>1. /\ state_q = "RUN_START" /\ state_q' = "RUN_WAIT" /\ cmd_q' = cmd_q /\ mem' = mem /\ mem0' = mem0
      /\ a_tile' = a_tile /\ b_tile' = b_tile /\ c_in' = c_in /\ vmem_req_q' = vmem_req_q
  BY DEF RunStart, counters, tiles, port
<1>2. arr' = "IDLE" /\ ~vmem_req_q.valid
  BY <1>1, ArrayRests DEF array, DataInv, PlaceInv
<1> QED BY <1>1, <1>2 DEF DataInv, TileInv, PlaceInv, SumInv, MemoryInv,
             LoadingA, LoadingB, LoadingC, Computing, Storing

\* A result is stored, or the last one was.
LEMMA StoreWaitData ==
  ASSUME ConstantsOK, IInv, DataInv, StoreWait, ArrayStep
  PROVE  DataInv'
<1> DEFINE c == cmd_q
<1>1. /\ state_q = "STORE_WAIT" /\ vmem_req_q' = vmem_req_q /\ mem' = mem /\ mem0' = mem0
      /\ state_q' = IF LastOf(c.m, c.n) THEN "DONE" ELSE "STORE_REQ"
      /\ cnt_j_q' = IF cnt_j_q = c.n - 1 THEN 0 ELSE cnt_j_q + 1
      /\ cnt_i_q' = IF cnt_j_q = c.n - 1 /\ cnt_i_q # c.m - 1 THEN cnt_i_q + 1 ELSE cnt_i_q
      /\ cmd_q' = cmd_q
  BY DEF StoreWait, Answered, IInv, NeverFaults
<1>2. arr' = "IDLE" /\ acc_q' = acc_q /\ ~vmem_req_q'.valid
  BY <1>1, ArrayRests DEF array, DataInv, PlaceInv
<1>3. /\ c \in Cmd /\ Legal(c) /\ mem0 \in [Addr -> Word] /\ mem \in [Addr -> Word]
      /\ c.m \in Nat /\ c.n \in Nat /\ cnt_i_q \in Nat /\ cnt_j_q \in Nat
  <2>1. Running
    BY <1>1 DEF Running
  <2> QED BY <2>1, Command
<1>4. cnt_i_q \in 0 .. c.m - 1 /\ cnt_j_q \in 0 .. c.n - 1
  BY <1>1, <1>3 DEF IInv, WalkInv, Storing
<1>5. ResultsOK(c, mem0, mem, cnt_i_q, cnt_j_q + 1) /\ SumsOK(c, mem0, acc_q, c.k)
  BY <1>1 DEF DataInv, SumInv, MemoryInv, Storing
<1> HIDE DEF c
<1>6. c = cmd_q
  BY DEF c
<1>7. CASE LastOf(c.m, c.n)
  <2>1. \A row \in 0 .. c.m - 1, col \in 0 .. c.n - 1 :
          mem[OutWord(c, row, col)] = GoldenElement(c, mem0, row, col)
    BY <1>3, <1>4, <1>5, <1>7 DEF ResultsOK, Passed, LastOf
  <2>2. \A w \in Addr : w - c.dst \div 4 \in 0 .. c.m * c.n - 1 =>
          /\ (w - c.dst \div 4) \div c.n \in 0 .. c.m - 1 /\ (w - c.dst \div 4) % c.n \in 0 .. c.n - 1
          /\ w = OutWord(c, (w - c.dst \div 4) \div c.n, (w - c.dst \div 4) % c.n)
    BY <1>3, OutWords
  <2>3. \A w \in Addr : w - c.dst \div 4 \notin 0 .. c.m * c.n - 1 => mem[w] = mem0[w]
    BY <1>5 DEF ResultsOK
  <2>4. ASSUME NEW w \in Addr
        PROVE  mem[w] = IF w - c.dst \div 4 \in 0 .. c.m * c.n - 1
                        THEN GoldenElement(c, mem0, (w - c.dst \div 4) \div c.n, (w - c.dst \div 4) % c.n)
                        ELSE mem0[w]
    <3> DEFINE i == w - c.dst \div 4
               row == i \div c.n
               col == i % c.n
    <3>1. CASE i \in 0 .. c.m * c.n - 1
      <4>1. row \in 0 .. c.m - 1 /\ col \in 0 .. c.n - 1 /\ w = OutWord(c, row, col)
        BY <2>2, <3>1, Zenon
      <4>2. mem[w] = GoldenElement(c, mem0, row, col)
        <5> HIDE DEF row, col
        <5> QED BY <2>1, <4>1, Zenon
      <4> QED BY <3>1, <4>2, Zenon
    <3>2. CASE i \notin 0 .. c.m * c.n - 1
      BY <2>3, <3>2, Zenon
    <3> QED BY <3>1, <3>2, Zenon
  <2>5. mem = [w \in Addr |-> mem[w]]
    BY <1>3
  <2>6. mem = GoldenMatmul(c, mem0)
    BY <2>4, <2>5, Zenon DEF GoldenMatmul
  <2>7. MemoryInv'
    BY <1>1, <1>6, <1>7, <2>6 DEF MemoryInv, LoadingA, LoadingB, LoadingC, Computing
  <2> QED BY <1>1, <1>2, <1>7, <2>7 DEF DataInv, TileInv, PlaceInv, SumInv,
               LoadingA, LoadingB, LoadingC, Computing, Storing
<1>8. CASE ~LastOf(c.m, c.n)
  <2>1. ResultsOK(c, mem0, mem, cnt_i_q', cnt_j_q')
    <3>1. \A row \in 0 .. c.m - 1, col \in 0 .. c.n - 1 :
            Passed(row, col, cnt_i_q', cnt_j_q') => Passed(row, col, cnt_i_q, cnt_j_q + 1)
      BY <1>1, <1>3, <1>4, <1>8 DEF Passed, LastOf
    <3> QED BY <1>5, <3>1 DEF ResultsOK
  <2>2. MemoryInv' /\ SumInv'
    BY <1>1, <1>2, <1>5, <1>6, <1>8, <2>1 DEF MemoryInv, SumInv, Storing, LoadingA, LoadingB, LoadingC, Computing
  <2> QED BY <1>1, <1>2, <1>8, <2>2 DEF DataInv, TileInv, PlaceInv,
               LoadingA, LoadingB, LoadingC, Computing
<1> QED BY <1>7, <1>8

\* Every place of a tile has been passed at its end.
Whole(tile, pitch, matrix, rows, cols) ==
  \A row \in 0 .. rows - 1, col \in 0 .. cols - 1 : tile[row * pitch + col] = matrix[row][col]

LEMMA WholeTile ==
  ASSUME NEW tile, NEW pitch, NEW matrix, NEW rows \in Nat, NEW cols \in Nat,
         TileOK(tile, pitch, matrix, rows, cols, rows, 0)
  PROVE  Whole(tile, pitch, matrix, rows, cols)
BY DEF TileOK, Passed, Whole

\* Each edge of the array brings the sums one slice further.
LEMMA ArraySums ==
  ASSUME ConstantsOK, IInv, DataInv, state_q = "RUN_WAIT", ArrayStep
  PROVE  /\ arr' = "FEED" => SumsOK(cmd_q, mem0, acc_q', k_idx_q')
         /\ arr' = "CAPTURE" => SumsOK(cmd_q, mem0, pe_acc', k_idx_q' + 1)
         /\ arr' = "DONE" \/ arr = "DONE" => SumsOK(cmd_q, mem0, acc_q', cmd_q.k)
<1> DEFINE c == cmd_q
           t == c.bf16
<1>1. /\ c \in Cmd /\ Legal(c) /\ mem0 \in [Addr -> Word] /\ t \in BOOLEAN
      /\ c.m \in 1 .. ARRAY_M /\ c.n \in 1 .. ARRAY_N /\ c.k \in 1 .. ARRAY_K
      /\ ARRAY_M \in Nat /\ ARRAY_N \in Nat \ {0} /\ ARRAY_K \in Nat \ {0} /\ k_idx_q \in Nat
      /\ c.m \in Nat /\ c.n \in Nat /\ c.k \in Nat
  <2>1. Running
    BY DEF Running
  <2> QED BY <2>1, Command
<1>2. /\ ATileOK(c, mem0, a_tile, c.m, 0) /\ BTileOK(c, mem0, b_tile, c.k, 0)
      /\ c.accumulate => CTileOK(c, mem0, c_in, c.m, 0)
      /\ arr = "FEED" => SumsOK(c, mem0, acc_q, k_idx_q)
      /\ arr = "CAPTURE" => SumsOK(c, mem0, pe_acc, k_idx_q + 1)
      /\ arr = "DONE" => SumsOK(c, mem0, acc_q, c.k)
      /\ arr \in {"FEED", "CAPTURE"} => k_idx_q \in 0 .. c.k - 1
  BY <1>1 DEF DataInv, TileInv, SumInv, Computing, IInv, ArrayInv
<1>3. /\ \A row \in 0 .. c.m - 1, kk \in 0 .. c.k - 1 :
           a_tile[t][AIdx(row, kk)] = AMatrix(c, mem0)[row][kk]
      /\ \A kk \in 0 .. c.k - 1, col \in 0 .. c.n - 1 :
           b_tile[t][BnIdx(kk, col)] = BMatrix(c, mem0)[kk][col]
      /\ c.accumulate => \A row \in 0 .. c.m - 1, col \in 0 .. c.n - 1 :
           c_in[t][BnIdx(row, col)] = CMatrix(c, mem0)[row][col]
  <2> DEFINE A == AMatrix(c, mem0)
             B == BMatrix(c, mem0)
             C == CMatrix(c, mem0)
  <2>1. /\ TileOK(a_tile[t], ARRAY_K, A, c.m, c.k, c.m, 0)
        /\ TileOK(b_tile[t], ARRAY_N, B, c.k, c.n, c.k, 0)
        /\ c.accumulate => TileOK(c_in[t], ARRAY_N, C, c.m, c.n, c.m, 0)
    BY <1>2 DEF ATileOK, BTileOK, CTileOK
  <2> HIDE DEF A, B, C, c, t
  <2>2. /\ Whole(a_tile[t], ARRAY_K, A, c.m, c.k) /\ Whole(b_tile[t], ARRAY_N, B, c.k, c.n)
        /\ c.accumulate => Whole(c_in[t], ARRAY_N, C, c.m, c.n)
    BY <1>1, <2>1, WholeTile
  <2> QED BY <2>2, Zenon DEF A, B, C, AIdx, BnIdx, Whole
<1>4. \A row \in 0 .. c.m - 1, col \in 0 .. c.n - 1 :
        /\ BnIdx(row, col) \in CTile
        /\ BnIdx(row, col) \div ARRAY_N = row /\ BnIdx(row, col) % ARRAY_N = col
  <2>1. \A row \in 0 .. ARRAY_M - 1, col \in 0 .. ARRAY_N - 1 :
          /\ row * ARRAY_N + col \in 0 .. ARRAY_M * ARRAY_N - 1
          /\ (row * ARRAY_N + col) \div ARRAY_N = row /\ (row * ARRAY_N + col) % ARRAY_N = col
    BY <1>1, Table, ZenonT(30)
  <2>2. \A row \in 0 .. c.m - 1, col \in 0 .. c.n - 1 :
          row \in 0 .. ARRAY_M - 1 /\ col \in 0 .. ARRAY_N - 1
    BY <1>1
  <2> QED BY <2>1, <2>2, Zenon DEF BnIdx, CTile
<1>5. acc_q \in [CTile -> Word] /\ pe_acc \in [CTile -> Word] /\ Word \subseteq Int
  BY DEF IInv, TypeOK, Word
<1>6. c = cmd_q
  BY DEF c
<1> HIDE DEF c, t
<1>7. CASE ArrayIdle
  BY <1>7 DEF ArrayIdle, array
<1>8. CASE ArrayStart
  <2>1. acc_q' = [i \in CTile |-> IF c.accumulate THEN c_in[t][i] ELSE 0]
        /\ arr = "IDLE" /\ arr' = "FEED" /\ k_idx_q' = 0
    BY <1>6, <1>8 DEF ArrayStart, t
  <2>2. ASSUME NEW row \in 0 .. c.m - 1, NEW col \in 0 .. c.n - 1
        PROVE  acc_q'[BnIdx(row, col)] = Wrap(Sums(c, mem0, row, col)[0])
    <3>1. Base(c, mem0, row, col) \in Word /\ Sums(c, mem0, row, col)[0] = Base(c, mem0, row, col)
      BY <1>1, SumsFacts
    <3>2. Wrap(Sums(c, mem0, row, col)[0]) = Base(c, mem0, row, col)
      BY <3>1, WrapFacts
    <3>3. acc_q'[BnIdx(row, col)] = IF c.accumulate THEN c_in[t][BnIdx(row, col)] ELSE 0
      BY <1>4, <2>1
    <3>4. c.accumulate => c_in[t][BnIdx(row, col)] = mem0[OutWord(c, row, col)]
      BY <1>3 DEF CMatrix
    <3> QED BY <3>2, <3>3, <3>4 DEF Base
  <2> QED BY <1>6, <2>1, <2>2 DEF SumsOK
<1>9. CASE ArrayFeed
  <2>1. /\ pe_acc' = [i \in CTile |-> Wrap(acc_q[i] + Product(i \div ARRAY_N, i % ARRAY_N))]
        /\ arr = "FEED" /\ arr' = "CAPTURE" /\ k_idx_q' = k_idx_q
    BY <1>9 DEF ArrayFeed
  <2>2. k_idx_q \in 0 .. c.k - 1 /\ SumsOK(c, mem0, acc_q, k_idx_q)
    BY <1>2, <2>1
  <2>3. ASSUME NEW row \in 0 .. c.m - 1, NEW col \in 0 .. c.n - 1
        PROVE  pe_acc'[BnIdx(row, col)] = Wrap(Sums(c, mem0, row, col)[k_idx_q + 1])
    <3> DEFINE x == Sums(c, mem0, row, col)[k_idx_q]
               y == AMatrix(c, mem0)[row][k_idx_q] * BMatrix(c, mem0)[k_idx_q][col]
    <3>1. Product(row, col) = y
      BY <1>3, <1>6, <2>2 DEF Product, t
    <3>2. pe_acc'[BnIdx(row, col)] = Wrap(acc_q[BnIdx(row, col)] + Product(row, col))
      <4> DEFINE place == BnIdx(row, col)
      <4>1. place \in CTile /\ place \div ARRAY_N = row /\ place % ARRAY_N = col
        BY <1>4, Zenon
      <4> HIDE DEF place
      <4>2. pe_acc'[place] = Wrap(acc_q[place] + Product(place \div ARRAY_N, place % ARRAY_N))
        BY <2>1, <4>1, Zenon
      <4>3. Product(place \div ARRAY_N, place % ARRAY_N) = Product(row, col)
        BY <4>1, Zenon
      <4> QED BY <4>2, <4>3, Zenon DEF place
    <3>3. acc_q[BnIdx(row, col)] = Wrap(x)
      BY <2>2 DEF SumsOK
    <3>4. x \in Int /\ Sums(c, mem0, row, col)[k_idx_q + 1] = x + y
      <4>1. /\ \A k \in 0 .. c.k : Sums(c, mem0, row, col)[k] \in Int
            /\ \A k \in 0 .. c.k - 1 :
                 Sums(c, mem0, row, col)[k + 1] =
                   Sums(c, mem0, row, col)[k] + AMatrix(c, mem0)[row][k] * BMatrix(c, mem0)[k][col]
        BY <1>1, SumsFacts
      <4>2. k_idx_q \in 0 .. c.k
        BY <1>1, <2>2
      <4> QED BY <2>2, <4>1, <4>2, Zenon
    <3>5. y \in Int
      <4>1. AMatrix(c, mem0)[row][k_idx_q] \in Int
        BY <1>1, <2>2, AOperand
      <4>2. BMatrix(c, mem0)[k_idx_q][col] \in Int
        BY <1>1, <2>2, BOperand
      <4> QED BY <4>1, <4>2
    <3> HIDE DEF x, y
    <3>6. Wrap(Wrap(x) + y) = Wrap(x + y)
      BY <3>4, <3>5, WrapFacts
    <3> QED BY <3>1, <3>2, <3>3, <3>4, <3>6, Zenon
  <2> QED BY <1>6, <2>1, <2>3 DEF SumsOK
<1>10. CASE ArrayCapture
  <2>1. arr = "CAPTURE" /\ acc_q' = pe_acc
        /\ \/ k_idx_q = c.k - 1 /\ arr' = "DONE"
           \/ arr' = "FEED" /\ k_idx_q' = k_idx_q + 1
    BY <1>6, <1>10 DEF ArrayCapture
  <2>2. SumsOK(c, mem0, acc_q', k_idx_q + 1)
    BY <1>2, <2>1
  <2>3. k_idx_q = c.k - 1 => k_idx_q + 1 = c.k
    BY <1>1
  <2> QED BY <1>6, <2>1, <2>2, <2>3
<1>11. CASE ArrayDone
  BY <1>2, <1>6, <1>11 DEF ArrayDone
<1> QED BY <1>7, <1>8, <1>9, <1>10, <1>11 DEF ArrayStep

\* The MXU waits while the array computes, and then starts to store.
LEMMA RunWaitData ==
  ASSUME ConstantsOK, IInv, DataInv, RunWait, ArrayStep
  PROVE  DataInv'
<1>1. /\ state_q = "RUN_WAIT" /\ cmd_q' = cmd_q /\ mem' = mem /\ mem0' = mem0
      /\ a_tile' = a_tile /\ b_tile' = b_tile /\ c_in' = c_in /\ vmem_req_q' = vmem_req_q
      /\ \/ arr = "DONE" /\ state_q' = "STORE_REQ" /\ cnt_i_q' = 0 /\ cnt_j_q' = 0
         \/ arr # "DONE" /\ state_q' = "RUN_WAIT"
  BY DEF RunWait, tiles, port
<1>2. ~vmem_req_q.valid /\ mem = mem0
  BY <1>1 DEF DataInv, PlaceInv, MemoryInv, Computing
<1>3. /\ arr' = "FEED" => SumsOK(cmd_q, mem0, acc_q', k_idx_q')
      /\ arr' = "CAPTURE" => SumsOK(cmd_q, mem0, pe_acc', k_idx_q' + 1)
      /\ arr' = "DONE" \/ arr = "DONE" => SumsOK(cmd_q, mem0, acc_q', cmd_q.k)
  BY <1>1, ArraySums
<1>4. SumInv'
  BY <1>1, <1>3 DEF SumInv, Storing
<1>5. PlaceInv'
  BY <1>1, <1>2 DEF PlaceInv
<1>6. TileInv'
  BY <1>1 DEF DataInv, TileInv, LoadingA, LoadingB, LoadingC, Computing
<1>7. MemoryInv'
  <2>1. Legal(cmd_q) /\ cmd_q \in Cmd /\ cmd_q.m \in Nat /\ cmd_q.n \in Nat
    BY <1>1, Command DEF Running
  <2>2. ResultsOK(cmd_q, mem0, mem0, 0, 0)
    BY <2>1 DEF ResultsOK, Passed
  <2> QED BY <1>1, <1>2, <2>2 DEF MemoryInv, LoadingA, LoadingB, LoadingC, Computing
<1> QED BY <1>4, <1>5, <1>6, <1>7 DEF DataInv

\* A write of another port, outside the command's footprint.
LEMMA OtherPortData ==
  ASSUME ConstantsOK, IInv, DataInv, OtherPort
  PROVE  DataInv'
<1> DEFINE c == cmd_q
<1>1. PICK a \in Addr \ (Inputs(c) \cup Outputs(c)), v \in Values :
        mem' = [mem EXCEPT ![a] = v] /\ mem0' = [mem0 EXCEPT ![a] = v]
  BY DEF OtherPort, OtherPortWrites
<1>2. /\ Running /\ state_q' = state_q /\ vmem_req_q' = vmem_req_q /\ vmem_resp' = vmem_resp
      /\ cmd_q' = cmd_q /\ cnt_i_q' = cnt_i_q /\ cnt_j_q' = cnt_j_q /\ byte_sel_q' = byte_sel_q
      /\ a_tile' = a_tile /\ b_tile' = b_tile /\ c_in' = c_in
      /\ arr' = arr /\ k_idx_q' = k_idx_q /\ acc_q' = acc_q /\ pe_acc' = pe_acc
  BY DEF OtherPort, OtherPortWrites, counters, tiles, array
<1>3. /\ c \in Cmd /\ Legal(c) /\ mem \in [Addr -> Word] /\ mem0 \in [Addr -> Word]
      /\ c.m \in Nat /\ c.n \in Nat /\ c.k \in Nat /\ cnt_i_q \in Nat /\ cnt_j_q \in Nat
  BY <1>2, Command
<1>4. mem' \in [Addr -> Word] /\ mem0' \in [Addr -> Word] /\ Agree(c, mem0, mem0') /\ Agree(c, mem, mem')
  <2>1. v \in Word
    BY ClientAssumption
  <2>2. mem' \in [Addr -> Word] /\ mem0' \in [Addr -> Word]
    BY <1>1, <1>3, <2>1
  <2>3. \A w \in Inputs(c) \cup Outputs(c) : w # a
    BY <1>1
  <2>4. \A w \in Inputs(c) \cup Outputs(c) : mem0'[w] = mem0[w] /\ mem'[w] = mem[w]
    BY <1>1, <1>3, <2>3
  <2> QED BY <2>2, <2>4 DEF Agree
<1>5. /\ AMatrix(c, mem0') = AMatrix(c, mem0) /\ BMatrix(c, mem0') = BMatrix(c, mem0)
      /\ CMatrix(c, mem0') = CMatrix(c, mem0)
      /\ \A row \in 0 .. c.m - 1, col \in 0 .. c.n - 1 :
           /\ Sums(c, mem0', row, col) = Sums(c, mem0, row, col)
           /\ GoldenElement(c, mem0', row, col) = GoldenElement(c, mem0, row, col)
  <2> DEFINE w == mem0'
  <2>1. w \in [Addr -> Word] /\ Agree(c, mem0, w)
    BY <1>4
  <2> HIDE DEF w, c
  <2>2. /\ AMatrix(c, w) = AMatrix(c, mem0) /\ BMatrix(c, w) = BMatrix(c, mem0)
        /\ CMatrix(c, w) = CMatrix(c, mem0)
        /\ \A row \in 0 .. c.m - 1, col \in 0 .. c.n - 1 :
             /\ Sums(c, w, row, col) = Sums(c, mem0, row, col)
             /\ GoldenElement(c, w, row, col) = GoldenElement(c, mem0, row, col)
    BY <1>3, <2>1, SameOperands
  <2> QED BY <2>2 DEF w
<1>6. ASSUME state_q \in LoadingA
      PROVE  mem0'[APlace \div 4] = mem0[APlace \div 4]
  <2>1. cnt_i_q \in 0 .. c.m - 1 /\ cnt_j_q \in 0 .. c.k - 1
    BY <1>3, <1>6 DEF IInv, WalkInv, LoadingA
  <2>2. APlace \div 4 \in Inputs(c)
    BY <1>3, <2>1, AOperand DEF APlace
  <2> QED BY <1>4, <2>2 DEF Agree
<1>7. ASSUME state_q \in LoadingB
      PROVE  mem0'[BPlace \div 4] = mem0[BPlace \div 4]
  <2>1. cnt_i_q \in 0 .. c.k - 1 /\ cnt_j_q \in 0 .. c.n - 1
    BY <1>3, <1>7 DEF IInv, WalkInv, LoadingB
  <2>2. BPlace \div 4 \in Inputs(c)
    BY <1>3, <2>1, BOperand DEF BPlace
  <2> QED BY <1>4, <2>2 DEF Agree
<1>8. ASSUME state_q \in LoadingC
      PROVE  mem0'[CPlace \div 4] = mem0[CPlace \div 4]
  <2>1. cnt_i_q \in 0 .. c.m - 1 /\ cnt_j_q \in 0 .. c.n - 1
    BY <1>3, <1>8 DEF IInv, WalkInv, LoadingC
  <2>2. CPlace \div 4 \in Outputs(c)
    BY <1>3, <2>1, OutWords DEF CPlace
  <2> QED BY <1>4, <2>2 DEF Agree
<1>9. ASSUME NEW i, NEW j, ResultsOK(c, mem0, mem, i, j)
      PROVE  ResultsOK(c, mem0', mem', i, j)
  <2>1. ASSUME NEW row \in 0 .. c.m - 1, NEW col \in 0 .. c.n - 1, Passed(row, col, i, j)
        PROVE  mem'[OutWord(c, row, col)] = GoldenElement(c, mem0', row, col)
    <3>1. OutWord(c, row, col) \in Outputs(c)
      BY <1>3, OutWords
    <3>2. mem'[OutWord(c, row, col)] = mem[OutWord(c, row, col)]
      BY <1>4, <3>1 DEF Agree
    <3> QED BY <1>5, <1>9, <2>1, <3>2 DEF ResultsOK
  <2>2. ASSUME NEW w \in Addr, w - c.dst \div 4 \notin 0 .. c.m * c.n - 1
        PROVE  mem'[w] = mem0'[w]
    <3>1. mem[w] = mem0[w]
      BY <1>9, <2>2 DEF ResultsOK
    <3> QED BY <1>1, <1>3, <3>1
  <2> QED BY <2>1, <2>2 DEF ResultsOK
<1>10. \A acc, n : SumsOK(c, mem0, acc, n) => SumsOK(c, mem0', acc, n)
  BY <1>5 DEF SumsOK
<1>11. \A tile, i, j :
         /\ ATileOK(c, mem0, tile, i, j) => ATileOK(c, mem0', tile, i, j)
         /\ BTileOK(c, mem0, tile, i, j) => BTileOK(c, mem0', tile, i, j)
         /\ CTileOK(c, mem0, tile, i, j) => CTileOK(c, mem0', tile, i, j)
  BY <1>5 DEF ATileOK, BTileOK, CTileOK
<1>12. c = cmd_q /\ cmd_q' = c
  BY <1>2
<1> HIDE DEF c
<1>13. TileInv'
  BY <1>2, <1>11, <1>12 DEF DataInv, TileInv
<1>14. SumInv'
  BY <1>2, <1>10, <1>12 DEF DataInv, SumInv
<1>15. mem = mem0 => mem' = mem0'
  BY <1>1
<1>16. MemoryInv'
  BY <1>2, <1>9, <1>12, <1>15 DEF DataInv, MemoryInv, Running
<1>17. APlace' = APlace /\ BPlace' = BPlace /\ CPlace' = CPlace
  BY <1>2 DEF APlace, BPlace, CPlace, AAddr, BAddr, CAddr, Size
<1>18. PlaceInv'
  BY <1>2, <1>6, <1>7, <1>8, <1>17 DEF DataInv, PlaceInv, LoadingA, LoadingB, LoadingC
<1> QED BY <1>13, <1>14, <1>16, <1>18 DEF DataInv

\* Nothing happens.
LEMMA StutterData ==
  ASSUME DataInv, UNCHANGED vars
  PROVE  DataInv'
<1>1. /\ state_q' = state_q /\ vmem_req_q' = vmem_req_q /\ vmem_resp' = vmem_resp
      /\ mem' = mem /\ mem0' = mem0
      /\ cmd_q' = cmd_q /\ cnt_i_q' = cnt_i_q /\ cnt_j_q' = cnt_j_q /\ byte_sel_q' = byte_sel_q
      /\ a_tile' = a_tile /\ b_tile' = b_tile /\ c_in' = c_in
      /\ arr' = arr /\ k_idx_q' = k_idx_q /\ acc_q' = acc_q /\ pe_acc' = pe_acc
  BY DEF vars, port, counters, tiles, array
<1>2. TileInv' /\ SumInv' /\ MemoryInv'
  BY <1>1 DEF DataInv, TileInv, SumInv, MemoryInv
<1>3. APlace' = APlace /\ BPlace' = BPlace /\ CPlace' = CPlace
  BY <1>1 DEF APlace, BPlace, CPlace, AAddr, BAddr, CAddr, Size
<1>4. PlaceInv'
  BY <1>1, <1>3 DEF DataInv, PlaceInv
<1> QED BY <1>2, <1>4 DEF DataInv

LEMMA NextData ==
  ASSUME ConstantsOK, IInv, DataInv, [Next]_vars
  PROVE  DataInv'
<1>1. ASSUME MxuStep, ArrayStep PROVE DataInv'
  BY <1>1, AcceptData, RestData, RequestData, LoadAData, LoadBData, LoadCData, RunStartData,
     RunWaitData, StoreWaitData DEF MxuStep
<1> QED BY <1>1, OtherPortData, StutterData DEF Next, Rest

-----------------------------------------------------------------------------
(* The theorems                                                            *)

\* mxu_top's registers, counters and array stay in step, for every command and
\* array size.
THEOREM Invariant == ASSUME ConstantsOK PROVE Spec => []IInv
<1>1. ConstantsOK
  OBVIOUS
<1>2. Init => IInv
  BY <1>1, InitIInv
<1>3. IInv /\ [Next]_vars => IInv'
  BY <1>1, NextIInv
<1> QED
  BY <1>2, <1>3, PTL DEF Spec

\* Every register of mxu_top and of the array keeps its type.
THEOREM TypeCorrect == ASSUME ConstantsOK PROVE Spec => []TypeOK
<1>1. ConstantsOK
  OBVIOUS
<1>2. Spec => []IInv
  BY <1>1, Invariant
<1>3. IInv => TypeOK
  BY DEF IInv
<1> QED
  BY <1>2, <1>3, PTL

\* The dimension and range check of an accepted MATMUL covers every operand
\* lane and every result word, for all shapes, widths and alignments.
THEOREM NoFaults == ASSUME ConstantsOK PROVE Spec => []NeverFaults
<1>1. ConstantsOK
  OBVIOUS
<1>2. Spec => []IInv
  BY <1>1, Invariant
<1>3. IInv => NeverFaults
  BY DEF IInv
<1> QED
  BY <1>2, <1>3, PTL

\* While the array computes mxu_top changes neither its tiles nor its command
\* nor starts it again, and the sums stand still while they are stored.
THEOREM Undisturbed == ASSUME ConstantsOK PROVE Spec => ArrayUndisturbed
<1>1. ConstantsOK
  OBVIOUS
<1>2. Spec => []IInv
  BY <1>1, Invariant
<1>3. IInv /\ [Next]_vars => [ArrayUndisturbedStep]_vars
  BY <1>1, NextIInv
<1> QED
  BY <1>2, <1>3, PTL DEF Spec, ArrayUndisturbed

\* Operands, partial sums and results are those of the golden model at every
\* step of a command.
THEOREM DataInvariant == ASSUME ConstantsOK PROVE Spec => []DataInv
<1>1. ConstantsOK
  OBVIOUS
<1>2. Spec => []IInv
  BY <1>1, Invariant
<1>3. Init => DataInv
  BY InitData
<1>4. IInv /\ DataInv /\ [Next]_vars => DataInv'
  BY <1>1, NextData
<1> QED
  BY <1>2, <1>3, <1>4, PTL DEF Spec

\* A finished MATMUL leaves the golden model's product in VMEM and nothing else,
\* for every array size, shape, width, alignment, overlap of the result with the
\* operands, and interleaving with the other ports.
THEOREM GoldenProduct == ASSUME ConstantsOK PROVE Spec => []MatchesGolden
<1>1. ConstantsOK
  OBVIOUS
<1>2. Spec => []DataInv
  BY <1>1, DataInvariant
<1>3. DataInv => MatchesGolden
  BY DEF DataInv, MemoryInv, MatchesGolden
<1> QED
  BY <1>2, <1>3, PTL

=============================================================================
