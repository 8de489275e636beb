---------------------------- MODULE ChipControl ----------------------------
(***************************************************************************)
(* The in-order control path of the chip: control_fsm, the instruction     *)
(* memory it decodes from, the MMIO front end of virtual_tpu_v4_top, and   *)
(* the command dispatch of every tensor_core.  The DMA engine and the      *)
(* children of a TensorCore (MXUs, vector unit, reduce unit, CLEAR engine) *)
(* are abstracted to the four status phases all of them share.             *)
(*                                                                         *)
(* One step of this module is one rising clock edge: every register takes  *)
(* its new value from the old values of the others, as nonblocking         *)
(* assignments do.                                                         *)
(***************************************************************************)
EXTENDS Integers, FiniteSets

CONSTANTS
  NumTC,       \* NUM_TENSOR_CORES
  NumMxu,      \* MXUS_PER_TC
  Depth,       \* INSTR_DEPTH, instruction words
  Instr,       \* decoded instructions the instruction memory may hold
  HostSlots,   \* addresses the host rewrites between runs
  Images       \* initial instruction images (+instr_hex)

TC    == 0 .. NumTC - 1
Mxu   == 0 .. NumMxu - 1
Vec   == NumMxu
Red   == NumMxu + 1
Clr   == NumMxu + 2
Child == 0 .. NumMxu + 2

DmaOps == {"DMA_COPY", "LOAD_TILE", "STORE_TILE"}
TcOps  == {"MATMUL", "VECTOR_OP", "REDUCE", "CLEAR"}
Ops    == DmaOps \cup TcOps \cup {"NOP", "SYNC", "HALT", "BARRIER"}

\* The fields of decoded_instr_t the control path looks at.  "legal" is the
\* verdict of instr_decoder; "mxus" the low nibble of target, "tcs" the high.
InstrType == [op : Ops, legal : BOOLEAN, tcs : SUBSET (0 .. 3),
              mxus : SUBSET (0 .. 3), mask : SUBSET (0 .. 7),
              space : {"HBM", "CMEM", "VMEM0", "VMEM1"}]

ASSUME ConstantsOK ==
  /\ NumTC \in Nat \ {0} /\ NumMxu \in Nat \ {0} /\ Depth \in Nat \ {0}
  /\ Instr \subseteq InstrType
  /\ HostSlots \subseteq 0 .. Depth - 1
  /\ Images \subseteq [0 .. Depth - 1 -> Instr]

VARIABLES
  state, pc, barrierMask, issueTc, issuedTc, issueDma, issuedDma, errCause,
                \* control_fsm: *_q registers
  imem,         \* instr_mem.mem
  startPulse,   \* virtual_tpu_v4_top.start_pulse_q
  unit,         \* phase of the DMA engine and of every TensorCore child
  rr,           \* tensor_core.rr_ptr_q, per TensorCore
  job,          \* history: pc of the command a unit accepted last, in this run
  lastIssue,    \* history: pc of the command a command port accepted last
  fence         \* history: pc of the last retired barrier covering a kind

control == <<state, pc, barrierMask, issueTc, issuedTc, issueDma, issuedDma, errCause>>
history == <<job, lastIssue, fence>>
vars    == <<control, imem, startPulse, unit, rr, history>>

-----------------------------------------------------------------------------
(* Units                                                                   *)

Dma     == <<NumTC, 0>>
Unit    == (TC \X Child) \cup {Dma}
Phase   == {"IDLE", "RUN", "DONE", "ERROR"}
Port    == 0 .. NumTC                \* command ports: the TensorCores and DMA
DmaPort == NumTC
Kind    == {"dma", "tc"}
PortOf(u) == u[1]
KindOf(u) == IF PortOf(u) = DmaPort THEN "dma" ELSE "tc"

Busy(u)   == unit[u] = "RUN"
Failed(u) == unit[u] = "ERROR"
TcBusy(t) == \E c \in Child : Busy(<<t, c>>)
AnyUnitBusy  == \E u \in Unit : Busy(u)
AnyUnitError == \E u \in Unit : Failed(u)

\* first_unit_error_code names the DMA engine before TensorCore 0, 1, ...
FirstFailedPort ==
  LET failed == {PortOf(u) : u \in {v \in Unit : Failed(v)}}
  IN  IF DmaPort \in failed THEN DmaPort
      ELSE CHOOSE p \in failed : \A q \in failed : p <= q

-----------------------------------------------------------------------------
(* Decode.  instr_mem reads combinationally at pc modulo its depth.        *)

Decoded == imem[pc % Depth]

WaitsDma(mask) == 0 \in mask
WaitsTc(mask)  == mask \cap {1, 2, 3, 5, 6} # {}

ScoreboardBusyMxuBitOnly(mask) ==
  \/ WaitsDma(mask) /\ Busy(Dma)
  \/ WaitsTc(mask) /\ \E t \in TC, m \in Mxu : Busy(<<t, m>>)

ScoreboardBusy(mask) ==
  \/ WaitsDma(mask) /\ Busy(Dma)
  \/ WaitsTc(mask) /\ \E t \in TC : TcBusy(t)

\* CLEAR picks the TensorCore that owns the space; the others use target.
DecodedTcMask(i) ==
  IF i.op = "CLEAR"
  THEN {t \in TC : \/ t = 0 /\ i.space = "VMEM0"
                   \/ t = 1 /\ i.space = "VMEM1"}
  ELSE i.tcs \cap TC

-----------------------------------------------------------------------------
(* Command ports: valid from control_fsm, ready from the units             *)

DmaValid == state = "ISSUE" /\ issueDma /\ ~issuedDma

TcValidRepeats(t) == state = "ISSUE" /\ t \in issueTc

TcValid(t) == state = "ISSUE" /\ t \in issueTc \ issuedTc

\* An empty nibble selects every MXU.
MxuMask(i) == IF i.mxus \cap Mxu = {} THEN Mxu ELSE i.mxus \cap Mxu

\* Round robin: the first MXU at or after rr that is eligible and not busy.
Eligible(t)  == {m \in MxuMask(Decoded) : ~Busy(<<t, m>>)}
Distance(t, m) == (m - rr[t] + NumMxu) % NumMxu
ChosenMxu(t) == CHOOSE m \in Eligible(t) :
                  \A n \in Eligible(t) : Distance(t, m) <= Distance(t, n)

\* The child a TensorCore would hand the presented command to.
Dest(t) == CASE Decoded.op = "VECTOR_OP" -> Vec
             [] Decoded.op = "REDUCE"    -> Red
             [] Decoded.op = "CLEAR"     -> Clr
             [] OTHER                    -> ChosenMxu(t)

TcReadyIgnoresSiblings(t) ==
  IF Decoded.op = "MATMUL"
  THEN Eligible(t) # {} /\ unit[<<t, ChosenMxu(t)>>] = "IDLE"
  ELSE unit[<<t, Dest(t)>>] = "IDLE"

TcReady(t) ==
  IF Decoded.op = "MATMUL"
  THEN Eligible(t) # {} /\ unit[<<t, ChosenMxu(t)>>] = "IDLE"
  ELSE unit[<<t, Dest(t)>>] = "IDLE" /\ ~TcBusy(t)

DmaReady == unit[Dma] = "IDLE"

AcceptingTc == {t \in TC : TcValid(t) /\ TcReady(t)}
Accepting == {<<t, Dest(t)>> : t \in AcceptingTc}
               \cup {u \in {Dma} : DmaValid /\ DmaReady}
-----------------------------------------------------------------------------
(* Every unit's part of the edge.  A unit that accepts a command starts it *)
(* or rejects it (range, alignment, operation); the DMA engine and CLEAR   *)
(* finish a zero-length command at once.  A running unit may run on,       *)
(* finish or fail.  ERROR is left by reset only.                           *)

NextRrNoWrap(t) == ChosenMxu(t) + 1

NextRr(t) == (ChosenMxu(t) + 1) % NumMxu

UnitsStep(stop, bad) ==
  /\ unit' = [u \in Unit |->
       IF u \in Accepting
       THEN IF u \in bad THEN "ERROR"
            ELSE IF u \in stop THEN "DONE" ELSE "RUN"
       ELSE CASE unit[u] = "RUN" /\ u \in bad  -> "ERROR"
              [] unit[u] = "RUN" /\ u \in stop -> "DONE"
              [] unit[u] = "DONE"              -> "IDLE"
              [] OTHER                         -> unit[u]]
  /\ rr' = [t \in TC |->
       IF t \in AcceptingTc /\ Decoded.op = "MATMUL"
       THEN NextRr(t) ELSE rr[t]]

MayStop == {u \in Unit : Busy(u)} \cup {u \in Accepting : u = Dma \/ u[2] = Clr}
MayFail == {u \in Unit : Busy(u)} \cup Accepting

-----------------------------------------------------------------------------
(* control_fsm's part of the edge                                          *)

\* Where error_code came from: a command port, the decoder, an empty target.
NoError     == -1
DecodeError == -2
BadTarget   == -3

Startable == state \in {"IDLE", "HALT", "ERROR"}

EnterErrorKeepsCode(cause) == state' = "ERROR" /\ UNCHANGED errCause

EnterError(cause) == state' = "ERROR" /\ errCause' = cause

RetireAndFetch == pc' = pc + 1 /\ state' = "FETCH"

\* The history a control step leaves: commands accepted at this edge, and
\* the kinds of units a barrier or HALT retired at this edge has drained.
Record(drained) ==
  /\ job' = [u \in Unit |-> IF u \in Accepting THEN pc ELSE job[u]]
  /\ lastIssue' = [p \in Port |->
       IF p \in {PortOf(u) : u \in Accepting} THEN pc ELSE lastIssue[p]]
  /\ fence' = [k \in Kind |-> IF k \in drained THEN pc ELSE fence[k]]

KindsOf(mask) == {k \in Kind : \/ k = "dma" /\ WaitsDma(mask)
                               \/ k = "tc"  /\ WaitsTc(mask)}

Start ==
  /\ startPulse /\ Startable
  /\ state' = "FETCH" /\ pc' = 0 /\ barrierMask' = {}
  /\ issueTc' = {} /\ issuedTc' = {} /\ issueDma' = FALSE /\ issuedDma' = FALSE
  /\ errCause' = NoError
  /\ job' = [u \in Unit |-> -1]
  /\ lastIssue' = [p \in Port |-> -1]
  /\ fence' = [k \in Kind |-> -1]

UnitError ==
  /\ ~(startPulse /\ Startable)
  /\ AnyUnitError /\ state # "ERROR"
  /\ EnterError(FirstFailedPort)
  /\ Record({})
  /\ UNCHANGED <<pc, barrierMask, issueTc, issuedTc, issueDma, issuedDma>>

\* The state case is reached only when neither of the above applies.
InState(s) == /\ state = s
              /\ ~(startPulse /\ Startable)
              /\ AnyUnitError => state = "ERROR"

Idle ==
  /\ InState("IDLE")
  /\ pc' = 0
  /\ Record({})
  /\ UNCHANGED <<state, barrierMask, issueTc, issuedTc, issueDma, issuedDma, errCause>>

Fetch ==
  /\ InState("FETCH")
  /\ state' = "DECODE"
  /\ Record({})
  /\ UNCHANGED <<pc, barrierMask, issueTc, issuedTc, issueDma, issuedDma, errCause>>

DecodeIllegal ==
  /\ InState("DECODE") /\ ~Decoded.legal
  /\ EnterError(DecodeError)
  /\ Record({})
  /\ UNCHANGED <<pc, barrierMask, issueTc, issuedTc, issueDma, issuedDma>>

DecodeNop ==
  /\ InState("DECODE") /\ Decoded.legal /\ Decoded.op \in {"NOP", "SYNC"}
  /\ RetireAndFetch
  /\ Record({})
  /\ UNCHANGED <<barrierMask, issueTc, issuedTc, issueDma, issuedDma, errCause>>

HaltMustWaitTcOnly == \E t \in TC : TcBusy(t)

HaltMustWait == AnyUnitBusy

RetireHalt ==
  /\ pc' = pc + 1 /\ state' = "HALT"
  /\ Record(Kind)

DecodeHalt ==
  /\ InState("DECODE") /\ Decoded.legal /\ Decoded.op = "HALT"
  /\ IF HaltMustWait
     THEN state' = "WAIT_HALT" /\ Record({}) /\ UNCHANGED pc
     ELSE RetireHalt
  /\ UNCHANGED <<barrierMask, issueTc, issuedTc, issueDma, issuedDma, errCause>>

DecodeBarrier ==
  /\ InState("DECODE") /\ Decoded.legal /\ Decoded.op = "BARRIER"
  /\ barrierMask' = Decoded.mask
  /\ IF ScoreboardBusy(Decoded.mask)
     THEN state' = "WAIT_BARRIER" /\ Record({}) /\ UNCHANGED pc
     ELSE RetireAndFetch /\ Record(KindsOf(Decoded.mask))
  /\ UNCHANGED <<issueTc, issuedTc, issueDma, issuedDma, errCause>>

DecodeDma ==
  /\ InState("DECODE") /\ Decoded.legal /\ Decoded.op \in DmaOps
  /\ state' = "ISSUE"
  /\ issueDma' = TRUE /\ issuedDma' = FALSE /\ issueTc' = {} /\ issuedTc' = {}
  /\ Record({})
  /\ UNCHANGED <<pc, barrierMask, errCause>>

DecodeTc ==
  /\ InState("DECODE") /\ Decoded.legal /\ Decoded.op \in TcOps
  /\ issueDma' = FALSE /\ issuedDma' = FALSE /\ issuedTc' = {}
  /\ issueTc' = DecodedTcMask(Decoded)
  /\ IF DecodedTcMask(Decoded) = {}
     THEN EnterError(BadTarget)
     ELSE state' = "ISSUE" /\ UNCHANGED errCause
  /\ Record({})
  /\ UNCHANGED <<pc, barrierMask>>

AllIssuedAtOnce == \/ issueDma /\ (issuedDma \/ DmaReady)
                   \/ issueTc # {} /\ issueTc \subseteq AcceptingTc

\* ISSUE retires when every selected port has accepted, at this edge or before.
AllIssued == \/ issueDma /\ (issuedDma \/ DmaReady)
             \/ issueTc # {} /\ issueTc \subseteq issuedTc \cup AcceptingTc

Issue ==
  /\ InState("ISSUE")
  /\ IF AllIssued
     THEN /\ RetireAndFetch
          /\ issueDma' = FALSE /\ issuedDma' = FALSE
          /\ issueTc' = {} /\ issuedTc' = {}
     ELSE /\ issuedDma' = (issuedDma \/ (DmaValid /\ DmaReady))
          /\ issuedTc' = issuedTc \cup AcceptingTc
          /\ UNCHANGED <<state, pc, issueDma, issueTc>>
  /\ Record({})
  /\ UNCHANGED <<barrierMask, errCause>>

WaitBarrier ==
  /\ InState("WAIT_BARRIER")
  /\ IF ScoreboardBusy(barrierMask)
     THEN Record({}) /\ UNCHANGED <<state, pc>>
     ELSE RetireAndFetch /\ Record(KindsOf(barrierMask))
  /\ UNCHANGED <<barrierMask, issueTc, issuedTc, issueDma, issuedDma, errCause>>

WaitHalt ==
  /\ InState("WAIT_HALT")
  /\ IF HaltMustWait THEN Record({}) /\ UNCHANGED <<state, pc>> ELSE RetireHalt
  /\ UNCHANGED <<barrierMask, issueTc, issuedTc, issueDma, issuedDma, errCause>>

Stopped ==
  /\ InState("HALT") \/ InState("ERROR")
  /\ Record({})
  /\ UNCHANGED control

ControlStep ==
  \/ Start \/ UnitError \/ Idle \/ Fetch
  \/ DecodeIllegal \/ DecodeNop \/ DecodeHalt \/ DecodeBarrier
  \/ DecodeDma \/ DecodeTc \/ Issue
  \/ WaitBarrier \/ WaitHalt \/ Stopped

-----------------------------------------------------------------------------
(* The MMIO front end: at most one host request per edge.  Requests that   *)
(* change nothing here (reads, counters, bad addresses, and every request  *)
(* answered with an error) are HostOther.                                  *)

ControlBusy == state \notin {"IDLE", "HALT", "ERROR"}
ChipBusy == ControlBusy \/ AnyUnitBusy

MayStartIgnoringUnits == ~ControlBusy
MayStart == ~ChipBusy \/ state = "HALT"

HostOther == startPulse' = FALSE /\ UNCHANGED imem

HostStart == MayStart /\ startPulse' = TRUE /\ UNCHANGED imem

HostWriteInstrUngated(a, i) ==
  /\ imem' = [imem EXCEPT ![a] = i]
  /\ startPulse' = FALSE

HostWriteInstr(a, i) ==
  /\ ~ChipBusy
  /\ imem' = [imem EXCEPT ![a] = i]
  /\ startPulse' = FALSE

HostStep == \/ HostOther
            \/ HostStart
            \/ \E a \in HostSlots, i \in Instr : HostWriteInstr(a, i)

-----------------------------------------------------------------------------
Init ==
  /\ state = "IDLE" /\ pc = 0 /\ barrierMask = {}
  /\ issueTc = {} /\ issuedTc = {} /\ issueDma = FALSE /\ issuedDma = FALSE
  /\ errCause = NoError
  /\ imem \in Images
  /\ startPulse = FALSE
  /\ unit = [u \in Unit |-> "IDLE"]
  /\ rr = [t \in TC |-> 0]
  /\ job = [u \in Unit |-> -1]
  /\ lastIssue = [p \in Port |-> -1]
  /\ fence = [k \in Kind |-> -1]

Edge(stop, bad) == ControlStep /\ UnitsStep(stop, bad) /\ HostStep

Next == \E bad \in SUBSET MayFail : \E stop \in SUBSET (MayStop \ bad) : Edge(stop, bad)

Spec == Init /\ [][Next]_vars

\* The clock ticks, and a running unit eventually leaves its busy states: its
\* loops are bounded by the command's lengths and its memory always answers.
Fairness == /\ WF_vars(Next)
            /\ \A u \in Unit : WF_vars(Busy(u) /\ Next /\ unit'[u] # "RUN")

FairSpec == Spec /\ Fairness

-----------------------------------------------------------------------------
(* Properties                                                              *)

States == {"IDLE", "FETCH", "DECODE", "ISSUE",
           "WAIT_BARRIER", "WAIT_HALT", "HALT", "ERROR"}

\* The type of every register and history variable.
TypeOK ==
  /\ state \in States
  /\ pc \in Nat
  /\ barrierMask \subseteq 0 .. 7
  /\ issueTc \subseteq TC /\ issuedTc \subseteq TC
  /\ issueDma \in BOOLEAN /\ issuedDma \in BOOLEAN
  /\ errCause \in {NoError, DecodeError, BadTarget} \cup Port
  /\ imem \in [0 .. Depth - 1 -> Instr]
  /\ startPulse \in BOOLEAN
  /\ unit \in [Unit -> Phase]
  /\ rr \in [TC -> Mxu]
  /\ job \in [Unit -> Int]
  /\ lastIssue \in [Port -> Int]
  /\ fence \in [Kind -> Int]

\* Scoreboard barriers (control_fsm.scoreboard_busy): a command issued before a
\* retired BARRIER or HALT that covers its kind of unit is never still running,
\* and the program never gets past a barrier whose unit failed.
BarrierDrains ==
  \A u \in Unit : Busy(u) \/ Failed(u) =>
    fence[KindOf(u)] = -1 \/ job[u] > fence[KindOf(u)]

\* The done bit (ST_HALT): when the host sees done nothing is running and no
\* command is half issued, so results in memory are final.
HaltQuiescent ==
  state = "HALT" => ~AnyUnitBusy /\ issueTc = {} /\ ~issueDma

\* A start the MMIO front end lets through (chip_units_busy && !done rejects the
\* others) never begins a run over a unit still working for the previous one,
\* also when that run ended in ERROR with units in flight.
StartQuiescent == startPulse => ~AnyUnitBusy

\* ISSUE presents what DECODE selected: the instruction memory is read
\* combinationally, so a program word changing under a waiting command would
\* change the command on the ports.
CommandCoherent ==
  state = "ISSUE" =>
    /\ Decoded.legal
    /\ issueDma = (Decoded.op \in DmaOps)
    /\ issueTc = (IF Decoded.op \in TcOps THEN DecodedTcMask(Decoded) ELSE {})

\* error_code says who failed: a unit cause names a port with a unit still in
\* ERROR, and a cause is recorded exactly when the FSM is in ERROR.
ErrorAttribution ==
  /\ (state = "ERROR") = (errCause # NoError)
  /\ errCause \in Port => \E u \in Unit : PortOf(u) = errCause /\ Failed(u)

\* Issue: no port takes the same instruction twice however long another
\* selected port keeps it waiting, and an instruction retires only once every
\* selected port has taken it.
IssueExactlyOnceStep ==
  /\ \A u \in Accepting : lastIssue[PortOf(u)] < pc
  /\ pc' = pc + 1 /\ Decoded.op \in DmaOps => lastIssue'[DmaPort] = pc
  /\ pc' = pc + 1 /\ Decoded.op \in TcOps =>
       \A t \in DecodedTcMask(Decoded) : lastIssue'[t] = pc
IssueExactlyOnce == [][IssueExactlyOnceStep]_vars

\* What the registers mean between the edges: the fences lie behind pc; outside
\* ISSUE nothing is selected and nothing was issued at pc yet; in ISSUE the
\* issued registers name exactly the ports that took the instruction at pc.
IssueBookkeeping ==
  /\ \A k \in Kind : fence[k] < pc
  /\ state = "IDLE" => /\ \A k \in Kind : fence[k] = -1
                       /\ \A p \in Port : lastIssue[p] = -1
  /\ state = "WAIT_BARRIER" => Decoded.op = "BARRIER"
  /\ state = "WAIT_HALT" => Decoded.op = "HALT"
  /\ state \notin {"ISSUE", "ERROR"} =>
       issueTc = {} /\ ~issueDma /\ \A p \in Port : lastIssue[p] < pc
  /\ state = "ISSUE" =>
       /\ \A t \in TC : IF t \in issuedTc THEN lastIssue[t] = pc ELSE lastIssue[t] < pc
       /\ IF issuedDma THEN lastIssue[DmaPort] = pc ELSE lastIssue[DmaPort] < pc

\* Every run ends: ISSUE, WAIT_BARRIER and WAIT_HALT cannot hang while units
\* finish, for a program whose HALT is never overwritten.
RunTerminates == state = "FETCH" ~> state \in {"HALT", "ERROR"}
=============================================================================
