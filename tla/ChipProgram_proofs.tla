------------------------- MODULE ChipProgram_proofs -------------------------
(***************************************************************************)
(* Proofs about ChipControl and ChipProgram, for any chip, any memories    *)
(* and any programs.  Of the control path: barriers drain, every command   *)
(* is issued once, halts and starts find nobody at work, errors are        *)
(* attributed.  Of the data: the commands of a fenced program never meet,  *)
(* and when the chip halts its memories are those the golden executor      *)
(* leaves.                                                                 *)
(***************************************************************************)
EXTENDS ChipProgram, TLAPS, WellFoundedInduction

-----------------------------------------------------------------------------
(* Lemmas about the choices of the dispatch logic                          *)

\* A nonempty set of naturals has a least element.
LEMMA LeastElement ==
  ASSUME NEW S, S \subseteq Nat, S # {}
  PROVE  \E x \in S : \A y \in S : x <= y
<1>1. \E x \in S : \A y \in S : ~(<<y, x>> \in OpToRel(<, Nat))
  BY NatLessThanWellFounded, WFMin
<1>2. PICK x \in S : \A y \in S : ~(<<y, x>> \in OpToRel(<, Nat))
  BY <1>1
<1>3. \A y \in S : ~(y < x)
  BY <1>2, S \subseteq Nat DEF OpToRel
<1>4. x \in Nat /\ \A y \in S : y \in Nat
  BY S \subseteq Nat
<1>5. \A y \in S : x <= y
  BY <1>3, <1>4
<1> QED BY <1>5

\* The round robin of tensor_core finds an eligible MXU if there is one.
LEMMA ChosenIsEligible ==
  ASSUME NEW t \in TC, rr \in [TC -> Mxu], Eligible(t) # {}
  PROVE  ChosenMxu(t) \in Eligible(t)
<1> DEFINE D == {Distance(t, m) : m \in Eligible(t)}
<1>1. NumMxu \in Nat \ {0}
  BY ConstantsOK
<1>2. Eligible(t) \subseteq Mxu
  BY DEF Eligible, MxuMask
<1>3. \A m \in Eligible(t) : Distance(t, m) \in Nat
  BY <1>1, <1>2 DEF Distance, Mxu
<1>4. PICK d \in D : \A e \in D : d <= e
  <2>1. D \subseteq Nat /\ D # {}
    BY <1>3
  <2> QED BY <2>1, LeastElement
<1>5. \E m \in Eligible(t) : \A n \in Eligible(t) : Distance(t, m) <= Distance(t, n)
  BY <1>4
<1> QED BY <1>5 DEF ChosenMxu

-----------------------------------------------------------------------------
(* Lemmas about the units                                                  *)

\* A command goes to an idle unit, in ISSUE only.
LEMMA AcceptingFacts ==
  ASSUME TypeOK, CommandCoherent
  PROVE  /\ Accepting \subseteq Unit
         /\ \A u \in Accepting : unit[u] = "IDLE"
         /\ state # "ISSUE" => Accepting = {}
<1>1. \A t \in AcceptingTc : /\ t \in TC /\ state = "ISSUE" /\ Dest(t) \in Child
                             /\ unit[<<t, Dest(t)>>] = "IDLE"
  <2> SUFFICES ASSUME NEW t \in AcceptingTc
               PROVE  /\ t \in TC /\ state = "ISSUE" /\ Dest(t) \in Child
                      /\ unit[<<t, Dest(t)>>] = "IDLE"
    OBVIOUS
  <2>1. t \in TC /\ TcReady(t) /\ state = "ISSUE" /\ t \in issueTc
    BY DEF AcceptingTc, TcValid
  <2>2. Decoded.op \in TcOps
    BY <2>1 DEF CommandCoherent
  <2>3. CASE Decoded.op = "MATMUL"
    <3>1. Eligible(t) # {} /\ unit[<<t, ChosenMxu(t)>>] = "IDLE"
      BY <2>1, <2>3 DEF TcReady
    <3>2. ChosenMxu(t) \in Mxu
      BY <2>1, <3>1, ChosenIsEligible DEF TypeOK, Eligible, MxuMask
    <3>3. Dest(t) = ChosenMxu(t)
      BY <2>3 DEF Dest
    <3> QED BY <2>1, <3>1, <3>2, <3>3, ConstantsOK DEF Mxu, Child
  <2>4. CASE Decoded.op # "MATMUL"
    <3>1. Decoded.op \in {"VECTOR_OP", "REDUCE", "CLEAR"}
      BY <2>2, <2>4 DEF TcOps
    <3>2. Dest(t) \in {Vec, Red, Clr}
      BY <3>1 DEF Dest
    <3>3. unit[<<t, Dest(t)>>] = "IDLE"
      BY <2>1, <2>4 DEF TcReady
    <3> QED BY <2>1, <3>2, <3>3, ConstantsOK DEF Child, Vec, Red, Clr
  <2> QED BY <2>3, <2>4
<1>2. \A u \in Accepting : \/ u = Dma /\ DmaValid /\ DmaReady
                          \/ \E t \in AcceptingTc : u = <<t, Dest(t)>>
  BY DEF Accepting
<1>3. Accepting \subseteq Unit
  BY <1>1, <1>2 DEF Unit
<1>4. \A u \in Accepting : unit[u] = "IDLE" /\ state = "ISSUE"
  BY <1>1, <1>2 DEF DmaValid, DmaReady
<1> QED BY <1>3, <1>4

\* What one edge does to a unit.
LEMMA UnitStepFacts ==
  ASSUME TypeOK, CommandCoherent, NEW stop, NEW bad, UnitsStep(stop, bad), NEW u \in Unit
  PROVE  /\ Busy(u)' => Busy(u) \/ u \in Accepting
         /\ Failed(u)' => Failed(u) \/ Busy(u) \/ u \in Accepting
         /\ Failed(u) => Failed(u)'
  BY AcceptingFacts DEF UnitsStep, Busy, Failed, TypeOK, Phase

\* error_code is read from a unit that exists and failed.
LEMMA FirstFailed ==
  ASSUME AnyUnitError
  PROVE  FirstFailedPort \in Port /\ \E u \in Unit : PortOf(u) = FirstFailedPort /\ Failed(u)
<1> DEFINE failed == {PortOf(u) : u \in {v \in Unit : Failed(v)}}
<1>1. failed \subseteq Port /\ failed # {}
  <2>1. \A u \in Unit : PortOf(u) \in Port
    BY ConstantsOK DEF Unit, Dma, PortOf, Port, TC
  <2>2. \E v \in Unit : Failed(v)
    BY DEF AnyUnitError
  <2> QED BY <2>1, <2>2
<1>2. \E q \in failed : \A r \in failed : q <= r
  <2>1. failed \subseteq Nat
    BY <1>1, ConstantsOK DEF Port
  <2> QED BY <1>1, <2>1, LeastElement
<1>3. FirstFailedPort \in failed
  BY <1>2 DEF FirstFailedPort
<1> QED BY <1>1, <1>3

\* DMA is the engine's kind; every other unit is a TensorCore's child.
LEMMA Kinds ==
  ASSUME NEW u \in Unit
  PROVE  \/ u = Dma /\ KindOf(u) = "dma" /\ PortOf(u) = DmaPort
         \/ /\ \E t \in TC, c \in Child : u = <<t, c>>
            /\ KindOf(u) = "tc" /\ PortOf(u) \in TC
<1>1. CASE u = Dma
  BY <1>1 DEF Dma, KindOf, PortOf, DmaPort
<1>2. CASE u \in TC \X Child
  <2>1. PICK t \in TC, c \in Child : u = <<t, c>>
    BY <1>2
  <2>2. PortOf(u) = t /\ t # DmaPort
    BY <2>1, ConstantsOK DEF PortOf, TC, DmaPort
  <2> QED BY <2>1, <2>2 DEF KindOf
<1> QED BY <1>1, <1>2 DEF Unit

-----------------------------------------------------------------------------
(* Type correctness                                                        *)

LEMMA DecodedType == ASSUME TypeOK PROVE Decoded \in InstrType
<1>1. pc % Depth \in 0 .. Depth - 1
  BY ConstantsOK DEF TypeOK
<1>2. Decoded \in Instr
  BY <1>1 DEF Decoded, TypeOK
<1> QED BY <1>2, ConstantsOK

LEMMA TypeInit == Init => TypeOK
<1> SUFFICES ASSUME Init PROVE TypeOK
  OBVIOUS
<1>1. 0 \in Mxu
  BY ConstantsOK DEF Mxu
<1>2. imem \in [0 .. Depth - 1 -> Instr]
  BY ConstantsOK DEF Init
<1>3. unit \in [Unit -> Phase] /\ rr \in [TC -> Mxu]
  BY <1>1 DEF Init, Phase
<1>4. job \in [Unit -> Int] /\ lastIssue \in [Port -> Int] /\ fence \in [Kind -> Int]
  BY DEF Init
<1>5. /\ state \in States /\ pc \in Nat /\ barrierMask \subseteq 0 .. 7
      /\ issueTc \subseteq TC /\ issuedTc \subseteq TC
      /\ issueDma \in BOOLEAN /\ issuedDma \in BOOLEAN /\ startPulse \in BOOLEAN
      /\ errCause = NoError
  BY DEF Init, States
<1> QED BY <1>2, <1>3, <1>4, <1>5 DEF TypeOK

\* The units' part of an edge keeps the types of unit and rr.
LEMMA TypeUnits ==
  ASSUME TypeOK, NEW stop, NEW bad, UnitsStep(stop, bad)
  PROVE  unit' \in [Unit -> Phase] /\ rr' \in [TC -> Mxu]
<1>1. unit' \in [Unit -> Phase]
  BY DEF UnitsStep, TypeOK, Phase
<1>2. \A t \in AcceptingTc : Decoded.op = "MATMUL" => NextRr(t) \in Mxu
  <2> SUFFICES ASSUME NEW t \in AcceptingTc, Decoded.op = "MATMUL"
               PROVE  NextRr(t) \in Mxu
    OBVIOUS
  <2>1. t \in TC /\ Eligible(t) # {}
    BY DEF AcceptingTc, TcReady
  <2>2. ChosenMxu(t) \in Mxu
    BY <2>1, ChosenIsEligible DEF TypeOK, Eligible, MxuMask
  <2> QED BY <2>2, ConstantsOK DEF NextRr, Mxu
<1>3. rr' \in [TC -> Mxu]
  BY <1>2 DEF UnitsStep, TypeOK
<1> QED BY <1>1, <1>3

\* The history control_fsm's edge leaves has its type.
LEMMA TypeRecord ==
  ASSUME TypeOK, ControlStep
  PROVE  job' \in [Unit -> Int] /\ lastIssue' \in [Port -> Int] /\ fence' \in [Kind -> Int]
<1>1. CASE Start
  <2>1. /\ job' = [u \in Unit |-> -1] /\ lastIssue' = [q \in Port |-> -1]
        /\ fence' = [k \in Kind |-> -1]
    BY <1>1 DEF Start
  <2> QED BY <2>1
<1>2. CASE \E drained : Record(drained)
  BY <1>2 DEF Record, TypeOK
<1>3. ControlStep => Start \/ \E drained : Record(drained)
  BY DEF ControlStep, UnitError, Idle, Fetch, DecodeIllegal, DecodeNop, DecodeHalt, RetireHalt,
         DecodeBarrier, DecodeDma, DecodeTc, Issue, WaitBarrier, WaitHalt, Stopped
<1> QED BY <1>1, <1>2, <1>3

\* control_fsm's part of an edge keeps the types of its registers.
LEMMA TypeControl ==
  ASSUME TypeOK, ControlStep
  PROVE  /\ state' \in States /\ pc' \in Nat /\ barrierMask' \subseteq 0 .. 7
         /\ issueTc' \subseteq TC /\ issuedTc' \subseteq TC
         /\ issueDma' \in BOOLEAN /\ issuedDma' \in BOOLEAN
         /\ errCause' \in {NoError, DecodeError, BadTarget} \cup Port
<1> USE DEF States
<1>1. CASE Start
  <2>1. /\ state' = "FETCH" /\ pc' = 0 /\ barrierMask' = {}
        /\ issueTc' = {} /\ issuedTc' = {} /\ issueDma' = FALSE /\ issuedDma' = FALSE
        /\ errCause' = NoError
    BY <1>1 DEF Start
  <2> QED BY <2>1
<1>2. CASE UnitError
  <2>1. FirstFailedPort \in Port
    BY <1>2, FirstFailed DEF UnitError
  <2> QED BY <1>2, <2>1 DEF UnitError, EnterError, TypeOK
<1>3. CASE Idle
  BY <1>3 DEF Idle, TypeOK
<1>14. CASE Fetch
  BY <1>14 DEF Fetch, TypeOK
<1>13. CASE Stopped
  BY <1>13 DEF Stopped, TypeOK, control
<1>4. CASE DecodeIllegal
  BY <1>4 DEF DecodeIllegal, EnterError, TypeOK
<1>5. CASE DecodeNop
  BY <1>5 DEF DecodeNop, RetireAndFetch, TypeOK
<1>6. CASE DecodeHalt
  BY <1>6 DEF DecodeHalt, RetireHalt, TypeOK
<1>7. CASE DecodeBarrier
  <2>1. Decoded.mask \subseteq 0 .. 7
    BY DecodedType DEF InstrType
  <2> QED BY <1>7, <2>1 DEF DecodeBarrier, RetireAndFetch, TypeOK
<1>8. CASE DecodeDma
  BY <1>8 DEF DecodeDma, TypeOK
<1>9. CASE DecodeTc
  <2>1. DecodedTcMask(Decoded) \subseteq TC
    BY DEF DecodedTcMask
  <2> QED BY <1>9, <2>1 DEF DecodeTc, EnterError, TypeOK
<1>10. CASE Issue
  <2>1. AcceptingTc \subseteq TC
    BY DEF AcceptingTc
  <2>2. state' \in States /\ pc' \in Nat /\ barrierMask' \subseteq 0 .. 7
    BY <1>10 DEF Issue, RetireAndFetch, TypeOK
  <2>3. issueTc' \subseteq TC /\ issuedTc' \subseteq TC
    BY <1>10, <2>1 DEF Issue, TypeOK
  <2>4. issueDma' \in BOOLEAN /\ issuedDma' \in BOOLEAN
    <3>1. CASE AllIssued
      BY <1>10, <3>1 DEF Issue
    <3>2. CASE ~AllIssued
      <4>1. issuedDma' = (issuedDma \/ (DmaValid /\ DmaReady)) /\ issueDma' = issueDma
        BY <1>10, <3>2 DEF Issue
      <4> QED BY <4>1 DEF TypeOK
    <3> QED BY <3>1, <3>2
  <2>5. errCause' = errCause
    BY <1>10 DEF Issue
  <2> QED BY <2>2, <2>3, <2>4, <2>5 DEF TypeOK
<1>11. CASE WaitBarrier
  BY <1>11 DEF WaitBarrier, RetireAndFetch, TypeOK
<1>12. CASE WaitHalt
  BY <1>12 DEF WaitHalt, RetireHalt, TypeOK
<1> QED BY <1>1, <1>2, <1>3, <1>4, <1>5, <1>6, <1>7, <1>8, <1>9, <1>10, <1>11, <1>12, <1>13, <1>14
        DEF ControlStep

\* The host's part of an edge keeps the types of the registers it writes.
LEMMA TypeHost ==
  ASSUME TypeOK, HostStep
  PROVE  imem' \in [0 .. Depth - 1 -> Instr] /\ startPulse' \in BOOLEAN
<1>1. CASE HostOther \/ HostStart
  BY <1>1 DEF HostOther, HostStart, TypeOK
<1>2. CASE \E a \in HostSlots, i \in Instr : HostWriteInstr(a, i)
  BY <1>2, ConstantsOK DEF HostWriteInstr, TypeOK
<1> QED BY <1>1, <1>2 DEF HostStep

LEMMA TypeNext == TypeOK /\ [Next]_vars => TypeOK'
<1> SUFFICES ASSUME TypeOK, [Next]_vars PROVE TypeOK'
  OBVIOUS
<1>1. CASE Next
  <2>1. PICK stop, bad : Edge(stop, bad)
    BY <1>1 DEF Next
  <2>2. ControlStep /\ UnitsStep(stop, bad) /\ HostStep
    BY <2>1 DEF Edge
  <2> QED BY <2>2, TypeControl, TypeRecord, TypeUnits, TypeHost DEF TypeOK
<1>2. CASE UNCHANGED vars
  BY <1>2 DEF vars, control, history, TypeOK
<1> QED BY <1>1, <1>2

\* Every register always has its type: in particular the round-robin pointer
\* stays an MXU index and the error source a port that exists.
THEOREM TypeCorrect == Spec => []TypeOK
BY TypeInit, TypeNext, PTL DEF Spec

-----------------------------------------------------------------------------
(* Safety                                                                  *)

\* Each invariant leans on the others: BarrierDrains on the fences lying
\* behind pc, StartQuiescent on HaltQuiescent, the units' lemmas on the
\* presented command being coherent.
IInv == /\ TypeOK /\ CommandCoherent /\ IssueBookkeeping
        /\ BarrierDrains /\ HaltQuiescent /\ StartQuiescent /\ ErrorAttribution

\* What control_fsm's edge does to pc and what it declares drained.
LEMMA ControlFacts ==
  ASSUME IInv, ControlStep, ~Start
  PROVE  \E drained :
           /\ Record(drained)
           /\ state = "ISSUE" => drained = {}
           /\ \A u \in Unit : KindOf(u) \in drained => ~Busy(u) /\ ~Failed(u)
           /\ drained = {} \/ pc' = pc + 1
<1>1. CASE UnitError \/ Idle \/ Fetch \/ DecodeIllegal \/ DecodeNop \/ DecodeDma
           \/ DecodeTc \/ Issue \/ Stopped
  <2>1. Record({})
    BY <1>1 DEF UnitError, Idle, Fetch, DecodeIllegal, DecodeNop, DecodeDma, DecodeTc,
                Issue, Stopped
  <2> QED BY <2>1
<1>2. CASE DecodeHalt \/ WaitHalt
  <2>1. state \in {"DECODE", "WAIT_HALT"} /\ ~AnyUnitError
    BY <1>2 DEF DecodeHalt, WaitHalt, InState
  <2>2. CASE HaltMustWait
    BY <1>2, <2>2 DEF DecodeHalt, WaitHalt
  <2>3. CASE ~HaltMustWait
    <3>1. Record(Kind) /\ pc' = pc + 1
      BY <1>2, <2>3 DEF DecodeHalt, WaitHalt, RetireHalt
    <3>2. \A u \in Unit : ~Busy(u) /\ ~Failed(u)
      BY <2>1, <2>3 DEF HaltMustWait, AnyUnitBusy, AnyUnitError
    <3> QED BY <2>1, <3>1, <3>2
  <2> QED BY <2>2, <2>3
<1>3. ASSUME NEW mask, DecodeBarrier \/ WaitBarrier,
             state \in {"DECODE", "WAIT_BARRIER"}, ~AnyUnitError, ~ScoreboardBusy(mask),
             Record(KindsOf(mask)), pc' = pc + 1
      PROVE  \A u \in Unit : KindOf(u) \in KindsOf(mask) => ~Busy(u) /\ ~Failed(u)
  <2> SUFFICES ASSUME NEW u \in Unit, KindOf(u) \in KindsOf(mask)
               PROVE  ~Busy(u) /\ ~Failed(u)
    OBVIOUS
  <2>1. ~Failed(u)
    BY <1>3 DEF AnyUnitError
  <2>2. CASE u = Dma /\ KindOf(u) = "dma"
    BY <1>3, <2>1, <2>2 DEF KindsOf, ScoreboardBusy
  <2>3. CASE (\E t \in TC, c \in Child : u = <<t, c>>) /\ KindOf(u) = "tc"
    BY <1>3, <2>1, <2>3 DEF KindsOf, ScoreboardBusy, TcBusy
  <2> QED BY <2>2, <2>3, Kinds
<1>4. CASE DecodeBarrier
  <2>1. state = "DECODE" /\ ~AnyUnitError
    BY <1>4 DEF DecodeBarrier, InState
  <2>2. CASE ScoreboardBusy(Decoded.mask)
    BY <1>4, <2>2 DEF DecodeBarrier
  <2>3. CASE ~ScoreboardBusy(Decoded.mask)
    <3>1. Record(KindsOf(Decoded.mask)) /\ pc' = pc + 1
      BY <1>4, <2>3 DEF DecodeBarrier, RetireAndFetch
    <3> QED BY <1>3, <1>4, <2>1, <2>3, <3>1
  <2> QED BY <2>2, <2>3
<1>5. CASE WaitBarrier
  <2>1. state = "WAIT_BARRIER" /\ ~AnyUnitError
    BY <1>5 DEF WaitBarrier, InState
  <2>2. CASE ScoreboardBusy(barrierMask)
    BY <1>5, <2>2 DEF WaitBarrier
  <2>3. CASE ~ScoreboardBusy(barrierMask)
    <3>1. Record(KindsOf(barrierMask)) /\ pc' = pc + 1
      BY <1>5, <2>3 DEF WaitBarrier, RetireAndFetch
    <3> QED BY <1>3, <1>5, <2>1, <2>3, <3>1
  <2> QED BY <2>2, <2>3
<1> QED BY <1>1, <1>2, <1>4, <1>5 DEF ControlStep

\* The barrier itself: a unit that is busy or failed after the edge was so
\* before, and then it is not of a drained kind, or it has just accepted the
\* command at pc, which every fence lies behind.
LEMMA BarrierStep ==
  ASSUME IInv, ControlStep, NEW stop, NEW bad, UnitsStep(stop, bad)
  PROVE  BarrierDrains'
<1> SUFFICES ASSUME NEW u \in Unit, (Busy(u) \/ Failed(u))'
             PROVE  fence'[KindOf(u)] = -1 \/ job'[u] > fence'[KindOf(u)]
  BY DEF BarrierDrains, KindOf, PortOf
<1>0. TypeOK /\ CommandCoherent /\ KindOf(u) \in Kind
  BY Kinds DEF IInv, Kind
<1>1. CASE Start
  <2>1. fence' = [k \in Kind |-> -1]
    BY <1>1 DEF Start
  <2> QED BY <1>0, <2>1
<1>2. CASE ~Start
  <2>1. PICK drained :
          /\ Record(drained)
          /\ state = "ISSUE" => drained = {}
          /\ \A v \in Unit : KindOf(v) \in drained => ~Busy(v) /\ ~Failed(v)
    BY <1>2, ControlFacts
  <2>2. CASE u \in Accepting
    <3>1. drained = {}
      BY <1>0, <2>1, <2>2, AcceptingFacts
    <3>2. job'[u] = pc /\ fence'[KindOf(u)] = fence[KindOf(u)]
      BY <1>0, <2>1, <2>2, <3>1 DEF Record
    <3>3. fence[KindOf(u)] < pc /\ fence[KindOf(u)] \in Int /\ pc \in Int
      BY <1>0 DEF IInv, IssueBookkeeping, TypeOK
    <3> QED BY <3>2, <3>3
  <2>3. CASE u \notin Accepting
    <3>1. Busy(u) \/ Failed(u)
      BY <1>0, <2>3, UnitStepFacts
    <3>2. KindOf(u) \notin drained
      BY <2>1, <3>1
    <3>3. job'[u] = job[u] /\ fence'[KindOf(u)] = fence[KindOf(u)]
      BY <1>0, <2>1, <2>3, <3>2 DEF Record
    <3> QED BY <3>1, <3>3 DEF IInv, BarrierDrains
  <2> QED BY <2>2, <2>3
<1> QED BY <1>1, <1>2

\* Outside ISSUE no unit accepts a command, so none becomes busy.
LEMMA NoNewBusy ==
  ASSUME TypeOK, CommandCoherent, state # "ISSUE", ~AnyUnitBusy,
         NEW stop, NEW bad, UnitsStep(stop, bad)
  PROVE  ~AnyUnitBusy'
<1>1. \A u \in Unit : ~Busy(u) /\ u \notin Accepting
  BY AcceptingFacts DEF AnyUnitBusy
<1>2. \A u \in Unit : ~Busy(u)'
  BY <1>1, UnitStepFacts
<1> QED BY <1>2 DEF AnyUnitBusy, Unit, Dma, TC, Child

\* HALT is entered from states that issue nothing, with every unit idle, and
\* kept until the next start.
LEMMA HaltStep ==
  ASSUME IInv, ControlStep, NEW stop, NEW bad, UnitsStep(stop, bad)
  PROVE  HaltQuiescent'
<1> SUFFICES ASSUME state' = "HALT"
             PROVE  ~AnyUnitBusy' /\ issueTc' = {} /\ ~issueDma'
  BY DEF HaltQuiescent
<1>0. TypeOK /\ CommandCoherent
  BY DEF IInv
<1>1. CASE (DecodeHalt \/ WaitHalt)
  <2>1. state \in {"DECODE", "WAIT_HALT"} /\ ~HaltMustWait
    BY <1>1 DEF DecodeHalt, WaitHalt, InState
  <2>2. ~AnyUnitBusy /\ issueTc = {} /\ ~issueDma
    BY <2>1 DEF HaltMustWait, IInv, IssueBookkeeping
  <2>3. issueTc' = issueTc /\ issueDma' = issueDma
    BY <1>1 DEF DecodeHalt, WaitHalt
  <2> QED BY <1>0, <2>1, <2>2, <2>3, NoNewBusy
<1>2. CASE Stopped
  <2>1. state = "HALT" /\ issueTc' = issueTc /\ issueDma' = issueDma
    BY <1>2 DEF Stopped, control
  <2>2. ~AnyUnitBusy /\ issueTc = {} /\ ~issueDma
    BY <2>1 DEF IInv, HaltQuiescent
  <2> QED BY <1>0, <2>1, <2>2, NoNewBusy
<1>3. ControlStep => DecodeHalt \/ WaitHalt \/ Stopped
  <2>1. ~(Start \/ UnitError \/ Idle \/ Fetch \/ DecodeIllegal)
    BY DEF Start, UnitError, Idle, Fetch, DecodeIllegal, EnterError, InState
  <2>2. ~(DecodeNop \/ DecodeBarrier \/ DecodeDma)
    BY DEF DecodeNop, DecodeBarrier, DecodeDma, RetireAndFetch
  <2>3. ~DecodeTc
    BY DEF DecodeTc, EnterError
  <2>4. ~(Issue \/ WaitBarrier)
    BY DEF Issue, WaitBarrier, RetireAndFetch, InState
  <2> QED BY <2>1, <2>2, <2>3, <2>4 DEF ControlStep
<1> QED BY <1>1, <1>2, <1>3

\* A start is let through when nothing is busy, or in HALT, where nothing is
\* busy either.
LEMMA StartStep ==
  ASSUME IInv, HostStep, NEW stop, NEW bad, UnitsStep(stop, bad)
  PROVE  StartQuiescent'
<1> SUFFICES ASSUME startPulse' PROVE ~AnyUnitBusy'
  BY DEF StartQuiescent
<1>1. MayStart
  BY DEF HostStep, HostOther, HostStart, HostWriteInstr
<1>2. state # "ISSUE" /\ ~AnyUnitBusy
  BY <1>1 DEF MayStart, ChipBusy, ControlBusy, IInv, HaltQuiescent
<1> QED BY <1>2, NoNewBusy DEF IInv

\* While control_fsm is busy the host cannot change the program.
LEMMA ProgramStable ==
  ASSUME TypeOK, HostStep, ControlBusy PROVE imem' = imem
  BY DEF HostStep, HostOther, HostStart, HostWriteInstr, ChipBusy

\* ISSUE is entered from DECODE with what DECODE selected, and left when
\* anything it depends on changes.
LEMMA CoherentStep ==
  ASSUME IInv, ControlStep, HostStep
  PROVE  CommandCoherent'
<1> SUFFICES ASSUME state' = "ISSUE"
             PROVE  /\ Decoded'.legal
                    /\ issueDma' = (Decoded'.op \in DmaOps)
                    /\ issueTc' = (IF Decoded'.op \in TcOps
                                   THEN DecodedTcMask(Decoded') ELSE {})
  BY DEF CommandCoherent, DecodedTcMask
<1>1. ControlStep => DecodeDma \/ DecodeTc \/ Issue
  <2>1. ~(Start \/ UnitError \/ Idle \/ Fetch \/ DecodeIllegal)
    BY DEF Start, UnitError, Idle, Fetch, DecodeIllegal, EnterError, InState
  <2>2. ~(DecodeNop \/ DecodeBarrier \/ DecodeHalt)
    BY DEF DecodeNop, DecodeBarrier, DecodeHalt, RetireHalt, RetireAndFetch
  <2>3. ~(WaitBarrier \/ WaitHalt)
    BY DEF WaitBarrier, WaitHalt, RetireHalt, RetireAndFetch, InState
  <2>4. ~Stopped
    BY DEF Stopped, InState, control
  <2> QED BY <2>1, <2>2, <2>3, <2>4 DEF ControlStep
<1>2. state \in {"DECODE", "ISSUE"} /\ pc' = pc
  BY <1>1 DEF DecodeDma, DecodeTc, Issue, RetireAndFetch, InState
<1>3. imem' = imem
  BY <1>2, ProgramStable DEF IInv, ControlBusy
<1>4. Decoded' = Decoded
  BY <1>2, <1>3 DEF Decoded
<1>5. CASE DecodeDma
  BY <1>4, <1>5 DEF DecodeDma, DmaOps, TcOps
<1>6. CASE DecodeTc
  <2>1. Decoded.legal /\ Decoded.op \in TcOps
    BY <1>6 DEF DecodeTc
  <2>2. ~issueDma' /\ issueTc' = DecodedTcMask(Decoded)
    BY <1>6 DEF DecodeTc
  <2>3. issueDma' \in BOOLEAN
    BY <1>6 DEF DecodeTc
  <2>4. Decoded.op \notin DmaOps
    BY <2>1 DEF DmaOps, TcOps
  <2> QED BY <1>4, <2>1, <2>2, <2>3, <2>4
<1>7. CASE Issue
  <2>1. issueDma' = issueDma /\ issueTc' = issueTc /\ state = "ISSUE"
    BY <1>7 DEF Issue, RetireAndFetch, InState
  <2> QED BY <1>4, <2>1 DEF IInv, CommandCoherent
<1> QED BY <1>1, <1>5, <1>6, <1>7

\* A cause is recorded when ERROR is entered and cleared by a start; the unit
\* it names stays in ERROR.
LEMMA ErrorStep ==
  ASSUME IInv, ControlStep, NEW stop, NEW bad, UnitsStep(stop, bad)
  PROVE  ErrorAttribution'
<1>0. TypeOK /\ CommandCoherent /\ ErrorAttribution
  BY DEF IInv
<1> DEFINE Named(c) == \E u \in Unit : PortOf(u) = c /\ Failed(u)'
<1>1. \A c : (\E u \in Unit : PortOf(u) = c /\ Failed(u)) => Named(c)
  BY <1>0, UnitStepFacts
<1>2. SUFFICES /\ (state' = "ERROR") = (errCause' # NoError)
               /\ errCause' \in Port => Named(errCause')
  BY DEF ErrorAttribution, PortOf, Port, Unit, Dma, TC, Child
<1>3. NoError \notin Port /\ DecodeError \notin Port /\ BadTarget \notin Port
      /\ DecodeError # NoError /\ BadTarget # NoError
  BY ConstantsOK DEF NoError, DecodeError, BadTarget, Port
<1>4. CASE UnitError
  <2>1. state' = "ERROR" /\ errCause' = FirstFailedPort /\ AnyUnitError
    BY <1>4 DEF UnitError, EnterError
  <2> QED BY <1>1, <1>3, <2>1, FirstFailed
<1>5. CASE DecodeIllegal
  BY <1>3, <1>5 DEF DecodeIllegal, EnterError
<1>6. CASE DecodeTc /\ DecodedTcMask(Decoded) = {}
  BY <1>3, <1>6 DEF DecodeTc, EnterError
<1>7. CASE Start
  BY <1>3, <1>7 DEF Start
<1>8. CASE UNCHANGED errCause /\ (state' = "ERROR") = (state = "ERROR")
  BY <1>0, <1>1, <1>8 DEF ErrorAttribution
<1>9. ControlStep => \/ UnitError \/ DecodeIllegal \/ Start
                     \/ DecodeTc /\ DecodedTcMask(Decoded) = {}
                     \/ UNCHANGED errCause /\ (state' = "ERROR") = (state = "ERROR")
  <2>1. Idle \/ Fetch \/ DecodeNop \/ DecodeDma => UNCHANGED errCause /\ state # "ERROR" /\ state' # "ERROR"
    BY DEF Idle, Fetch, DecodeNop, DecodeDma, InState, RetireAndFetch
  <2>2. DecodeHalt \/ WaitHalt => UNCHANGED errCause /\ state # "ERROR" /\ state' # "ERROR"
    BY DEF DecodeHalt, WaitHalt, RetireHalt, InState
  <2>3. DecodeBarrier \/ WaitBarrier => UNCHANGED errCause /\ state # "ERROR" /\ state' # "ERROR"
    BY DEF DecodeBarrier, WaitBarrier, RetireAndFetch, InState
  <2>4. Issue => UNCHANGED errCause /\ state # "ERROR" /\ state' # "ERROR"
    BY DEF Issue, RetireAndFetch, InState
  <2>5. DecodeTc /\ DecodedTcMask(Decoded) # {} => UNCHANGED errCause /\ state # "ERROR" /\ state' # "ERROR"
    BY DEF DecodeTc, InState
  <2>6. Stopped => UNCHANGED errCause /\ state' = state
    BY DEF Stopped, control
  <2> QED BY <2>1, <2>2, <2>3, <2>4, <2>5, <2>6 DEF ControlStep
<1> QED BY <1>4, <1>5, <1>6, <1>7, <1>8, <1>9

\* The ports that take a command at this edge.
LEMMA AcceptingPorts ==
  ASSUME TypeOK
  PROVE  /\ \A t \in TC : (\E u \in Accepting : PortOf(u) = t) <=> t \in AcceptingTc
         /\ (\E u \in Accepting : PortOf(u) = DmaPort) <=> DmaValid /\ DmaReady
<1>1. \A t \in TC : t # DmaPort
  BY ConstantsOK DEF TC, DmaPort
<1>2. AcceptingTc \subseteq TC
  BY DEF AcceptingTc
<1>3. /\ PortOf(Dma) = DmaPort
      /\ \A t \in TC : PortOf(<<t, Dest(t)>>) = t
  BY DEF PortOf, Dma, DmaPort
<1>4. \A t \in AcceptingTc : <<t, Dest(t)>> \in Accepting
  BY DEF Accepting
<1>5. DmaValid /\ DmaReady => Dma \in Accepting
  BY DEF Accepting
<1>6. \A u \in Accepting : \/ PortOf(u) \in AcceptingTc
                           \/ PortOf(u) = DmaPort /\ DmaValid /\ DmaReady
  BY <1>2, <1>3 DEF Accepting
<1>7. ASSUME NEW t \in TC
      PROVE  (\E u \in Accepting : PortOf(u) = t) <=> t \in AcceptingTc
  <2>1. (\E u \in Accepting : PortOf(u) = t) => t \in AcceptingTc
    BY <1>1, <1>6
  <2>2. t \in AcceptingTc => \E u \in Accepting : PortOf(u) = t
    BY <1>3, <1>4
  <2> QED BY <2>1, <2>2
<1>8. (\E u \in Accepting : PortOf(u) = DmaPort) <=> DmaValid /\ DmaReady
  <2>1. (\E u \in Accepting : PortOf(u) = DmaPort) => DmaValid /\ DmaReady
    BY <1>1, <1>2, <1>6
  <2>2. DmaValid /\ DmaReady => \E u \in Accepting : PortOf(u) = DmaPort
    BY <1>3, <1>5
  <2> QED BY <2>1, <2>2
<1> QED BY <1>7, <1>8

\* Whoever takes a command at this edge has lastIssue' = pc, everyone else keeps
\* lastIssue.
LEMMA LastIssueStep ==
  ASSUME TypeOK, NEW drained, Record(drained)
  PROVE  /\ \A t \in TC : lastIssue'[t] = IF t \in AcceptingTc THEN pc ELSE lastIssue[t]
         /\ lastIssue'[DmaPort] = IF DmaValid /\ DmaReady THEN pc ELSE lastIssue[DmaPort]
<1>1. TC \subseteq Port /\ DmaPort \in Port
  BY ConstantsOK DEF TC, Port, DmaPort
<1>2. \A p \in Port : lastIssue'[p] = IF \E u \in Accepting : PortOf(u) = p
                                      THEN pc ELSE lastIssue[p]
  BY DEF Record
<1> QED BY <1>1, <1>2, AcceptingPorts

LEMMA PortSplit == Port = TC \cup {DmaPort}
  BY ConstantsOK DEF Port, TC, DmaPort

\* Outside ISSUE no port takes a command.
LEMMA LastIssueKept ==
  ASSUME TypeOK, CommandCoherent, state # "ISSUE", NEW drained, Record(drained)
  PROVE  \A p \in Port : lastIssue'[p] = lastIssue[p]
BY AcceptingFacts DEF Record

\* A fence moves to pc only when pc moves on.
LEMMA FencesBehind ==
  ASSUME IInv, ControlStep
  PROVE  \A k \in Kind : fence'[k] < pc'
<1>0. /\ pc \in Int /\ \A k \in Kind : fence[k] \in Int /\ fence[k] < pc
      /\ state = "IDLE" => \A k \in Kind : fence[k] = -1
  BY DEF IInv, TypeOK, IssueBookkeeping
<1>1. CASE Start
  BY <1>1 DEF Start
<1>2. CASE Idle
  <2>1. pc' = 0 /\ Record({}) /\ state = "IDLE"
    BY <1>2 DEF Idle, InState
  <2> QED BY <1>0, <2>1 DEF Record
<1>3. CASE Record({}) /\ (pc' = pc \/ pc' = pc + 1)
  <2>1. \A k \in Kind : fence'[k] = fence[k]
    BY <1>3 DEF Record
  <2> QED BY <1>0, <1>3, <2>1
<1>4. CASE \E drained : Record(drained) /\ pc' = pc + 1
  <2>1. \A k \in Kind : fence'[k] = pc \/ fence'[k] = fence[k]
    BY <1>4 DEF Record
  <2> QED BY <1>0, <1>4, <2>1
<1>5. \/ Start \/ Idle
      \/ Record({}) /\ (pc' = pc \/ pc' = pc + 1)
      \/ \E drained : Record(drained) /\ pc' = pc + 1
  <2>1. UnitError \/ Fetch \/ DecodeIllegal \/ DecodeDma \/ DecodeTc =>
          Record({}) /\ pc' = pc
    BY DEF UnitError, Fetch, DecodeIllegal, DecodeDma, DecodeTc
  <2>2. DecodeNop => Record({}) /\ pc' = pc + 1
    BY DEF DecodeNop, RetireAndFetch
  <2>3. Issue => Record({}) /\ (pc' = pc \/ pc' = pc + 1)
    BY DEF Issue, RetireAndFetch
  <2>4. Stopped => Record({}) /\ pc' = pc
    BY DEF Stopped, control
  <2>5. DecodeHalt \/ WaitHalt =>
          \/ Record({}) /\ pc' = pc
          \/ Record(Kind) /\ pc' = pc + 1
    BY DEF DecodeHalt, WaitHalt, RetireHalt
  <2>6. DecodeBarrier =>
          \/ Record({}) /\ pc' = pc
          \/ Record(KindsOf(Decoded.mask)) /\ pc' = pc + 1
    BY DEF DecodeBarrier, RetireAndFetch
  <2>7. WaitBarrier =>
          \/ Record({}) /\ pc' = pc
          \/ Record(KindsOf(barrierMask)) /\ pc' = pc + 1
    BY DEF WaitBarrier, RetireAndFetch
  <2> QED BY <2>1, <2>2, <2>3, <2>4, <2>5, <2>6, <2>7 DEF ControlStep
<1> QED BY <1>1, <1>2, <1>3, <1>4, <1>5

\* The bookkeeping of the issue registers, one step per action.
LEMMA BookkeepingStep ==
  ASSUME IInv, ControlStep, HostStep
  PROVE  IssueBookkeeping'
<1> DEFINE Clean == /\ issueTc' = {} /\ ~issueDma'
                    /\ \A p \in Port : lastIssue'[p] < pc'
           Noted == /\ \A t \in TC : IF t \in issuedTc' THEN lastIssue'[t] = pc'
                                                        ELSE lastIssue'[t] < pc'
                    /\ IF issuedDma' THEN lastIssue'[DmaPort] = pc'
                                     ELSE lastIssue'[DmaPort] < pc'
           Waits == /\ state' = "WAIT_BARRIER" => Decoded'.op = "BARRIER"
                    /\ state' = "WAIT_HALT" => Decoded'.op = "HALT"
           Reset == state' = "IDLE" => /\ \A k \in Kind : fence'[k] = -1
                                       /\ \A p \in Port : lastIssue'[p] = -1
<1>0. /\ TypeOK /\ CommandCoherent /\ IssueBookkeeping
      /\ pc \in Nat /\ \A p \in Port : lastIssue[p] \in Int
  BY DEF IInv, TypeOK
<1>1. SUFFICES /\ Reset /\ Waits
               /\ state' \notin {"ISSUE", "ERROR"} => Clean
               /\ state' = "ISSUE" => Noted
  BY FencesBehind DEF IssueBookkeeping
<1>2. CASE Start
  BY <1>2 DEF Start
<1>3. CASE UnitError \/ DecodeIllegal
  BY <1>3 DEF UnitError, DecodeIllegal, EnterError
<1>4. CASE Idle
  <2>1. state = "IDLE" /\ state' = "IDLE" /\ pc' = 0 /\ Record({})
        /\ issueTc' = issueTc /\ issueDma' = issueDma
    BY <1>4 DEF Idle, InState
  <2>2. \A p \in Port : lastIssue'[p] = lastIssue[p]
    BY <1>0, <2>1, LastIssueKept
  <2>3. \A k \in Kind : fence'[k] = fence[k]
    BY <2>1 DEF Record
  <2> QED BY <1>0, <2>1, <2>2, <2>3 DEF IssueBookkeeping
\* Steps that keep the issue registers, from a state that issues nothing.
<1>5. ASSUME state \notin {"ISSUE", "ERROR"}, NEW drained, Record(drained),
             issueTc' = issueTc, issueDma' = issueDma, pc' = pc \/ pc' = pc + 1
      PROVE  Clean
  <2>1. issueTc = {} /\ ~issueDma /\ \A p \in Port : lastIssue[p] < pc
    BY <1>0, <1>5 DEF IssueBookkeeping
  <2>2. \A p \in Port : lastIssue'[p] = lastIssue[p]
    BY <1>0, <1>5, LastIssueKept
  <2>3. \A p \in Port : lastIssue'[p] < pc'
    BY <1>0, <1>5, <2>1, <2>2
  <2> QED BY <1>5, <2>1, <2>3
<1>6. CASE Fetch \/ DecodeNop
  <2>1. state \in {"FETCH", "DECODE"} /\ state' \in {"FETCH", "DECODE"} /\ Record({})
        /\ issueTc' = issueTc /\ issueDma' = issueDma /\ (pc' = pc \/ pc' = pc + 1)
    BY <1>6 DEF Fetch, DecodeNop, RetireAndFetch, InState
  <2> QED BY <1>5, <2>1
<1>7. CASE Stopped
  <2>1. state' = state /\ state \in {"HALT", "ERROR"} /\ Record({}) /\ pc' = pc
        /\ issueTc' = issueTc /\ issueDma' = issueDma
    BY <1>7 DEF Stopped, InState, control
  <2> QED BY <1>5, <2>1
<1>8. CASE DecodeHalt \/ WaitHalt
  <2>1. /\ state \in {"DECODE", "WAIT_HALT"} /\ state' \in {"WAIT_HALT", "HALT"}
        /\ issueTc' = issueTc /\ issueDma' = issueDma
    BY <1>8 DEF DecodeHalt, WaitHalt, RetireHalt, InState
  <2>2. \/ Record({}) /\ pc' = pc
        \/ Record(Kind) /\ pc' = pc + 1 /\ state' = "HALT"
    BY <1>8 DEF DecodeHalt, WaitHalt, RetireHalt
  <2>3. Decoded.op = "HALT"
    BY <1>0, <1>8 DEF DecodeHalt, WaitHalt, InState, IssueBookkeeping
  <2>4. Clean
    BY <1>5, <2>1, <2>2
  <2>5. state' = "WAIT_HALT" => Decoded' = Decoded
    BY <1>0, <2>1, <2>2, ProgramStable DEF Decoded, ControlBusy
  <2> QED BY <2>1, <2>3, <2>4, <2>5
<1>9. CASE DecodeBarrier \/ WaitBarrier
  <2>1. /\ state \in {"DECODE", "WAIT_BARRIER"} /\ state' \in {"WAIT_BARRIER", "FETCH"}
        /\ issueTc' = issueTc /\ issueDma' = issueDma
    BY <1>9 DEF DecodeBarrier, WaitBarrier, RetireAndFetch, InState
  <2>2. \E drained : Record(drained) /\ (pc' = pc \/ pc' = pc + 1)
    BY <1>9 DEF DecodeBarrier, WaitBarrier, RetireAndFetch
  <2>3. Decoded.op = "BARRIER"
    BY <1>0, <1>9 DEF DecodeBarrier, WaitBarrier, InState, IssueBookkeeping
  <2>4. Clean
    BY <1>5, <2>1, <2>2
  <2>5. state' = "WAIT_BARRIER" => pc' = pc
    BY <1>9 DEF DecodeBarrier, WaitBarrier, RetireAndFetch
  <2>6. state' = "WAIT_BARRIER" => Decoded' = Decoded
    BY <1>0, <2>1, <2>5, ProgramStable DEF Decoded, ControlBusy
  <2> QED BY <2>1, <2>3, <2>4, <2>6
<1>10. CASE DecodeDma \/ DecodeTc
  <2>1. state = "DECODE" /\ state' \in {"ISSUE", "ERROR"} /\ pc' = pc /\ Record({})
        /\ issuedTc' = {} /\ ~issuedDma'
    BY <1>10 DEF DecodeDma, DecodeTc, EnterError, InState
  <2>2. \A p \in Port : lastIssue'[p] < pc'
    BY <1>0, <2>1, LastIssueKept DEF IssueBookkeeping
  <2>3. TC \subseteq Port /\ DmaPort \in Port
    BY PortSplit
  <2> QED BY <2>1, <2>2, <2>3
<1>11. CASE Issue /\ AllIssued
  <2>1. state' = "FETCH" /\ pc' = pc + 1 /\ issueTc' = {} /\ ~issueDma' /\ Record({})
        /\ state = "ISSUE"
    BY <1>11 DEF Issue, RetireAndFetch, InState
  <2>2. \A t \in TC : lastIssue[t] <= pc
    BY <1>0, <2>1, PortSplit DEF IssueBookkeeping
  <2>3. lastIssue[DmaPort] <= pc
    BY <1>0, <2>1, PortSplit DEF IssueBookkeeping
  <2>4. \A p \in Port : lastIssue'[p] < pc'
    BY <1>0, <2>1, <2>2, <2>3, LastIssueStep, PortSplit
  <2> QED BY <2>1, <2>4
<1>12. CASE Issue /\ ~AllIssued
  <2>1. /\ state' = "ISSUE" /\ pc' = pc /\ Record({}) /\ state = "ISSUE"
        /\ issuedTc' = issuedTc \cup AcceptingTc
    BY <1>12 DEF Issue, InState
  <2>2. issuedDma' = (issuedDma \/ (DmaValid /\ DmaReady))
    BY <1>12 DEF Issue
  <2>3. \A t \in TC : IF t \in issuedTc' THEN lastIssue'[t] = pc' ELSE lastIssue'[t] < pc'
    <3> SUFFICES ASSUME NEW t \in TC
                 PROVE  IF t \in issuedTc' THEN lastIssue'[t] = pc' ELSE lastIssue'[t] < pc'
      OBVIOUS
    <3>1. lastIssue'[t] = IF t \in AcceptingTc THEN pc ELSE lastIssue[t]
      BY <1>0, <2>1, LastIssueStep
    <3>2. IF t \in issuedTc THEN lastIssue[t] = pc ELSE lastIssue[t] < pc
      BY <1>0, <2>1 DEF IssueBookkeeping
    <3> QED BY <2>1, <3>1, <3>2
  <2>4. IF issuedDma' THEN lastIssue'[DmaPort] = pc' ELSE lastIssue'[DmaPort] < pc'
    <3>1. lastIssue'[DmaPort] = IF DmaValid /\ DmaReady THEN pc ELSE lastIssue[DmaPort]
      BY <1>0, <2>1, LastIssueStep
    <3>2. IF issuedDma THEN lastIssue[DmaPort] = pc ELSE lastIssue[DmaPort] < pc
      BY <1>0, <2>1 DEF IssueBookkeeping
    <3>3. CASE DmaValid /\ DmaReady
      <4>1. issuedDma'
        BY <2>2, <3>3
      <4> QED BY <2>1, <3>1, <3>3, <4>1
    <3>4. CASE ~(DmaValid /\ DmaReady) /\ issuedDma
      <4>1. issuedDma'
        BY <2>2, <3>4
      <4> QED BY <2>1, <3>1, <3>2, <3>4, <4>1
    <3>5. CASE ~(DmaValid /\ DmaReady) /\ ~issuedDma
      <4>1. ~issuedDma'
        BY <2>2, <3>5
      <4> QED BY <2>1, <3>1, <3>2, <3>5, <4>1
    <3> QED BY <3>3, <3>4, <3>5
  <2> QED BY <2>1, <2>3, <2>4
<1> QED BY <1>2, <1>3, <1>4, <1>6, <1>7, <1>8, <1>9, <1>10, <1>11, <1>12
      DEF ControlStep

-----------------------------------------------------------------------------
(* The theorems                                                            *)

LEMMA InvInit == Init => IInv
<1> SUFFICES ASSUME Init PROVE IInv
  OBVIOUS
<1>1. TypeOK
  BY TypeInit
<1>2. \A u \in Unit : ~Busy(u) /\ ~Failed(u)
  BY DEF Init, Busy, Failed
<1>3. CommandCoherent /\ HaltQuiescent /\ StartQuiescent /\ ErrorAttribution
  BY ConstantsOK DEF Init, CommandCoherent, HaltQuiescent, StartQuiescent,
     ErrorAttribution, NoError, Port
<1>4. BarrierDrains
  BY <1>2 DEF BarrierDrains
<1>5. IssueBookkeeping
  BY DEF Init, IssueBookkeeping
<1> QED BY <1>1, <1>3, <1>4, <1>5 DEF IInv

LEMMA InvNext == IInv /\ [Next]_vars => IInv'
<1> SUFFICES ASSUME IInv, [Next]_vars PROVE IInv'
  OBVIOUS
<1>1. CASE Next
  <2>1. PICK stop, bad : Edge(stop, bad)
    BY <1>1 DEF Next
  <2>2. ControlStep /\ UnitsStep(stop, bad) /\ HostStep
    BY <2>1 DEF Edge
  <2>3. TypeOK'
    BY <1>1, TypeNext DEF IInv
  <2>4. CommandCoherent'
    BY <2>2, CoherentStep
  <2>5. IssueBookkeeping'
    BY <2>2, BookkeepingStep
  <2>6. BarrierDrains'
    BY <2>2, BarrierStep
  <2>7. HaltQuiescent'
    BY <2>2, HaltStep
  <2>8. StartQuiescent'
    BY <2>2, StartStep
  <2>9. ErrorAttribution'
    BY <2>2, ErrorStep
  <2> QED BY <2>3, <2>4, <2>5, <2>6, <2>7, <2>8, <2>9 DEF IInv
<1>2. CASE UNCHANGED vars
  <2>1. TypeOK' /\ CommandCoherent' /\ IssueBookkeeping'
    BY <1>2 DEF IInv, vars, control, history, TypeOK, CommandCoherent,
       IssueBookkeeping, Decoded, DecodedTcMask
  <2>2. /\ \A u \in Unit : (Busy(u)' <=> Busy(u)) /\ (Failed(u)' <=> Failed(u))
        /\ UNCHANGED <<job, fence, state, issueTc, issueDma, startPulse, errCause>>
    BY <1>2 DEF vars, control, history, Busy, Failed
  <2>3. BarrierDrains' /\ ErrorAttribution'
    BY <2>2 DEF IInv, BarrierDrains, ErrorAttribution, KindOf, PortOf
  <2>4. HaltQuiescent' /\ StartQuiescent'
    BY <2>2 DEF IInv, HaltQuiescent, StartQuiescent, AnyUnitBusy
  <2> QED BY <2>1, <2>3, <2>4 DEF IInv
<1> QED BY <1>1, <1>2

\* Every part of the inductive invariant holds in every reachable state.
THEOREM Invariant == Spec => []IInv
BY InvInit, InvNext, PTL DEF Spec

\* No command issued before a retired barrier that covers its unit is still
\* running (control_fsm.scoreboard_busy, ST_WAIT_BARRIER), for any chip size.
THEOREM BarriersDrain == Spec => []BarrierDrains
BY Invariant, PTL DEF IInv

\* When the host sees done nothing runs and nothing is half issued (ST_HALT).
THEOREM HaltIsQuiescent == Spec => []HaltQuiescent
BY Invariant, PTL DEF IInv

\* A start the MMIO front end accepts finds every unit idle, done or failed.
THEOREM StartIsQuiescent == Spec => []StartQuiescent
BY Invariant, PTL DEF IInv

\* The command on the ports is the one DECODE selected, host writes to the
\* instruction memory notwithstanding.
THEOREM CommandsCoherent == Spec => []CommandCoherent
BY Invariant, PTL DEF IInv

\* error_code names a unit that has failed, and is set exactly in ST_ERROR.
THEOREM ErrorsAttributed == Spec => []ErrorAttribution
BY Invariant, PTL DEF IInv

\* A step retires the instruction at pc only from one of these.
LEMMA Retires ==
  ASSUME TypeOK, ControlStep, pc' = pc + 1
  PROVE  \/ Decoded.op \notin DmaOps \cup TcOps
         \/ state \in {"WAIT_BARRIER", "WAIT_HALT"}
         \/ Issue /\ AllIssued
<1>0. pc \in Nat
  BY DEF TypeOK
<1>1. ~(Start \/ Idle)
  BY <1>0 DEF Start, Idle
<1>2. ~(UnitError \/ Fetch \/ DecodeIllegal \/ DecodeDma \/ DecodeTc \/ Stopped)
  BY <1>0 DEF UnitError, Fetch, DecodeIllegal, DecodeDma, DecodeTc, Stopped, control
<1>3. CASE DecodeNop \/ DecodeHalt \/ DecodeBarrier
  BY <1>3 DEF DecodeNop, DecodeHalt, DecodeBarrier, DmaOps, TcOps
<1>4. CASE WaitBarrier \/ WaitHalt
  BY <1>4 DEF WaitBarrier, WaitHalt, InState
<1>5. CASE Issue
  BY <1>0, <1>5 DEF Issue
<1> QED BY <1>1, <1>2, <1>3, <1>4, <1>5 DEF ControlStep

\* The invariant makes every edge issue an instruction to a port at most once.
LEMMA IssueStep ==
  ASSUME IInv, ControlStep, NEW stop, NEW bad, UnitsStep(stop, bad)
  PROVE  IssueExactlyOnceStep
<1>0. TypeOK /\ CommandCoherent /\ IssueBookkeeping
  BY DEF IInv
<1>1. ASSUME NEW u \in Accepting PROVE lastIssue[PortOf(u)] < pc
  <2>1. state = "ISSUE"
    BY <1>0, <1>1, AcceptingFacts
  <2>2. CASE u = Dma /\ DmaValid
    <3>1. ~issuedDma /\ PortOf(u) = DmaPort
      BY <2>2 DEF DmaValid, PortOf, Dma, DmaPort
    <3> QED BY <1>0, <2>1, <3>1 DEF IssueBookkeeping
  <2>3. CASE \E t \in AcceptingTc : u = <<t, Dest(t)>>
    <3>1. PICK t \in AcceptingTc : u = <<t, Dest(t)>>
      BY <2>3
    <3>2. t \in TC /\ t \notin issuedTc /\ PortOf(u) = t
      BY <3>1 DEF AcceptingTc, TcValid, PortOf
    <3> QED BY <1>0, <2>1, <3>2 DEF IssueBookkeeping
  <2> QED BY <1>1, <2>2, <2>3 DEF Accepting
<1>2. ASSUME pc' = pc + 1, Decoded.op \in DmaOps \cup TcOps
      PROVE  Issue /\ AllIssued /\ state = "ISSUE" /\ Record({})
  <2>1. state \notin {"WAIT_BARRIER", "WAIT_HALT"}
    BY <1>0, <1>2 DEF IssueBookkeeping, DmaOps, TcOps
  <2>2. Issue /\ AllIssued
    BY <1>0, <1>2, <2>1, Retires
  <2> QED BY <2>2 DEF Issue, InState
<1>3. ASSUME pc' = pc + 1, Decoded.op \in DmaOps PROVE lastIssue'[DmaPort] = pc
  <2>1. Issue /\ AllIssued /\ state = "ISSUE" /\ Record({})
    BY <1>2, <1>3
  <2>2. issueDma /\ issueTc = {}
    BY <1>0, <1>3, <2>1 DEF CommandCoherent, DmaOps, TcOps
  <2>3. issuedDma \/ DmaReady
    BY <2>1, <2>2 DEF AllIssued
  <2>4. lastIssue'[DmaPort] = IF DmaValid /\ DmaReady THEN pc ELSE lastIssue[DmaPort]
    BY <1>0, <2>1, LastIssueStep
  <2>5. CASE issuedDma
    BY <1>0, <2>1, <2>4, <2>5 DEF IssueBookkeeping
  <2>6. CASE ~issuedDma
    BY <2>1, <2>2, <2>3, <2>4, <2>6 DEF DmaValid
  <2> QED BY <2>5, <2>6
<1>4. ASSUME pc' = pc + 1, Decoded.op \in TcOps, NEW t \in DecodedTcMask(Decoded)
      PROVE  lastIssue'[t] = pc
  <2>1. Issue /\ AllIssued /\ state = "ISSUE" /\ Record({})
    BY <1>2, <1>4
  <2>2. ~issueDma /\ issueTc = DecodedTcMask(Decoded)
    <3>1. Decoded.op \notin DmaOps
      BY <1>4 DEF DmaOps, TcOps
    <3>2. issueDma = (Decoded.op \in DmaOps)
      BY <1>0, <2>1 DEF CommandCoherent
    <3>3. issueTc = DecodedTcMask(Decoded)
      BY <1>0, <1>4, <2>1 DEF CommandCoherent
    <3> QED BY <3>1, <3>2, <3>3
  <2>3. t \in TC /\ t \in issuedTc \cup AcceptingTc
    BY <1>0, <1>4, <2>1, <2>2 DEF AllIssued, TypeOK
  <2>4. lastIssue'[t] = IF t \in AcceptingTc THEN pc ELSE lastIssue[t]
    BY <1>0, <2>1, <2>3, LastIssueStep
  <2> QED BY <1>0, <2>1, <2>3, <2>4 DEF IssueBookkeeping
<1> QED BY <1>1, <1>3, <1>4 DEF IssueExactlyOnceStep

\* No command port takes the same instruction twice, however long another port
\* keeps the instruction in ST_ISSUE, and none is skipped when it retires.
THEOREM IssuesExactlyOnce == Spec => IssueExactlyOnce
<1>1. IInv /\ [Next]_vars => [IssueExactlyOnceStep]_vars
  <2> SUFFICES ASSUME IInv, Next PROVE IssueExactlyOnceStep
    OBVIOUS
  <2>1. PICK stop, bad : Edge(stop, bad)
    BY DEF Next
  <2> QED BY <2>1, IssueStep DEF Edge
<1> QED BY <1>1, Invariant, PTL DEF Spec, IssueExactlyOnce


-----------------------------------------------------------------------------
(* The golden run                                                          *)

\* What GoldenAfter has to satisfy up to word n.
GoldenUpTo(P, m, n, g) ==
  /\ g = [k \in 0 .. n |-> g[k]]
  /\ g[0] = m
  /\ \A k \in 1 .. n : g[k] = GoldenStep(P, k - 1, g[k - 1])

\* The recursion of GoldenAfter has a solution of every length.
LEMMA GoldenExists ==
  ASSUME NEW P, NEW m, NEW n \in Nat
  PROVE  \E g : GoldenUpTo(P, m, n, g)
<1> DEFINE Missing == {k \in Nat : ~\E g : GoldenUpTo(P, m, k, g)}
<1> SUFFICES ASSUME Missing # {} PROVE FALSE
  OBVIOUS
<1>1. PICK k \in Missing : \A j \in Missing : k <= j
  <2>1. Missing \subseteq Nat
    OBVIOUS
  <2> HIDE DEF Missing
  <2> QED BY <2>1, LeastElement
<1>2. k \in Nat
  BY <1>1
<1>3. CASE k = 0
  <2> DEFINE g == [j \in 0 .. 0 |-> m]
  <2>1. GoldenUpTo(P, m, 0, g)
    BY DEF GoldenUpTo
  <2> QED BY <1>1, <1>3, <2>1
<1>4. CASE k # 0
  <2>1. k - 1 \in Nat /\ k - 1 \notin Missing
    BY <1>1, <1>2, <1>4
  <2>2. PICK g : GoldenUpTo(P, m, k - 1, g)
    BY <2>1
  <2> DEFINE h == [j \in 0 .. k |-> IF j = k THEN GoldenStep(P, k - 1, g[k - 1]) ELSE g[j]]
  <2>3. \A j \in 0 .. k : h[j] = IF j = k THEN GoldenStep(P, k - 1, g[k - 1]) ELSE g[j]
    OBVIOUS
  <2>4. h = [j \in 0 .. k |-> h[j]] /\ h[0] = m
    BY <1>2, <1>4, <2>2 DEF GoldenUpTo
  <2> HIDE DEF h
  <2>5. ASSUME NEW j \in 1 .. k PROVE h[j] = GoldenStep(P, j - 1, h[j - 1])
    <3>1. j - 1 \in 0 .. k /\ j - 1 # k /\ h[j - 1] = g[j - 1]
      BY <1>2, <2>3
    <3>2. CASE j = k
      BY <1>2, <2>3, <3>1, <3>2
    <3>3. CASE j # k
      <4>1. j \in 1 .. k - 1 /\ j \in 0 .. k
        BY <1>2, <3>3
      <4>2. g[j] = GoldenStep(P, j - 1, g[j - 1])
        BY <2>2, <4>1 DEF GoldenUpTo
      <4> QED BY <2>3, <3>1, <3>3, <4>1, <4>2
    <3> QED BY <3>2, <3>3
  <2>6. GoldenUpTo(P, m, k, h)
    BY <2>4, <2>5 DEF GoldenUpTo
  <2> QED BY <1>1, <2>6
<1> QED BY <1>3, <1>4

\* GoldenAfter is what its recursion says.
LEMMA GoldenUnfold ==
  ASSUME NEW P, NEW m
  PROVE  /\ GoldenAfter(P, m)[0] = m
         /\ \A n \in 0 .. Depth - 1 :
              GoldenAfter(P, m)[n + 1] = GoldenStep(P, n, GoldenAfter(P, m)[n])
<1> DEFINE Body(g) == [n \in 0 .. Depth |-> IF n = 0 THEN m ELSE GoldenStep(P, n - 1, g[n - 1])]
           after == CHOOSE g : g = Body(g)
<1>1. Depth \in Nat
  BY ConstantsOK
<1>2. PICK g : GoldenUpTo(P, m, Depth, g)
  BY <1>1, GoldenExists
<1>3. g = Body(g)
  <2>1. \A n \in 0 .. Depth : g[n] = IF n = 0 THEN m ELSE GoldenStep(P, n - 1, g[n - 1])
    <3> SUFFICES ASSUME NEW n \in 0 .. Depth
                 PROVE  g[n] = IF n = 0 THEN m ELSE GoldenStep(P, n - 1, g[n - 1])
      OBVIOUS
    <3>1. g[0] = m /\ \A k \in 1 .. Depth : g[k] = GoldenStep(P, k - 1, g[k - 1])
      BY <1>2 DEF GoldenUpTo
    <3>2. n = 0 \/ n \in 1 .. Depth
      BY <1>1
    <3> QED BY <3>1, <3>2
  <2>2. g = [n \in 0 .. Depth |-> g[n]]
    BY <1>2 DEF GoldenUpTo
  <2> QED BY <2>1, <2>2
<1>4. after = Body(after)
  <2> HIDE DEF Body
  <2> QED BY <1>3
<1>5. GoldenAfter(P, m) = after
  BY DEF GoldenAfter
<1>6. \A n \in 0 .. Depth : after[n] = IF n = 0 THEN m ELSE GoldenStep(P, n - 1, after[n - 1])
  <2> HIDE DEF after
  <2> QED BY <1>4
<1> HIDE DEF after
<1>7. after[0] = m
  BY <1>1, <1>6
<1>8. ASSUME NEW n \in 0 .. Depth - 1 PROVE after[n + 1] = GoldenStep(P, n, after[n])
  <2>1. n + 1 \in 0 .. Depth /\ n + 1 # 0 /\ n + 1 - 1 = n
    BY <1>1
  <2> QED BY <1>6, <2>1
<1> QED BY <1>5, <1>7, <1>8

\* Every golden memory is a memory.
LEMMA GoldenIsMemory ==
  ASSUME NEW P, NEW m, m = [c \in Cell |-> m[c]], NEW n \in 0 .. Depth
  PROVE  GoldenAfter(P, m)[n] = [c \in Cell |-> GoldenAfter(P, m)[n][c]]
<1> DEFINE G == GoldenAfter(P, m)
           Bad == {k \in 0 .. Depth : G[k] # [c \in Cell |-> G[k][c]]}
<1> SUFFICES ASSUME Bad # {} PROVE FALSE
  OBVIOUS
<1>0. /\ Depth \in Nat /\ G[0] = m
      /\ \A k \in 0 .. Depth - 1 : G[k + 1] = GoldenStep(P, k, G[k])
  BY ConstantsOK, GoldenUnfold
<1> HIDE DEF G
<1>1. PICK k \in Bad : \A j \in Bad : k <= j
  <2>1. Bad \subseteq Nat
    BY <1>0
  <2> HIDE DEF Bad
  <2> QED BY <2>1, LeastElement
<1>2. k \in 0 .. Depth /\ k # 0
  BY <1>0, <1>1
<1>3. k - 1 \in 0 .. Depth - 1 /\ k - 1 \notin Bad /\ (k - 1) + 1 = k
  BY <1>0, <1>1, <1>2
<1>4. G[k - 1] = [c \in Cell |-> G[k - 1][c]] /\ G[k] = GoldenStep(P, k - 1, G[k - 1])
  BY <1>0, <1>3
<1>5. G[k] = [c \in Cell |-> G[k][c]]
  BY <1>4 DEF GoldenStep
<1> QED BY <1>1, <1>5

\* A program with a HALT has a first one.
LEMMA FirstHalt ==
  ASSUME NEW P, \E h \in 0 .. Depth - 1 : P.image[h].op = "HALT"
  PROVE  HaltAt(P) \in 0 .. Depth - 1 /\ IsFirstHalt(P, HaltAt(P))
<1> DEFINE H == {h \in 0 .. Depth - 1 : P.image[h].op = "HALT"}
<1>0. Depth \in Nat
  BY ConstantsOK
<1>1. PICK h \in H : \A i \in H : h <= i
  <2>1. H \subseteq Nat /\ H # {}
    BY <1>0
  <2> HIDE DEF H
  <2> QED BY <2>1, LeastElement
<1>2. IsFirstHalt(P, h)
  BY <1>0, <1>1 DEF IsFirstHalt
<1> QED BY <1>1, <1>2 DEF HaltAt

-----------------------------------------------------------------------------
(* What a command reads and writes                                         *)

\* A TensorCore's command stays in the VMEM of the port it is on.
LEMMA Footprint ==
  ASSUME NEW P \in Programs, NEW i \in 0 .. Depth - 1, Command(P, i), NEW p \in Ports(P, i)
  PROVE  /\ p \in Port /\ (p = DmaPort <=> P.image[i].op \in DmaOps)
         /\ WritesCell(P, i, p) \in Cell /\ ReadsCells(P, i, p) \subseteq Cell
         /\ p # DmaPort => /\ WritesCell(P, i, p)[1] = p
                           /\ \A c \in ReadsCells(P, i, p) : c[1] = p
<1>1. P.operands[i].src \in Cell /\ P.operands[i].dst \in Cell
  BY ProgramAssumption DEF Operands
<1>2. DmaPort \in Port /\ TC \subseteq Port /\ DmaPort \notin TC
  BY ConstantsOK DEF Port, TC, DmaPort
<1>3. CASE P.image[i].op \in DmaOps
  <2>1. p = DmaPort
    BY <1>3 DEF Ports
  <2> QED BY <1>1, <1>2, <1>3, <2>1 DEF WritesCell, ReadsCells, At
<1>4. CASE P.image[i].op \notin DmaOps
  <2>1. P.image[i].op \in TcOps /\ p \in TC
    BY <1>4 DEF Command, Ports, DecodedTcMask
  <2>2. P.operands[i].src \in TC \X VmemCell /\ P.operands[i].dst \in TC \X VmemCell
    BY <2>1, ProgramAssumption
  <2>3. \A c \in TC \X VmemCell : At(p, c) \in Cell /\ At(p, c)[1] = p
    BY <1>2, <2>1 DEF At, Cell
  <2> QED BY <1>2, <1>4, <2>1, <2>2, <2>3 DEF WritesCell, ReadsCells
<1> QED BY <1>3, <1>4

\* A command's result depends on the cells it reads only.
LEMMA ResultReads ==
  ASSUME NEW P, NEW i, NEW p \in Ports(P, i), NEW m, NEW n,
         \A c \in ReadsCells(P, i, p) : m[c] = n[c]
  PROVE  ResultOf(P, i, p, m) = ResultOf(P, i, p, n)
<1> DEFINE o == P.operands[i]
<1>1. P.image[i].op # "CLEAR" => m[At(p, o.src)] = n[At(p, o.src)]
  BY DEF ReadsCells
<1>2. o.accumulate => m[At(p, o.dst)] = n[At(p, o.dst)]
  BY DEF ReadsCells
<1>3. P.image[i].op \in DmaOps => At(p, o.src) = o.src /\ P.image[i].op # "CLEAR"
  BY DEF Ports, At, DmaOps
<1> QED BY <1>1, <1>2, <1>3 DEF ResultOf

\* What the golden model does with a command, cell by cell.
LEMMA GoldenCommand ==
  ASSUME NEW P \in Programs, NEW i \in 0 .. Depth - 1, Command(P, i), NEW m
  PROVE  /\ \A p \in Ports(P, i) :
              GoldenStep(P, i, m)[WritesCell(P, i, p)] = ResultOf(P, i, p, m)
         /\ \A c \in Cell : (\A p \in Ports(P, i) : c # WritesCell(P, i, p)) =>
              GoldenStep(P, i, m)[c] = m[c]
<1>1. ASSUME NEW p \in Ports(P, i)
      PROVE  WriterPort(P, i, WritesCell(P, i, p)) = p
  BY Footprint DEF WriterPort
<1>2. \A p \in Ports(P, i) : WritesCell(P, i, p) \in Cell
  BY Footprint
<1> QED BY <1>1, <1>2 DEF GoldenStep

-----------------------------------------------------------------------------
(* The inductive invariant                                                 *)

\* The program is the one in the instruction memory, and its units do not fail.
ProgramTypeOK ==
  /\ program \in Programs /\ imem = program.image
  /\ memory = [c \in Cell |-> memory[c]] /\ memory0 = [c \in Cell |-> memory0[c]]
  /\ stage \in [Unit -> {"TODO", "READ", "WRITTEN"}]
  /\ value = [u \in Unit |-> value[u]]
  /\ ~AnyUnitError

\* Where the control path is in the program: at a word up to the first HALT, or
\* behind it when done; a start that comes a second time finds a run that has
\* only begun.
PlaceOK ==
  /\ pc <= HaltAt(program) + 1
  /\ (state = "HALT") = (pc = HaltAt(program) + 1)
  /\ state = "IDLE" => pc = 0
  /\ state = "WAIT_BARRIER" => barrierMask = Decoded.mask
  /\ startPulse => Startable \/ (state = "FETCH" /\ pc = 0)

\* Port p has taken the word at pc.
Taken(p) == lastIssue[p] = pc

\* A running unit works on a word its port has taken, for which it was selected,
\* and no two units of a port work on the same word.
JobsOK ==
  /\ \A p \in Port : /\ lastIssue[p] <= pc
                     /\ Taken(p) => state = "ISSUE" /\ p \in Ports(program, pc)
  /\ \A u \in Unit : Busy(u) =>
       /\ job[u] \in 0 .. HaltAt(program) /\ job[u] <= lastIssue[PortOf(u)]
       /\ Command(program, job[u]) /\ PortOf(u) \in Ports(program, job[u])
       /\ program.image[job[u]].op = "MATMUL" => u[2] \in MxuMask(program.image[job[u]])
  /\ \A u, v \in Unit : Busy(u) /\ Busy(v) /\ PortOf(u) = PortOf(v) /\ job[u] = job[v] => u = v

\* Word k has retired or was taken by port p.
Past(k, p) == k < pc \/ k <= lastIssue[p]

\* No word that waits for a running unit is past it.
OrderOK ==
  \A u \in Unit, k \in 0 .. HaltAt(program) :
    Busy(u) /\ job[u] < k /\ Past(k, PortOf(u)) => ~WaitsFor(program, k, job[u], PortOf(u))

\* The golden memory after the words that have retired and the one at pc where
\* a port has taken it.
Golden(n) == GoldenAfter(program, memory0)[n]
TakenAndWrites(p, c) ==
  Taken(p) /\ p \in Ports(program, pc) /\ c = WritesCell(program, pc, p)
GoldenNow(c) == IF \E p \in Port : TakenAndWrites(p, c)
                THEN Golden(pc + 1)[c] ELSE Golden(pc)[c]

Pending(u) == Busy(u) /\ stage[u] # "WRITTEN"
GoldenResult(u) == ResultOf(program, job[u], PortOf(u), Golden(job[u]))

\* A unit that has not written yet will write what the golden model has: its
\* operands are those the golden model read, or it holds the result already.
PendingOK ==
  \A u \in Unit : Pending(u) =>
    /\ stage[u] = "TODO" => \A c \in ReadsCells(program, job[u], PortOf(u)) :
                              memory[c] = Golden(job[u])[c]
    /\ stage[u] = "READ" => value[u] = GoldenResult(u)
    /\ GoldenNow(Target(u)) = GoldenResult(u)

\* Every other cell already holds what the golden model has.
CellsOK ==
  \A c \in Cell : (\A u \in Unit : Pending(u) => Target(u) # c) => memory[c] = GoldenNow(c)

PInv == /\ IInv /\ ProgramTypeOK
        /\ Fenced(program) => PlaceOK /\ JobsOK /\ OrderOK /\ PendingOK /\ CellsOK

-----------------------------------------------------------------------------
(* Steps                                                                   *)

\* An edge of a fenced program, from a state of the invariant.
RunStep(stop, progress) ==
  /\ PInv /\ Fenced(program)
  /\ stop \subseteq {u \in Unit : Busy(u) /\ stage[u] = "WRITTEN"}
  /\ progress \subseteq {u \in Unit : Busy(u) /\ stage[u] # "WRITTEN"}
  /\ ProgramEdge(stop, progress)

\* ChipProgram only restricts ChipControl and adds the data.
LEMMA StepRefines ==
  ASSUME NEW stop, NEW progress, ProgramEdge(stop, progress),
         stop \subseteq {u \in Unit : Busy(u) /\ stage[u] = "WRITTEN"}
  PROVE  Next
<1>1. Edge(stop, {})
  BY DEF ProgramEdge
<1>2. {} \in SUBSET MayFail /\ stop \in SUBSET (MayStop \ {})
  BY DEF MayStop
<1> QED BY <1>1, <1>2 DEF Next

LEMMA NextRefines == [ProgramNext]_progVars => [Next]_vars
<1>1. CASE ProgramNext
  <2>1. PICK stop \in SUBSET {u \in Unit : Busy(u) /\ stage[u] = "WRITTEN"},
             progress \in SUBSET {u \in Unit : Busy(u) /\ stage[u] # "WRITTEN"} :
          ProgramEdge(stop, progress)
    BY <1>1 DEF ProgramNext
  <2> QED BY <2>1, StepRefines
<1>2. CASE UNCHANGED progVars
  BY <1>2 DEF progVars
<1> QED BY <1>1, <1>2

\* What every step lemma starts from.
LEMMA Basics ==
  ASSUME NEW stop, NEW progress, RunStep(stop, progress)
  PROVE  /\ IInv /\ TypeOK /\ CommandCoherent /\ IssueBookkeeping /\ ProgramTypeOK
         /\ PlaceOK /\ JobsOK /\ OrderOK /\ PendingOK /\ CellsOK /\ Fenced(program)
         /\ ControlStep /\ UnitsStep(stop, {}) /\ HostStep /\ DataStep(progress)
         /\ ~AnyUnitError /\ imem' = imem /\ program' = program /\ program \in Programs
         /\ pc \in Nat /\ Depth \in Nat \ {0} /\ HaltAt(program) \in 0 .. Depth - 1
         /\ program.image[HaltAt(program)].op = "HALT"
         /\ \A i \in 0 .. HaltAt(program) - 1 : program.image[i].op # "HALT"
         /\ state # "HALT" => pc \in 0 .. HaltAt(program) /\ Decoded = program.image[pc]
<1>1. IInv /\ ProgramTypeOK /\ Fenced(program)
      /\ PlaceOK /\ JobsOK /\ OrderOK /\ PendingOK /\ CellsOK
  BY DEF RunStep, PInv
<1>2. TypeOK /\ CommandCoherent /\ IssueBookkeeping /\ pc \in Nat
  BY <1>1 DEF IInv, TypeOK
<1>3. /\ ControlStep /\ UnitsStep(stop, {}) /\ HostStep /\ DataStep(progress)
      /\ imem' = imem /\ program' = program
  BY DEF RunStep, ProgramEdge, Edge, DataStep
<1>4. ~AnyUnitError /\ program \in Programs /\ imem = program.image
  BY <1>1 DEF ProgramTypeOK
<1>5. Depth \in Nat \ {0}
  BY ConstantsOK
<1>6. HaltAt(program) \in 0 .. Depth - 1 /\ IsFirstHalt(program, HaltAt(program))
  BY <1>1, FirstHalt DEF Fenced
<1>7. state # "HALT" => pc \in 0 .. HaltAt(program)
  <2>1. pc <= HaltAt(program) + 1 /\ (state = "HALT") = (pc = HaltAt(program) + 1)
    BY <1>1 DEF PlaceOK
  <2>2. HaltAt(program) \in Nat
    BY <1>5, <1>6
  <2> QED BY <1>2, <2>1, <2>2
<1>8. state # "HALT" => Decoded = program.image[pc]
  <2>1. pc \in 0 .. HaltAt(program) => pc % Depth = pc
    BY <1>5, <1>6
  <2> QED BY <1>4, <1>7, <2>1 DEF Decoded
<1> QED BY <1>1, <1>2, <1>3, <1>4, <1>5, <1>6, <1>7, <1>8 DEF IsFirstHalt

\* An edge that is not a start stays at its word, goes on to the next one, or
\* retires HALT; the kinds a barrier has drained have no busy unit.
LEMMA ControlCases ==
  ASSUME NEW stop, NEW progress, RunStep(stop, progress), ~Start
  PROVE  /\ \E drained :
              /\ Record(drained)
              /\ \A u \in Unit : KindOf(u) \in drained => ~Busy(u)
              /\ \/ /\ pc' = pc /\ (state' = "HALT") = (state = "HALT")
                    /\ state' = "IDLE" => state = "IDLE"
                    /\ state = "ISSUE" => state' = "ISSUE"
                 \/ /\ pc' = pc + 1 /\ state' = "FETCH" /\ state # "HALT" /\ Decoded.op # "HALT"
                    /\ Decoded.op = "BARRIER" => drained = KindsOf(Decoded.mask)
                 \/ /\ pc' = pc + 1 /\ state' = "HALT" /\ state # "HALT" /\ Decoded.op = "HALT"
         /\ state' = "WAIT_BARRIER" => barrierMask' = Decoded.mask /\ pc' = pc
<1>0. /\ IInv /\ TypeOK /\ IssueBookkeeping /\ CommandCoherent /\ PlaceOK /\ ControlStep
      /\ ~AnyUnitError /\ pc \in Nat
  BY Basics
<1>1. CASE Idle
  BY <1>0, <1>1 DEF Idle, InState, PlaceOK
<1>2. CASE Fetch \/ DecodeIllegal \/ DecodeDma \/ DecodeTc
  BY <1>2 DEF Fetch, DecodeIllegal, DecodeDma, DecodeTc, EnterError, InState
<1>3. CASE DecodeNop
  BY <1>3 DEF DecodeNop, RetireAndFetch, InState
<1>4. CASE Stopped
  BY <1>4 DEF Stopped, control, InState
<1>5. CASE Issue
  <2>1. state = "ISSUE" /\ Record({})
    BY <1>5 DEF Issue, InState
  <2>2. CASE ~AllIssued
    BY <1>5, <2>1, <2>2 DEF Issue
  <2>3. CASE AllIssued
    <3>1. issueDma \/ issueTc # {}
      BY <2>3 DEF AllIssued
    <3>2. Decoded.op \in DmaOps \cup TcOps
      BY <1>0, <2>1, <3>1 DEF CommandCoherent
    <3>3. Decoded.op \notin {"HALT", "BARRIER"}
      BY <3>2 DEF DmaOps, TcOps
    <3> QED BY <1>5, <2>1, <2>3, <3>3 DEF Issue, RetireAndFetch
  <2> QED BY <2>2, <2>3
<1>6. CASE DecodeHalt \/ WaitHalt
  <2>1. state \in {"DECODE", "WAIT_HALT"} /\ Decoded.op = "HALT"
    BY <1>0, <1>6 DEF DecodeHalt, WaitHalt, InState, IssueBookkeeping
  <2>2. CASE HaltMustWait
    BY <1>6, <2>1, <2>2 DEF DecodeHalt, WaitHalt
  <2>3. CASE ~HaltMustWait
    <3>1. Record(Kind) /\ pc' = pc + 1 /\ state' = "HALT"
      BY <1>6, <2>3 DEF DecodeHalt, WaitHalt, RetireHalt
    <3>2. \A u \in Unit : ~Busy(u)
      BY <2>3 DEF HaltMustWait, AnyUnitBusy
    <3> QED BY <2>1, <3>1, <3>2
  <2> QED BY <2>2, <2>3
<1>7. ASSUME Decoded.op = "BARRIER", ~ScoreboardBusy(Decoded.mask)
      PROVE  \A u \in Unit : KindOf(u) \in KindsOf(Decoded.mask) => ~Busy(u)
  <2> SUFFICES ASSUME NEW u \in Unit, KindOf(u) \in KindsOf(Decoded.mask) PROVE ~Busy(u)
    OBVIOUS
  <2>1. CASE u = Dma /\ KindOf(u) = "dma"
    BY <1>7, <2>1 DEF KindsOf, ScoreboardBusy
  <2>2. CASE (\E t \in TC, c \in Child : u = <<t, c>>) /\ KindOf(u) = "tc"
    BY <1>7, <2>2 DEF KindsOf, ScoreboardBusy, TcBusy
  <2> QED BY <2>1, <2>2, Kinds
<1>8. CASE DecodeBarrier
  <2>1. state = "DECODE" /\ Decoded.op = "BARRIER" /\ barrierMask' = Decoded.mask
    BY <1>8 DEF DecodeBarrier, InState
  <2>2. CASE ScoreboardBusy(Decoded.mask)
    BY <1>8, <2>1, <2>2 DEF DecodeBarrier
  <2>3. CASE ~ScoreboardBusy(Decoded.mask)
    BY <1>7, <1>8, <2>1, <2>3 DEF DecodeBarrier, RetireAndFetch
  <2> QED BY <2>2, <2>3
<1>9. CASE WaitBarrier
  <2>1. /\ state = "WAIT_BARRIER" /\ Decoded.op = "BARRIER" /\ barrierMask = Decoded.mask
        /\ barrierMask' = barrierMask
    BY <1>0, <1>9 DEF WaitBarrier, InState, IssueBookkeeping, PlaceOK
  <2>2. CASE ScoreboardBusy(Decoded.mask)
    BY <1>9, <2>1, <2>2 DEF WaitBarrier
  <2>3. CASE ~ScoreboardBusy(Decoded.mask)
    BY <1>7, <1>9, <2>1, <2>3 DEF WaitBarrier, RetireAndFetch
  <2> QED BY <2>2, <2>3
<1>10. ~UnitError
  BY <1>0 DEF UnitError
<1> QED BY <1>0, <1>1, <1>2, <1>3, <1>4, <1>5, <1>6, <1>8, <1>9, <1>10 DEF ControlStep

\* Nobody runs when a run starts.
LEMMA StartFacts ==
  ASSUME NEW stop, NEW progress, RunStep(stop, progress), Start
  PROVE  /\ ~AnyUnitBusy /\ ~AnyUnitBusy' /\ startPulse
         /\ pc' = 0 /\ state' = "FETCH" /\ \A p \in Port : lastIssue'[p] = -1
<1>1. startPulse /\ state # "ISSUE"
  BY DEF Start, Startable
<1>2. ~AnyUnitBusy
  BY <1>1, Basics DEF IInv, StartQuiescent
<1>3. ~AnyUnitBusy'
  BY <1>1, <1>2, Basics, NoNewBusy
<1> QED BY <1>1, <1>2, <1>3 DEF Start

\* A unit that takes the word at pc was selected for it, its port had not taken
\* it, and no unit of its port runs that the word has to wait for.
LEMMA AcceptFacts ==
  ASSUME NEW stop, NEW progress, RunStep(stop, progress), NEW u \in Accepting
  PROVE  /\ u \in Unit /\ unit[u] = "IDLE" /\ state = "ISSUE" /\ pc \in 0 .. HaltAt(program)
         /\ Command(program, pc) /\ PortOf(u) \in Ports(program, pc) /\ PortOf(u) \in Port
         /\ lastIssue[PortOf(u)] < pc
         /\ program.image[pc].op = "MATMUL" => u[2] \in MxuMask(program.image[pc])
         /\ \A v \in Accepting : PortOf(v) = PortOf(u) => v = u
         /\ \A v \in Unit : Busy(v) /\ PortOf(v) = PortOf(u) =>
              ~WaitsFor(program, pc, job[v], PortOf(v))
<1>0. /\ IInv /\ TypeOK /\ CommandCoherent /\ JobsOK /\ ControlStep /\ UnitsStep(stop, {})
      /\ Depth \in Nat \ {0} /\ HaltAt(program) \in 0 .. Depth - 1
  BY Basics
<1>1. u \in Unit /\ unit[u] = "IDLE" /\ state = "ISSUE"
  BY <1>0, AcceptingFacts
<1>2. pc \in 0 .. HaltAt(program) /\ Decoded = program.image[pc]
  BY <1>1, Basics
<1>3. lastIssue[PortOf(u)] < pc
  BY <1>0, IssueStep DEF IssueExactlyOnceStep
<1>4. DmaPort \notin TC /\ TC \subseteq Port /\ DmaPort \in Port
  BY ConstantsOK DEF TC, DmaPort, Port
<1>5. \A v \in Accepting : v = Dma \/ \E t \in AcceptingTc : v = <<t, Dest(t)>>
  BY DEF Accepting
<1>6. AcceptingTc \subseteq TC
  BY DEF AcceptingTc
<1>7. \A v \in Accepting : PortOf(v) = PortOf(u) => v = u
  BY <1>4, <1>5, <1>6 DEF PortOf, Dma, DmaPort
<1>8. Decoded.op = "BARRIER" => Decoded.op \notin DmaOps \cup TcOps
  BY DEF DmaOps, TcOps
<1>9. CASE u = Dma /\ DmaValid
  <2>1. Decoded.op \in DmaOps /\ PortOf(u) = DmaPort /\ Decoded.op # "MATMUL"
    BY <1>0, <1>1, <1>9 DEF DmaValid, CommandCoherent, PortOf, Dma, DmaPort, DmaOps
  <2>2. \A v \in Unit : PortOf(v) = DmaPort => v = Dma
    BY <1>4, Kinds
  <2>3. \A v \in Unit : PortOf(v) = DmaPort => ~Busy(v)
    BY <1>1, <1>9, <2>2 DEF Busy
  <2>4. Command(program, pc) /\ PortOf(u) \in Ports(program, pc)
    BY <1>2, <2>1 DEF Command, Ports
  <2> QED BY <1>1, <1>2, <1>3, <1>4, <1>7, <2>1, <2>3, <2>4
<1>10. CASE \E t \in AcceptingTc : u = <<t, Dest(t)>>
  <2>1. PICK t \in AcceptingTc : u = <<t, Dest(t)>>
    BY <1>10
  <2>2. t \in TC /\ t \in issueTc /\ TcReady(t) /\ PortOf(u) = t
    BY <2>1 DEF AcceptingTc, TcValid, PortOf
  <2>3. Decoded.op \in TcOps /\ t \in DecodedTcMask(Decoded)
    BY <1>0, <1>1, <2>2 DEF CommandCoherent
  <2>4. Decoded.op \notin DmaOps /\ Decoded.op # "BARRIER"
    BY <2>3 DEF TcOps, DmaOps
  <2>5. Command(program, pc) /\ PortOf(u) \in Ports(program, pc)
    BY <1>2, <2>2, <2>3, <2>4 DEF Command, Ports
  <2>6. CASE Decoded.op = "MATMUL"
    <3>1. Eligible(t) # {} /\ Dest(t) = ChosenMxu(t)
      BY <2>2, <2>6 DEF TcReady, Dest
    <3>2. ChosenMxu(t) \in Eligible(t)
      BY <1>0, <2>2, <3>1, ChosenIsEligible DEF TypeOK
    <3>3. u[2] \in MxuMask(Decoded) /\ ~Busy(u)
      BY <2>1, <3>1, <3>2 DEF Eligible
    <3>4. ASSUME NEW v \in Unit, Busy(v), PortOf(v) = t,
                 WaitsFor(program, pc, job[v], t)
          PROVE  FALSE
      <4>1. /\ program.image[job[v]].op = "MATMUL"
            /\ SingleMxu(Decoded) # {}
            /\ SingleMxu(Decoded) = SingleMxu(program.image[job[v]])
        BY <1>2, <2>4, <2>6, <3>4 DEF WaitsFor
      <4>2. v[2] \in MxuMask(program.image[job[v]])
        BY <1>0, <3>4, <4>1 DEF JobsOK
      <4>3. PICK m \in Mxu : MxuMask(Decoded) = {m} /\ SingleMxu(Decoded) = {m}
        BY <4>1 DEF SingleMxu
      <4>4. MxuMask(program.image[job[v]]) = {m}
        BY <4>1, <4>3 DEF SingleMxu
      <4>5. v[2] = m /\ u[2] = m /\ v[1] = t /\ u[1] = t
        BY <2>1, <3>3, <3>4, <4>2, <4>3, <4>4 DEF PortOf
      <4>6. v # Dma /\ u # Dma
        BY <1>4, <2>2, <4>5 DEF Dma, DmaPort
      <4>7. v = u
        BY <1>1, <3>4, <4>5, <4>6 DEF Unit
      <4> QED BY <3>3, <3>4, <4>7
    <3> QED BY <1>1, <1>2, <1>3, <1>4, <1>7, <2>2, <2>5, <3>3, <3>4
  <2>7. CASE Decoded.op # "MATMUL"
    <3>1. ~TcBusy(t)
      BY <2>2, <2>7 DEF TcReady
    <3>2. \A v \in Unit : PortOf(v) = t => \E c \in Child : v = <<t, c>>
      BY <1>4, <2>2, Kinds DEF PortOf
    <3>3. \A v \in Unit : PortOf(v) = t => ~Busy(v)
      BY <3>1, <3>2 DEF TcBusy
    <3> QED BY <1>1, <1>2, <1>3, <1>4, <1>7, <2>2, <2>5, <2>7, <3>3
  <2> QED BY <2>6, <2>7
<1> QED BY <1>9, <1>10 DEF Accepting

\* What an edge does to a running unit's job and to the ports.
LEMMA EdgeFacts ==
  ASSUME NEW stop, NEW progress, RunStep(stop, progress), ~Start
  PROVE  /\ \A p \in Port : \/ lastIssue'[p] = lastIssue[p] /\ \A w \in Accepting : PortOf(w) # p
                            \/ lastIssue'[p] = pc /\ \E w \in Accepting : PortOf(w) = p
         /\ \A u \in Unit : Busy(u)' =>
              \/ u \in Accepting /\ job'[u] = pc /\ lastIssue'[PortOf(u)] = pc
              \/ Busy(u) /\ u \notin Accepting /\ job'[u] = job[u]
<1>0. TypeOK /\ CommandCoherent /\ UnitsStep(stop, {})
  BY Basics
<1>1. PICK drained : Record(drained)
  BY ControlCases
<1>2. \A p \in Port : lastIssue'[p] = IF p \in {PortOf(u) : u \in Accepting} THEN pc ELSE lastIssue[p]
  BY <1>1 DEF Record
<1>3. ASSUME NEW u \in Unit, Busy(u)'
      PROVE  \/ u \in Accepting /\ job'[u] = pc /\ lastIssue'[PortOf(u)] = pc
             \/ Busy(u) /\ u \notin Accepting /\ job'[u] = job[u]
  <2>1. job'[u] = IF u \in Accepting THEN pc ELSE job[u]
    BY <1>1 DEF Record
  <2>2. Busy(u) \/ u \in Accepting
    BY <1>0, <1>3, UnitStepFacts
  <2>3. PortOf(u) \in Port
    BY Kinds, ConstantsOK DEF Port, TC, DmaPort
  <2> QED BY <1>2, <2>1, <2>2, <2>3
<1>4. ASSUME NEW p \in Port
      PROVE  \/ lastIssue'[p] = lastIssue[p] /\ \A w \in Accepting : PortOf(w) # p
             \/ lastIssue'[p] = pc /\ \E w \in Accepting : PortOf(w) = p
  BY <1>2
<1>5. \A p \in Port : \/ lastIssue'[p] = lastIssue[p] /\ \A w \in Accepting : PortOf(w) # p
                      \/ lastIssue'[p] = pc /\ \E w \in Accepting : PortOf(w) = p
  BY <1>4
<1>6. \A u \in Unit : Busy(u)' =>
        \/ u \in Accepting /\ job'[u] = pc /\ lastIssue'[PortOf(u)] = pc
        \/ Busy(u) /\ u \notin Accepting /\ job'[u] = job[u]
  BY <1>3
<1> QED BY <1>5, <1>6

\* The place in the program.
LEMMA PlaceStep ==
  ASSUME NEW stop, NEW progress, RunStep(stop, progress)
  PROVE  PlaceOK'
<1> DEFINE H == HaltAt(program)
<1>0. /\ PlaceOK /\ pc \in Nat /\ H \in Nat /\ program' = program /\ imem' = imem
      /\ program.image[H] .op = "HALT" /\ HostStep /\ TypeOK
      /\ \A i \in 0 .. H - 1 : program.image[i].op # "HALT"
      /\ state # "HALT" => pc \in 0 .. H /\ Decoded = program.image[pc]
  BY Basics
<1>1. startPulse' => MayStart
  BY <1>0 DEF HostStep, HostOther, HostStart, HostWriteInstr
<1>2. HaltAt(program)' = H
  BY <1>0
<1>3. CASE Start
  <2>1. state' = "FETCH" /\ pc' = 0
    BY <1>3 DEF Start
  <2> QED BY <1>0, <1>2, <2>1 DEF PlaceOK, Startable
<1>4. CASE ~Start
  <2>1. (startPulse => ~Startable) /\ (startPulse' => state \in {"IDLE", "HALT", "ERROR"})
    <3>1. startPulse' => ~ControlBusy
      BY <1>1 DEF MayStart, ChipBusy, ControlBusy
    <3>2. startPulse /\ Startable => Start
      BY <1>0, Basics, <1>4 DEF ControlStep, UnitError, Idle, Fetch, DecodeIllegal, DecodeNop, DecodeHalt,
         DecodeBarrier, DecodeDma, DecodeTc, Issue, WaitBarrier, WaitHalt, Stopped, InState
    <3> QED BY <1>4, <3>1, <3>2 DEF ControlBusy
  <2>2. startPulse' => state' = state
    <3>1. state \in {"IDLE", "HALT", "ERROR"} => state' = state
      BY Basics, <1>4 DEF ControlStep, UnitError, Idle, Fetch, DecodeIllegal, DecodeNop, DecodeHalt,
         DecodeBarrier, DecodeDma, DecodeTc, Issue, WaitBarrier, WaitHalt, Stopped, InState, control
    <3> QED BY <2>1, <3>1
  <2>3. startPulse' => Startable'
    BY <2>1, <2>2 DEF Startable
  <2>4. state' = "WAIT_BARRIER" => barrierMask' = Decoded.mask /\ pc' = pc
    BY <1>4, ControlCases
  <2>5. state' = "WAIT_BARRIER" => barrierMask' = Decoded'.mask
    BY <1>0, <2>4 DEF Decoded
  <2>6. pc' <= H + 1 /\ (state' = "HALT") = (pc' = H + 1) /\ (state' = "IDLE" => pc' = 0)
    <3>1. CASE /\ pc' = pc /\ (state' = "HALT") = (state = "HALT")
               /\ state' = "IDLE" => state = "IDLE"
      BY <1>0, <3>1 DEF PlaceOK
    <3>2. CASE pc' = pc + 1 /\ state' = "FETCH" /\ state # "HALT" /\ Decoded.op # "HALT"
      <4>1. pc # H
        BY <1>0, <3>2
      <4> QED BY <1>0, <3>2, <4>1
    <3>3. CASE pc' = pc + 1 /\ state' = "HALT" /\ state # "HALT" /\ Decoded.op = "HALT"
      <4>1. pc = H
        BY <1>0, <3>3
      <4> QED BY <3>3, <4>1
    <3> QED BY <1>4, <3>1, <3>2, <3>3, ControlCases
  <2> QED BY <1>2, <2>3, <2>5, <2>6 DEF PlaceOK
<1> QED BY <1>3, <1>4

\* Jobs and ports.
LEMMA JobsStep ==
  ASSUME NEW stop, NEW progress, RunStep(stop, progress)
  PROVE  JobsOK'
<1> DEFINE H == HaltAt(program)
           PortPart == \A p \in Port : /\ lastIssue'[p] <= pc'
                                       /\ lastIssue'[p] = pc' =>
                                            state' = "ISSUE" /\ p \in Ports(program, pc')
           UnitPart(u) ==
             /\ job'[u] \in 0 .. H /\ job'[u] <= lastIssue'[PortOf(u)]
             /\ Command(program, job'[u]) /\ PortOf(u) \in Ports(program, job'[u])
             /\ program.image[job'[u]].op = "MATMUL" => u[2] \in MxuMask(program.image[job'[u]])
           Alone(u, v) == PortOf(u) = PortOf(v) /\ job'[u] = job'[v] => u = v
<1>0. /\ JobsOK /\ TypeOK /\ CommandCoherent /\ UnitsStep(stop, {}) /\ pc \in Nat
      /\ program' = program /\ H \in Nat
      /\ \A p \in Port : lastIssue[p] \in Int
      /\ \A u \in Unit : PortOf(u) \in Port
  <2>1. \A u \in Unit : PortOf(u) \in Port
    BY Kinds, ConstantsOK DEF Port, TC, DmaPort
  <2>2. TypeOK
    BY Basics
  <2>3. \A p \in Port : lastIssue[p] \in Int
    BY <2>2 DEF TypeOK
  <2> QED BY <2>1, <2>3, Basics
<1>1. SUFFICES /\ PortPart
               /\ \A u \in Unit : Busy(u)' => UnitPart(u)
               /\ \A u, v \in Unit : Busy(u)' /\ Busy(v)' => Alone(u, v)
  BY <1>0 DEF JobsOK, Taken, PortOf
<1>2. CASE Start
  <2>1. pc' = 0 /\ (\A p \in Port : lastIssue'[p] = -1) /\ \A u \in Unit : ~Busy(u)'
    BY <1>2, StartFacts DEF AnyUnitBusy, Unit, Dma, TC, Child
  <2> QED BY <2>1
<1>3. CASE ~Start
  <2>1. PortPart
    <3> SUFFICES ASSUME NEW p \in Port
                 PROVE  /\ lastIssue'[p] <= pc'
                        /\ lastIssue'[p] = pc' => state' = "ISSUE" /\ p \in Ports(program, pc')
      OBVIOUS
    <3>1. lastIssue[p] <= pc /\ (lastIssue[p] = pc => state = "ISSUE" /\ p \in Ports(program, pc))
      BY <1>0 DEF JobsOK, Taken
    <3>2. \/ lastIssue'[p] = lastIssue[p]
          \/ lastIssue'[p] = pc /\ state = "ISSUE" /\ p \in Ports(program, pc)
      BY <1>3, EdgeFacts, AcceptFacts
    <3>3. CASE pc' = pc /\ (state = "ISSUE" => state' = "ISSUE")
      BY <1>0, <3>1, <3>2, <3>3
    <3>4. CASE pc' = pc + 1
      BY <1>0, <3>1, <3>2, <3>4
    <3> QED BY <1>3, <3>3, <3>4, ControlCases
  <2>2. ASSUME NEW u \in Unit, Busy(u)' PROVE UnitPart(u)
    <3>1. CASE u \in Accepting /\ job'[u] = pc /\ lastIssue'[PortOf(u)] = pc
      BY <1>0, <3>1, AcceptFacts
    <3>2. CASE Busy(u) /\ job'[u] = job[u]
      <4>1. job[u] \in 0 .. H /\ job[u] <= lastIssue[PortOf(u)] /\ lastIssue[PortOf(u)] <= pc
        BY <1>0, <2>2, <3>2 DEF JobsOK
      <4>2. lastIssue'[PortOf(u)] \in {lastIssue[PortOf(u)], pc}
        BY <1>0, <1>3, EdgeFacts
      <4>3. job'[u] <= lastIssue'[PortOf(u)]
        BY <1>0, <3>2, <4>1, <4>2
      <4> QED BY <1>0, <3>2, <4>1, <4>3 DEF JobsOK
    <3> QED BY <1>3, <2>2, <3>1, <3>2, EdgeFacts
  <2>3. ASSUME NEW u \in Unit, NEW v \in Unit, Busy(u)', Busy(v)',
               PortOf(u) = PortOf(v), job'[u] = job'[v]
        PROVE  u = v
    <3>1. CASE u \in Accepting /\ v \in Accepting
      BY <2>3, <3>1, AcceptFacts
    <3>2. ASSUME NEW x \in Unit, NEW y \in Unit, x \in Accepting, y \notin Accepting,
                 Busy(x)', Busy(y)', PortOf(x) = PortOf(y), job'[x] = job'[y]
          PROVE  FALSE
      <4>1. job'[x] = pc /\ lastIssue[PortOf(x)] < pc
        BY <1>3, <3>2, EdgeFacts, AcceptFacts
      <4>2. Busy(y) /\ job'[y] = job[y]
        BY <1>3, <3>2, EdgeFacts
      <4>3. job[y] <= lastIssue[PortOf(y)] /\ job[y] \in Int
        BY <1>0, <4>2 DEF JobsOK
      <4>4. lastIssue[PortOf(x)] \in Int /\ pc \in Int
        BY <1>0, <3>2
      <4>5. job[y] = pc /\ job[y] <= lastIssue[PortOf(x)]
        BY <3>2, <4>1, <4>2, <4>3
      <4> QED BY <4>1, <4>4, <4>5
    <3>3. CASE u \notin Accepting /\ v \notin Accepting
      <4>1. Busy(u) /\ Busy(v) /\ job[u] = job[v]
        BY <1>3, <2>3, <3>3, EdgeFacts
      <4> QED BY <1>0, <2>3, <4>1 DEF JobsOK
    <3> QED BY <2>3, <3>1, <3>2, <3>3
  <2> QED BY <2>1, <2>2, <2>3
<1> QED BY <1>2, <1>3

\* No word that waits for a running unit gets past it.
LEMMA OrderStep ==
  ASSUME NEW stop, NEW progress, RunStep(stop, progress)
  PROVE  OrderOK'
<1> DEFINE H == HaltAt(program)
<1>0. /\ OrderOK /\ JobsOK /\ IInv /\ TypeOK /\ CommandCoherent /\ ControlStep /\ UnitsStep(stop, {})
      /\ pc \in Nat /\ program' = program /\ H \in Nat
      /\ \A p \in Port : lastIssue[p] \in Int /\ lastIssue[p] <= pc
      /\ \A u \in Unit : PortOf(u) \in Port
  <2>1. \A u \in Unit : PortOf(u) \in Port
    BY Kinds, ConstantsOK DEF Port, TC, DmaPort
  <2>2. TypeOK /\ JobsOK
    BY Basics
  <2>3. \A p \in Port : lastIssue[p] \in Int /\ lastIssue[p] <= pc
    BY <2>2 DEF TypeOK, JobsOK
  <2> QED BY <2>1, <2>3, Basics
<1>1. SUFFICES ASSUME NEW u \in Unit, NEW k \in 0 .. H, Busy(u)', job'[u] < k,
                      k < pc' \/ k <= lastIssue'[PortOf(u)],
                      WaitsFor(program, k, job'[u], PortOf(u))
               PROVE  FALSE
  BY <1>0 DEF OrderOK, Past, PortOf
<1>2. ~Start
  BY <1>1, StartFacts DEF AnyUnitBusy
<1> DEFINE p == PortOf(u)
<1>3. p \in Port /\ \/ lastIssue'[p] = lastIssue[p] /\ \A w \in Accepting : PortOf(w) # p
                    \/ lastIssue'[p] = pc /\ \E w \in Accepting : PortOf(w) = p
  BY <1>0, <1>2, EdgeFacts
<1>4. pc' = pc \/ pc' = pc + 1
  BY <1>2, ControlCases
<1>5. CASE u \in Accepting /\ job'[u] = pc
  BY <1>0, <1>1, <1>3, <1>4, <1>5
<1>6. CASE Busy(u) /\ job'[u] = job[u]
  <2>1. ~Past(k, p)
    BY <1>0, <1>1, <1>6 DEF OrderOK
  <2>2. k = pc /\ lastIssue[p] # pc /\ (pc' = pc + 1 \/ \E w \in Accepting : PortOf(w) = p)
    BY <1>0, <1>1, <1>3, <1>4, <2>1 DEF Past
  <2>3. \A w \in Accepting : PortOf(w) # p
    BY <1>1, <1>6, <2>2, AcceptFacts
  <2>4. pc' = pc + 1 /\ lastIssue'[p] = lastIssue[p]
    BY <1>3, <2>2, <2>3
  <2>5. IssueExactlyOnceStep
    BY <1>0, IssueStep
  <2>6. state # "HALT" /\ Decoded = program.image[pc]
    <3>1. pc # pc + 1
      BY <1>0
    <3>2. state # "HALT"
      BY <1>2, <2>4, <3>1, ControlCases
    <3> QED BY <3>2, Basics
  <2>7. WaitsFor(program, pc, job[u], p)
    BY <1>1, <1>6, <2>2
  <2>8. CASE Decoded.op = "BARRIER"
    <3>1. PICK drained : /\ \A v \in Unit : KindOf(v) \in drained => ~Busy(v)
                         /\ drained = KindsOf(Decoded.mask)
      <4>1. pc # pc + 1 /\ Decoded.op # "HALT"
        BY <1>0, <2>8
      <4> QED BY <1>2, <2>4, <2>8, <4>1, ControlCases
    <3>2. KindOf(u) \in KindsOf(Decoded.mask)
      BY <2>6, <2>7, <2>8 DEF WaitsFor, KindOf, DmaOps
    <3> QED BY <1>6, <3>1, <3>2
  <2>9. CASE Decoded.op \in DmaOps
    <3>1. p = DmaPort
      BY <2>6, <2>7, <2>9 DEF WaitsFor, DmaOps
    <3> QED BY <2>2, <2>4, <2>5, <2>9, <3>1 DEF IssueExactlyOnceStep
  <2>10. CASE Decoded.op \in TcOps
    <3>1. p \in Ports(program, pc) /\ Decoded.op \notin DmaOps
      BY <2>6, <2>7, <2>10 DEF WaitsFor, TcOps, DmaOps
    <3>2. p \in DecodedTcMask(Decoded)
      BY <2>6, <3>1 DEF Ports
    <3> QED BY <2>2, <2>4, <2>5, <2>10, <3>2 DEF IssueExactlyOnceStep
  <2> QED BY <2>6, <2>7, <2>8, <2>9, <2>10 DEF WaitsFor, TcOps
<1> QED BY <1>1, <1>2, <1>5, <1>6, EdgeFacts

-----------------------------------------------------------------------------
(* Race freedom                                                            *)

\* Commands of two TensorCores do not meet.
LEMMA ApartByPort ==
  ASSUME NEW P \in Programs, NEW i \in 0 .. Depth - 1, NEW j \in 0 .. Depth - 1,
         Command(P, i), Command(P, j), NEW p \in Ports(P, i), NEW q \in Ports(P, j),
         p # q, p # DmaPort, q # DmaPort
  PROVE  ~Conflict(P, i, p, j, q)
<1>1. WritesCell(P, i, p)[1] = p /\ \A c \in ReadsCells(P, i, p) : c[1] = p
  BY Footprint
<1>2. WritesCell(P, j, q)[1] = q /\ \A c \in ReadsCells(P, j, q) : c[1] = q
  BY Footprint
<1> QED BY <1>1, <1>2 DEF Conflict

LEMMA ConflictSymmetric ==
  ASSUME NEW P, NEW i, NEW j, NEW p, NEW q, Conflict(P, i, p, j, q)
  PROVE  Conflict(P, j, q, i, p)
BY DEF Conflict

\* What race freedom follows from.
OrderInv == TypeOK /\ ProgramTypeOK /\ JobsOK /\ OrderOK /\ Fenced(program)

LEMMA NoRaces == OrderInv => RaceFree
<1> SUFFICES ASSUME OrderInv PROVE RaceFree
  OBVIOUS
<1> DEFINE P == program
           H == HaltAt(P)
<1>0. /\ P \in Programs /\ H \in 0 .. Depth - 1 /\ Depth \in Nat \ {0} /\ pc \in Nat
      /\ \A p \in Port : lastIssue[p] \in Int /\ lastIssue[p] <= pc
  BY ConstantsOK, FirstHalt DEF OrderInv, ProgramTypeOK, Fenced, TypeOK, JobsOK
<1>1. ASSUME NEW u \in Unit, Busy(u)
      PROVE  /\ job[u] \in 0 .. H /\ job[u] \in 0 .. Depth - 1 /\ job[u] <= lastIssue[PortOf(u)]
             /\ Command(P, job[u]) /\ PortOf(u) \in Ports(P, job[u]) /\ PortOf(u) \in Port
  <2>1. /\ job[u] \in 0 .. H /\ job[u] <= lastIssue[PortOf(u)]
        /\ Command(P, job[u]) /\ PortOf(u) \in Ports(P, job[u])
    BY <1>1 DEF OrderInv, JobsOK
  <2>2. job[u] \in 0 .. Depth - 1
    BY <1>0, <2>1
  <2> QED BY <1>0, <2>1, <2>2, Footprint
<1>2. ASSUME NEW u \in Unit, NEW v \in Unit, u # v, Busy(u), Busy(v), job[u] = job[v]
      PROVE  ~Conflict(P, job[u], PortOf(u), job[v], PortOf(v))
  <2>1. PortOf(u) # PortOf(v)
    BY <1>2 DEF OrderInv, JobsOK
  <2>2. PortOf(u) # DmaPort /\ PortOf(v) # DmaPort
    BY <1>0, <1>1, <1>2, <2>1, Footprint
  <2> QED BY <1>0, <1>1, <1>2, <2>1, <2>2, ApartByPort
<1>3. ASSUME NEW u \in Unit, NEW v \in Unit, Busy(u), Busy(v), job[u] < job[v],
             Conflict(P, job[u], PortOf(u), job[v], PortOf(v))
      PROVE  FALSE
  <2> DEFINE i == job[u]
             j == job[v]
             p == PortOf(u)
             q == PortOf(v)
  <2>1. /\ i \in 0 .. H /\ j \in 0 .. H /\ Command(P, i) /\ Command(P, j)
        /\ p \in Ports(P, i) /\ q \in Ports(P, j) /\ p \in Port /\ q \in Port
        /\ j <= lastIssue[q]
    BY <1>1, <1>3
  <2>2. PICK k \in i + 1 .. j : WaitsFor(P, k, i, p)
    BY <1>3, <2>1 DEF OrderInv, Fenced
  <2>3. k \in 0 .. H /\ i < k /\ k <= j
    BY <1>0, <2>1
  <2>4. ~Past(k, p)
    BY <1>3, <2>2, <2>3 DEF OrderInv, OrderOK
  <2>5. k = j /\ lastIssue[p] < j
    <3>1. k >= pc /\ k > lastIssue[p]
      BY <1>0, <2>1, <2>3, <2>4 DEF Past
    <3>2. j <= pc
      BY <1>0, <2>1
    <3> QED BY <1>0, <2>1, <2>3, <3>1, <3>2
  <2>6. p # q
    BY <1>0, <2>1, <2>5
  <2>7. P.image[j].op # "BARRIER"
    BY <2>1 DEF Command, DmaOps, TcOps
  <2>8. P.image[j].op \in DmaOps => q = DmaPort
    BY <2>1 DEF Ports
  <2>9. P.image[j].op \notin DmaOps /\ p \in Ports(P, j)
    BY <2>2, <2>5, <2>6, <2>7, <2>8 DEF WaitsFor, DmaOps
  <2>10. p # DmaPort /\ q # DmaPort
    BY <1>0, <1>1, <1>3, <2>1, <2>9, Footprint
  <2> QED BY <1>0, <1>1, <1>3, <2>1, <2>6, <2>10, ApartByPort
<1>4. ASSUME NEW u \in Unit, NEW v \in Unit, u # v, Busy(u), Busy(v)
      PROVE  ~Conflict(P, job[u], PortOf(u), job[v], PortOf(v))
  <2>1. job[u] \in Int /\ job[v] \in Int
    BY <1>1, <1>4
  <2>2. CASE job[u] = job[v]
    BY <1>2, <1>4, <2>2
  <2>3. CASE job[u] < job[v]
    BY <1>3, <1>4, <2>3
  <2>4. CASE job[v] < job[u]
    BY <1>3, <1>4, <2>4, ConflictSymmetric
  <2> QED BY <2>1, <2>2, <2>3, <2>4
<1> QED BY <1>4 DEF RaceFree

-----------------------------------------------------------------------------
(* Data                                                                    *)

\* What one edge does to the data.
LEMMA DataFacts ==
  ASSUME NEW stop, NEW progress, RunStep(stop, progress)
  PROVE  /\ \A c \in Cell :
              \/ \E v \in progress : /\ stage[v] = "READ" /\ Target(v) = c
                                     /\ memory'[c] = value[v]
              \/ /\ \A v \in progress : stage[v] = "READ" => Target(v) # c
                 /\ memory'[c] = memory[c]
         /\ \A u \in Accepting : Busy(u)' /\ stage'[u] = "TODO" /\ ~Busy(u)
         /\ \A u \in Unit : Pending(u) => Busy(u)'
         /\ \A u \in Unit : Busy(u) =>
              \/ u \notin progress /\ stage'[u] = stage[u] /\ value'[u] = value[u]
              \/ u \in progress /\ stage[u] = "TODO" /\ stage'[u] = "READ" /\ value'[u] = Result(u)
              \/ u \in progress /\ stage[u] = "READ" /\ stage'[u] = "WRITTEN"
<1> DEFINE writers == {u \in progress : stage[u] = "READ"}
<1>0. /\ TypeOK /\ CommandCoherent /\ ProgramTypeOK /\ UnitsStep(stop, {}) /\ DataStep(progress)
      /\ progress \subseteq {u \in Unit : Busy(u) /\ stage[u] # "WRITTEN"}
      /\ stop \subseteq {u \in Unit : Busy(u) /\ stage[u] = "WRITTEN"}
  BY Basics DEF RunStep
<1>1. \A u \in Accepting : u \in Unit /\ unit[u] = "IDLE"
  BY <1>0, AcceptingFacts
<1>2. ASSUME NEW c \in Cell
      PROVE  \/ \E v \in progress : stage[v] = "READ" /\ Target(v) = c /\ memory'[c] = value[v]
             \/ /\ \A v \in progress : stage[v] = "READ" => Target(v) # c
                /\ memory'[c] = memory[c]
  <2> DEFINE here == {u \in writers : Target(u) = c}
  <2>1. memory'[c] = IF here = {} THEN memory[c] ELSE value[CHOOSE u \in here : TRUE]
    BY <1>0, <1>2 DEF DataStep
  <2>2. here # {} => (CHOOSE u \in here : TRUE) \in here
    OBVIOUS
  <2>3. CASE here = {}
    BY <2>1, <2>3
  <2>4. CASE here # {}
    <3>1. PICK v \in here : memory'[c] = value[v]
      BY <2>1, <2>2, <2>4
    <3> QED BY <3>1
  <2> QED BY <2>3, <2>4
<1>3. \A u \in Accepting : Busy(u)' /\ stage'[u] = "TODO" /\ ~Busy(u)
  BY <1>0, <1>1 DEF UnitsStep, DataStep, Busy
<1>4. \A u \in Unit : Pending(u) => Busy(u)'
  BY <1>0, <1>1 DEF UnitsStep, Pending, Busy
<1>5. ASSUME NEW u \in Unit, Busy(u)
      PROVE  \/ u \notin progress /\ stage'[u] = stage[u] /\ value'[u] = value[u]
             \/ u \in progress /\ stage[u] = "TODO" /\ stage'[u] = "READ" /\ value'[u] = Result(u)
             \/ u \in progress /\ stage[u] = "READ" /\ stage'[u] = "WRITTEN"
  <2>1. u \notin Accepting
    BY <1>1, <1>5 DEF Busy
  <2>2. u \in progress => stage[u] \in {"TODO", "READ"}
    BY <1>0 DEF ProgramTypeOK
  <2>3. CASE u \notin progress
    BY <1>0, <2>1, <2>3 DEF DataStep, ProgramTypeOK
  <2>4. CASE u \in progress /\ stage[u] = "TODO"
    BY <1>0, <2>1, <2>4 DEF DataStep, ProgramTypeOK
  <2>5. CASE u \in progress /\ stage[u] = "READ"
    BY <1>0, <2>1, <2>5 DEF DataStep, ProgramTypeOK
  <2> QED BY <2>2, <2>3, <2>4, <2>5
<1> QED BY <1>2, <1>3, <1>4, <1>5

LEMMA DataTypeStep ==
  ASSUME IInv, ProgramTypeOK, NEW stop, NEW progress, ProgramEdge(stop, progress)
  PROVE  ProgramTypeOK'
<1>1. program' \in Programs /\ imem' = program'.image
  BY DEF ProgramEdge, DataStep, ProgramTypeOK
<1>2. memory' = [c \in Cell |-> memory'[c]] /\ memory0' = [c \in Cell |-> memory0'[c]]
  <2>1. memory' = [c \in Cell |-> memory'[c]]
    BY DEF ProgramEdge, DataStep
  <2>2. memory0' \in {memory, memory0}
    BY DEF ProgramEdge, DataStep
  <2> QED BY <2>1, <2>2 DEF ProgramTypeOK
<1>3. stage' \in [Unit -> {"TODO", "READ", "WRITTEN"}]
  BY DEF ProgramEdge, DataStep, ProgramTypeOK
<1>4. value' = [u \in Unit |-> value'[u]]
  BY DEF ProgramEdge, DataStep
<1>5. ~AnyUnitError'
  <2>1. \A u \in Unit : unit'[u] # "ERROR"
    BY DEF ProgramEdge, Edge, UnitsStep, ProgramTypeOK, AnyUnitError, Failed
  <2> QED BY <2>1 DEF AnyUnitError, Failed, Unit, Dma, TC, Child
<1> QED BY <1>1, <1>2, <1>3, <1>4, <1>5 DEF ProgramTypeOK

\* A start pulse either starts the run now or finds it at its first fetch, with
\* the memory it began with.
LEMMA Memory0Kept ==
  ASSUME NEW stop, NEW progress, RunStep(stop, progress), ~Start
  PROVE  memory0' = memory0
<1>0. /\ PlaceOK /\ CellsOK /\ ProgramTypeOK /\ IInv /\ IssueBookkeeping /\ DataStep(progress)
      /\ ControlStep
  BY Basics
<1>1. startPulse => state = "FETCH" /\ pc = 0
  <2>1. startPulse /\ Startable => Start
    BY <1>0 DEF ControlStep, UnitError, Idle, Fetch, DecodeIllegal, DecodeNop, DecodeHalt,
       DecodeBarrier, DecodeDma, DecodeTc, Issue, WaitBarrier, WaitHalt, Stopped, InState
  <2> QED BY <1>0, <2>1 DEF PlaceOK
<1>2. CASE ~startPulse
  BY <1>0, <1>2 DEF DataStep
<1>3. CASE startPulse
  <2>1. \A u \in Unit : ~Pending(u)
    BY <1>0, <1>3 DEF IInv, StartQuiescent, AnyUnitBusy, Pending
  <2>2. \A p \in Port : ~Taken(p)
    BY <1>0, <1>1, <1>3 DEF IssueBookkeeping, Taken
  <2>3. \A c \in Cell : memory[c] = memory0[c]
    BY <1>0, <1>1, <1>3, <2>1, <2>2, GoldenUnfold DEF CellsOK, GoldenNow, TakenAndWrites, Golden
  <2>4. memory = memory0
    BY <1>0, <2>3 DEF ProgramTypeOK
  <2> QED BY <1>0, <2>4 DEF DataStep
<1> QED BY <1>2, <1>3

\* The golden memory a cell is compared with changes only when a unit takes a
\* word that writes the cell, and then to that word's golden result.
LEMMA NowStep ==
  ASSUME NEW stop, NEW progress, RunStep(stop, progress), ~Start, NEW c \in Cell
  PROVE  /\ \A n : Golden(n)' = Golden(n)
         /\ \A w \in Accepting : WritesCell(program, pc, PortOf(w)) = c =>
              GoldenNow(c)' = ResultOf(program, pc, PortOf(w), Golden(pc))
         /\ (\A w \in Accepting : WritesCell(program, pc, PortOf(w)) # c) =>
              GoldenNow(c)' = GoldenNow(c)
<1> DEFINE Writes(p) == p \in Ports(program, pc) /\ c = WritesCell(program, pc, p)
           New == \E w \in Accepting : WritesCell(program, pc, PortOf(w)) = c
           Old == \E p \in Port : Taken(p) /\ Writes(p)
<1>0. /\ IInv /\ TypeOK /\ ControlStep /\ UnitsStep(stop, {}) /\ JobsOK
      /\ program' = program /\ program \in Programs
      /\ pc \in Nat /\ HaltAt(program) \in 0 .. Depth - 1 /\ Depth \in Nat \ {0}
      /\ memory0' = memory0 /\ JobsOK'
  BY Basics, Memory0Kept, JobsStep
<1>1. \A n : Golden(n)' = Golden(n)
  BY <1>0 DEF Golden
<1>2. GoldenNow(c) = IF Old THEN Golden(pc + 1)[c] ELSE Golden(pc)[c]
  BY DEF GoldenNow, TakenAndWrites
<1>3. GoldenNow(c)' = IF \E p \in Port : Taken(p)' /\ p \in Ports(program, pc') /\ c = WritesCell(program, pc', p)
                      THEN Golden(pc' + 1)[c] ELSE Golden(pc')[c]
  BY <1>0 DEF GoldenNow, TakenAndWrites, Golden
<1>4. pc \in 0 .. Depth - 1 => Golden(pc + 1) = GoldenStep(program, pc, Golden(pc))
  BY GoldenUnfold DEF Golden
<1>5. ASSUME NEW w \in Accepting
      PROVE  pc \in 0 .. Depth - 1 /\ Command(program, pc) /\ PortOf(w) \in Ports(program, pc)
             /\ PortOf(w) \in Port
  BY <1>0, AcceptFacts
<1>6. ASSUME NEW w \in Accepting, WritesCell(program, pc, PortOf(w)) = c
      PROVE  Golden(pc + 1)[c] = ResultOf(program, pc, PortOf(w), Golden(pc))
  BY <1>0, <1>4, <1>5, <1>6, GoldenCommand
<1>7. CASE pc' = pc
  <2>1. \A p \in Port : Taken(p)' <=> Taken(p) \/ \E w \in Accepting : PortOf(w) = p
    BY <1>7, EdgeFacts DEF Taken
  <2>2. GoldenNow(c)' = IF Old \/ New THEN Golden(pc + 1)[c] ELSE Golden(pc)[c]
    <3>1. New => \E w \in Accepting : PortOf(w) \in Port /\ Writes(PortOf(w))
      BY <1>5
    <3>2. (\E p \in Port : Taken(p)' /\ Writes(p)) <=> Old \/ New
      BY <2>1, <3>1
    <3> QED BY <1>3, <1>7, <3>2
  <2>3. ASSUME NEW w \in Accepting, WritesCell(program, pc, PortOf(w)) = c
        PROVE  GoldenNow(c)' = ResultOf(program, pc, PortOf(w), Golden(pc))
    BY <1>6, <2>2, <2>3
  <2>4. ASSUME ~New PROVE GoldenNow(c)' = GoldenNow(c)
    BY <1>2, <2>2, <2>4
  <2> QED BY <1>1, <2>3, <2>4
<1>8. CASE pc' = pc + 1
  <2>1. \A p \in Port : ~Taken(p)'
    <3>1. \A p \in Port : lastIssue'[p] = pc \/ lastIssue'[p] = lastIssue[p]
      BY EdgeFacts
    <3>2. \A p \in Port : lastIssue[p] \in Int /\ lastIssue[p] <= pc
      BY <1>0 DEF TypeOK, JobsOK
    <3> QED BY <1>0, <1>8, <3>1, <3>2 DEF Taken
  <2>2. GoldenNow(c)' = Golden(pc + 1)[c]
    BY <1>3, <1>8, <2>1
  <2>3. pc \in 0 .. Depth - 1
    <3>1. pc # pc + 1
      BY <1>0
    <3>2. state # "HALT"
      BY <1>8, <3>1, ControlCases
    <3> QED BY <1>0, <3>2, Basics
  <2>4. ASSUME ~New PROVE Golden(pc + 1)[c] = GoldenNow(c)
    <3>1. CASE Old
      BY <1>2, <3>1
    <3>2. CASE ~Old /\ ~Command(program, pc)
      BY <1>2, <1>4, <2>3, <3>2 DEF GoldenStep
    <3>3. CASE ~Old /\ Command(program, pc)
      <4>1. ASSUME NEW p \in Ports(program, pc) PROVE c # WritesCell(program, pc, p)
        <5>1. lastIssue'[p] = pc /\ p \in Port
          <6>1. p \in Port
            BY <1>0, <2>3, <3>3, Footprint
          <6>2. IssueExactlyOnceStep
            BY <1>0, IssueStep
          <6>3. Decoded = program.image[pc]
            <7>1. pc # pc + 1
              BY <1>0
            <7>2. state # "HALT"
              BY <1>8, <7>1, ControlCases
            <7> QED BY <7>2, Basics
          <6>4. CASE Decoded.op \in DmaOps
            BY <1>8, <4>1, <6>1, <6>2, <6>3, <6>4 DEF Ports, IssueExactlyOnceStep
          <6>5. CASE Decoded.op \notin DmaOps
            <7>1. Decoded.op \in TcOps
              BY <3>3, <6>3, <6>5 DEF Command
            <7>2. p \in DecodedTcMask(Decoded)
              BY <4>1, <6>3, <6>5 DEF Ports
            <7> QED BY <1>8, <6>1, <6>2, <7>1, <7>2 DEF IssueExactlyOnceStep
          <6> QED BY <6>4, <6>5
        <5>2. Taken(p) \/ \E w \in Accepting : PortOf(w) = p
          BY <5>1, EdgeFacts DEF Taken
        <5> QED BY <2>4, <3>3, <4>1, <5>1, <5>2
      <4>2. GoldenStep(program, pc, Golden(pc))[c] = Golden(pc)[c]
        BY <1>0, <2>3, <3>3, <4>1, GoldenCommand
      <4> QED BY <1>2, <1>4, <2>3, <3>3, <4>2
    <3> QED BY <3>1, <3>2, <3>3
  <2>5. ASSUME NEW w \in Accepting, WritesCell(program, pc, PortOf(w)) = c
        PROVE  GoldenNow(c)' = ResultOf(program, pc, PortOf(w), Golden(pc))
    BY <1>6, <2>2, <2>5
  <2>6. ASSUME ~New PROVE GoldenNow(c)' = GoldenNow(c)
    BY <2>2, <2>4, <2>6
  <2> QED BY <1>1, <2>5, <2>6
<1> QED BY <1>7, <1>8, ControlCases

\* Units that run together do not meet, and neither does a unit that takes the
\* word at pc with one that has still to write.
LEMMA Apart ==
  ASSUME NEW stop, NEW progress, RunStep(stop, progress), ~Start
  PROVE  /\ \A u, v \in Unit : u # v /\ Busy(u) /\ Busy(v) =>
              ~Conflict(program, job[u], PortOf(u), job[v], PortOf(v))
         /\ \A u \in Unit, w \in Accepting : Pending(u) =>
              ~Conflict(program, job[u], PortOf(u), pc, PortOf(w))
<1>0. /\ IInv /\ TypeOK /\ ProgramTypeOK /\ JobsOK /\ OrderOK /\ Fenced(program)
      /\ program' = program /\ ProgramEdge(stop, progress)
      /\ stop \subseteq {u \in Unit : Busy(u) /\ stage[u] = "WRITTEN"}
  BY Basics DEF RunStep
<1>1. RaceFree
  BY <1>0, NoRaces DEF OrderInv
<1>2. RaceFree'
  <2>1. (OrderInv => RaceFree)'
    BY NoRaces, PTL
  <2>2. TypeOK'
    BY <1>0, StepRefines, TypeNext
  <2>3. ProgramTypeOK'
    BY <1>0, DataTypeStep
  <2>4. Fenced(program)'
    BY <1>0
  <2> QED BY <2>1, <2>2, <2>3, <2>4, JobsStep, OrderStep DEF OrderInv
<1>3. \A u, v \in Unit : u # v /\ Busy(u)' /\ Busy(v)' =>
        ~Conflict(program, job'[u], PortOf(u), job'[v], PortOf(v))
  BY <1>0, <1>2 DEF RaceFree, PortOf
<1>4. ASSUME NEW u \in Unit, NEW w \in Accepting, Pending(u)
      PROVE  ~Conflict(program, job[u], PortOf(u), pc, PortOf(w))
  <2>1. Busy(u) /\ Busy(u)' /\ Busy(w)' /\ ~Busy(w) /\ w \in Unit /\ u # w
    BY <1>4, DataFacts, AcceptFacts DEF Pending
  <2>2. job'[u] = job[u]
    BY <2>1, EdgeFacts, DataFacts
  <2>3. job'[w] = pc
    BY <2>1, EdgeFacts
  <2> QED BY <1>3, <2>1, <2>2, <2>3
<1> QED BY <1>0, <1>1, <1>4 DEF RaceFree

\* A unit that takes the word at pc finds the operands the golden model has.
LEMMA AcceptedPending ==
  ASSUME NEW stop, NEW progress, RunStep(stop, progress), ~Start, NEW u \in Accepting,
         NEW c \in ReadsCells(program, pc, PortOf(u))
  PROVE  memory'[c] = Golden(pc)[c]
<1> DEFINE p == PortOf(u)
<1>0. /\ CellsOK /\ JobsOK /\ program \in Programs /\ pc \in 0 .. Depth - 1
      /\ Command(program, pc) /\ p \in Ports(program, pc) /\ lastIssue[p] < pc
      /\ progress \subseteq {v \in Unit : Pending(v)}
  <2>1. pc \in 0 .. Depth - 1
    BY Basics, AcceptFacts
  <2>2. progress \subseteq {v \in Unit : Pending(v)}
    BY DEF RunStep, Pending
  <2> QED BY <2>1, <2>2, Basics, AcceptFacts
<1>1. c \in Cell
  BY <1>0, Footprint
<1>2. ASSUME NEW v \in Unit, Pending(v) PROVE Target(v) # c
  <2>1. ~Conflict(program, job[v], PortOf(v), pc, p)
    BY <1>2, Apart
  <2> QED BY <2>1 DEF Conflict, Target
<1>3. memory'[c] = memory[c]
  BY <1>0, <1>1, <1>2, DataFacts
<1>4. memory[c] = GoldenNow(c)
  BY <1>0, <1>1, <1>2 DEF CellsOK
<1>5. ASSUME NEW q \in Port, TakenAndWrites(q, c) PROVE FALSE
  <2>1. q \in Ports(program, pc) /\ c = WritesCell(program, pc, q) /\ lastIssue[q] = pc
    BY <1>5 DEF TakenAndWrites, Taken
  <2>2. q # p
    BY <1>0, <2>1
  <2>3. p # DmaPort /\ q # DmaPort
    BY <1>0, <2>1, <2>2, Footprint
  <2>4. c[1] = p /\ c[1] = q
    BY <1>0, <2>1, <2>3, Footprint
  <2> QED BY <2>2, <2>4
<1> QED BY <1>3, <1>4, <1>5 DEF GoldenNow

\* What a unit that has not written yet reads, holds and will write.
LEMMA PendingStep ==
  ASSUME NEW stop, NEW progress, RunStep(stop, progress)
  PROVE  PendingOK'
<1> DEFINE G == GoldenAfter(program, memory0)
           NewNow(c) == IF \E q \in Port : /\ lastIssue'[q] = pc' /\ q \in Ports(program, pc')
                                           /\ c = WritesCell(program, pc', q)
                        THEN G[pc' + 1][c] ELSE G[pc'][c]
<1>0. /\ PendingOK /\ JobsOK /\ program \in Programs /\ program' = program
      /\ HaltAt(program) \in 0 .. Depth - 1 /\ Depth \in Nat
      /\ progress \subseteq {v \in Unit : Pending(v)}
  BY Basics DEF RunStep, Pending
<1>1. CASE Start
  BY <1>1, StartFacts DEF PendingOK, Pending, AnyUnitBusy
<1>2. ASSUME ~Start PROVE PendingOK'
  <2> DEFINE Fine(u) ==
        /\ stage'[u] = "TODO" => \A c \in ReadsCells(program, job'[u], PortOf(u)) :
                                   memory'[c] = G[job'[u]][c]
        /\ stage'[u] = "READ" => value'[u] = ResultOf(program, job'[u], PortOf(u), G[job'[u]])
        /\ NewNow(WritesCell(program, job'[u], PortOf(u))) =
             ResultOf(program, job'[u], PortOf(u), G[job'[u]])
  <2>1. memory0' = memory0
    BY <1>2, Memory0Kept
  <2>2. SUFFICES ASSUME NEW u \in Unit, Busy(u)', stage'[u] # "WRITTEN" PROVE Fine(u)
    BY <1>0, <2>1 DEF PendingOK, Pending, GoldenResult, GoldenNow, TakenAndWrites, Taken, Golden,
       Target, PortOf
  <2>3. \A c \in Cell : NewNow(c) = GoldenNow(c)'
    BY <1>0, <2>1 DEF GoldenNow, TakenAndWrites, Taken, Golden
  <2>4. \A n : Golden(n) = G[n]
    BY DEF Golden
  <2> HIDE DEF NewNow, G
  <2> DEFINE p == PortOf(u)
  <2>5. CASE u \in Accepting /\ job'[u] = pc
    <3>1. stage'[u] = "TODO"
      BY <2>5, DataFacts
    <3>2. \A c \in ReadsCells(program, pc, p) : memory'[c] = G[pc][c]
      BY <1>2, <2>4, <2>5, AcceptedPending
    <3>3. WritesCell(program, pc, p) \in Cell
      <4>1. pc \in 0 .. Depth - 1 /\ Command(program, pc) /\ p \in Ports(program, pc)
        BY <1>0, <2>5, AcceptFacts
      <4> QED BY <1>0, <4>1, Footprint
    <3>4. \A c \in Cell : c = WritesCell(program, pc, p) =>
                            NewNow(c) = ResultOf(program, pc, p, G[pc])
      BY <1>2, <2>3, <2>4, <2>5, NowStep
    <3> QED BY <2>5, <3>1, <3>2, <3>3, <3>4
  <2>6. CASE Busy(u) /\ job'[u] = job[u]
    <3>1. /\ Pending(u) /\ job[u] \in 0 .. Depth - 1 /\ Command(program, job[u])
          /\ p \in Ports(program, job[u])
      <4>1. stage[u] # "WRITTEN"
        BY <2>2, <2>6, DataFacts
      <4>2. job[u] \in 0 .. Depth - 1
        BY <1>0, <2>6 DEF JobsOK
      <4> QED BY <1>0, <2>6, <4>1, <4>2 DEF JobsOK, Pending
    <3>2. WritesCell(program, job[u], p) \in Cell /\ ReadsCells(program, job[u], p) \subseteq Cell
      BY <1>0, <3>1, Footprint
    <3>3. /\ stage[u] = "TODO" => \A c \in ReadsCells(program, job[u], p) :
                                   memory[c] = G[job[u]][c]
          /\ stage[u] = "READ" => value[u] = ResultOf(program, job[u], p, G[job[u]])
          /\ GoldenNow(WritesCell(program, job[u], p)) = ResultOf(program, job[u], p, G[job[u]])
      BY <1>0, <2>4, <3>1 DEF PendingOK, GoldenResult, Target
    <3>4. ASSUME stage'[u] = "TODO", NEW c \in ReadsCells(program, job[u], p)
          PROVE  memory'[c] = G[job[u]][c]
      <4>1. stage[u] = "TODO"
        BY <2>6, <3>4, DataFacts
      <4>2. ASSUME NEW v \in progress, stage[v] = "READ" PROVE Target(v) # c
        <5>1. v \in Unit /\ Busy(v) /\ v # u
          BY <1>0, <4>1, <4>2 DEF Pending
        <5>2. ~Conflict(program, job[v], PortOf(v), job[u], p)
          BY <1>2, <2>6, <5>1, Apart
        <5> QED BY <3>4, <5>2 DEF Conflict, Target
      <4>3. memory'[c] = memory[c]
        BY <3>2, <3>4, <4>2, DataFacts
      <4> QED BY <3>3, <3>4, <4>1, <4>3
    <3>5. ASSUME stage'[u] = "READ"
          PROVE  value'[u] = ResultOf(program, job[u], p, G[job[u]])
      <4>1. CASE stage[u] = "READ" /\ value'[u] = value[u]
        BY <3>3, <4>1
      <4>2. CASE stage[u] = "TODO" /\ value'[u] = Result(u)
        <5>1. ResultOf(program, job[u], p, memory) = ResultOf(program, job[u], p, G[job[u]])
          BY <3>1, <3>3, <4>2, ResultReads
        <5> QED BY <4>2, <5>1 DEF Result
      <4> QED BY <2>6, <3>5, <4>1, <4>2, DataFacts
    <3>6. NewNow(WritesCell(program, job[u], p)) = GoldenNow(WritesCell(program, job[u], p))
      <4> DEFINE c == WritesCell(program, job[u], p)
      <4>1. ASSUME NEW w \in Accepting PROVE WritesCell(program, pc, PortOf(w)) # c
        <5>1. ~Conflict(program, job[u], p, pc, PortOf(w))
          BY <1>2, <3>1, Apart
        <5> QED BY <5>1 DEF Conflict
      <4>2. \A d \in Cell : (\A w \in Accepting : WritesCell(program, pc, PortOf(w)) # d) =>
                              NewNow(d) = GoldenNow(d)
        BY <1>2, <2>3, NowStep
      <4> QED BY <3>2, <4>1, <4>2
    <3> QED BY <2>6, <3>3, <3>4, <3>5, <3>6
  <2> QED BY <1>2, <2>2, <2>5, <2>6, EdgeFacts
<1> QED BY <1>1, <1>2

\* The cells nobody will write any more.
LEMMA CellsStep ==
  ASSUME NEW stop, NEW progress, RunStep(stop, progress)
  PROVE  CellsOK'
<1>0. /\ PendingOK /\ CellsOK /\ program' = program /\ DataStep(progress)
      /\ progress \subseteq {v \in Unit : Pending(v)}
  BY Basics DEF RunStep, Pending
<1>1. SUFFICES ASSUME NEW c \in Cell,
                      \A u \in Unit : Busy(u)' /\ stage'[u] # "WRITTEN" =>
                                        WritesCell(program, job'[u], PortOf(u)) # c
               PROVE  memory'[c] = GoldenNow(c)'
  BY <1>0 DEF CellsOK, Pending, Target, PortOf
<1>2. CASE Start
  <2>1. (\A u \in Unit : ~Pending(u)) /\ startPulse /\ pc' = 0
        /\ \A p \in Port : lastIssue'[p] # pc'
    BY <1>2, StartFacts DEF AnyUnitBusy, Pending
  <2>2. memory'[c] = memory[c] /\ memory0' = memory
    BY <1>0, <2>1, DataFacts DEF DataStep
  <2>3. GoldenNow(c)' = GoldenAfter(program, memory)[0][c]
    BY <1>0, <2>1, <2>2 DEF GoldenNow, TakenAndWrites, Taken, Golden
  <2> QED BY <2>2, <2>3, GoldenUnfold
<1>3. CASE ~Start
  <2>1. ASSUME NEW w \in Accepting PROVE WritesCell(program, pc, PortOf(w)) # c
    <3>1. w \in Unit /\ Busy(w)' /\ ~Busy(w) /\ stage'[w] = "TODO"
      BY AcceptFacts, DataFacts
    <3>2. job'[w] = pc
      BY <1>3, <3>1, EdgeFacts
    <3> QED BY <1>1, <3>1, <3>2
  <2>2. GoldenNow(c)' = GoldenNow(c)
    BY <1>3, <2>1, NowStep
  <2>3. CASE \E v \in progress : stage[v] = "READ" /\ Target(v) = c /\ memory'[c] = value[v]
    <3>1. PICK v \in progress : stage[v] = "READ" /\ Target(v) = c /\ memory'[c] = value[v]
      BY <2>3
    <3>2. value[v] = GoldenResult(v) /\ GoldenNow(Target(v)) = GoldenResult(v)
      BY <1>0, <3>1 DEF PendingOK
    <3> QED BY <2>2, <3>1, <3>2
  <2>4. CASE /\ \A v \in progress : stage[v] = "READ" => Target(v) # c
             /\ memory'[c] = memory[c]
    <3>1. ASSUME NEW u \in Unit, Pending(u), Target(u) = c PROVE FALSE
      <4>1. Busy(u) /\ Busy(u)' /\ stage[u] # "WRITTEN"
        BY <3>1, DataFacts DEF Pending
      <4>2. job'[u] = job[u]
        BY <1>3, <4>1, EdgeFacts, DataFacts
      <4>3. stage'[u] # "WRITTEN"
        BY <2>4, <3>1, <4>1, DataFacts
      <4> QED BY <1>1, <3>1, <4>1, <4>2, <4>3 DEF Target
    <3>2. memory[c] = GoldenNow(c)
      BY <1>0, <3>1 DEF CellsOK
    <3> QED BY <2>2, <2>4, <3>2
  <2> QED BY <2>3, <2>4, DataFacts
<1> QED BY <1>2, <1>3

-----------------------------------------------------------------------------
(* The theorems                                                            *)

LEMMA PInit == ProgramInit => PInv
<1> SUFFICES ASSUME ProgramInit PROVE PInv
  OBVIOUS
<1>1. IInv
  BY InvInit DEF ProgramInit
<1>2. /\ state = "IDLE" /\ pc = 0 /\ ~startPulse /\ memory = Initial /\ memory0 = Initial
      /\ (\A u \in Unit : unit[u] = "IDLE") /\ \A p \in Port : lastIssue[p] = -1
  BY DEF ProgramInit, Init
<1>3. ProgramTypeOK
  <2>1. Initial = [c \in Cell |-> Initial[c]]
    BY ProgramAssumption
  <2>2. ~AnyUnitError
    BY <1>2 DEF AnyUnitError, Failed
  <2> QED BY <1>2, <2>1, <2>2 DEF ProgramInit, ProgramTypeOK
<1>4. ASSUME Fenced(program) PROVE PlaceOK /\ JobsOK /\ OrderOK /\ PendingOK /\ CellsOK
  <2>1. HaltAt(program) \in Nat
    BY <1>4, FirstHalt, ConstantsOK DEF Fenced
  <2>2. PlaceOK
    BY <1>2, <2>1 DEF PlaceOK
  <2>3. (\A u \in Unit : ~Busy(u)) /\ \A p \in Port : ~Taken(p)
    BY <1>2 DEF Busy, Taken
  <2>4. JobsOK /\ OrderOK /\ PendingOK
    BY <1>2, <2>3 DEF JobsOK, OrderOK, PendingOK, Pending
  <2>5. CellsOK
    BY <1>2, <2>3, GoldenUnfold DEF CellsOK, GoldenNow, TakenAndWrites, Golden
  <2> QED BY <2>2, <2>4, <2>5
<1> QED BY <1>1, <1>3, <1>4 DEF PInv

LEMMA PNext == PInv /\ [ProgramNext]_progVars => PInv'
<1> SUFFICES ASSUME PInv, [ProgramNext]_progVars PROVE PInv'
  OBVIOUS
<1>1. IInv'
  BY NextRefines, InvNext DEF PInv
<1>2. CASE ProgramNext
  <2>1. PICK stop \in SUBSET {u \in Unit : Busy(u) /\ stage[u] = "WRITTEN"},
             progress \in SUBSET {u \in Unit : Busy(u) /\ stage[u] # "WRITTEN"} :
          ProgramEdge(stop, progress)
    BY <1>2 DEF ProgramNext
  <2>2. ProgramTypeOK'
    BY <2>1, DataTypeStep DEF PInv
  <2>3. program' = program
    BY <2>1 DEF ProgramEdge, DataStep
  <2>4. ASSUME Fenced(program) PROVE PlaceOK' /\ JobsOK' /\ OrderOK' /\ PendingOK' /\ CellsOK'
    <3>1. RunStep(stop, progress)
      BY <2>1, <2>4 DEF RunStep
    <3> QED BY <3>1, PlaceStep, JobsStep, OrderStep, PendingStep, CellsStep
  <2> QED BY <1>1, <2>2, <2>3, <2>4 DEF PInv
<1>3. CASE UNCHANGED progVars
  <2>1. UNCHANGED <<state, pc, barrierMask, imem, startPulse, unit, job, lastIssue, dataVars>>
    BY <1>3 DEF progVars, vars, control, history
  <2>2. UNCHANGED <<program, memory, stage, value, memory0>>
    BY <2>1 DEF dataVars
  <2>3. ProgramTypeOK' /\ PlaceOK' = PlaceOK /\ Fenced(program)' = Fenced(program)
    BY <2>1, <2>2 DEF PInv, ProgramTypeOK, PlaceOK, Startable, Decoded, AnyUnitError, Failed
  <2>4. JobsOK' = JobsOK /\ OrderOK' = OrderOK
    BY <2>1, <2>2 DEF JobsOK, Taken, Busy, OrderOK, Past
  <2>5. PendingOK' = PendingOK /\ CellsOK' = CellsOK
    BY <2>1, <2>2 DEF PendingOK, CellsOK, Pending, Busy, Target, GoldenResult, GoldenNow,
       TakenAndWrites, Taken, Golden
  <2> QED BY <1>1, <2>2, <2>3, <2>4, <2>5 DEF PInv
<1> QED BY <1>2, <1>3

\* Running a program on units that read and write memory is a behaviour of the
\* control path: what is proved of ChipControl holds of ChipProgram.
THEOREM ProgramRefinesControl == ProgramSpec => Spec
<1>1. ProgramInit => Init
  BY DEF ProgramInit
<1> QED BY <1>1, NextRefines, PTL DEF ProgramSpec, Spec

\* The inductive invariant holds in every reachable state.
THEOREM ProgramInvariant == ProgramSpec => []PInv
BY PInit, PNext, PTL DEF ProgramSpec

\* Commands of a fenced program that are in flight together touch different
\* cells (control_fsm issue and barriers, tensor_core ready), for any chip.
THEOREM RacesNever == ProgramSpec => []RaceFree
<1>1. PInv => RaceFree
  BY NoRaces DEF PInv, OrderInv, IInv, RaceFree
<1> QED BY <1>1, ProgramInvariant, PTL

\* When a fenced program halts the memories are those GoldenExecutor leaves,
\* whatever the units' latencies.
THEOREM HaltIsGolden == ProgramSpec => []HaltMatchesGolden
<1>1. ASSUME PInv, Fenced(program), state = "HALT" PROVE memory = GoldenRun(program, memory0)
  <2> DEFINE H == HaltAt(program)
             G == GoldenAfter(program, memory0)
  <2>1. /\ IInv /\ ProgramTypeOK /\ PlaceOK /\ JobsOK /\ CellsOK
        /\ H \in 0 .. Depth - 1 /\ Depth \in Nat \ {0} /\ program.image[H].op = "HALT"
    BY <1>1, FirstHalt, ConstantsOK DEF PInv, Fenced, IsFirstHalt
  <2>2. pc = H + 1 /\ (\A u \in Unit : ~Pending(u)) /\ \A p \in Port : ~Taken(p)
    BY <1>1, <2>1 DEF PlaceOK, IInv, HaltQuiescent, AnyUnitBusy, Pending, JobsOK
  <2>3. G[H + 1] = G[H]
    <3>1. ~Command(program, H)
      BY <2>1 DEF Command, DmaOps, TcOps
    <3> QED BY <2>1, <3>1, GoldenUnfold DEF GoldenStep
  <2>4. \A c \in Cell : memory[c] = G[H][c]
    BY <2>1, <2>2, <2>3 DEF CellsOK, GoldenNow, TakenAndWrites, Golden
  <2>5. G[H] = [c \in Cell |-> G[H][c]]
    <3>1. H \in 0 .. Depth /\ memory0 = [c \in Cell |-> memory0[c]]
      BY <2>1 DEF ProgramTypeOK
    <3> QED BY <3>1, GoldenIsMemory
  <2> HIDE DEF G
  <2>6. memory = G[H]
    BY <2>1, <2>4, <2>5 DEF ProgramTypeOK
  <2> QED BY <2>6 DEF GoldenRun, G
<1>2. PInv => HaltMatchesGolden
  BY <1>1 DEF HaltMatchesGolden
<1> QED BY <1>2, ProgramInvariant, PTL
=============================================================================
