------------------------ MODULE TensorCoreVmem_proofs ------------------------
(***************************************************************************)
(* The safety properties of TensorCoreVmem, for any number of MXUs, words  *)
(* and banks and any set of CLEAR commands.                                *)
(***************************************************************************)
EXTENDS TensorCoreVmem, TLAPS

USE VmemAssumption

\* Between its grant and its answer an engine has accesses left to make; the
\* answer is on its port, and CLEAR does not hide it.
EngineInv ==
  /\ \A p \in Port : st[p] \in {"REQ", "WAIT", "RUN"} => left[p] >= 1
  /\ WaitIsAnswered

\* A running CLEAR is inside its range, on a word; reduce_unit is at rest
\* meanwhile.
ClearInv ==
  /\ clear \in {"RUN", "DONE"} => ClearRangeOK(clr)
  /\ clear = "RUN" => offset % 4 = 0 /\ offset < clr.len /\ st[Red] \in {"IDLE", "DONE"}

\* The words CLEAR has passed.
Passed == {a \in Addr : 4 * a >= clr.dst /\ 4 * a < clr.dst + offset}

\* Every RUN cycle writes the word at the offset or is refused it.
CoverInv ==
  /\ clear = "RUN" => Passed \subseteq cleared \cup refused
  /\ ClearsUnrefused
  /\ ClearsOnlyRange

IInv == TypeOK /\ EngineInv /\ ClearInv /\ CoverInv /\ OneAccessPerBank

-----------------------------------------------------------------------------
(* One edge                                                                *)

LEMMA PortFacts ==
  /\ Vec \in Port /\ Red \in Port /\ Dma \in Port /\ Mxu \subseteq Port
  /\ Red # Dma /\ Red # Vec /\ Red \notin Mxu
  /\ None \notin Port /\ None \notin Addr
BY DEF Port, Vec, Red, Dma, Mxu

\* The word at the offset of a running CLEAR is in its range and in VMEM.
LEMMA ClearWordInRange ==
  ASSUME TypeOK, ClearInv, clear = "RUN"
  PROVE  /\ ClearWord \in Addr
         /\ ClearWord \in ClearWords(clr)
         /\ 4 * ClearWord = clr.dst + offset
PROOF
<1> DEFINE d == clr.dst  l == clr.len
<1>1. d \in Nat /\ l \in Nat
  BY DEF TypeOK
<1>2. d % 4 = 0 /\ l % 4 = 0 /\ d + l <= 4 * Words
  BY DEF ClearInv, ClearRangeOK
<1>3. offset \in Nat /\ offset % 4 = 0 /\ offset < l
  BY DEF TypeOK, ClearInv
<1> HIDE DEF d, l
<1>4. 4 * ((d + offset) \div 4) = d + offset /\ (d + offset) \div 4 \in Nat
  BY <1>1, <1>2, <1>3
<1>5. (d + offset) \div 4 < Words
  BY <1>1, <1>2, <1>3, <1>4
<1>6. ClearWord = (d + offset) \div 4
  BY DEF ClearWord, d
<1>7. ClearWord \in Addr
  BY <1>4, <1>5, <1>6 DEF Addr
<1>8. 4 * ClearWord >= d /\ 4 * ClearWord < d + l
  BY <1>1, <1>3, <1>4, <1>6
<1> QED
  BY <1>4, <1>6, <1>7, <1>8 DEF ClearWords, d, l

\* The engines' part of every edge: one request at most is accepted.
LEMMA EdgeParts ==
  ASSUME Next
  PROVE  /\ VmemStep
         /\ \E accepted \in Port \cup {None}, n \in 0 .. MaxAccess,
               choice \in [Raising -> Addr], pause \in SUBSET MayPause :
              /\ EnginesStep(accepted, n, choice, pause)
              /\ accepted # None => n >= 1 /\ MayAccept(accepted)
              /\ \/ ClearRun
                 \/ ClearRest
                 \/ accepted = None /\ \E c \in ClearCmds : AcceptClear(c)
PROOF
<1>1. VmemStep
  BY DEF Next
<1>2. PICK choice \in [Raising -> Addr], pause \in SUBSET MayPause :
        NoCommand(choice, pause) \/ AcceptCommand(choice, pause)
          \/ AcceptClearCommand(choice, pause)
  BY DEF Next
<1>3. CASE NoCommand(choice, pause)
  <2>1. EnginesStep(None, 0, choice, pause) /\ (ClearRun \/ ClearRest)
    BY <1>3 DEF NoCommand
  <2> QED
    BY <1>1, <1>2, <2>1
<1>4. CASE AcceptCommand(choice, pause)
  <2>1. PICK p \in Port, n \in 1 .. MaxAccess :
          MayAccept(p) /\ EnginesStep(p, n, choice, pause) /\ (ClearRun \/ ClearRest)
    BY <1>4 DEF AcceptCommand
  <2>2. n \in 0 .. MaxAccess /\ n >= 1
    OBVIOUS
  <2> QED
    BY <1>1, <1>2, <2>1, <2>2
<1>5. CASE AcceptClearCommand(choice, pause)
  <2>1. EnginesStep(None, 0, choice, pause) /\ \E c \in ClearCmds : AcceptClear(c)
    BY <1>5 DEF AcceptClearCommand
  <2> QED
    BY <1>1, <1>2, <2>1
<1> QED
  BY <1>2, <1>3, <1>4, <1>5

\* The engine of one port after an edge: its types, when it waits, and that
\* an engine with work to do has accesses left.
LEMMA EngineEdge ==
  ASSUME TypeOK, EngineInv,
         NEW accepted \in Port \cup {None}, NEW n \in 0 .. MaxAccess,
         NEW choice \in [Raising -> Addr], NEW pause \in SUBSET MayPause,
         EnginesStep(accepted, n, choice, pause),
         accepted # None => n >= 1 /\ MayAccept(accepted),
         NEW p \in Port
  PROVE  /\ st'[p] \in {"IDLE", "REQ", "WAIT", "RUN", "DONE"}
         /\ left'[p] \in 0 .. MaxAccess
         /\ req'[p] \in Addr \cup {None}
         /\ st'[p] = "WAIT" => st[p] = "REQ" /\ req[p] # None /\ Ready(p)
         /\ st'[p] \in {"REQ", "WAIT", "RUN"} => left'[p] >= 1
         /\ st'[p] \in {"REQ", "WAIT", "RUN"} =>
              p = accepted \/ st[p] \in {"REQ", "WAIT", "RUN"}
PROOF
<1>1. st[p] \in {"IDLE", "REQ", "WAIT", "RUN", "DONE"} /\ left[p] \in 0 .. MaxAccess
      /\ req[p] \in Addr \cup {None}
  BY DEF TypeOK
<1>2. st[p] \in {"REQ", "WAIT", "RUN"} => left[p] >= 1
  BY DEF EngineInv
<1>3. st[p] = "WAIT" => Answered(p)
  BY DEF EngineInv, WaitIsAnswered, Answered
<1>4. Answered(p) => st[p] = "WAIT"
  BY DEF Answered
<1>5. p = accepted => st[p] = "IDLE" /\ n >= 1
  BY PortFacts DEF MayAccept
<1>6. st'[p] =
       CASE p = accepted                           -> "REQ"
         [] st[p] = "REQ" /\ req[p] # None /\ Ready(p) -> "WAIT"
         [] Answered(p) /\ left[p] = 1             -> "DONE"
         [] Answered(p) /\ left[p] > 1             -> IF p \in pause THEN "RUN" ELSE "REQ"
         [] st[p] = "RUN"                          -> IF p \in pause THEN "RUN" ELSE "REQ"
         [] st[p] = "DONE"                         -> "IDLE"
         [] OTHER                                  -> st[p]
  BY Zenon DEF EnginesStep
<1>7. left'[p] = IF p = accepted THEN n ELSE IF Answered(p) THEN left[p] - 1 ELSE left[p]
  BY Zenon DEF EnginesStep
<1>8. req'[p] = IF st[p] # "REQ" \/ (req[p] # None /\ Ready(p)) THEN None
                ELSE IF p \in Raising THEN choice[p] ELSE req[p]
  BY Zenon DEF EnginesStep
<1>9. p \in Raising => choice[p] \in Addr
  OBVIOUS
<1>10. CASE p = accepted
  BY <1>1, <1>5, <1>6, <1>7, <1>8, <1>9, <1>10
<1>11. CASE p # accepted /\ st[p] = "WAIT"
  <2>1. left[p] = 1 \/ left[p] > 1
    BY <1>1, <1>2, <1>11
  <2> QED
    BY <1>1, <1>3, <1>6, <1>7, <1>8, <1>11, <2>1
<1>12. CASE p # accepted /\ st[p] # "WAIT"
  BY <1>1, <1>2, <1>4, <1>6, <1>7, <1>8, <1>9, <1>12
<1> QED
  BY <1>10, <1>11, <1>12

\* What a port asks of VMEM is a word of it.
LEMMA PortReqInRange ==
  ASSUME TypeOK, ClearInv, NEW p \in Port
  PROVE  PortReq(p) \in Addr \cup {None}
BY ClearWordInRange DEF PortReq, TypeOK

\* The answer on a port is the access granted on it at the edge before.
LEMMA Answers ==
  ASSUME TypeOK, ClearInv, VmemStep, NEW p \in Port
  PROVE  /\ Granted(p) => resp'[p] = [addr |-> PortReq(p), by |-> Owner(p)]
         /\ ~Granted(p) => resp'[p] = None
         /\ Granted(p) => resp'[p] \in [addr : Addr, by : Port \cup {Clr}] /\ resp'[p] # None
         /\ resp'[p] # None => Granted(p) /\ resp'[p].addr = PortReq(p)
PROOF
<1>1. resp'[p] = IF Granted(p) THEN [addr |-> PortReq(p), by |-> Owner(p)] ELSE None
  BY Zenon DEF VmemStep
<1>2. Granted(p) => PortReq(p) \in Addr
  BY PortReqInRange DEF Granted
<1>3. Owner(p) \in Port \cup {Clr}
  BY DEF Owner
<1>4. Granted(p) => [addr |-> PortReq(p), by |-> Owner(p)] \in [addr : Addr, by : Port \cup {Clr}]
  BY <1>2, <1>3
<1>5. Granted(p) => [addr |-> PortReq(p), by |-> Owner(p)] # None
  BY <1>4
<1> QED
  BY <1>1, <1>4, <1>5

\* At one edge a bank is reached by one port.
LEMMA OnePerBank ==
  ASSUME TypeOK, ClearInv, VmemStep
  PROVE  OneAccessPerBank'
PROOF
<1> SUFFICES ASSUME NEW p \in Port, NEW q \in Port, p # q,
                    resp'[p] # None, resp'[q] # None
             PROVE  Bank(resp'[p].addr) # Bank(resp'[q].addr)
  BY DEF OneAccessPerBank, Bank
<1>1. Granted(p) /\ resp'[p].addr = PortReq(p) /\ Granted(q) /\ resp'[q].addr = PortReq(q)
  BY Answers
<1>2. p < q \/ q < p
  BY DEF Port
<1>3. PortReq(p) # None /\ PortReq(q) # None
  BY <1>1 DEF Granted
<1>4. Bank(PortReq(q)) # Bank(PortReq(p))
  BY <1>1, <1>2, <1>3 DEF Granted
<1> QED
  BY <1>1, <1>4

-----------------------------------------------------------------------------
(* The CLEAR engine                                                        *)

\* The CLEAR part of the invariant, without reduce_unit.
ClearTypeOK ==
  /\ clear \in {"IDLE", "RUN", "DONE", "ERROR"}
  /\ clr \in ClearCmds \cup {[dst |-> 0, len |-> 0]}
  /\ offset \in Nat
  /\ cleared \subseteq Addr /\ refused \subseteq Addr

ClearSafe ==
  /\ ClearTypeOK
  /\ clear \in {"RUN", "DONE"} => ClearRangeOK(clr)
  /\ clear = "RUN" => offset % 4 = 0 /\ offset < clr.len
  /\ CoverInv

\* The word passed at the offset is the only one Passed gains.
LEMMA PassedGrows ==
  ASSUME TypeOK, ClearInv, clear = "RUN", NEW a \in Addr,
         4 * a >= clr.dst, 4 * a < clr.dst + offset + 4
  PROVE  a \in Passed \/ a = ClearWord
PROOF
<1> DEFINE d == clr.dst
<1>1. d \in Nat /\ offset \in Nat
  BY DEF TypeOK
<1>2. ClearWord \in Addr /\ 4 * ClearWord = d + offset
  BY ClearWordInRange
<1> HIDE DEF d
<1>3. a \in Nat /\ ClearWord \in Nat
  BY <1>2 DEF Addr
<1>4. 4 * a < d + offset \/ a = ClearWord
  <2>1. 4 * a < d + offset + 4
    BY DEF d
  <2> QED
    BY <1>1, <1>2, <1>3, <2>1
<1> QED
  BY <1>4 DEF Passed, d

\* A RUN cycle.
LEMMA ClearRunKeeps ==
  ASSUME TypeOK, ClearInv, CoverInv, ClearRun
  PROVE  ClearSafe'
PROOF
<1>1. clear = "RUN" /\ ClearAdvance /\ clr' = clr
  BY DEF ClearRun
<1>2. ClearRangeOK(clr) /\ offset % 4 = 0 /\ offset < clr.len
  BY <1>1 DEF ClearInv
<1>3. ClearWord \in Addr /\ ClearWord \in ClearWords(clr) /\ 4 * ClearWord = clr.dst + offset
  BY <1>1, ClearWordInRange
<1>4. Passed \subseteq cleared \cup refused /\ cleared \subseteq ClearWords(clr)
  BY <1>1 DEF CoverInv, ClearsOnlyRange
<1>5. /\ cleared' \in SUBSET Addr /\ refused' \in SUBSET Addr
      /\ cleared \cup refused \cup {ClearWord} \subseteq cleared' \cup refused'
      /\ cleared' \subseteq cleared \cup {ClearWord}
  BY <1>3 DEF ClearRun, TypeOK
<1>6. clr.dst \in Nat /\ clr.len \in Nat /\ offset \in Nat
  BY DEF TypeOK
<1>7. \/ clear' = "RUN" /\ offset' = offset
      \/ clear' = "RUN" /\ offset' = offset + 4 /\ offset + 4 < clr.len
      \/ clear' = "DONE" /\ offset' = offset /\ offset + 4 >= clr.len
  BY <1>1, <1>6 DEF ClearAdvance
<1>8. offset' \in Nat /\ offset' % 4 = 0 /\ (clear' = "RUN" => offset' < clr.len)
  <2>1. (offset + 4) % 4 = 0
    BY <1>2, <1>6
  <2> QED
    BY <1>2, <1>6, <1>7, <2>1
<1>9. ClearTypeOK'
  BY <1>1, <1>5, <1>7, <1>8 DEF ClearTypeOK, TypeOK
<1>10. ClearRangeOK(clr)'
  BY <1>1, <1>2 DEF ClearRangeOK
<1>11. clear' = "RUN" => (Passed \subseteq cleared \cup refused)'
  <2> SUFFICES ASSUME clear' = "RUN", NEW a \in Addr, 4 * a >= clr.dst, 4 * a < clr.dst + offset'
               PROVE  a \in cleared' \cup refused'
    BY <1>1 DEF Passed, Addr
  <2>1. 4 * a < clr.dst + offset + 4
    <3>1. offset' <= offset + 4
      BY <1>6, <1>7
    <3> QED
      BY <1>6, <1>8, <3>1 DEF Addr
  <2>2. a \in Passed \/ a = ClearWord
    BY <1>1, <2>1, PassedGrows
  <2> QED
    BY <1>4, <1>5, <2>2
<1>12. clear' = "DONE" => ClearWords(clr) \subseteq cleared' \cup refused'
  <2> SUFFICES ASSUME clear' = "DONE", NEW a \in ClearWords(clr)
               PROVE  a \in cleared' \cup refused'
    OBVIOUS
  <2>1. a \in Addr /\ 4 * a >= clr.dst /\ 4 * a < clr.dst + clr.len
    BY DEF ClearWords
  <2>2. 4 * a < clr.dst + offset + 4
    BY <1>6, <1>7, <2>1 DEF Addr
  <2>3. a \in Passed \/ a = ClearWord
    BY <1>1, <2>1, <2>2, PassedGrows
  <2> QED
    BY <1>4, <1>5, <2>3
<1>13. ClearsUnrefused' /\ ClearsOnlyRange'
  BY <1>1, <1>3, <1>4, <1>5, <1>12 DEF ClearsUnrefused, ClearsOnlyRange, ClearWords, Addr
<1> QED
  BY <1>8, <1>1, <1>9, <1>10, <1>11, <1>13 DEF ClearSafe, CoverInv

\* A cycle without work.
LEMMA ClearRestKeeps ==
  ASSUME TypeOK, ClearInv, CoverInv, ClearRest
  PROVE  ClearSafe'
PROOF
<1>1. /\ clear' \in {"IDLE", "ERROR"}
      /\ clr' = clr /\ offset' = offset /\ cleared' = cleared /\ refused' = refused
  BY DEF ClearRest, TypeOK
<1> QED
  BY <1>1 DEF ClearSafe, ClearTypeOK, TypeOK, CoverInv, ClearsUnrefused, ClearsOnlyRange,
              ClearWords, Addr

\* A CLEAR command arrives.
LEMMA AcceptClearKeeps ==
  ASSUME TypeOK, ClearInv, CoverInv, NEW c \in ClearCmds, AcceptClear(c)
  PROVE  ClearSafe'
PROOF
<1>1. CASE ~ClearRangeOK(c)
  <2>1. /\ clear' = "ERROR"
        /\ clr' = clr /\ offset' = offset /\ cleared' = cleared /\ refused' = refused
    BY <1>1 DEF AcceptClear
  <2> QED
    BY <2>1 DEF ClearSafe, ClearTypeOK, TypeOK, CoverInv, ClearsUnrefused, ClearsOnlyRange,
                ClearWords, Addr
<1>2. CASE ClearRangeOK(c)
  <2>1. /\ clear' = IF c.len = 0 THEN "DONE" ELSE "RUN"
        /\ clr' = c /\ offset' = 0 /\ cleared' = {} /\ refused' = {}
    BY <1>2 DEF AcceptClear
  <2>2. c.dst \in Nat /\ c.len \in Nat
    OBVIOUS
  <2>3. ClearRangeOK(clr)'
    BY <1>2, <2>1 DEF ClearRangeOK
  <2>4. clear' = "RUN" => offset' % 4 = 0 /\ offset' < clr'.len
    BY <2>1, <2>2
  <2>5. Passed' = {}
    BY <2>1, <2>2 DEF Passed, Addr
  <2>6. ClearsUnrefused' /\ ClearsOnlyRange'
    BY <2>1, <2>2 DEF ClearsUnrefused, ClearsOnlyRange
  <2> QED
    BY <2>1, <2>3, <2>4, <2>5, <2>6 DEF ClearSafe, ClearTypeOK, CoverInv
<1> QED
  BY <1>1, <1>2

-----------------------------------------------------------------------------
(* The invariant                                                           *)

LEMMA InitIInv == Init => IInv
BY PortFacts DEF Init, IInv, TypeOK, EngineInv, WaitIsAnswered, ClearInv, CoverInv, ClearsUnrefused,
       ClearsOnlyRange, OneAccessPerBank

\* reduce_unit starts nothing while CLEAR runs, and CLEAR waits for it.
LEMMA ClearAlone ==
  ASSUME TypeOK, EngineInv, ClearInv, VmemStep,
         NEW accepted \in Port \cup {None}, NEW n \in 0 .. MaxAccess,
         NEW choice \in [Raising -> Addr], NEW pause \in SUBSET MayPause,
         EnginesStep(accepted, n, choice, pause),
         accepted # None => n >= 1 /\ MayAccept(accepted),
         \/ ClearRun
         \/ ClearRest
         \/ accepted = None /\ \E c \in ClearCmds : AcceptClear(c)
  PROVE  clear' = "RUN" => st'[Red] \in {"IDLE", "DONE"}
PROOF
<1> SUFFICES ASSUME clear' = "RUN" PROVE st'[Red] \in {"IDLE", "DONE"}
  OBVIOUS
<1>1. st[Red] \in {"IDLE", "DONE"} /\ accepted # Red
  <2>1. CASE ClearRun
    <3>1. clear = "RUN"
      BY <2>1 DEF ClearRun
    <3> QED
      BY <3>1, PortFacts DEF ClearInv, MayAccept, AnyChildBusy
  <2>2. CASE ClearRest
    BY <2>2 DEF ClearRest, TypeOK
  <2>3. CASE accepted = None /\ \E c \in ClearCmds : AcceptClear(c)
    BY <2>3, PortFacts DEF AcceptClear, AnyChildBusy, TypeOK
  <2> QED
    BY <2>1, <2>2, <2>3
<1>2. /\ st'[Red] \in {"IDLE", "REQ", "WAIT", "RUN", "DONE"}
      /\ st'[Red] \in {"REQ", "WAIT", "RUN"} => Red = accepted \/ st[Red] \in {"REQ", "WAIT", "RUN"}
  BY EngineEdge, PortFacts
<1> QED
  BY <1>1, <1>2

LEMMA NextIInv == IInv /\ [Next]_vars => IInv'
PROOF
<1> SUFFICES ASSUME IInv, [Next]_vars PROVE IInv'
  OBVIOUS
<1>1. CASE UNCHANGED vars
  BY <1>1 DEF vars, engines, clearEngine, IInv, TypeOK, EngineInv, WaitIsAnswered, Seen, ClearInv,
              ClearRangeOK, CoverInv, Passed, ClearsUnrefused, ClearsOnlyRange, ClearWords,
              OneAccessPerBank, Bank
<1>2. CASE Next
  <2> USE DEF IInv
  <2>1. VmemStep
    BY <1>2, EdgeParts
  <2>2. PICK accepted \in Port \cup {None}, n \in 0 .. MaxAccess,
             choice \in [Raising -> Addr], pause \in SUBSET MayPause :
          /\ EnginesStep(accepted, n, choice, pause)
          /\ accepted # None => n >= 1 /\ MayAccept(accepted)
          /\ \/ ClearRun
             \/ ClearRest
             \/ accepted = None /\ \E c \in ClearCmds : AcceptClear(c)
    BY <1>2, EdgeParts
  <2>3. ASSUME NEW p \in Port
        PROVE  /\ st'[p] \in {"IDLE", "REQ", "WAIT", "RUN", "DONE"}
               /\ left'[p] \in 0 .. MaxAccess
               /\ req'[p] \in Addr \cup {None}
               /\ st'[p] = "WAIT" => st[p] = "REQ" /\ req[p] # None /\ Ready(p)
               /\ st'[p] \in {"REQ", "WAIT", "RUN"} => left'[p] >= 1
    BY <2>2, EngineEdge
  <2>4. ClearSafe'
    BY <2>2, ClearRunKeeps, ClearRestKeeps, AcceptClearKeeps
  <2>5. clear' = "RUN" => st'[Red] \in {"IDLE", "DONE"}
    BY <2>1, <2>2, ClearAlone
  <2>6. /\ st' = [p \in Port |-> st'[p]]
        /\ left' = [p \in Port |-> left'[p]]
        /\ req' = [p \in Port |-> req'[p]]
    <3>1. st' = [p \in Port |-> st'[p]]
      BY <2>2 DEF EnginesStep
    <3>2. left' = [p \in Port |-> left'[p]]
      BY <2>2 DEF EnginesStep
    <3>3. req' = [p \in Port |-> req'[p]]
      BY <2>2 DEF EnginesStep
    <3> QED
      BY <3>1, <3>2, <3>3
  <2>7. TypeOK'
    <3>1. /\ st' \in [Port -> {"IDLE", "REQ", "WAIT", "RUN", "DONE"}]
          /\ left' \in [Port -> 0 .. MaxAccess] /\ req' \in [Port -> Addr \cup {None}]
      BY <2>3, <2>6
    <3>2. \A p \in Port : resp'[p] = None \/ resp'[p] \in [addr : Addr, by : Port \cup {Clr}]
      BY <2>1, Answers
    <3> QED
      BY <2>4, <3>1, <3>2 DEF TypeOK, ClearSafe, ClearTypeOK, Port, Addr, Clr
  <2>8. WaitIsAnswered'
    <3> SUFFICES ASSUME NEW p \in Port, st'[p] = "WAIT"
                 PROVE  Seen(p)' # None /\ (Seen(p)').by = p
      BY DEF WaitIsAnswered, Seen
    <3>1. Ready(p)
      BY <2>3
    <3>2. resp'[p] = [addr |-> PortReq(p), by |-> p] /\ resp'[p] # None
      BY <2>1, <3>1, Answers DEF Ready
    <3>3. ~(p = Red /\ clear' = "RUN")
      BY <2>5
    <3> QED
      BY <3>2, <3>3 DEF Seen
  <2>9. OneAccessPerBank'
    BY <2>1, OnePerBank
  <2> QED
    BY <2>3, <2>4, <2>5, <2>7, <2>8, <2>9 DEF EngineInv, ClearInv, ClearSafe
<1> QED
  BY <1>1, <1>2

-----------------------------------------------------------------------------
(* The theorems                                                            *)

\* The invariant holds in every reachable state: what an engine that waits, a
\* running CLEAR and the banks promise, together.
THEOREM Invariant == Spec => []IInv
BY InitIInv, NextIInv, PTL DEF Spec

\* Every register of the ports, the engines and CLEAR keeps its type
\* (vmem_top, tensor_core).
THEOREM TypeCorrect == Spec => []TypeOK
<1>1. IInv => TypeOK
  BY DEF IInv
<1> QED
  BY Invariant, <1>1, PTL

\* The wait states of mxu_top, vector_unit, reduce_unit and dma_engine find
\* the answer to their own access on the port, for any number of ports and
\* banks, and never CLEAR's trailing duplicate.
THEOREM WaitsAnswered == Spec => []WaitIsAnswered
<1>1. IInv => WaitIsAnswered
  BY DEF IInv, EngineInv
<1> QED
  BY Invariant, <1>1, PTL

\* vmem_top's priority gives a bank to one port at an edge.
THEOREM BanksExclusive == Spec => []OneAccessPerBank
<1>1. IInv => OneAccessPerBank
  BY DEF IInv
<1> QED
  BY Invariant, <1>1, PTL

\* tensor_core's CLEAR ends with every word of its range zeroed or refused by
\* a bank, wherever the range lies and whoever competes.
THEOREM ClearCovers == Spec => []ClearsUnrefused
<1>1. IInv => ClearsUnrefused
  BY DEF IInv, CoverInv
<1> QED
  BY Invariant, <1>1, PTL

\* CLEAR writes no word outside its range.
THEOREM ClearConfined == Spec => []ClearsOnlyRange
<1>1. IInv => ClearsOnlyRange
  BY DEF IInv, CoverInv
<1> QED
  BY Invariant, <1>1, PTL

=============================================================================
