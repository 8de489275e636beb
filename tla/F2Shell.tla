------------------------------ MODULE F2Shell ------------------------------
(***************************************************************************)
(* The F2 wrapper around the chip: the OCL AXI-Lite bridge, the selection  *)
(* of who uses the HBM channel, and the HBM AXI adapter, between an AXI    *)
(* master, the chip's MMIO port and the chip's DMA engine.  The chip is    *)
(* what they see of it: a busy flag, a start pulse, a one-cycle MMIO       *)
(* response, and DMA requests while it is busy.                            *)
(*                                                                         *)
(* One step is one rising clock edge.                                      *)
(***************************************************************************)
EXTENDS Integers

CONSTANTS
  Data,           \* payloads of a write
  Habits,         \* what masters do: the kinds of master considered
  None

\* What the bridge and the chip tell apart: the start register, the HBM window,
\* the rest of the MMIO map, and an address that is not aligned.
Target == {"CONTROL", "HBM", "REG", "UNALIGNED"}
Beat   == [data : Data, strobe : BOOLEAN]      \* strobe: wstrb # 0

ASSUME ShellAssumption ==
  /\ Habits \subseteq [splits : BOOLEAN, overlaps : BOOLEAN]
  /\ Data # {} /\ None \notin Target \cup Beat \cup {"OK", "ERROR", "core", "debug"}
  /\ None \notin [write : BOOLEAN, addr : Target, beat : Beat]

VARIABLES
  aw, w, ar,      \* AXI-Lite master: what each channel offers, or None
  habit,          \* what this master does; it never changes
  state, awSeen, wSeen, opWrite, addr, beat, error, hostReq, hbmReq,
                  \* vtpu_ocl_axil_bridge registers
  hostResp, startPulse, busy,     \* virtual_tpu_v4_top
  dma, dmaReq,    \* dma_engine: "IDLE", "REQ" or "WAIT"; its request register
  debugActive,    \* vtpu_f2_smoke_top.debug_active_q
  axi,            \* vtpu_hbm_axi_adapter: busy, resp_q.ready, resp_q.valid
  owner,          \* history: whose request the adapter took last
  tookAw, tookW, tookAr,  \* history: handshakes of unanswered transactions
  served          \* history: times the transaction reached the chip or the HBM

master  == <<aw, w, ar>>
bridge  == <<state, awSeen, wSeen, opWrite, addr, beat, error, hostReq, hbmReq>>
chip    == <<hostResp, startPulse, busy, dma, dmaReq>>
history == <<owner, tookAw, tookW, tookAr, served>>
vars    == <<master, habit, bridge, chip, debugActive, axi, history>>

-----------------------------------------------------------------------------
(* Handshakes                                                              *)

AwReady == state \in {"IDLE", "WRITE_WAIT"} /\ ~awSeen
WReady  == state \in {"IDLE", "WRITE_WAIT"} /\ ~wSeen
ArReady == state = "IDLE" /\ ~awSeen /\ ~wSeen

AwFires == aw # None /\ AwReady
WFires  == w # None /\ WReady
ArFires == ar # None /\ ArReady

SelectDebugNoHold == hbmReq # None /\ ~busy

\* The HBM channel goes to the bridge for one debug access, else to the chip.
SelectDebug == debugActive \/ (hbmReq # None /\ ~busy)
AdapterBusyWith == IF SelectDebug THEN (IF hbmReq # None THEN "debug" ELSE None)
                   ELSE (IF dmaReq THEN "core" ELSE None)
DebugReady == IF SelectDebug THEN axi.ready ELSE ~busy
DebugValid == SelectDebug /\ axi.valid
CoreReady  == ~SelectDebug /\ axi.ready
CoreValid  == ~SelectDebug /\ axi.valid

-----------------------------------------------------------------------------
(* vtpu_ocl_axil_bridge                                                    *)

Respond(failed) == /\ state' = IF opWrite THEN "WRITE_RESP" ELSE "READ_RESP"
                   /\ error' = failed

Request(write, a, b) == [write |-> write, addr |-> a, beat |-> b]

DispatchIgnoringBusy(write, a, b, respState) ==
  IF a = "UNALIGNED" \/ (write /\ ~b.strobe)
  THEN state' = respState /\ error' = TRUE /\ hbmReq' = None /\ hostReq' = None
  ELSE /\ error' = FALSE
       /\ IF a = "HBM"
          THEN state' = "HBM_REQ" /\ hbmReq' = Request(write, a, b) /\ hostReq' = None
          ELSE state' = "CORE_REQ" /\ hostReq' = Request(write, a, b) /\ hbmReq' = None

\* An address (and, for a write, its beat) goes to the HBM window, to the chip
\* or back as an error.  respState is the answering state.
Dispatch(write, a, b, respState) ==
  IF a = "UNALIGNED" \/ (write /\ ~b.strobe) \/ (a = "HBM" /\ busy)
  THEN state' = respState /\ error' = TRUE /\ hbmReq' = None /\ hostReq' = None
  ELSE /\ error' = FALSE
       /\ IF a = "HBM"
          THEN state' = "HBM_REQ" /\ hbmReq' = Request(write, a, b) /\ hostReq' = None
          ELSE state' = "CORE_REQ" /\ hostReq' = Request(write, a, b) /\ hbmReq' = None

\* A read wins over write channels that fire at the same edge: their
\* handshakes complete and nothing is recorded.
IdleRead ==
  /\ state = "IDLE" /\ ar # None
  /\ opWrite' = FALSE /\ addr' = ar /\ awSeen' = FALSE /\ wSeen' = FALSE
  /\ Dispatch(FALSE, ar, beat, "READ_RESP")
  /\ UNCHANGED beat

IdleWriteOneChannel ==
  /\ state = "IDLE" /\ ar = None /\ (aw # None \/ w # None)
  /\ awSeen' = (aw # None) /\ addr' = IF aw # None /\ w = None THEN aw ELSE addr
  /\ wSeen' = (w # None)   /\ beat' = IF w # None THEN w ELSE beat
  /\ opWrite' = TRUE /\ state' = "WRITE_WAIT"
  /\ hostReq' = None /\ hbmReq' = None
  /\ UNCHANGED error

IdleWriteUnlatched ==
  /\ state = "IDLE" /\ ar = None /\ (aw # None \/ w # None)
  /\ awSeen' = (aw # None) /\ addr' = aw
  /\ wSeen' = (w # None)   /\ beat' = IF w # None THEN w ELSE beat
  /\ opWrite' = TRUE /\ state' = "WRITE_WAIT"
  /\ hostReq' = None /\ hbmReq' = None
  /\ UNCHANGED error

IdleWrite ==
  /\ state = "IDLE" /\ ar = None /\ (aw # None \/ w # None)
  /\ awSeen' = (aw # None) /\ addr' = IF aw # None THEN aw ELSE addr
  /\ wSeen' = (w # None)   /\ beat' = IF w # None THEN w ELSE beat
  /\ opWrite' = TRUE /\ state' = "WRITE_WAIT"
  /\ hostReq' = None /\ hbmReq' = None
  /\ UNCHANGED error

IdleNothing ==
  /\ state = "IDLE" /\ ar = None /\ aw = None /\ w = None
  /\ awSeen' = FALSE /\ wSeen' = FALSE /\ hostReq' = None /\ hbmReq' = None
  /\ UNCHANGED <<state, opWrite, addr, beat, error>>

\* The transaction is dispatched from the registers as they were before this
\* edge, also when one of them is being loaded at this edge.
WriteWait ==
  /\ state = "WRITE_WAIT"
  /\ awSeen' = (awSeen \/ AwFires) /\ addr' = IF AwFires THEN aw ELSE addr
  /\ wSeen' = (wSeen \/ WFires)    /\ beat' = IF WFires THEN w ELSE beat
  /\ IF (awSeen \/ aw # None) /\ (wSeen \/ w # None)
     THEN Dispatch(TRUE, addr, beat, "WRITE_RESP")
     ELSE hostReq' = None /\ hbmReq' = None /\ UNCHANGED <<state, error>>
  /\ UNCHANGED opWrite

CoreReqHolds ==
  /\ state = "CORE_REQ"
  /\ state' = "CORE_RESP" /\ hbmReq' = None
  /\ UNCHANGED <<awSeen, wSeen, opWrite, addr, beat, error, hostReq>>

\* host_req_ready is constant 1.
CoreReq ==
  /\ state = "CORE_REQ"
  /\ state' = "CORE_RESP" /\ hostReq' = None /\ hbmReq' = None
  /\ UNCHANGED <<awSeen, wSeen, opWrite, addr, beat, error>>

CoreResp ==
  /\ state = "CORE_RESP"
  /\ IF hostResp = None THEN UNCHANGED <<state, error>> ELSE Respond(hostResp = "ERROR")
  /\ hostReq' = None /\ hbmReq' = None
  /\ UNCHANGED <<awSeen, wSeen, opWrite, addr, beat>>

HbmReq ==
  /\ state = "HBM_REQ"
  /\ IF DebugReady THEN state' = "HBM_RESP" /\ hbmReq' = None
     ELSE hbmReq' = Request(opWrite, addr, beat) /\ UNCHANGED state
  /\ hostReq' = None
  /\ UNCHANGED <<awSeen, wSeen, opWrite, addr, beat, error>>

HbmResp(failed) ==
  /\ state = "HBM_RESP"
  /\ IF DebugValid THEN Respond(failed) ELSE UNCHANGED <<state, error>>
  /\ hostReq' = None /\ hbmReq' = None
  /\ UNCHANGED <<awSeen, wSeen, opWrite, addr, beat>>

RespIgnoresReady(ready) ==
  /\ state \in {"WRITE_RESP", "READ_RESP"}
  /\ state' = "IDLE" /\ awSeen' = FALSE /\ wSeen' = FALSE
  /\ hostReq' = None /\ hbmReq' = None
  /\ UNCHANGED <<opWrite, addr, beat, error>>

Resp(ready) ==
  /\ state \in {"WRITE_RESP", "READ_RESP"}
  /\ IF ready THEN state' = "IDLE" /\ awSeen' = FALSE /\ wSeen' = FALSE
     ELSE UNCHANGED <<state, awSeen, wSeen>>
  /\ hostReq' = None /\ hbmReq' = None
  /\ UNCHANGED <<opWrite, addr, beat, error>>

BridgeStep(ready, failed) ==
  \/ IdleRead \/ IdleWrite \/ IdleNothing \/ WriteWait
  \/ CoreReq \/ CoreResp \/ HbmReq \/ HbmResp(failed) \/ Resp(ready)

-----------------------------------------------------------------------------
(* virtual_tpu_v4_top and its DMA engine                                   *)

HostRequestSilentRefusal ==
  /\ hostResp' = IF hostReq = None THEN None
                 ELSE IF hostReq.addr = "CONTROL" /\ hostReq.write /\ busy THEN None
                 ELSE "OK"
  /\ startPulse' = (hostReq # None /\ hostReq.addr = "CONTROL" /\ hostReq.write /\ ~busy)

\* MMIO: one response in the cycle after the request; a start is refused while
\* the chip is busy.
HostRequest ==
  /\ hostResp' = IF hostReq = None THEN None
                 ELSE IF hostReq.addr = "CONTROL" /\ hostReq.write /\ busy THEN "ERROR"
                 ELSE "OK"
  /\ startPulse' = (hostReq # None /\ hostReq.addr = "CONTROL" /\ hostReq.write /\ ~busy)

\* busy rises at the edge after the pulse and may fall when the DMA engine is idle.
ChipRuns(stop) == busy' = (startPulse \/ (busy /\ ~(stop /\ dma = "IDLE")))

\* dma_engine's request/wait loop; go: control_fsm has another access for it.
DmaIdle(go) ==
  /\ dma = "IDLE" /\ dmaReq' = FALSE
  /\ dma' = IF go /\ busy THEN "REQ" ELSE "IDLE"

DmaRequest ==
  /\ dma = "REQ"
  /\ IF dmaReq /\ CoreReady THEN dma' = "WAIT" /\ dmaReq' = FALSE
     ELSE dmaReq' = TRUE /\ UNCHANGED dma

DmaWait(go) ==
  /\ dma = "WAIT" /\ dmaReq' = FALSE
  /\ dma' = IF ~CoreValid THEN "WAIT" ELSE IF go THEN "REQ" ELSE "IDLE"

ChipStep(stop, go) ==
  /\ HostRequest
  /\ ChipRuns(stop /\ ~go)
  /\ DmaIdle(go) \/ DmaRequest \/ DmaWait(go)

-----------------------------------------------------------------------------
(* HBM channel                                                             *)

SelectStepNeverReleases ==
  debugActive' = (debugActive \/ (hbmReq # None /\ ~busy /\ axi.ready))

\* debug_active holds the channel for the bridge from grant to response.
SelectStep ==
  debugActive' =
    IF ~debugActive /\ hbmReq # None /\ ~busy /\ axi.ready THEN TRUE
    ELSE IF debugActive /\ axi.valid THEN FALSE
    ELSE debugActive

\* The adapter takes a request whenever it is idle, whatever ready says; the
\* AXI slave ends the transaction at an edge of its choice.
AdapterStep(finish) ==
  axi' = CASE ~axi.busy /\ AdapterBusyWith # None -> [busy |-> TRUE, ready |-> FALSE, valid |-> FALSE]
           [] ~axi.busy /\ AdapterBusyWith = None -> [busy |-> FALSE, ready |-> TRUE, valid |-> FALSE]
           [] axi.busy /\ finish  -> [busy |-> FALSE, ready |-> FALSE, valid |-> TRUE]
           [] OTHER               -> [busy |-> TRUE, ready |-> FALSE, valid |-> FALSE]

Takes == ~axi.busy /\ AdapterBusyWith # None

-----------------------------------------------------------------------------
(* AXI-Lite master: an offer stays until it is taken.  At most one write   *)
(* and one read are unanswered.                                            *)

SplitWrites  == habit.splits     \* may present address and data in separate cycles
OverlapReads == habit.overlaps   \* may read while a write is under way
WriteOpen == aw # None \/ w # None \/ tookAw # None \/ tookW # None
ReadOpen  == ar # None \/ tookAr # None
MayWrite  == OverlapReads \/ ~ReadOpen
MayRead   == ~ReadOpen /\ (OverlapReads \/ ~WriteOpen)

\* The next offer of a channel: what it still holds, or something new.
Kept(offer, fires) == IF fires THEN None ELSE offer

OfferNothing ==
  /\ aw' = Kept(aw, AwFires) /\ w' = Kept(w, WFires) /\ ar' = Kept(ar, ArFires)

OfferWrite(a, b) ==
  /\ MayWrite /\ ~WriteOpen
  /\ aw' = a /\ w' = b /\ ar' = Kept(ar, ArFires)

OfferAddress(a) ==
  /\ SplitWrites /\ MayWrite /\ aw = None /\ tookAw = None
  /\ aw' = a /\ w' = Kept(w, WFires) /\ ar' = Kept(ar, ArFires)

OfferData(b) ==
  /\ SplitWrites /\ MayWrite /\ w = None /\ tookW = None
  /\ w' = b /\ aw' = Kept(aw, AwFires) /\ ar' = Kept(ar, ArFires)

OfferRead(a) ==
  /\ MayRead
  /\ ar' = a /\ aw' = Kept(aw, AwFires) /\ w' = Kept(w, WFires)

OfferReadAndWrite(r, a, b) ==
  /\ OverlapReads /\ ~ReadOpen /\ ~WriteOpen
  /\ ar' = r /\ aw' = a /\ w' = b

MasterStep ==
  \/ OfferNothing
  \/ \E a \in Target, b \in Beat : OfferWrite(a, b)
  \/ \E r, a \in Target, b \in Beat : OfferReadAndWrite(r, a, b)
  \/ \E a \in Target : OfferAddress(a) \/ OfferRead(a)
  \/ \E b \in Beat : OfferData(b)

\* ready: the master takes the response that is offered.
Record(ready) ==
  LET answered(s) == state = s /\ ready
  IN  /\ tookAw' = IF AwFires THEN aw ELSE IF answered("WRITE_RESP") THEN None ELSE tookAw
      /\ tookW'  = IF WFires THEN w ELSE IF answered("WRITE_RESP") THEN None ELSE tookW
      /\ tookAr' = IF ArFires THEN ar ELSE IF answered("READ_RESP") THEN None ELSE tookAr
      /\ owner'  = IF Takes THEN AdapterBusyWith ELSE owner
      /\ served' = IF state = "IDLE" THEN 0
                   ELSE served + (IF hostReq # None THEN 1 ELSE 0)
                               + (IF Takes /\ AdapterBusyWith = "debug" THEN 1 ELSE 0)

-----------------------------------------------------------------------------
Init ==
  /\ aw = None /\ w = None /\ ar = None /\ habit \in Habits
  /\ state = "IDLE" /\ awSeen = FALSE /\ wSeen = FALSE /\ opWrite = FALSE
  /\ addr \in {"CONTROL"} /\ beat \in {[data |-> d, strobe |-> FALSE] : d \in Data}
  /\ error = FALSE /\ hostReq = None /\ hbmReq = None
  /\ hostResp = None /\ startPulse = FALSE /\ busy = FALSE
  /\ dma = "IDLE" /\ dmaReq = FALSE
  /\ debugActive = FALSE
  /\ axi = [busy |-> FALSE, ready |-> TRUE, valid |-> FALSE]
  /\ owner = None /\ tookAw = None /\ tookW = None /\ tookAr = None /\ served = 0

Edge(ready, failed, stop, go, finish) ==
  /\ MasterStep /\ UNCHANGED habit /\ BridgeStep(ready, failed) /\ ChipStep(stop, go)
  /\ SelectStep /\ AdapterStep(finish) /\ Record(ready)

\* Inputs of an edge that nothing looks at are FALSE.
Input(looked) == IF looked THEN BOOLEAN ELSE {FALSE}

Next ==
  \E ready  \in Input(state \in {"WRITE_RESP", "READ_RESP"}),
     failed \in Input(state = "HBM_RESP" /\ DebugValid),
     stop   \in Input(busy /\ dma = "IDLE"),
     go     \in Input(busy /\ dma # "REQ"),
     finish \in Input(axi.busy) :
       Edge(ready, failed, stop, go, finish)

Spec == Init /\ [][Next]_vars

\* The clock ticks, the AXI slave answers, and the master takes its responses.
Answer == axi.busy /\ Next /\ ~axi'.busy
Take   == state \in {"WRITE_RESP", "READ_RESP"} /\ Next /\ state' = "IDLE"
FairSpec == Spec /\ WF_vars(Next) /\ WF_vars(Answer) /\ WF_vars(Take)

-----------------------------------------------------------------------------
(* Properties                                                              *)

RequestType == [write : BOOLEAN, addr : Target, beat : Beat]

\* The type of every register.
TypeOK ==
  /\ aw \in Target \cup {None} /\ ar \in Target \cup {None}
  /\ w = None \/ w \in Beat
  /\ state \in {"IDLE", "WRITE_WAIT", "CORE_REQ", "CORE_RESP", "HBM_REQ", "HBM_RESP",
                "WRITE_RESP", "READ_RESP"}
  /\ {awSeen, wSeen, opWrite, error, startPulse, busy, dmaReq, debugActive} \subseteq BOOLEAN
  /\ addr \in Target /\ beat \in Beat
  /\ hostReq = None \/ hostReq \in RequestType
  /\ hbmReq = None \/ hbmReq \in RequestType
  /\ hostResp \in {None, "OK", "ERROR"}
  /\ dma \in {"IDLE", "REQ", "WAIT"}
  /\ axi \in [busy : BOOLEAN, ready : BOOLEAN, valid : BOOLEAN]
  /\ owner \in {None, "core", "debug"}
  /\ tookAw \in Target \cup {None} /\ tookAr \in Target \cup {None}
  /\ tookW = None \/ tookW \in Beat
  /\ served \in Nat

\* The debug window is for idle time: from the moment the bridge drives an HBM
\* request until it has the answer the chip is not running, although the
\* bridge looked at core_busy one edge earlier and a start may be in flight.
DebugOnlyWhenIdle == state \in {"HBM_REQ", "HBM_RESP"} => ~busy /\ ~startPulse

\* Responses of the HBM channel carry no identity: each one reaches the side
\* whose request the adapter took.
ResponseToOwner ==
  axi.valid => /\ owner = "debug" => DebugValid /\ state = "HBM_RESP"
               /\ owner = "core"  => CoreValid /\ dma = "WAIT"

\* The adapter takes a request while idle even when its ready is low, so a
\* requester that held its request would be served twice.  Nobody does: a
\* transaction reaches the chip or the HBM at most once, and exactly once
\* before it is answered without an error.
ServedOnce ==
  /\ served <= 1
  /\ state \in {"WRITE_RESP", "READ_RESP"} /\ ~error => served = 1

\* What the chip or the HBM is asked to do is what the master's handshakes
\* said, for a master that presents the address and data of a write together.
Faithful ==
  \A r \in {hostReq, hbmReq} \ {None} :
    IF r.write THEN r.addr = tookAw /\ r.beat = tookW ELSE r.addr = tookAr
RequestFaithful == ~habit.splits => Faithful

\* A write whose handshakes completed is being processed until it is answered,
\* for a master that does not read next to a write.
WriteInProgress ==
  tookAw # None \/ tookW # None =>
    opWrite /\ state \notin {"IDLE", "READ_RESP"}
WriteNotDropped == ~habit.overlaps => WriteInProgress

\* The bridge "converts AWS OCL AXI-Lite traffic": AXI-Lite allows a master both.
RequestFaithfulAlways == Faithful
WriteNotDroppedAlways == WriteInProgress

\* Every transaction the bridge has started is answered.
TransactionEnds == state \notin {"IDLE", "WRITE_WAIT"} ~> state = "IDLE"

\* The chip's DMA engine gets the HBM channel back after a debug access.
DmaServed == dma = "REQ" ~> dma = "WAIT"
=============================================================================
