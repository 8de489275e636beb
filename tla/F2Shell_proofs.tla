--------------------------- MODULE F2Shell_proofs ---------------------------
(***************************************************************************)
(* The safety properties of F2Shell, for any payloads and any mixture of   *)
(* masters.                                                                *)
(***************************************************************************)
EXTENDS F2Shell, TLAPS

USE ShellAssumption

Answering == {"WRITE_RESP", "READ_RESP"}

-----------------------------------------------------------------------------
(* The invariant, part by part                                             *)

\* Who holds what: the bridge's request registers, the start pulse and the
\* chip's response follow the bridge's state; the adapter is ready exactly when
\* neither side waits for it, and it works for the side that waits.
ChannelInv ==
  /\ hbmReq # None <=> state = "HBM_REQ"
  /\ hostReq # None <=> state = "CORE_REQ"
  /\ hostResp # None <=> state = "CORE_RESP"
  /\ startPulse => state = "CORE_RESP"
  /\ DebugOnlyWhenIdle
  /\ dma # "IDLE" => busy
  /\ dmaReq => dma = "REQ"
  /\ debugActive <=> state = "HBM_RESP"
  /\ axi.ready <=> state # "HBM_RESP" /\ dma # "WAIT"
  /\ axi.ready => ~axi.busy /\ ~axi.valid
  /\ ~axi.ready => (axi.busy <=> ~axi.valid)
  /\ dma = "WAIT" => owner = "core"
  /\ state = "HBM_RESP" => owner = "debug"

\* How often a transaction has been served follows from where it is.
ServedInv ==
  /\ served \in {0, 1}
  /\ state \in {"WRITE_WAIT", "CORE_REQ", "HBM_REQ"} => served = 0
  /\ state \in {"CORE_RESP", "HBM_RESP"} => served = 1
  /\ state \in Answering => error \/ served = 1

-----------------------------------------------------------------------------
(* One edge                                                                *)

LEMMA NextIsEdge ==
  ASSUME Next
  PROVE  \E ready, failed, stop, go, finish \in BOOLEAN :
           Edge(ready, failed, stop, go, finish)
BY DEF Next, Input

\* What the bridge does, seen from the chip and the HBM channel.
LEMMA BridgeEdge ==
  ASSUME TypeOK, ChannelInv, NEW ready \in BOOLEAN, NEW failed \in BOOLEAN,
         BridgeStep(ready, failed)
  PROVE  \/ /\ state \in {"IDLE", "WRITE_WAIT"}
            /\ \/ state' \in {"IDLE", "WRITE_WAIT"} /\ hostReq' = None /\ hbmReq' = None
                  /\ (state' = "IDLE" => state = "IDLE")
               \/ state' \in Answering /\ error' = TRUE /\ hostReq' = None /\ hbmReq' = None
               \/ state' = "CORE_REQ" /\ hostReq' \in RequestType /\ hbmReq' = None
               \/ state' = "HBM_REQ" /\ hbmReq' \in RequestType /\ hostReq' = None /\ ~busy
         \/ state = "CORE_REQ" /\ state' = "CORE_RESP" /\ hostReq' = None /\ hbmReq' = None
         \/ state = "CORE_RESP" /\ state' \in Answering /\ hostReq' = None /\ hbmReq' = None
         \/ state = "HBM_REQ" /\ state' = "HBM_RESP" /\ hostReq' = None /\ hbmReq' = None
         \/ /\ state = "HBM_RESP" /\ hostReq' = None /\ hbmReq' = None
            /\ IF DebugValid THEN state' \in Answering ELSE state' = state
         \/ /\ state \in Answering /\ state' \in {state, "IDLE"} /\ error' = error
            /\ hostReq' = None /\ hbmReq' = None
PROOF
<1> USE DEF Answering
<1>1. ASSUME NEW write \in BOOLEAN, NEW a \in Target, NEW b \in Beat, NEW s \in Answering,
             Dispatch(write, a, b, s)
      PROVE  \/ state' = s /\ error' = TRUE /\ hostReq' = None /\ hbmReq' = None
             \/ state' = "CORE_REQ" /\ hostReq' \in RequestType /\ hbmReq' = None
             \/ state' = "HBM_REQ" /\ hbmReq' \in RequestType /\ hostReq' = None /\ ~busy
  <2>1. Request(write, a, b) \in RequestType
    BY DEF Request, RequestType
  <2> QED
    BY <1>1, <2>1 DEF Dispatch
<1>2. CASE IdleRead
  <2>1. ar \in Target /\ beat \in Beat
    BY <1>2 DEF IdleRead, TypeOK
  <2>2. state = "IDLE" /\ Dispatch(FALSE, ar, beat, "READ_RESP")
    BY <1>2 DEF IdleRead
  <2> QED
    BY <1>1, <2>1, <2>2
<1>3. CASE IdleWrite
  BY <1>3 DEF IdleWrite
<1>4. CASE IdleNothing
  BY <1>4 DEF IdleNothing
<1>5. CASE WriteWait
  <2>1. addr \in Target /\ beat \in Beat
    BY DEF TypeOK
  <2>2. CASE (awSeen \/ aw # None) /\ (wSeen \/ w # None)
    <3>1. state = "WRITE_WAIT" /\ Dispatch(TRUE, addr, beat, "WRITE_RESP")
      BY <1>5, <2>2 DEF WriteWait
    <3> QED
      BY <1>1, <2>1, <3>1
  <2>3. CASE ~((awSeen \/ aw # None) /\ (wSeen \/ w # None))
    BY <1>5, <2>3 DEF WriteWait
  <2> QED
    BY <2>2, <2>3
<1>6. CASE CoreReq
  BY <1>6 DEF CoreReq
<1>7. CASE CoreResp
  BY <1>7 DEF CoreResp, ChannelInv, Respond
<1>8. CASE HbmReq
  <2>1. state = "HBM_REQ" /\ hbmReq # None /\ ~busy /\ dma # "WAIT" /\ axi.ready
    BY <1>8 DEF HbmReq, ChannelInv, DebugOnlyWhenIdle
  <2>2. DebugReady
    BY <2>1 DEF DebugReady, SelectDebug
  <2> QED
    BY <1>8, <2>1, <2>2 DEF HbmReq
<1>9. CASE HbmResp(failed)
  BY <1>9 DEF HbmResp, Respond
<1>10. CASE Resp(ready)
  BY <1>10 DEF Resp
<1> QED
  BY <1>2, <1>3, <1>4, <1>5, <1>6, <1>7, <1>8, <1>9, <1>10 DEF BridgeStep

\* What the adapter does, register by register.
LEMMA AdapterEdge ==
  ASSUME TypeOK, NEW finish \in BOOLEAN, AdapterStep(finish)
  PROVE  /\ axi' \in [busy : BOOLEAN, ready : BOOLEAN, valid : BOOLEAN]
         /\ Takes => axi'.busy /\ ~axi'.ready /\ ~axi'.valid
         /\ ~axi.busy /\ ~Takes => ~axi'.busy /\ axi'.ready /\ ~axi'.valid
         /\ axi.busy => ~axi'.ready /\ (axi'.busy <=> ~axi'.valid)
PROOF
<1>1. axi.busy \in BOOLEAN
  BY DEF TypeOK
<1>2. CASE Takes
  <2>1. axi' = [busy |-> TRUE, ready |-> FALSE, valid |-> FALSE]
    BY <1>2 DEF AdapterStep, Takes
  <2> QED
    BY <1>2, <2>1 DEF Takes
<1>3. CASE ~axi.busy /\ ~Takes
  <2>1. axi' = [busy |-> FALSE, ready |-> TRUE, valid |-> FALSE]
    BY <1>3 DEF AdapterStep, Takes
  <2> QED
    BY <1>3, <2>1
<1>4. CASE axi.busy /\ finish
  <2>1. axi' = [busy |-> FALSE, ready |-> FALSE, valid |-> TRUE]
    BY <1>4 DEF AdapterStep
  <2> QED
    BY <1>4, <2>1 DEF Takes
<1>5. CASE axi.busy /\ ~finish
  <2>1. axi' = [busy |-> TRUE, ready |-> FALSE, valid |-> FALSE]
    BY <1>5 DEF AdapterStep
  <2> QED
    BY <1>5, <2>1 DEF Takes
<1> QED
  BY <1>2, <1>3, <1>4, <1>5

\* Who the adapter takes a request of: the bridge when it asks, which is never
\* while the chip runs, else the DMA engine.
LEMMA Selected ==
  ASSUME TypeOK, ChannelInv
  PROVE  /\ state = "HBM_REQ" => SelectDebug /\ Takes /\ AdapterBusyWith = "debug"
         /\ state # "HBM_REQ" /\ dmaReq => ~SelectDebug /\ Takes /\ AdapterBusyWith = "core"
         /\ state # "HBM_REQ" /\ ~dmaReq => ~Takes
         /\ dmaReq => axi.ready /\ state \notin {"HBM_REQ", "HBM_RESP"} /\ CoreReady
         /\ DebugValid <=> state = "HBM_RESP" /\ axi.valid
         /\ dma = "WAIT" => (CoreValid <=> axi.valid)
PROOF
<1> USE DEF ChannelInv, DebugOnlyWhenIdle
<1>1. {debugActive, dmaReq, busy, axi.ready, axi.busy, axi.valid} \subseteq BOOLEAN
  BY DEF TypeOK
<1>2. SelectDebug <=> state \in {"HBM_REQ", "HBM_RESP"}
  BY <1>1 DEF SelectDebug
<1>3. state = "HBM_REQ" => dma = "IDLE" /\ axi.ready /\ ~axi.busy
  BY <1>1
<1>4. dmaReq => dma = "REQ" /\ busy /\ state \notin {"HBM_REQ", "HBM_RESP"} /\ axi.ready
                /\ ~axi.busy
  BY <1>1
<1>5. dma = "WAIT" => busy /\ state \notin {"HBM_REQ", "HBM_RESP"}
  BY <1>1
<1>6. state = "HBM_RESP" => hbmReq = None
  OBVIOUS
<1> QED
  BY <1>1, <1>2, <1>3, <1>4, <1>5, <1>6
     DEF Takes, AdapterBusyWith, CoreReady, DebugValid, CoreValid

\* The chip's side of an edge.
LEMMA ChipEdge ==
  ASSUME TypeOK, ChannelInv, NEW stop \in BOOLEAN, NEW go \in BOOLEAN, ChipStep(stop, go)
  PROVE  /\ hostResp' \in {None, "OK", "ERROR"} /\ startPulse' \in BOOLEAN /\ busy' \in BOOLEAN
         /\ dma' \in {"IDLE", "REQ", "WAIT"} /\ dmaReq' \in BOOLEAN
         /\ hostResp' # None <=> hostReq # None
         /\ startPulse' => hostReq # None
         /\ ~busy /\ ~startPulse => ~busy'
         /\ dma' # "IDLE" => busy'
         /\ dmaReq' => dma' = "REQ"
         /\ dma' = "WAIT" <=> dmaReq \/ (dma = "WAIT" /\ ~axi.valid)
PROOF
<1> USE DEF ChannelInv
<1>1. {startPulse, busy, dmaReq} \subseteq BOOLEAN
  BY DEF TypeOK
<1>2. /\ hostResp' \in {None, "OK", "ERROR"} /\ startPulse' \in BOOLEAN
      /\ hostResp' # None <=> hostReq # None
      /\ startPulse' => hostReq # None
  BY DEF ChipStep, HostRequest
<1>3. busy' = (startPulse \/ (busy /\ ~((stop /\ ~go) /\ dma = "IDLE")))
  BY DEF ChipStep, ChipRuns
<1>4. CASE DmaIdle(go)
  BY <1>1, <1>2, <1>3, <1>4 DEF DmaIdle
<1>5. CASE DmaRequest
  <2>1. dma = "REQ" /\ (dmaReq => CoreReady)
    BY <1>5, Selected DEF DmaRequest
  <2>2. IF dmaReq THEN dma' = "WAIT" /\ dmaReq' = FALSE ELSE dma' = "REQ" /\ dmaReq' = TRUE
    BY <1>1, <1>5, <2>1 DEF DmaRequest
  <2> QED
    BY <1>1, <1>2, <1>3, <2>1, <2>2
<1>6. CASE DmaWait(go)
  <2>1. dma = "WAIT" /\ (CoreValid <=> axi.valid)
    BY <1>6, Selected DEF DmaWait
  <2>2. axi.valid \in BOOLEAN
    BY DEF TypeOK
  <2>3. dmaReq' = FALSE /\ dma' = IF ~axi.valid THEN "WAIT" ELSE IF go THEN "REQ" ELSE "IDLE"
    BY <1>6, <2>1, <2>2 DEF DmaWait
  <2> QED
    BY <1>1, <1>2, <1>3, <2>1, <2>2, <2>3
<1> QED
  BY <1>4, <1>5, <1>6 DEF ChipStep

LEMMA ChannelKeeps ==
  ASSUME TypeOK, ChannelInv, NEW ready \in BOOLEAN, NEW failed \in BOOLEAN, NEW stop \in BOOLEAN,
         NEW go \in BOOLEAN, NEW finish \in BOOLEAN, Edge(ready, failed, stop, go, finish)
  PROVE  ChannelInv'
PROOF
<1>1. BridgeStep(ready, failed) /\ ChipStep(stop, go) /\ SelectStep /\ AdapterStep(finish)
      /\ Record(ready)
  BY DEF Edge
<1> DEFINE Quiet == hostReq' = None /\ hbmReq' = None
<1>2. {debugActive, dmaReq, busy, startPulse, axi.ready, axi.busy, axi.valid} \subseteq BOOLEAN
  BY DEF TypeOK
<1>3. debugActive' = IF state = "HBM_REQ" THEN TRUE
                     ELSE IF state = "HBM_RESP" /\ axi.valid THEN FALSE ELSE debugActive
  <2>1. ~debugActive /\ hbmReq # None /\ ~busy /\ axi.ready <=> state = "HBM_REQ"
    BY <1>2 DEF ChannelInv, DebugOnlyWhenIdle
  <2>2. debugActive /\ axi.valid <=> state = "HBM_RESP" /\ axi.valid
    BY <1>2 DEF ChannelInv
  <2> QED
    BY <1>1, <2>1, <2>2 DEF SelectStep
<1>4. /\ hostResp' # None <=> hostReq # None
      /\ startPulse' => hostReq # None
      /\ ~busy /\ ~startPulse => ~busy'
      /\ dma' # "IDLE" => busy'
      /\ dmaReq' => dma' = "REQ"
      /\ dma' = "WAIT" <=> dmaReq \/ (dma = "WAIT" /\ ~axi.valid)
  BY <1>1, ChipEdge
<1>5. state' = "HBM_RESP" <=> state = "HBM_REQ" \/ (state = "HBM_RESP" /\ ~axi.valid)
  BY <1>1, BridgeEdge, Selected DEF Answering
<1>6. /\ hbmReq' # None <=> state' = "HBM_REQ"
      /\ hostReq' # None <=> state' = "CORE_REQ"
      /\ hostReq # None <=> state' = "CORE_RESP"
  BY <1>1, BridgeEdge DEF Answering, ChannelInv, RequestType
<1>7. DebugOnlyWhenIdle'
  <2> SUFFICES ASSUME state' \in {"HBM_REQ", "HBM_RESP"} PROVE ~busy' /\ ~startPulse'
    BY DEF DebugOnlyWhenIdle
  <2>1. state # "CORE_REQ" /\ state # "CORE_RESP" /\ ~busy
    BY <1>1, BridgeEdge DEF Answering, ChannelInv, DebugOnlyWhenIdle
  <2> QED
    BY <1>4, <2>1 DEF ChannelInv
<1>8. /\ axi'.ready <=> state' # "HBM_RESP" /\ dma' # "WAIT"
      /\ axi'.ready => ~axi'.busy /\ ~axi'.valid
      /\ ~axi'.ready => (axi'.busy <=> ~axi'.valid)
  <2>1. {axi'.ready, axi'.busy, axi'.valid} \subseteq BOOLEAN
    BY <1>1, AdapterEdge
  <2>2. CASE Takes
    <3>1. axi'.busy /\ ~axi'.ready /\ ~axi'.valid
      BY <1>1, <2>2, AdapterEdge
    <3>2. state' = "HBM_RESP" \/ dma' = "WAIT"
      BY <1>4, <1>5, <2>2, Selected
    <3> QED
      BY <3>1, <3>2
  <2>3. CASE ~axi.busy /\ ~Takes
    <3>1. ~axi'.busy /\ axi'.ready /\ ~axi'.valid
      BY <1>1, <2>3, AdapterEdge
    <3>2. state # "HBM_REQ" /\ ~dmaReq
      BY <2>3, Selected
    <3>3. axi.ready \/ axi.valid
      BY <1>2, <2>3 DEF ChannelInv
    <3>4. state' # "HBM_RESP" /\ dma' # "WAIT"
      BY <1>2, <1>4, <1>5, <3>2, <3>3 DEF ChannelInv
    <3> QED
      BY <3>1, <3>4
  <2>4. CASE axi.busy
    <3>1. ~axi'.ready /\ (axi'.busy <=> ~axi'.valid)
      BY <1>1, <2>4, AdapterEdge
    <3>2. ~axi.ready /\ ~axi.valid
      BY <1>2, <2>4 DEF ChannelInv
    <3>3. state' = "HBM_RESP" \/ dma' = "WAIT"
      BY <1>4, <1>5, <3>2 DEF ChannelInv
    <3> QED
      BY <3>1, <3>3
  <2> QED
    BY <2>2, <2>3, <2>4 DEF Takes
<1>9. owner' = IF Takes THEN AdapterBusyWith ELSE owner
  BY <1>1 DEF Record
<1>10. dma' = "WAIT" => owner' = "core"
  <2>1. CASE dmaReq
    BY <1>9, <2>1, Selected
  <2>2. CASE dma = "WAIT" /\ ~dmaReq
    <3>1. state # "HBM_REQ"
      BY <1>2, <2>2 DEF ChannelInv, DebugOnlyWhenIdle
    <3> QED
      BY <1>9, <2>2, <3>1, Selected DEF ChannelInv
  <2> QED
    BY <1>4, <2>1, <2>2
<1>11. state' = "HBM_RESP" => owner' = "debug"
  <2>1. CASE state = "HBM_REQ"
    BY <1>9, <2>1, Selected
  <2>2. CASE state = "HBM_RESP"
    <3>1. ~dmaReq
      BY <1>2, <2>2 DEF ChannelInv, DebugOnlyWhenIdle
    <3> QED
      BY <1>9, <2>2, <3>1, Selected DEF ChannelInv
  <2> QED
    BY <1>5, <2>1, <2>2
<1>12. debugActive' <=> state' = "HBM_RESP"
  BY <1>2, <1>3, <1>5 DEF ChannelInv
<1> QED
  BY <1>4, <1>6, <1>7, <1>8, <1>10, <1>11, <1>12 DEF ChannelInv

\* The count of what was served.
LEMMA ServedKeeps ==
  ASSUME TypeOK, ChannelInv, ServedInv, NEW ready \in BOOLEAN, NEW failed \in BOOLEAN,
         NEW stop \in BOOLEAN, NEW go \in BOOLEAN, NEW finish \in BOOLEAN,
         Edge(ready, failed, stop, go, finish)
  PROVE  ServedInv'
PROOF
<1>1. BridgeStep(ready, failed) /\ Record(ready)
  BY DEF Edge
<1>2. Takes /\ AdapterBusyWith = "debug" <=> state = "HBM_REQ"
  BY Selected
<1>3. hostReq # None <=> state = "CORE_REQ"
  BY DEF ChannelInv
<1>4. served' = IF state = "IDLE" THEN 0
                ELSE IF state \in {"CORE_REQ", "HBM_REQ"} THEN served + 1 ELSE served
  <2>1. served' = IF state = "IDLE" THEN 0
                  ELSE served + (IF state = "CORE_REQ" THEN 1 ELSE 0)
                              + (IF state = "HBM_REQ" THEN 1 ELSE 0)
    BY <1>1, <1>2, <1>3 DEF Record
  <2> QED
    BY <2>1 DEF ServedInv
<1>5. served' \in {0, 1}
  BY <1>4 DEF ServedInv
<1>6. state' \in {"WRITE_WAIT", "CORE_REQ", "HBM_REQ"} => served' = 0
  BY <1>1, <1>4, BridgeEdge DEF ServedInv, Answering
<1>7. state' \in {"CORE_RESP", "HBM_RESP"} => served' = 1
  <2>1. state' = "CORE_RESP" => state = "CORE_REQ"
    BY <1>1, BridgeEdge DEF Answering
  <2>2. state' = "HBM_RESP" => state \in {"HBM_REQ", "HBM_RESP"}
    BY <1>1, BridgeEdge DEF Answering
  <2> QED
    BY <1>4, <2>1, <2>2 DEF ServedInv
<1>8. state' \in Answering => error' \/ served' = 1
  BY <1>1, <1>4, BridgeEdge DEF ServedInv, Answering
<1> QED
  BY <1>5, <1>6, <1>7, <1>8 DEF ServedInv

-----------------------------------------------------------------------------
(* Types                                                                   *)

LEMMA MasterTypes ==
  ASSUME TypeOK, NEW ready \in BOOLEAN, MasterStep, Record(ready)
  PROVE  /\ aw' \in Target \cup {None} /\ ar' \in Target \cup {None}
         /\ w' = None \/ w' \in Beat
         /\ tookAw' \in Target \cup {None} /\ tookAr' \in Target \cup {None}
         /\ tookW' = None \/ tookW' \in Beat
PROOF
<1>1. /\ tookAw' \in Target \cup {None} /\ tookAr' \in Target \cup {None}
      /\ tookW' = None \/ tookW' \in Beat
  BY DEF Record, TypeOK
<1>2. /\ Kept(aw, AwFires) \in Target \cup {None} /\ Kept(ar, ArFires) \in Target \cup {None}
      /\ Kept(w, WFires) = None \/ Kept(w, WFires) \in Beat
  BY DEF Kept, TypeOK
<1>3. /\ aw' \in Target \cup {None} /\ ar' \in Target \cup {None}
      /\ w' = None \/ w' \in Beat
  BY <1>2 DEF MasterStep, OfferNothing, OfferWrite, OfferReadAndWrite, OfferAddress, OfferRead,
              OfferData
<1> QED
  BY <1>1, <1>3

LEMMA BridgeTypes ==
  ASSUME TypeOK, ChannelInv, NEW ready \in BOOLEAN, NEW failed \in BOOLEAN,
         BridgeStep(ready, failed)
  PROVE  /\ state' \in {"IDLE", "WRITE_WAIT", "CORE_REQ", "CORE_RESP", "HBM_REQ", "HBM_RESP",
                        "WRITE_RESP", "READ_RESP"}
         /\ awSeen' \in BOOLEAN /\ wSeen' \in BOOLEAN /\ opWrite' \in BOOLEAN
         /\ error' \in BOOLEAN
         /\ addr' \in Target /\ beat' \in Beat
         /\ hostReq' = None \/ hostReq' \in RequestType
         /\ hbmReq' = None \/ hbmReq' \in RequestType
PROOF
<1>1. /\ state' \in {"IDLE", "WRITE_WAIT", "CORE_REQ", "CORE_RESP", "HBM_REQ", "HBM_RESP",
                     "WRITE_RESP", "READ_RESP"}
      /\ hostReq' = None \/ hostReq' \in RequestType
      /\ hbmReq' = None \/ hbmReq' \in RequestType
  BY BridgeEdge DEF Answering
<1>2. /\ addr \in Target /\ beat \in Beat /\ aw \in Target \cup {None} /\ ar \in Target \cup {None}
      /\ w = None \/ w \in Beat
      /\ awSeen \in BOOLEAN /\ wSeen \in BOOLEAN /\ opWrite \in BOOLEAN /\ error \in BOOLEAN
  BY DEF TypeOK
<1>3. CASE IdleRead
  BY <1>1, <1>2, <1>3 DEF IdleRead, Dispatch
<1>4. CASE IdleWrite
  BY <1>1, <1>2, <1>4 DEF IdleWrite
<1>5. CASE IdleNothing
  BY <1>1, <1>2, <1>5 DEF IdleNothing
<1>6. CASE WriteWait
  <2>1. AwFires => aw \in Target
    BY <1>2 DEF AwFires
  <2>2. WFires => w \in Beat
    BY <1>2 DEF WFires
  <2>3. error' \in BOOLEAN
    BY <1>2, <1>6 DEF WriteWait, Dispatch
  <2>4. awSeen' \in BOOLEAN /\ wSeen' \in BOOLEAN
    BY <1>6 DEF WriteWait
  <2> QED
    BY <1>1, <1>2, <1>6, <2>1, <2>2, <2>3, <2>4 DEF WriteWait
<1>7. CASE CoreReq
  BY <1>1, <1>2, <1>7 DEF CoreReq
<1>8. CASE CoreResp
  BY <1>1, <1>2, <1>8 DEF CoreResp, Respond
<1>9. CASE HbmReq
  BY <1>1, <1>2, <1>9 DEF HbmReq
<1>10. CASE HbmResp(failed)
  BY <1>1, <1>2, <1>10 DEF HbmResp, Respond
<1>11. CASE Resp(ready)
  BY <1>1, <1>2, <1>11 DEF Resp
<1> QED
  BY <1>3, <1>4, <1>5, <1>6, <1>7, <1>8, <1>9, <1>10, <1>11 DEF BridgeStep

LEMMA TypesKeep ==
  ASSUME TypeOK, ChannelInv, ServedInv, NEW ready \in BOOLEAN, NEW failed \in BOOLEAN,
         NEW stop \in BOOLEAN, NEW go \in BOOLEAN, NEW finish \in BOOLEAN,
         Edge(ready, failed, stop, go, finish)
  PROVE  TypeOK'
PROOF
<1>1. /\ MasterStep /\ BridgeStep(ready, failed) /\ ChipStep(stop, go) /\ SelectStep
      /\ AdapterStep(finish) /\ Record(ready)
  BY DEF Edge
<1>2. debugActive' \in BOOLEAN
  BY <1>1 DEF SelectStep, TypeOK
<1>3. owner' \in {None, "core", "debug"}
  BY <1>1 DEF Record, AdapterBusyWith, TypeOK
<1>4. served' \in Nat
  BY ServedKeeps DEF ServedInv
<1>5. /\ hostResp' \in {None, "OK", "ERROR"} /\ startPulse' \in BOOLEAN /\ busy' \in BOOLEAN
      /\ dma' \in {"IDLE", "REQ", "WAIT"} /\ dmaReq' \in BOOLEAN
  BY <1>1, ChipEdge
<1>6. axi' \in [busy : BOOLEAN, ready : BOOLEAN, valid : BOOLEAN]
  BY <1>1, AdapterEdge
<1>7. /\ aw' \in Target \cup {None} /\ ar' \in Target \cup {None}
      /\ w' = None \/ w' \in Beat
      /\ tookAw' \in Target \cup {None} /\ tookAr' \in Target \cup {None}
      /\ tookW' = None \/ tookW' \in Beat
  BY <1>1, MasterTypes
<1>8. /\ state' \in {"IDLE", "WRITE_WAIT", "CORE_REQ", "CORE_RESP", "HBM_REQ", "HBM_RESP",
                     "WRITE_RESP", "READ_RESP"}
      /\ awSeen' \in BOOLEAN /\ wSeen' \in BOOLEAN /\ opWrite' \in BOOLEAN
      /\ error' \in BOOLEAN
      /\ addr' \in Target /\ beat' \in Beat
      /\ hostReq' = None \/ hostReq' \in RequestType
      /\ hbmReq' = None \/ hbmReq' \in RequestType
  BY <1>1, BridgeTypes
<1> QED
  BY <1>2, <1>3, <1>4, <1>5, <1>6, <1>7, <1>8 DEF TypeOK, RequestType, Beat, Target

-----------------------------------------------------------------------------
(* Masters that present the address and the data of a write together       *)

\* Both halves of a write are offered, taken and answered together, so the
\* bridge's registers are what the master's handshakes said from the moment it
\* leaves IDLE.
Whole ==
  /\ aw = None <=> w = None
  /\ tookAw = None <=> tookW = None
  /\ aw # None => tookAw = None
  /\ awSeen <=> wSeen
  /\ state = "IDLE" => ~awSeen
  /\ state = "WRITE_WAIT" => awSeen /\ opWrite
  /\ state # "IDLE" => IF opWrite THEN tookAw = addr /\ tookW = beat ELSE tookAr = addr
  /\ state = "WRITE_RESP" => opWrite
  /\ state = "READ_RESP" => ~opWrite
  /\ \A r \in {hostReq, hbmReq} \ {None} : r = Request(opWrite, addr, beat)

\* The handshakes of an edge.
LEMMA WholeHandshakes ==
  ASSUME TypeOK, Whole, ~habit.splits, NEW ready \in BOOLEAN, MasterStep, Record(ready)
  PROVE  /\ AwFires <=> WFires
         /\ AwFires => state = "IDLE"
         /\ ArFires <=> state = "IDLE" /\ ar # None
         /\ state = "IDLE" /\ aw # None => AwFires
         /\ aw' = None <=> w' = None
         /\ tookAw' = None <=> tookW' = None
         /\ aw' # None => tookAw' = None
PROOF
<1>1. awSeen \in BOOLEAN /\ wSeen \in BOOLEAN /\ addr \in Target
  BY DEF TypeOK
<1>2. state = "WRITE_WAIT" => aw = None
  BY <1>1 DEF Whole
<1>3. /\ AwFires <=> WFires
      /\ AwFires => state = "IDLE"
      /\ ArFires <=> state = "IDLE" /\ ar # None
      /\ state = "IDLE" /\ aw # None => AwFires
  BY <1>1, <1>2 DEF Whole, AwFires, WFires, ArFires, AwReady, WReady, ArReady
<1>4. /\ tookAw' = None <=> tookW' = None
      /\ aw = None => tookAw' \in {None, tookAw}
      /\ ~AwFires => tookAw' \in {None, tookAw}
  <2>1. AwFires => aw # None /\ w # None
    BY <1>3 DEF AwFires, WFires
  <2> QED
    BY <1>3, <2>1 DEF Record, Whole
<1>5. CASE OfferNothing
  BY <1>3, <1>4, <1>5 DEF OfferNothing, Kept, Whole
<1>6. CASE \E a \in Target, b \in Beat : OfferWrite(a, b)
  <2>1. aw' # None /\ w' # None /\ aw = None /\ tookAw = None
    BY <1>6 DEF OfferWrite, WriteOpen
  <2> QED
    BY <1>3, <1>4, <2>1
<1>7. CASE \E r, a \in Target, b \in Beat : OfferReadAndWrite(r, a, b)
  <2>1. aw' # None /\ w' # None /\ aw = None /\ tookAw = None
    BY <1>7 DEF OfferReadAndWrite, WriteOpen
  <2> QED
    BY <1>3, <1>4, <2>1
<1>8. CASE \E a \in Target : OfferRead(a)
  BY <1>3, <1>4, <1>8 DEF OfferRead, Kept, Whole
<1> QED
  BY <1>5, <1>6, <1>7, <1>8 DEF MasterStep, OfferAddress, OfferData, SplitWrites

\* What the bridge keeps of an edge, action by action.
LEMMA WholeKeeps ==
  ASSUME TypeOK, ChannelInv, Whole, ~habit.splits,
         NEW ready \in BOOLEAN, NEW failed \in BOOLEAN,
         NEW stop \in BOOLEAN, NEW go \in BOOLEAN, NEW finish \in BOOLEAN,
         Edge(ready, failed, stop, go, finish)
  PROVE  Whole'
PROOF
<1>1. MasterStep /\ BridgeStep(ready, failed) /\ Record(ready)
  BY DEF Edge
<1>2. /\ AwFires <=> WFires
      /\ AwFires => state = "IDLE"
      /\ ArFires <=> state = "IDLE" /\ ar # None
      /\ state = "IDLE" /\ aw # None => AwFires
      /\ aw' = None <=> w' = None
      /\ tookAw' = None <=> tookW' = None
      /\ aw' # None => tookAw' = None
  BY <1>1, WholeHandshakes
<1>3. /\ awSeen \in BOOLEAN /\ wSeen \in BOOLEAN /\ opWrite \in BOOLEAN
      /\ addr \in Target /\ beat \in Beat
  BY DEF TypeOK
<1>4. /\ tookAw' = IF AwFires THEN aw ELSE IF state = "WRITE_RESP" /\ ready THEN None ELSE tookAw
      /\ tookW'  = IF WFires THEN w ELSE IF state = "WRITE_RESP" /\ ready THEN None ELSE tookW
      /\ tookAr' = IF ArFires THEN ar ELSE IF state = "READ_RESP" /\ ready THEN None ELSE tookAr
  BY <1>1 DEF Record
<1> DEFINE Bridge ==
      /\ awSeen' <=> wSeen'
      /\ state' = "IDLE" => ~awSeen'
      /\ state' = "WRITE_WAIT" => awSeen' /\ opWrite'
      /\ state' # "IDLE" =>
           IF opWrite' THEN tookAw' = addr' /\ tookW' = beat' ELSE tookAr' = addr'
      /\ state' = "WRITE_RESP" => opWrite'
      /\ state' = "READ_RESP" => ~opWrite'
      /\ \A r \in {hostReq', hbmReq'} \ {None} : r = Request(opWrite', addr', beat')
<1>5. Bridge => Whole'
  BY <1>2, Zenon DEF Whole, Request
<1>6. CASE IdleRead
  <2>1. /\ state = "IDLE" /\ ar # None
        /\ opWrite' = FALSE /\ addr' = ar /\ awSeen' = FALSE /\ wSeen' = FALSE /\ beat' = beat
        /\ Dispatch(FALSE, ar, beat, "READ_RESP")
    BY <1>6 DEF IdleRead
  <2>2. /\ state' \in {"READ_RESP", "HBM_REQ", "CORE_REQ"}
        /\ \A r \in {hostReq', hbmReq'} \ {None} : r = Request(FALSE, ar, beat)
    BY <2>1 DEF Dispatch
  <2>3. tookAr' = ar
    BY <1>2, <1>4, <2>1
  <2> QED
    BY <1>5, <2>1, <2>2, <2>3
<1>7. CASE IdleWrite
  <2>1. state = "IDLE" /\ aw # None /\ w # None
    BY <1>7 DEF IdleWrite, Whole
  <2>2. /\ awSeen' = TRUE /\ wSeen' = TRUE /\ addr' = aw /\ beat' = w
        /\ opWrite' = TRUE /\ state' = "WRITE_WAIT" /\ hostReq' = None /\ hbmReq' = None
    BY <1>7, <2>1 DEF IdleWrite
  <2>3. tookAw' = aw /\ tookW' = w
    BY <1>2, <1>4, <2>1
  <2> QED
    BY <1>5, <2>2, <2>3
<1>8. CASE IdleNothing
  <2>1. state' = "IDLE" /\ awSeen' = FALSE /\ wSeen' = FALSE /\ hostReq' = None /\ hbmReq' = None
    BY <1>8 DEF IdleNothing
  <2> QED
    BY <1>5, <2>1
<1>9. CASE WriteWait
  <2>1. /\ state = "WRITE_WAIT" /\ awSeen = TRUE /\ wSeen = TRUE /\ opWrite
        /\ ~AwFires /\ ~WFires
    BY <1>2, <1>3, <1>9 DEF WriteWait, Whole
  <2>2. /\ awSeen' = TRUE /\ wSeen' = TRUE /\ addr' = addr /\ beat' = beat /\ opWrite' = opWrite
        /\ Dispatch(TRUE, addr, beat, "WRITE_RESP")
    BY <1>9, <2>1 DEF WriteWait
  <2>3. /\ state' \in {"WRITE_RESP", "HBM_REQ", "CORE_REQ"}
        /\ \A r \in {hostReq', hbmReq'} \ {None} : r = Request(TRUE, addr, beat)
    BY <2>2 DEF Dispatch
  <2>4. tookAw' = addr /\ tookW' = beat
    BY <1>4, <2>1 DEF Whole
  <2>5. opWrite' = TRUE
    BY <1>3, <2>1, <2>2
  <2> QED
    BY <1>5, <2>2, <2>3, <2>4, <2>5
<1>10. ASSUME state \notin {"IDLE", "WRITE_WAIT"},
              UNCHANGED <<opWrite, addr, beat>>,
              \/ UNCHANGED <<awSeen, wSeen>>
              \/ awSeen' = FALSE /\ wSeen' = FALSE,
              \A r \in {hostReq', hbmReq'} \ {None} : r = Request(opWrite, addr, beat),
              \/ state' \in {"CORE_RESP", "HBM_REQ", "HBM_RESP"} /\ state \notin Answering
              \/ state' = (IF opWrite THEN "WRITE_RESP" ELSE "READ_RESP") /\ state \notin Answering
              \/ state \in Answering /\ state' = state /\ ~ready
              \/ state' = "IDLE" /\ awSeen' = FALSE /\ wSeen' = FALSE
       PROVE  Whole'
  <2>1. ~AwFires /\ ~WFires /\ ~ArFires
    BY <1>2, <1>10
  <2>2. state' # "IDLE" => tookAw' = tookAw /\ tookW' = tookW /\ tookAr' = tookAr
    BY <1>4, <1>10, <2>1 DEF Answering
  <2>3. state' # "IDLE" => IF opWrite' THEN tookAw' = addr' /\ tookW' = beat' ELSE tookAr' = addr'
    BY <1>10, <2>2 DEF Whole
  <2>4. /\ state' = "WRITE_RESP" => opWrite'
        /\ state' = "READ_RESP" => ~opWrite'
        /\ state' # "WRITE_WAIT"
    BY <1>3, <1>10 DEF Whole, Answering
  <2>5. (awSeen' <=> wSeen') /\ (state' = "IDLE" => ~awSeen')
    BY <1>10 DEF Whole
  <2> QED
    BY <1>5, <1>10, <2>3, <2>4, <2>5
<1>11. CASE CoreReq
  BY <1>10, <1>11 DEF CoreReq, Answering
<1>12. CASE CoreResp
  BY <1>10, <1>12, <1>1, BridgeEdge DEF CoreResp, Answering, Respond
<1>13. CASE HbmReq
  BY <1>10, <1>13 DEF HbmReq, Answering
<1>14. CASE HbmResp(failed)
  BY <1>10, <1>14 DEF HbmResp, Answering, Respond
<1>15. CASE Resp(ready)
  BY <1>10, <1>15 DEF Resp, Answering
<1> QED
  BY <1>1, <1>6, <1>7, <1>8, <1>9, <1>11, <1>12, <1>13, <1>14, <1>15 DEF BridgeStep

-----------------------------------------------------------------------------
(* Masters that do not read next to a write                                *)

\* A read and a write are never open together, so no write channel fires at
\* the edge at which the bridge takes a read.
Alone ==
  /\ ~(ReadOpen /\ WriteOpen)
  /\ WriteInProgress
  /\ state = "WRITE_WAIT" => opWrite

LEMMA AloneKeeps ==
  ASSUME TypeOK, ChannelInv, Alone, ~habit.overlaps,
         NEW ready \in BOOLEAN, NEW failed \in BOOLEAN,
         NEW stop \in BOOLEAN, NEW go \in BOOLEAN, NEW finish \in BOOLEAN,
         Edge(ready, failed, stop, go, finish)
  PROVE  Alone'
PROOF
<1>1. MasterStep /\ BridgeStep(ready, failed) /\ Record(ready)
  BY DEF Edge
<1>2. opWrite \in BOOLEAN
  BY DEF TypeOK
<1>3. /\ AwFires => aw # None /\ state \in {"IDLE", "WRITE_WAIT"}
      /\ WFires => w # None /\ state \in {"IDLE", "WRITE_WAIT"}
      /\ ArFires => ar # None /\ state = "IDLE"
  BY DEF AwFires, WFires, ArFires, AwReady, WReady, ArReady
<1>4. /\ tookAw' = IF AwFires THEN aw ELSE IF state = "WRITE_RESP" /\ ready THEN None ELSE tookAw
      /\ tookW'  = IF WFires THEN w ELSE IF state = "WRITE_RESP" /\ ready THEN None ELSE tookW
      /\ tookAr' = IF ArFires THEN ar ELSE IF state = "READ_RESP" /\ ready THEN None ELSE tookAr
  BY <1>1 DEF Record
<1>5. /\ tookAw' # None \/ tookW' # None => WriteOpen
      /\ tookAr' # None => ReadOpen
  BY <1>3, <1>4 DEF WriteOpen, ReadOpen
<1>6. /\ Kept(aw, AwFires) # None => aw # None
      /\ Kept(w, WFires) # None => w # None
      /\ Kept(ar, ArFires) # None => ar # None
  BY DEF Kept
<1>7. ~(ReadOpen /\ WriteOpen)'
  <2>1. \/ (aw' # None \/ w' # None => WriteOpen) /\ (ar' # None => ReadOpen)
        \/ ~ReadOpen /\ ar' = None
        \/ ~WriteOpen /\ aw' = None /\ w' = None
    <3>1. CASE OfferNothing
      BY <1>6, <3>1 DEF OfferNothing, WriteOpen, ReadOpen
    <3>2. CASE \E a \in Target, b \in Beat : OfferWrite(a, b)
      BY <1>6, <3>2 DEF OfferWrite, MayWrite, OverlapReads, ReadOpen
    <3>3. CASE \E r, a \in Target, b \in Beat : OfferReadAndWrite(r, a, b)
      BY <3>3 DEF OfferReadAndWrite, OverlapReads
    <3>4. CASE \E a \in Target : OfferAddress(a)
      BY <1>6, <3>4 DEF OfferAddress, MayWrite, OverlapReads, ReadOpen
    <3>5. CASE \E a \in Target : OfferRead(a)
      BY <1>6, <3>5 DEF OfferRead, MayRead, OverlapReads, WriteOpen
    <3>6. CASE \E b \in Beat : OfferData(b)
      BY <1>6, <3>6 DEF OfferData, MayWrite, OverlapReads, ReadOpen
    <3> QED
      BY <1>1, <3>1, <3>2, <3>3, <3>4, <3>5, <3>6 DEF MasterStep
  <2> QED
    BY <1>5, <2>1 DEF Alone, ReadOpen, WriteOpen
<1>8. (state' = "WRITE_WAIT" => opWrite') /\ WriteInProgress'
  <2> DEFINE Taken == tookAw' # None \/ tookW' # None
  <2>1. WriteInProgress' <=> (Taken => opWrite' /\ state' \notin {"IDLE", "READ_RESP"})
    BY DEF WriteInProgress
  <2>2. CASE IdleRead
    <3>1. ReadOpen /\ ~WriteOpen
      BY <2>2 DEF IdleRead, ReadOpen, Alone
    <3>2. ~Taken
      BY <1>5, <3>1
    <3>3. state' # "WRITE_WAIT"
      BY <2>2 DEF IdleRead, Dispatch
    <3> QED
      BY <2>1, <3>2, <3>3
  <2>3. CASE IdleWrite
    BY <2>1, <2>3 DEF IdleWrite
  <2>4. CASE IdleNothing
    <3>1. state = "IDLE" /\ aw = None /\ w = None /\ state' = "IDLE"
      BY <2>4 DEF IdleNothing
    <3>2. tookAw = None /\ tookW = None
      BY <3>1 DEF Alone, WriteInProgress
    <3>3. ~Taken
      BY <1>3, <1>4, <3>1, <3>2
    <3> QED
      BY <2>1, <3>1, <3>3
  <2>5. CASE WriteWait
    <3>1. opWrite' /\ state' \notin {"IDLE", "READ_RESP"}
      BY <2>5 DEF WriteWait, Alone, Dispatch
    <3> QED
      BY <2>1, <3>1
  <2>6. ASSUME state \notin {"IDLE", "WRITE_WAIT"}, opWrite' = opWrite,
               state' # "WRITE_WAIT",
               opWrite /\ state # "WRITE_RESP" => state' \notin {"IDLE", "READ_RESP"},
               state = "WRITE_RESP" => state' = "WRITE_RESP" \/ ready
        PROVE  (state' = "WRITE_WAIT" => opWrite') /\ WriteInProgress'
    <3>1. ~AwFires /\ ~WFires
      BY <1>3, <2>6
    <3>2. Taken => tookAw # None \/ tookW # None
      BY <1>4, <3>1
    <3>3. state = "WRITE_RESP" /\ ready => ~Taken
      BY <1>4, <3>1
    <3> QED
      BY <2>1, <2>6, <3>2, <3>3 DEF Alone, WriteInProgress
  <2>7. CASE CoreReq
    BY <2>6, <2>7 DEF CoreReq
  <2>8. CASE CoreResp
    BY <2>6, <2>8, <1>2 DEF CoreResp, Respond
  <2>9. CASE HbmReq
    BY <2>6, <2>9 DEF HbmReq
  <2>10. CASE HbmResp(failed)
    BY <2>6, <2>10, <1>2 DEF HbmResp, Respond
  <2>11. CASE Resp(ready)
    <3>1. CASE state = "WRITE_RESP"
      BY <2>6, <2>11, <3>1 DEF Resp
    <3>2. CASE state = "READ_RESP"
      <4>1. tookAw = None /\ tookW = None
        BY <3>2 DEF Alone, WriteInProgress
      <4>2. ~Taken
        BY <1>3, <1>4, <3>2, <4>1
      <4>3. state' # "WRITE_WAIT"
        BY <2>11, <3>2 DEF Resp
      <4> QED
        BY <2>1, <4>2, <4>3
    <3> QED
      BY <2>11, <3>1, <3>2 DEF Resp
  <2> QED
    BY <1>1, <2>2, <2>3, <2>4, <2>5, <2>7, <2>8, <2>9, <2>10, <2>11 DEF BridgeStep
<1> QED
  BY <1>7, <1>8 DEF Alone

-----------------------------------------------------------------------------
(* The invariant and the theorems                                          *)

IInv ==
  /\ TypeOK /\ ChannelInv /\ ServedInv
  /\ ~habit.splits => Whole
  /\ ~habit.overlaps => Alone

LEMMA InitIInv == Init => IInv
PROOF
<1> SUFFICES ASSUME Init PROVE IInv
  OBVIOUS
<1>1. beat \in Beat
  <2>1. PICK d \in Data : beat = [data |-> d, strobe |-> FALSE]
    BY DEF Init
  <2> QED
    BY <2>1 DEF Beat
<1>2. TypeOK
  BY <1>1 DEF Init, TypeOK, Target
<1>3. ChannelInv /\ ServedInv
  BY DEF Init, ChannelInv, DebugOnlyWhenIdle, ServedInv, Answering
<1>4. Whole
  BY DEF Init, Whole
<1>5. Alone
  BY DEF Init, Alone, ReadOpen, WriteOpen, WriteInProgress
<1> QED
  BY <1>2, <1>3, <1>4, <1>5 DEF IInv

LEMMA NextIInv == IInv /\ [Next]_vars => IInv'
PROOF
<1> SUFFICES ASSUME IInv, [Next]_vars PROVE IInv'
  OBVIOUS
<1>1. CASE UNCHANGED vars
  BY <1>1 DEF vars, master, bridge, chip, history, IInv, TypeOK, ChannelInv, DebugOnlyWhenIdle,
              ServedInv, Whole, Alone, ReadOpen, WriteOpen, WriteInProgress, RequestType
<1>2. CASE Next
  <2>1. PICK ready \in BOOLEAN, failed \in BOOLEAN, stop \in BOOLEAN, go \in BOOLEAN,
             finish \in BOOLEAN : Edge(ready, failed, stop, go, finish)
    BY <1>2, NextIsEdge
  <2>2. habit' = habit
    BY <2>1 DEF Edge
  <2>3. TypeOK' /\ ChannelInv' /\ ServedInv'
    BY <2>1, TypesKeep, ChannelKeeps, ServedKeeps DEF IInv
  <2>4. ~habit.splits => Whole'
    BY <2>1, WholeKeeps DEF IInv
  <2>5. ~habit.overlaps => Alone'
    BY <2>1, AloneKeeps DEF IInv
  <2> QED
    BY <2>2, <2>3, <2>4, <2>5 DEF IInv
<1> QED
  BY <1>1, <1>2

\* The invariant holds in every reachable state of the wrapper, for every
\* mixture of masters.
THEOREM Invariant == Spec => []IInv
BY InitIInv, NextIInv, PTL DEF Spec

\* Every register of the bridge, the selection and the adapter keeps its type.
THEOREM TypeCorrect == Spec => []TypeOK
<1>1. IInv => TypeOK
  BY DEF IInv
<1> QED
  BY Invariant, <1>1, PTL

\* From the request of the HBM window to its answer the chip does not run
\* (vtpu_ocl_axil_bridge, vtpu_f2_smoke_top).
THEOREM DebugWindowIdle == Spec => []DebugOnlyWhenIdle
<1>1. IInv => DebugOnlyWhenIdle
  BY DEF IInv, ChannelInv
<1> QED
  BY Invariant, <1>1, PTL

\* A response of the HBM adapter reaches the side it was taken from
\* (debug_active_q of vtpu_f2_smoke_top).
THEOREM ResponsesOwned == Spec => []ResponseToOwner
<1>1. IInv => ResponseToOwner
  <2> SUFFICES ASSUME IInv, axi.valid PROVE
         /\ owner = "debug" => DebugValid /\ state = "HBM_RESP"
         /\ owner = "core"  => CoreValid /\ dma = "WAIT"
    BY DEF ResponseToOwner
  <2>1. ~axi.ready
    BY DEF IInv, TypeOK, ChannelInv
  <2>2. state = "HBM_RESP" \/ dma = "WAIT"
    BY <2>1 DEF IInv, ChannelInv, TypeOK
  <2>3. state = "HBM_RESP" => owner = "debug" /\ DebugValid
    BY Selected DEF IInv, ChannelInv
  <2>4. dma = "WAIT" => owner = "core" /\ CoreValid
    BY Selected DEF IInv, ChannelInv
  <2> QED
    BY <2>2, <2>3, <2>4
<1> QED
  BY Invariant, <1>1, PTL

\* A transaction reaches the chip or the HBM at most once, although the adapter
\* takes requests while its ready is low (vtpu_hbm_axi_adapter).
THEOREM OnceServed == Spec => []ServedOnce
<1>1. IInv => ServedOnce
  BY DEF IInv, ServedInv, ServedOnce, Answering
<1> QED
  BY Invariant, <1>1, PTL

\* For masters that present the halves of a write together, what the bridge
\* asks is what the master's handshakes said.
THEOREM RequestsFaithful == Spec => []RequestFaithful
<1>1. IInv => RequestFaithful
  <2> SUFFICES ASSUME IInv, ~habit.splits, NEW r \in {hostReq, hbmReq} \ {None}
               PROVE  IF r.write THEN r.addr = tookAw /\ r.beat = tookW ELSE r.addr = tookAr
    BY DEF RequestFaithful, Faithful
  <2>1. r = Request(opWrite, addr, beat) /\ Whole
    BY DEF IInv, Whole
  <2>2. state # "IDLE"
    BY DEF IInv, ChannelInv
  <2> QED
    BY <2>1, <2>2 DEF Whole, Request
<1> QED
  BY Invariant, <1>1, PTL

\* For masters that do not read next to a write, a write whose handshakes
\* completed is under way until it is answered.
THEOREM WritesNotDropped == Spec => []WriteNotDropped
<1>1. IInv => WriteNotDropped
  BY DEF IInv, Alone, WriteNotDropped
<1> QED
  BY Invariant, <1>1, PTL

=============================================================================
