----------------------------- MODULE EthernetIf -----------------------------
(***************************************************************************)
(* The Ethernet driver of the firmware: the DMA engine of the MAC with its *)
(* two descriptor rings, the interrupt handler, the HAL handle and its     *)
(* lock, the ethernetif_input task, and the part of the tcpip thread that  *)
(* meets the driver (the mailbox, the pbuf pool and low_level_output).     *)
(*                                                                         *)
(* One CPU runs, by priority: the interrupt handler, the ethernetif_input  *)
(* task (osPriorityRealtime), then the tcpip thread and the application.   *)
(* The DMA engine runs beside the CPU at all times.                        *)
(***************************************************************************)
EXTENDS Naturals, Sequences

CONSTANTS
  ETH_RXBUFNB,     \* receive descriptors (and buffers) in the ring
  ETH_TXBUFNB,     \* transmit descriptors in the ring
  MaxSeg,          \* most receive buffers one frame can span
  FrameIds,          \* frames are numbered modulo FrameIds as they arrive
  MaxSem,          \* maxsem of the semaphore (0xFFFFFFFF in the code)
  PBUF_POOL_SIZE,  \* buffers in lwIP's pbuf pool
  MBOX_SIZE,       \* archMESG_QUEUE_LENGTH, the length of every mailbox
  MSG_INPKT,       \* MEMP_NUM_TCPIP_MSG_INPKT, messages for received packets
  RECV_QUEUE,      \* pbufs the connections of the application may hold
  Underflow        \* TRUE iff the transmitter may raise TUS

ASSUME SizesAssumption ==
  /\ ETH_RXBUFNB \in Nat /\ ETH_RXBUFNB >= 2
  /\ ETH_TXBUFNB \in Nat /\ ETH_TXBUFNB >= 1
  /\ MaxSeg \in 1..ETH_RXBUFNB
  /\ FrameIds \in Nat /\ FrameIds > ETH_RXBUFNB
  /\ MaxSem \in Nat /\ MaxSem >= 1
  /\ PBUF_POOL_SIZE \in Nat
  /\ MBOX_SIZE \in Nat
  /\ MSG_INPKT \in Nat
  /\ RECV_QUEUE \in Nat
  /\ Underflow \in BOOLEAN

VARIABLES
  \* The DMA engine.
  DMASR,      \* the status flags that are set
  rxd,        \* DMARxDscrTab: the Rx descriptors
  rxDma,      \* receive process: fetching, holding a descriptor, suspended
  rxDmaDesc,  \* the Rx descriptor the DMA is at
  rxDmaSeg,   \* buffers of the current frame already written
  rxDmaSeq,   \* number of the frame being, or next to be, received
  txd,        \* DMATxDscrTab: the owner of each Tx descriptor
  txDma,      \* transmit process: fetching, sending, suspended
  txDmaDesc,  \* the Tx descriptor the DMA is at
  \* EthHandle.
  Lock, RxDesc, FSRxDesc, SegCount, TxDesc,
  \* Interrupt handler and semaphore.
  isr,        \* where the interrupt handler is
  semcnt,     \* count of s_xSemaphore
  \* The ethernetif_input task and the locals of low_level_input.
  rxpc, dmarxdesc, i, p,
  \* lwIP and the application.
  txpc,       \* where low_level_output is
  pbufs,      \* free buffers in the pool
  mbox,       \* the tcpip mailbox: length of each posted pbuf chain
  cur,        \* length of the chain the tcpip thread is processing, or 0
  held,       \* pbufs held in the receive queues of connections
  \* History.
  taken,      \* number of the next frame the driver has to take
  dry         \* the last drain of the ring ended for lack of pbufs

dmaVars == <<rxDma, rxDmaDesc, rxDmaSeg, rxDmaSeq, txDma, txDmaDesc>>
rxVars  == <<RxDesc, FSRxDesc, SegCount, rxpc, dmarxdesc, i, p, taken, dry>>
txVars  == <<TxDesc, txpc>>
ipVars  == <<pbufs, mbox, cur, held>>
vars == <<DMASR, rxd, txd, Lock, isr, semcnt, dmaVars, rxVars, txVars, ipVars>>

-----------------------------------------------------------------------------
RxRing == 0 .. ETH_RXBUFNB - 1
TxRing == 0 .. ETH_TXBUFNB - 1
Seqs   == 0 .. FrameIds - 1

\* Buffer2NextDescAddr of a chained descriptor, in a ring of n descriptors.
NextIn(n, d) == IF d = n - 1 THEN 0 ELSE d + 1
NextRx(d) == NextIn(ETH_RXBUFNB, d)
NextTx(d) == NextIn(ETH_TXBUFNB, d)
NextSeq(s) == NextIn(FrameIds, s)

\* An Rx descriptor: its owner, the FS and LS bits of its status, and the
\* number of the frame whose bytes its buffer holds.
RxDescriptor == [own : {"dma", "cpu"}, fs : BOOLEAN, ls : BOOLEAN, seq : Seqs]

\* The task is waiting in twai_sem and has nothing to be woken for, so a
\* thread of lower priority may run.
RxBlocked == rxpc = "wait" /\ semcnt = 0
\* Threads run only while no interrupt is being handled.
RxMayRun == isr = "idle"
LowMayRun == isr = "idle" /\ RxBlocked

Init ==
  /\ DMASR = {}
  /\ rxd = [d \in RxRing |-> [own |-> "dma", fs |-> FALSE, ls |-> FALSE, seq |-> 0]]
  /\ rxDma = "fetch" /\ rxDmaDesc = 0 /\ rxDmaSeg = 0 /\ rxDmaSeq = 0
  /\ txd = [d \in TxRing |-> "cpu"]
  /\ txDma = "fetch" /\ txDmaDesc = 0
  /\ Lock = FALSE
  /\ RxDesc = 0 /\ FSRxDesc = 0 /\ SegCount = 0 /\ TxDesc = 0
  /\ isr = "idle" /\ semcnt = 1
  /\ rxpc = "wait" /\ dmarxdesc = 0 /\ i = 0 /\ p = <<>>
  /\ txpc = "idle"
  /\ pbufs = PBUF_POOL_SIZE /\ mbox = <<>> /\ cur = 0 /\ held = 0
  /\ taken = 0 /\ dry = FALSE

-----------------------------------------------------------------------------
(* The DMA engine (hardware). *)

\* The receive process reads the next descriptor: it acquires it, or raises
\* RBUS and suspends until the driver demands a poll.
DmaRxFetch ==
  /\ rxDma = "fetch"
  /\ \/ /\ rxd[rxDmaDesc].own = "dma"
        /\ rxDma' = "ready"
        /\ UNCHANGED DMASR
     \/ /\ rxd[rxDmaDesc].own = "cpu"
        /\ rxDma' = "susp"
        /\ DMASR' = DMASR \cup {"RBUS"}
  /\ UNCHANGED <<rxd, txd, Lock, isr, semcnt, rxDmaDesc, rxDmaSeg, rxDmaSeq,
                 txDma, txDmaDesc, rxVars, txVars, ipVars>>

\* A buffer of a frame is written and its descriptor returned to the CPU.
WriteBuffer(last) ==
  rxd' = [rxd EXCEPT ![rxDmaDesc] =
            [own |-> "cpu", fs |-> rxDmaSeg = 0, ls |-> last, seq |-> rxDmaSeq]]

\* The last (or only) buffer of a frame: the R status bit is raised.
DmaRxLast ==
  /\ rxDma = "ready"
  /\ WriteBuffer(TRUE)
  /\ rxDmaDesc' = NextRx(rxDmaDesc)
  /\ rxDmaSeg' = 0
  /\ rxDmaSeq' = NextSeq(rxDmaSeq)
  /\ rxDma' = "fetch"
  /\ DMASR' = DMASR \cup {"R"}
  /\ UNCHANGED <<txd, Lock, isr, semcnt, txDma, txDmaDesc, rxVars, txVars, ipVars>>

\* A frame longer than one buffer goes on in the next descriptor, which the
\* DMA acquires before it closes this one (without it the frame is truncated
\* here, that is, this is its last buffer).
DmaRxMore ==
  /\ rxDma = "ready"
  /\ rxDmaSeg + 1 < MaxSeg
  /\ rxd[NextRx(rxDmaDesc)].own = "dma"
  /\ WriteBuffer(FALSE)
  /\ rxDmaDesc' = NextRx(rxDmaDesc)
  /\ rxDmaSeg' = rxDmaSeg + 1
  /\ UNCHANGED <<DMASR, txd, Lock, isr, semcnt, rxDma, rxDmaSeq, txDma, txDmaDesc,
                 rxVars, txVars, ipVars>>

\* The transmit process reads the next descriptor, sends its frame and hands
\* the descriptor back.
DmaTxFetch ==
  /\ txDma = "fetch"
  /\ \/ /\ txd[txDmaDesc] = "dma"
        /\ txDma' = "send"
        /\ UNCHANGED DMASR
     \/ /\ txd[txDmaDesc] = "cpu"
        /\ txDma' = "susp"
        /\ DMASR' = DMASR \cup {"TBUS"}
  /\ UNCHANGED <<rxd, txd, Lock, isr, semcnt, rxDma, rxDmaDesc, rxDmaSeg, rxDmaSeq,
                 txDmaDesc, rxVars, txVars, ipVars>>

DmaTxSend ==
  /\ txDma = "send"
  /\ txd' = [txd EXCEPT ![txDmaDesc] = "cpu"]
  /\ txDmaDesc' = NextTx(txDmaDesc)
  /\ txDma' = "fetch"
  /\ UNCHANGED <<DMASR, rxd, Lock, isr, semcnt, rxDma, rxDmaDesc, rxDmaSeg, rxDmaSeq,
                 rxVars, txVars, ipVars>>

\* A transmit underflow suspends the process with the frame unsent.
DmaTxUnderflow ==
  /\ Underflow
  /\ txDma = "send"
  /\ txDma' = "susp"
  /\ DMASR' = DMASR \cup {"TUS"}
  /\ UNCHANGED <<rxd, txd, Lock, isr, semcnt, rxDma, rxDmaDesc, rxDmaSeg, rxDmaSeq,
                 txDmaDesc, rxVars, txVars, ipVars>>

-----------------------------------------------------------------------------
(* The interrupt handler. Of its branches only the one for R is reachable:  *)
(* HAL_ETH_Init enables no other interrupt source.                          *)

\* HAL_ETH_IRQHandler enters its R branch and HAL_ETH_RxCpltCallback signals
\* the semaphore; isig_sem fails with E_QOVR at maxsem.
IrqRxCplt ==
  /\ isr = "idle"
  /\ "R" \in DMASR
  /\ semcnt' = IF semcnt < MaxSem THEN semcnt + 1 ELSE semcnt
  /\ isr' = "clear"
  /\ UNCHANGED <<DMASR, rxd, txd, Lock, dmaVars, rxVars, txVars, ipVars>>

\* __HAL_UNLOCK at the end of the R branch.
IrqKeepLock == UNCHANGED Lock  \* defect: the handler does not unlock
IrqUnlock == Lock' = FALSE

\* It then clears R, a frame that completed meanwhile included, and unlocks
\* the handle whoever holds it.
IrqClear ==
  /\ isr = "clear"
  /\ DMASR' = DMASR \ {"R"}
  /\ IrqUnlock
  /\ isr' = "idle"
  /\ UNCHANGED <<rxd, txd, semcnt, dmaVars, rxVars, txVars, ipVars>>

-----------------------------------------------------------------------------
(* The ethernetif_input task. *)

\* osSemaphoreWait: twai_sem takes a count. (With none the task sleeps, and
\* a timeout brings it back to the same call.)
RxWait ==
  /\ RxMayRun
  /\ rxpc = "wait"
  /\ semcnt > 0
  /\ semcnt' = semcnt - 1
  /\ rxpc' = "ref"
  /\ UNCHANGED <<DMASR, rxd, txd, Lock, isr, dmaVars, RxDesc, FSRxDesc, SegCount,
                 dmarxdesc, i, p, taken, dry, txVars, ipVars>>

\* osSemaphoreWait returns the count ref_sem now reads, and the task drains
\* the ring only when that equals osOK, that is 0.
WaitTokensLeft == semcnt > 0  \* defect: success is a count above 0
WaitOk == semcnt = 0

RxRefSem ==
  /\ RxMayRun
  /\ rxpc = "ref"
  /\ rxpc' = IF WaitOk THEN "lock" ELSE "wait"
  /\ dry' = IF WaitOk THEN FALSE ELSE dry
  /\ UNCHANGED <<DMASR, rxd, txd, Lock, isr, semcnt, dmaVars, RxDesc, FSRxDesc,
                 SegCount, dmarxdesc, i, p, taken, txVars, ipVars>>

\* __HAL_LOCK in HAL_ETH_GetReceivedFrame_IT: a held lock is HAL_BUSY, for
\* which low_level_input returns NULL and the task goes back to waiting.
RxLock ==
  /\ RxMayRun
  /\ rxpc = "lock"
  /\ rxpc' = IF Lock THEN "wait" ELSE "scan"
  /\ Lock' = TRUE
  /\ UNCHANGED <<DMASR, rxd, txd, isr, semcnt, dmaVars, RxDesc, FSRxDesc, SegCount,
                 dmarxdesc, i, p, taken, dry, txVars, ipVars>>

\* RxFrameInfos.SegCount after a descriptor is scanned.
ScanCountLast(d) == 1  \* defect: every descriptor starts a frame
ScanCount(d) == IF d.fs /\ ~d.ls THEN 1 ELSE SegCount + 1

\* One turn of the scan: a first buffer starts the segment count at 1, a
\* later one adds 1, and the last one completes the frame: HAL_OK. (The scan
\* counter never ends the loop: a frame spans at most ETH_RXBUFNB buffers.)
RxScanDesc ==
  LET d == rxd[RxDesc] IN
  /\ RxMayRun
  /\ rxpc = "scan"
  /\ d.own = "cpu"
  /\ RxDesc' = NextRx(RxDesc)
  /\ SegCount' = ScanCount(d)
  /\ FSRxDesc' = IF (d.fs \/ d.ls) /\ SegCount' = 1 THEN RxDesc ELSE FSRxDesc
  /\ Lock' = IF d.ls THEN FALSE ELSE Lock
  /\ rxpc' = IF d.ls THEN "alloc" ELSE "scan"
  /\ UNCHANGED <<DMASR, rxd, txd, isr, semcnt, dmaVars, dmarxdesc, i, p, taken, dry,
                 txVars, ipVars>>

\* The scan meets a descriptor of the DMA: HAL_ERROR, low_level_input
\* returns NULL. What was counted of an unfinished frame is kept.
RxScanEnd ==
  /\ RxMayRun
  /\ rxpc = "scan"
  /\ rxd[RxDesc].own = "dma"
  /\ Lock' = FALSE
  /\ rxpc' = "wait"
  /\ UNCHANGED <<DMASR, rxd, txd, isr, semcnt, dmaVars, RxDesc, FSRxDesc, SegCount,
                 dmarxdesc, i, p, taken, dry, txVars, ipVars>>

\* pbuf_free of a chain of n buffers nobody else refers to.
PbufLeak(n) == UNCHANGED pbufs  \* defect: the chain is forgotten
PbufFree(n) == pbufs' = pbufs + n

\* pbuf_alloc of a chain with one pool buffer per receive buffer; all or
\* nothing.
RxAlloc ==
  /\ RxMayRun
  /\ rxpc = "alloc"
  /\ dmarxdesc' = FSRxDesc
  /\ i' = 0
  /\ \/ /\ pbufs >= SegCount
        /\ pbufs' = pbufs - SegCount
        /\ rxpc' = "copy"
        /\ UNCHANGED dry
     \/ /\ pbufs < SegCount
        /\ rxpc' = "give"
        /\ dry' = TRUE
        /\ UNCHANGED pbufs
  /\ UNCHANGED <<DMASR, rxd, txd, Lock, isr, semcnt, dmaVars, RxDesc, FSRxDesc,
                 SegCount, p, taken, txVars, mbox, cur, held>>

\* n descriptors of the frame have been visited: that was the last.
VisitedFirst(n) == n >= 1  \* defect: only the first descriptor is visited
VisitedAll(n) == n >= SegCount

\* The buffers are copied into the chain one descriptor after the other.
RxCopy ==
  /\ RxMayRun
  /\ rxpc = "copy"
  /\ p' = Append(p, rxd[dmarxdesc])
  /\ dmarxdesc' = IF VisitedAll(Len(p) + 1) THEN FSRxDesc ELSE NextRx(dmarxdesc)
  /\ rxpc' = IF VisitedAll(Len(p) + 1) THEN "give" ELSE "copy"
  /\ UNCHANGED <<DMASR, rxd, txd, Lock, isr, semcnt, dmaVars, RxDesc, FSRxDesc,
                 SegCount, i, taken, dry, txVars, ipVars>>

\* The descriptors of the frame are given back to the DMA one by one; after
\* the last the segment count is cleared.
RxGive ==
  /\ RxMayRun
  /\ rxpc = "give"
  /\ rxd' = [rxd EXCEPT ![dmarxdesc].own = "dma"]
  /\ dmarxdesc' = NextRx(dmarxdesc)
  /\ i' = i + 1
  /\ \/ /\ ~VisitedAll(i + 1)
        /\ UNCHANGED <<SegCount, rxpc, taken>>
     \/ /\ VisitedAll(i + 1)
        /\ SegCount' = 0
        /\ rxpc' = "resume"
        /\ taken' = NextSeq(taken)
  /\ UNCHANGED <<DMASR, txd, Lock, isr, semcnt, dmaVars, RxDesc, FSRxDesc, p, dry,
                 txVars, ipVars>>

\* A raised RBUS is cleared and a receive poll demanded.
ClearRbus == DMASR' = DMASR \ {"RBUS"} /\ UNCHANGED rxDma  \* defect: no demand
ResumeRx ==
  /\ DMASR' = DMASR \ {"RBUS"}
  /\ rxDma' = IF "RBUS" \in DMASR /\ rxDma = "susp" THEN "fetch" ELSE rxDma

\* The end of low_level_input: reception is resumed; low_level_input
\* returns, and without a pbuf the task goes back to waiting.
RxResume ==
  /\ RxMayRun
  /\ rxpc = "resume"
  /\ ResumeRx
  /\ rxpc' = IF p = <<>> THEN "wait" ELSE "input"
  /\ UNCHANGED <<rxd, txd, Lock, isr, semcnt, rxDmaDesc, rxDmaSeg, rxDmaSeq, txDma,
                 txDmaDesc, RxDesc, FSRxDesc, SegCount, dmarxdesc, i, p, taken, dry,
                 txVars, ipVars>>

\* netif->input, that is tcpip_inpkt: a message is allocated and posted with
\* sys_mbox_trypost; on either failure the chain is freed. The loop goes on
\* with the next frame.
InpktFree == MSG_INPKT - (Len(mbox) + (IF cur # 0 THEN 1 ELSE 0))

RxInput ==
  /\ RxMayRun
  /\ rxpc = "input"
  /\ \/ /\ InpktFree > 0 /\ Len(mbox) < MBOX_SIZE
        /\ mbox' = Append(mbox, Len(p))
        /\ UNCHANGED pbufs
     \/ /\ ~(InpktFree > 0 /\ Len(mbox) < MBOX_SIZE)
        /\ PbufFree(Len(p))
        /\ UNCHANGED mbox
  /\ p' = <<>>
  /\ rxpc' = "lock"
  /\ UNCHANGED <<DMASR, rxd, txd, Lock, isr, semcnt, dmaVars, RxDesc, FSRxDesc,
                 SegCount, dmarxdesc, i, taken, dry, txVars, cur, held>>

-----------------------------------------------------------------------------
(* The tcpip thread and the application. *)

\* tcpip_thread fetches the next message of its mailbox.
TcpipFetch ==
  /\ LowMayRun
  /\ txpc = "idle"
  /\ cur = 0
  /\ mbox # <<>>
  /\ cur' = Head(mbox)
  /\ mbox' = Tail(mbox)
  /\ UNCHANGED <<DMASR, rxd, txd, Lock, isr, semcnt, dmaVars, rxVars, txVars, pbufs, held>>

\* The stack consumes the packet, or queues it on a connection; the message
\* is freed.
TcpipInput ==
  /\ LowMayRun
  /\ txpc = "idle"
  /\ cur # 0
  /\ cur' = 0
  /\ \/ /\ PbufFree(cur)
        /\ UNCHANGED held
     \/ /\ held + cur <= RECV_QUEUE
        /\ held' = held + cur
        /\ UNCHANGED pbufs
  /\ UNCHANGED <<DMASR, rxd, txd, Lock, isr, semcnt, dmaVars, rxVars, txVars, mbox>>

\* The application reads from a connection and frees a pbuf.
AppRecv ==
  /\ LowMayRun
  /\ held > 0
  /\ held' = held - 1
  /\ PbufFree(1)
  /\ UNCHANGED <<DMASR, rxd, txd, Lock, isr, semcnt, dmaVars, rxVars, txVars, mbox, cur>>

\* low_level_output: a frame fits one buffer. A descriptor still owned by the
\* DMA is ERR_USE, otherwise the frame is copied.
TxCheck ==
  /\ LowMayRun
  /\ txpc = "idle"
  /\ txpc' = IF txd[TxDesc] = "dma" THEN "tus" ELSE "lock"
  /\ UNCHANGED <<DMASR, rxd, txd, Lock, isr, semcnt, dmaVars, rxVars, TxDesc, ipVars>>

\* HAL_ETH_TransmitFrame: HAL_BUSY is ignored by its caller, which reports
\* ERR_OK.
TxLock ==
  /\ LowMayRun
  /\ txpc = "lock"
  /\ txpc' = IF Lock THEN "tus" ELSE "own"
  /\ Lock' = TRUE
  /\ UNCHANGED <<DMASR, rxd, txd, isr, semcnt, dmaVars, rxVars, TxDesc, ipVars>>

\* The descriptor is given to the DMA, unless the DMA has it already.
TxOwn ==
  /\ LowMayRun
  /\ txpc = "own"
  /\ \/ /\ txd[TxDesc] = "dma"
        /\ txpc' = "tus"
        /\ Lock' = FALSE
        /\ UNCHANGED <<txd, TxDesc>>
     \/ /\ txd[TxDesc] = "cpu"
        /\ txd' = [txd EXCEPT ![TxDesc] = "dma"]
        /\ TxDesc' = NextTx(TxDesc)
        /\ txpc' = "tbus"
        /\ UNCHANGED Lock
  /\ UNCHANGED <<DMASR, rxd, isr, semcnt, dmaVars, rxVars, ipVars>>

\* A raised flag (TBUS or TUS) is cleared and a transmit poll demanded.
ClearTx(flag) == DMASR' = DMASR \ {flag} /\ UNCHANGED txDma  \* defect: no demand
ResumeTx(flag) ==
  /\ DMASR' = DMASR \ {flag}
  /\ txDma' = IF flag \in DMASR /\ txDma = "susp" THEN "fetch" ELSE txDma

TxResume ==
  /\ LowMayRun
  /\ txpc = "tbus"
  /\ ResumeTx("TBUS")
  /\ Lock' = FALSE
  /\ txpc' = "tus"
  /\ UNCHANGED <<rxd, txd, isr, semcnt, rxDma, rxDmaDesc, rxDmaSeg, rxDmaSeq,
                 txDmaDesc, rxVars, TxDesc, ipVars>>

\* The end of low_level_output, on its error path too.
TxUnderflow ==
  /\ LowMayRun
  /\ txpc = "tus"
  /\ ResumeTx("TUS")
  /\ txpc' = "idle"
  /\ UNCHANGED <<rxd, txd, Lock, isr, semcnt, rxDma, rxDmaDesc, rxDmaSeg, rxDmaSeq,
                 txDmaDesc, rxVars, TxDesc, ipVars>>

-----------------------------------------------------------------------------
Dma == DmaRxFetch \/ DmaRxLast \/ DmaRxMore \/ DmaTxFetch \/ DmaTxSend \/ DmaTxUnderflow
Isr == IrqRxCplt \/ IrqClear
RxTask == \/ RxWait \/ RxRefSem \/ RxLock \/ RxScanDesc \/ RxScanEnd
          \/ RxAlloc \/ RxCopy \/ RxGive \/ RxResume \/ RxInput
Tcpip == TcpipFetch \/ TcpipInput \/ TxCheck \/ TxLock \/ TxOwn \/ TxResume \/ TxUnderflow

Next == Dma \/ Isr \/ RxTask \/ Tcpip \/ AppRecv

Spec == Init /\ [][Next]_vars

\* The hardware reacts, interrupts are taken and a thread that stays ready
\* runs. Nothing is assumed of frames arriving or of the stack sending.
Fairness ==
  /\ WF_vars(DmaTxFetch \/ DmaTxSend)
  /\ WF_vars(Isr)
  /\ WF_vars(RxTask)
  /\ WF_vars(TxLock \/ TxOwn \/ TxResume \/ TxUnderflow)

FairSpec == Spec /\ Fairness

-----------------------------------------------------------------------------
(* Properties. *)

\* The values of every variable.
TypeOK ==
  /\ DMASR \in SUBSET {"R", "RBUS", "TBUS", "TUS"}
  /\ rxd \in [RxRing -> RxDescriptor]
  /\ rxDma \in {"fetch", "ready", "susp"}
  /\ rxDmaDesc \in RxRing /\ rxDmaSeg \in 0 .. MaxSeg - 1 /\ rxDmaSeq \in Seqs
  /\ txd \in [TxRing -> {"dma", "cpu"}]
  /\ txDma \in {"fetch", "send", "susp"}
  /\ txDmaDesc \in TxRing
  /\ Lock \in BOOLEAN
  /\ RxDesc \in RxRing /\ FSRxDesc \in RxRing /\ SegCount \in Nat /\ TxDesc \in TxRing
  /\ isr \in {"idle", "clear"} /\ semcnt \in 0 .. MaxSem
  /\ rxpc \in {"wait", "ref", "lock", "scan", "alloc", "copy", "give", "resume", "input"}
  /\ dmarxdesc \in RxRing /\ i \in Nat /\ p \in Seq(RxDescriptor)
  /\ txpc \in {"idle", "lock", "own", "tbus", "tus"}
  /\ pbufs \in Nat /\ mbox \in Seq(Nat) /\ cur \in Nat /\ held \in Nat
  /\ taken \in Seqs /\ dry \in BOOLEAN

\* Steps from descriptor a forward to descriptor b of the Rx ring, and the
\* descriptor n steps forward from a.
Dist(a, b) == IF b >= a THEN b - a ELSE b + ETH_RXBUFNB - a
Plus(a, n) == IF a + n < ETH_RXBUFNB THEN a + n ELSE a + n - ETH_RXBUFNB
\* The first descriptor the driver has not given back.
Base == IF rxpc = "give" THEN dmarxdesc ELSE IF SegCount > 0 THEN FSRxDesc ELSE RxDesc
\* The driver owns exactly the k descriptors from Base, up to the DMA's.
OwnsArc(k) ==
  /\ rxDmaDesc = Plus(Base, k)
  /\ \A d \in RxRing : (rxd[d].own = "cpu") <=> (Dist(Base, d) < k)

\* The driver (HAL_ETH_GetReceivedFrame_IT, low_level_input) and the DMA
\* divide the ring in two arcs: from the first descriptor not yet given back
\* up to where the DMA is, all belong to the driver, and no other does.
RingSplit == \E k \in 0 .. ETH_RXBUFNB : OwnsArc(k)

\* The chain low_level_input hands to netif->input is one whole frame, its
\* buffers in order, and it is the frame that arrived right after the one
\* taken before it: none is lost, repeated, merged or overwritten by the DMA
\* between reception and copy.
FrameIntact ==
  rxpc = "input" =>
    \A n \in 1 .. Len(p) :
      /\ p[n].fs = (n = 1)
      /\ p[n].ls = (n = Len(p))
      /\ NextSeq(p[n].seq) = taken

\* Neither user of the HAL handle ever finds it locked, so the HAL_BUSY that
\* low_level_input turns into "no frame" and low_level_output into ERR_OK for
\* a frame never sent does not happen: the task preempts the transmitter only
\* through an interrupt, and the handler unlocks the handle on its way out.
NeverBusy ==
  /\ RxMayRun /\ rxpc = "lock" => ~Lock
  /\ LowMayRun /\ txpc = "lock" => ~Lock

\* Frame s is complete in the ring and still belongs to the driver.
Received(s) == \E d \in RxRing : rxd[d].own = "cpu" /\ rxd[d].ls /\ rxd[d].seq = s

\* While the task sleeps with no interrupt pending, no complete frame waits in
\* the ring, unless the last drain stopped because pbuf_alloc failed.
NoLostWakeup ==
  LowMayRun /\ "R" \notin DMASR /\ ~dry =>
    \A s \in Seqs : ~Received(s)

\* The receive process is never left suspended at a descriptor that was given
\* back to it: low_level_input has the poll demand still to issue.
RxNotStalled ==
  rxDma = "susp" /\ rxd[rxDmaDesc].own = "dma" => rxpc \in {"give", "resume"}

\* The transmit process is never left suspended at a frame handed to it,
\* except within HAL_ETH_TransmitFrame or after an underflow.
TxNotStalled ==
  txDma = "susp" /\ txd[txDmaDesc] = "dma" => txpc = "tbus" \/ "TUS" \in DMASR

\* pbufs of the first n chains in m, for each n, and of all of them.
PbufsTo(m) ==
  LET sum[n \in 0 .. Len(m)] == IF n = 0 THEN 0 ELSE sum[n - 1] + m[n] IN sum
PbufsIn(m) == PbufsTo(m)[Len(m)]
\* pbufs of the chain low_level_input has in hand.
InHand == IF rxpc = "copy" THEN SegCount ELSE Len(p)

\* Every buffer of the pool is free or has exactly one holder: whatever path a
\* frame takes (no pbuf, no message, mailbox full, consumed, queued), the
\* driver and tcpip_inpkt lose no pbuf and free none twice.
PbufsConserved == pbufs + InHand + PbufsIn(mbox) + cur + held = PBUF_POOL_SIZE

\* As long as complete frames wait in the ring the ethernetif_input task keeps
\* taking them out, unless the pool runs dry: low_level_input then drops one
\* frame and the task sleeps, whatever is left in the ring.
FrameTaken ==
  []<>((\A s \in Seqs : ~Received(s)) \/ rxpc = "give" \/ (dry /\ rxpc = "wait"))

\* When reception comes to rest, every frame handed to the transmitter is
\* sent, unless the process stops at an underflow: then the next output
\* resumes it.
TxSent ==
  <>[]LowMayRun =>
    \A d \in TxRing : []<>(txd[d] = "cpu" \/ "TUS" \in DMASR)

-----------------------------------------------------------------------------
(* Inductive invariants, from which the proofs derive the properties. *)

\* A held lock belongs to the scan, or to a transmission that either still
\* runs or is about to be unlocked by the handler.
LockInv ==
  Lock => \/ rxpc = "scan"
          \/ txpc \in {"own", "tbus"} /\ (RxBlocked \/ isr = "clear")

\* A suspended process has the flag raised on which the driver resumes it.
RxStallInv == RxNotStalled /\ (rxDma = "susp" => "RBUS" \in DMASR)
TxStallInv == TxNotStalled /\ (txDma = "susp" => DMASR \cap {"TBUS", "TUS"} # {})

\* The driver holds the descriptors of a completely scanned frame.
HasFrame == rxpc \in {"alloc", "copy", "give"}
\* Descriptors scanned and not given back, and those of an unfinished frame.
Scanned == IF rxpc = "give" THEN SegCount - i ELSE SegCount
Part == IF HasFrame THEN 0 ELSE SegCount
\* The descriptor before d.
Prev(d) == IF d = 0 THEN ETH_RXBUFNB - 1 ELSE d - 1

\* The k descriptors of the driver: first the Scanned ones, then those that
\* HAL_ETH_GetReceivedFrame_IT has to look at, whose FS and LS bits delimit
\* the frames.
ArcInv(k) ==
  /\ OwnsArc(k)
  /\ Scanned <= k
  /\ RxDesc = Plus(Base, Scanned)
  /\ ~HasFrame => \A d \in RxRing : Dist(Base, d) < SegCount => ~rxd[d].ls
  /\ \A d \in RxRing :
       Scanned <= Dist(Base, d) /\ Dist(Base, d) < k =>
         (rxd[d].fs <=> IF Dist(Base, d) = Scanned THEN Part = 0 ELSE rxd[Prev(d)].ls)
  /\ (rxDmaSeg = 0) <=> IF k = Scanned THEN Part = 0 ELSE rxd[Prev(rxDmaDesc)].ls

RingInv ==
  /\ \E k \in 0 .. ETH_RXBUFNB : ArcInv(k)
  /\ rxDma = "ready" => rxd[rxDmaDesc].own = "dma"
  /\ rxDmaSeg > 0 => rxDma = "ready"
  /\ HasFrame => SegCount > 0
  /\ rxpc = "copy" => i = 0
  /\ rxpc = "give" => i < SegCount

\* The number of the first frame not yet scanned, and the number of the buffer
\* that follows descriptor d.
Fresh == IF HasFrame THEN NextSeq(taken) ELSE taken
Follow(d) == IF rxd[d].ls THEN NextSeq(rxd[d].seq) ELSE rxd[d].seq

\* The Scanned descriptors hold frame taken, and what is not given back of a
\* complete one ends with its LS bit; the frames after it are numbered as they
\* arrived, up to the one the DMA is receiving.
SeqArc(k) ==
  /\ \A d \in RxRing : Dist(Base, d) < Scanned =>
       /\ rxd[d].seq = taken
       /\ rxpc # "give" => (rxd[d].fs <=> d = Base)
       /\ HasFrame => (rxd[d].ls <=> Dist(Base, d) = Scanned - 1)
  /\ \A d \in RxRing :
       Scanned <= Dist(Base, d) /\ Dist(Base, d) < k =>
         rxd[d].seq = IF Dist(Base, d) = Scanned THEN Fresh ELSE Follow(Prev(d))
  /\ rxDmaSeq = IF k = Scanned THEN Fresh ELSE Follow(Prev(rxDmaDesc))

SeqInv == \E k \in 0 .. ETH_RXBUFNB : ArcInv(k) /\ SeqArc(k)

\* The chain p is what low_level_input has copied of a frame of n buffers.
ChainOf(n) ==
  \A m \in 1 .. Len(p) : (p[m].fs <=> m = 1) /\ (p[m].ls <=> m = n)

\* The copy proceeds along the descriptors of frame taken; once they are all
\* given back, taken is the number of the frame after it.
CopyInv ==
  /\ rxpc \in {"wait", "ref", "lock", "scan", "alloc"} => p = <<>>
  /\ rxpc = "copy" =>
       /\ Len(p) < SegCount
       /\ dmarxdesc = Plus(FSRxDesc, Len(p))
       /\ ChainOf(SegCount)
  /\ rxpc \in {"give", "resume", "input"} => ChainOf(Len(p))
  /\ rxpc \in {"copy", "give"} => \A m \in 1 .. Len(p) : p[m].seq = taken
  /\ rxpc \in {"resume", "input"} => \A m \in 1 .. Len(p) : NextSeq(p[m].seq) = taken

\* While a complete frame is in the driver's hands, something will make the
\* task look at the ring again.
WakeInv ==
  /\ (\E s \in Seqs : Received(s)) =>
       "R" \in DMASR \/ semcnt > 0 \/ dry \/ rxpc # "wait"
  /\ isr = "clear" => semcnt > 0
  /\ rxpc \in {"give", "resume"} /\ p = <<>> => dry
=============================================================================
