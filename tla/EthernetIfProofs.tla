-------------------------- MODULE EthernetIfProofs --------------------------
(***************************************************************************)
(* Proofs about the Ethernet driver, for every size of the rings, of the   *)
(* mailbox and of the pools.                                               *)
(***************************************************************************)
EXTENDS EthernetIf, WellFoundedInduction, TLAPS

-----------------------------------------------------------------------------
(* Type correctness. *)

\* The successor of an element of a ring is in the ring.
LEMMA NextInRing ==
  ASSUME NEW n \in Nat, n >= 1, NEW d \in 0 .. n - 1
  PROVE  NextIn(n, d) \in 0 .. n - 1
  BY DEF NextIn

\* The same for the three rings of the model: the receive and transmit
\* descriptors and the frame numbers.
LEMMA NextTypes ==
  /\ \A d \in RxRing : NextRx(d) \in RxRing
  /\ \A d \in TxRing : NextTx(d) \in TxRing
  /\ \A s \in Seqs : NextSeq(s) \in Seqs
  BY SizesAssumption, NextInRing DEF NextRx, NextTx, NextSeq, RxRing, TxRing, Seqs

\* The DMA engine preserves the types.
LEMMA DmaType == TypeOK /\ Dma => TypeOK'
<1> SUFFICES ASSUME TypeOK, Dma PROVE TypeOK'
  OBVIOUS
<1> USE SizesAssumption, NextTypes DEF TypeOK, rxVars, txVars, ipVars
<1>1. CASE DmaRxFetch
  <2>1. CASE rxd[rxDmaDesc].own = "dma"
    BY <1>1, <2>1, ZenonT(40) DEF DmaRxFetch
  <2>2. CASE ~(rxd[rxDmaDesc].own = "dma")
    BY <1>1, <2>2, ZenonT(40) DEF DmaRxFetch
  <2>3. QED
    BY <2>1, <2>2
<1>2. CASE DmaRxLast
  BY <1>2 DEF DmaRxLast, WriteBuffer, RxDescriptor
<1>3. CASE DmaRxMore
  BY <1>3 DEF DmaRxMore, WriteBuffer, RxDescriptor
<1>4. CASE DmaTxFetch
  <2>1. CASE txd[txDmaDesc] = "dma"
    BY <1>4, <2>1, ZenonT(40) DEF DmaTxFetch
  <2>2. CASE ~(txd[txDmaDesc] = "dma")
    BY <1>4, <2>2, ZenonT(40) DEF DmaTxFetch
  <2>3. QED
    BY <2>1, <2>2
<1>5. CASE DmaTxSend
  BY <1>5 DEF DmaTxSend
<1>6. CASE DmaTxUnderflow
  BY <1>6 DEF DmaTxUnderflow
<1>7. QED
  BY <1>1, <1>2, <1>3, <1>4, <1>5, <1>6 DEF Dma

\* The interrupt handler preserves the types.
LEMMA IsrType == TypeOK /\ Isr => TypeOK'
<1> SUFFICES ASSUME TypeOK, Isr PROVE TypeOK'
  OBVIOUS
<1> USE SizesAssumption DEF TypeOK, dmaVars, rxVars, txVars, ipVars
<1>1. CASE IrqRxCplt
  BY <1>1 DEF IrqRxCplt
<1>2. CASE IrqClear
  BY <1>2, ZenonT(40) DEF IrqClear, IrqUnlock
<1>3. QED
  BY <1>1, <1>2 DEF Isr

\* The ethernetif_input task preserves the types.
LEMMA RxTaskType == TypeOK /\ RxTask => TypeOK'
<1> SUFFICES ASSUME TypeOK, RxTask PROVE TypeOK'
  OBVIOUS
<1> USE SizesAssumption, NextTypes DEF TypeOK, dmaVars, txVars, ipVars
<1>1. CASE RxWait
  BY <1>1 DEF RxWait
<1>2. CASE RxRefSem
  BY <1>2 DEF RxRefSem
<1>3. CASE RxLock
  BY <1>3 DEF RxLock
<1>4. CASE RxScanDesc
  <2>1. CASE rxd[RxDesc].ls
    BY <1>4, <2>1 DEF RxScanDesc, ScanCount
  <2>2. CASE ~(rxd[RxDesc].ls)
    BY <1>4, <2>2 DEF RxScanDesc, ScanCount
  <2>3. QED
    BY <2>1, <2>2
<1>5. CASE RxScanEnd
  BY <1>5 DEF RxScanEnd
<1>6. CASE RxAlloc
  <2>1. CASE pbufs >= SegCount
    BY <1>6, <2>1 DEF RxAlloc
  <2>2. CASE ~(pbufs >= SegCount)
    BY <1>6, <2>2 DEF RxAlloc
  <2>3. QED
    BY <2>1, <2>2
<1>7. CASE RxCopy
  BY <1>7 DEF RxCopy
<1>8. CASE RxGive
  <2>1. rxd' \in [RxRing -> RxDescriptor]
    BY <1>8, ZenonT(40) DEF RxGive, RxDescriptor
  <2>2. dmarxdesc' \in RxRing /\ i' \in Nat
    <3>1. dmarxdesc' = NextRx(dmarxdesc) /\ i' = i + 1
      BY <1>8, Zenon DEF RxGive
    <3>2. QED
      BY <3>1
  <2>3. /\ SegCount' \in Nat /\ taken' \in Seqs
        /\ rxpc' \in {"give", "resume"}
    <3>1. \/ SegCount' = SegCount /\ taken' = taken /\ rxpc' = rxpc /\ rxpc = "give"
          \/ SegCount' = 0 /\ taken' = NextSeq(taken) /\ rxpc' = "resume"
      BY <1>8, Zenon DEF RxGive
    <3>2. QED
      BY <3>1
  <2>4. UNCHANGED <<DMASR, txd, Lock, isr, semcnt, dmaVars, RxDesc, FSRxDesc, p, dry,
                    TxDesc, txpc, pbufs, mbox, cur, held>>
    BY <1>8, Zenon DEF RxGive
  <2>5. rxpc' \in {"wait", "ref", "lock", "scan", "alloc", "copy", "give", "resume", "input"}
    BY <2>3
  <2>6. QED
    BY <2>1, <2>2, <2>3, <2>4, <2>5, ZenonT(40) DEF dmaVars
<1>9. CASE RxResume
  BY <1>9 DEF RxResume, ResumeRx
<1>10. CASE RxInput
  <2>1. Len(p) \in Nat
    OBVIOUS
  <2>2. mbox' \in Seq(Nat)
    BY <1>10, <2>1, SMTT(30) DEF RxInput
  <2>3. pbufs' \in Nat
    BY <1>10, <2>1 DEF RxInput, PbufFree
  <2>4. p' \in Seq(RxDescriptor)
    BY <1>10 DEF RxInput
  <2>5. QED
    BY <1>10, <2>2, <2>3, <2>4 DEF RxInput
<1>11. QED
  BY <1>1, <1>2, <1>3, <1>4, <1>5, <1>6, <1>7, <1>8, <1>9, <1>10 DEF RxTask

\* The tcpip thread preserves the types.
LEMMA TcpipType == TypeOK /\ Tcpip => TypeOK'
<1> SUFFICES ASSUME TypeOK, Tcpip PROVE TypeOK'
  OBVIOUS
<1> USE SizesAssumption, NextTypes DEF TypeOK, dmaVars, rxVars, txVars, ipVars
<1>1. CASE TcpipFetch
  BY <1>1 DEF TcpipFetch
<1>2. CASE TcpipInput
  BY <1>2 DEF TcpipInput, PbufFree
<1>3. CASE TxCheck
  BY <1>3 DEF TxCheck
<1>4. CASE TxLock
  BY <1>4 DEF TxLock
<1>5. CASE TxOwn
  BY <1>5, ZenonT(40) DEF TxOwn
<1>6. CASE TxResume
  BY <1>6 DEF TxResume, ResumeTx
<1>7. CASE TxUnderflow
  BY <1>7 DEF TxUnderflow, ResumeTx
<1>8. QED
  BY <1>1, <1>2, <1>3, <1>4, <1>5, <1>6, <1>7 DEF Tcpip

\* Every variable of the driver keeps its type, whatever the sizes.
THEOREM TypeCorrect == Spec => []TypeOK
<1>1. Init => TypeOK
  <2> SUFFICES ASSUME Init PROVE TypeOK
    OBVIOUS
  <2>1. 0 \in RxRing /\ 0 \in TxRing /\ 0 \in Seqs
    BY SizesAssumption DEF RxRing, TxRing, Seqs
  <2>2. rxd \in [RxRing -> RxDescriptor]
    BY <2>1 DEF Init, RxDescriptor
  <2>3. txd \in [TxRing -> {"dma", "cpu"}]
    BY DEF Init
  <2>4. p \in Seq(RxDescriptor) /\ mbox \in Seq(Nat)
    BY DEF Init
  <2>5. rxDmaSeg \in 0 .. MaxSeg - 1 /\ semcnt \in 0 .. MaxSem /\ pbufs \in Nat
    BY SizesAssumption DEF Init
  <2>6. QED
    BY <2>1, <2>2, <2>3, <2>4, <2>5 DEF Init, TypeOK
<1>2. TypeOK /\ [Next]_vars => TypeOK'
  <2> SUFFICES ASSUME TypeOK, [Next]_vars PROVE TypeOK'
    OBVIOUS
  <2>1. CASE AppRecv
    BY <2>1 DEF AppRecv, PbufFree, TypeOK, dmaVars, rxVars, txVars
  <2>2. CASE UNCHANGED vars
    BY <2>2 DEF vars, TypeOK, dmaVars, rxVars, txVars, ipVars
  <2>3. QED
    BY <2>1, <2>2, DmaType, IsrType, RxTaskType, TcpipType DEF Next
<1>3. QED
  BY <1>1, <1>2, PTL DEF Spec

-----------------------------------------------------------------------------
(* The HAL lock. *)

\* LockInv is inductive: the task gets the CPU from a transmission only
\* through the handler, which unlocks before the task runs.
LEMMA LockInvStep == TypeOK /\ LockInv /\ [Next]_vars => LockInv'
<1> SUFFICES ASSUME TypeOK, LockInv, [Next]_vars PROVE LockInv'
  OBVIOUS
<1> USE DEF LockInv, RxBlocked, RxMayRun, LowMayRun
<1>1. ASSUME UNCHANGED <<Lock, rxpc, txpc, isr, semcnt>> PROVE LockInv'
  BY <1>1
<1>2. CASE Dma
  BY <1>1, <1>2 DEF Dma, DmaRxFetch, DmaRxLast, DmaRxMore, DmaTxFetch, DmaTxSend,
                    DmaTxUnderflow, rxVars, txVars
<1>3. CASE IrqRxCplt
  BY <1>3 DEF IrqRxCplt, rxVars, txVars
<1>4. CASE IrqClear
  BY <1>4 DEF IrqClear, IrqUnlock
<1>5. CASE RxTask
  <2>0. Lock => rxpc = "scan"
    <3>1. CASE RxGive
      BY <3>1, Zenon DEF RxGive
    <3>2. CASE RxWait
      BY <3>2 DEF RxWait, TypeOK
    <3>3. CASE ~RxGive /\ ~RxWait
      BY <1>5, <3>3, Zenon DEF RxTask, RxRefSem, RxLock, RxScanDesc, RxScanEnd, RxAlloc,
                        RxCopy, RxResume, RxInput
    <3>4. QED
      BY <3>1, <3>2, <3>3
  <2>1. CASE RxWait
    BY <2>0, <2>1 DEF RxWait
  <2>2. CASE RxRefSem
    BY <2>0, <2>2 DEF RxRefSem
  <2>3. CASE RxLock
    BY <2>0, <2>3 DEF RxLock
  <2>4. CASE RxScanDesc
    BY <2>0, <2>4 DEF RxScanDesc
  <2>5. CASE RxScanEnd
    BY <2>5 DEF RxScanEnd
  <2>6. CASE RxAlloc
    BY <2>0, <2>6 DEF RxAlloc
  <2>7. CASE RxCopy
    BY <2>0, <2>7 DEF RxCopy
  <2>8. CASE RxGive
    BY <2>0, <2>8, Zenon DEF RxGive
  <2>9. CASE RxResume
    BY <2>0, <2>9 DEF RxResume
  <2>10. CASE RxInput
    BY <2>0, <2>10 DEF RxInput
  <2>11. QED
    BY <1>5, <2>1, <2>2, <2>3, <2>4, <2>5, <2>6, <2>7, <2>8, <2>9, <2>10 DEF RxTask
<1>6. CASE TcpipFetch \/ TcpipInput \/ AppRecv
  BY <1>1, <1>6 DEF TcpipFetch, TcpipInput, AppRecv, rxVars, txVars
<1>7. CASE TxCheck
  BY <1>7 DEF TxCheck, rxVars
<1>8. CASE TxLock
  BY <1>8 DEF TxLock, rxVars
<1>9. CASE TxOwn
  BY <1>9 DEF TxOwn, rxVars
<1>10. CASE TxResume
  BY <1>10 DEF TxResume
<1>11. CASE TxUnderflow
  BY <1>11 DEF TxUnderflow, rxVars
<1>12. CASE UNCHANGED vars
  BY <1>1, <1>12 DEF vars, rxVars, txVars
<1>13. QED
  BY <1>2, <1>3, <1>4, <1>5, <1>6, <1>7, <1>8, <1>9, <1>10, <1>11, <1>12
     DEF Next, Isr, Tcpip

\* HAL_ETH_GetReceivedFrame_IT and HAL_ETH_TransmitFrame never return
\* HAL_BUSY, whatever the interleaving of the interrupt with their callers.
THEOREM NeverBusyHolds == Spec => []NeverBusy
<1>1. Init => LockInv
  BY DEF Init, LockInv
<1>2. LockInv => NeverBusy
  BY DEF LockInv, NeverBusy, RxMayRun, LowMayRun, RxBlocked
<1>3. QED
  BY <1>1, <1>2, TypeCorrect, LockInvStep, PTL DEF Spec

-----------------------------------------------------------------------------
(* Suspended DMA processes. *)

\* RxStallInv is inductive: RBUS is examined after the descriptors are given
\* back.
LEMMA RxStallStep == TypeOK /\ RxStallInv /\ [Next]_vars => RxStallInv'
<1> SUFFICES ASSUME TypeOK, RxStallInv, [Next]_vars PROVE RxStallInv'
  OBVIOUS
<1> USE DEF RxStallInv, RxNotStalled
<1>1. ASSUME UNCHANGED <<rxDma, rxDmaDesc, rxd>>,
             "RBUS" \in DMASR => "RBUS" \in DMASR',
             rxpc \in {"give", "resume"} => rxpc' \in {"give", "resume"}
      PROVE  RxStallInv'
  BY <1>1
<1>2. CASE DmaRxFetch
  BY <1>2 DEF DmaRxFetch, rxVars
<1>3. CASE DmaRxLast \/ DmaRxMore
  BY <1>3 DEF DmaRxLast, DmaRxMore, rxVars
<1>4. CASE DmaTxFetch \/ DmaTxSend \/ DmaTxUnderflow
  BY <1>1, <1>4 DEF DmaTxFetch, DmaTxSend, DmaTxUnderflow, rxVars
<1>5. CASE Isr
  BY <1>1, <1>5 DEF Isr, IrqRxCplt, IrqClear, dmaVars, rxVars
<1>6. CASE RxGive
  <2>1. /\ UNCHANGED <<rxDma, rxDmaDesc, DMASR>>
        /\ rxpc' \in {"give", "resume"}
    BY <1>6, Zenon DEF RxGive, dmaVars
  <2>2. QED
    BY <2>1
<1>7. CASE RxResume
  BY <1>7 DEF RxResume, ResumeRx
<1>8. CASE RxWait \/ RxRefSem \/ RxLock \/ RxScanDesc \/ RxScanEnd \/ RxAlloc \/ RxCopy \/ RxInput
  BY <1>1, <1>8 DEF RxWait, RxRefSem, RxLock, RxScanDesc, RxScanEnd, RxAlloc, RxCopy,
                    RxInput, dmaVars
<1>9. CASE Tcpip \/ AppRecv
  BY <1>1, <1>9 DEF Tcpip, TcpipFetch, TcpipInput, TxCheck, TxLock, TxOwn, TxResume,
                    TxUnderflow, ResumeTx, AppRecv, dmaVars, rxVars
<1>10. CASE UNCHANGED vars
  BY <1>1, <1>10 DEF vars, dmaVars, rxVars
<1>11. QED
  BY <1>2, <1>3, <1>4, <1>5, <1>6, <1>7, <1>8, <1>9, <1>10 DEF Next, Dma, RxTask

\* The receive DMA never stays suspended at a descriptor it owns once
\* low_level_input has returned.
THEOREM RxNotStalledHolds == Spec => []RxNotStalled
<1>1. Init => RxStallInv
  BY DEF Init, RxStallInv, RxNotStalled
<1>2. RxStallInv => RxNotStalled
  BY DEF RxStallInv
<1>3. QED
  BY <1>1, <1>2, TypeCorrect, RxStallStep, PTL DEF Spec

\* TxStallInv is inductive: TBUS is examined after the descriptor is given
\* to the DMA, and TUS at the end of every output.
LEMMA TxStallStep == TypeOK /\ TxStallInv /\ [Next]_vars => TxStallInv'
<1> SUFFICES ASSUME TypeOK, TxStallInv, [Next]_vars PROVE TxStallInv'
  OBVIOUS
<1> USE DEF TxStallInv, TxNotStalled
<1>1. ASSUME UNCHANGED <<txDma, txDmaDesc, txd>>,
             "TBUS" \in DMASR => "TBUS" \in DMASR',
             "TUS" \in DMASR => "TUS" \in DMASR',
             txpc = "tbus" => txpc' = "tbus"
      PROVE  TxStallInv'
  BY <1>1
<1>2. CASE DmaTxFetch
  BY <1>2 DEF DmaTxFetch, txVars
<1>3. CASE DmaTxSend \/ DmaTxUnderflow
  BY <1>3 DEF DmaTxSend, DmaTxUnderflow, txVars
<1>4. CASE DmaRxFetch \/ DmaRxLast \/ DmaRxMore
  BY <1>1, <1>4 DEF DmaRxFetch, DmaRxLast, DmaRxMore, txVars
<1>5. CASE Isr
  BY <1>1, <1>5 DEF Isr, IrqRxCplt, IrqClear, dmaVars, txVars
<1>6. CASE RxTask
  <2>1. CASE RxGive
    <3>1. UNCHANGED <<txDma, txDmaDesc, txd, DMASR, txpc>>
      BY <2>1, Zenon DEF RxGive, dmaVars, txVars
    <3>2. QED
      BY <1>1, <3>1
  <2>2. CASE ~RxGive
    BY <1>1, <1>6, <2>2 DEF RxTask, RxWait, RxRefSem, RxLock, RxScanDesc, RxScanEnd, RxAlloc,
                       RxCopy, RxResume, ResumeRx, RxInput, dmaVars, txVars
  <2>3. QED
    BY <2>1, <2>2
<1>7. CASE TcpipFetch \/ TcpipInput \/ AppRecv \/ TxCheck \/ TxLock
  BY <1>1, <1>7 DEF TcpipFetch, TcpipInput, AppRecv, TxCheck, TxLock, dmaVars, txVars
<1>8. CASE TxOwn
  BY <1>8 DEF TxOwn, dmaVars
<1>9. CASE TxResume
  BY <1>9 DEF TxResume, ResumeTx
<1>10. CASE TxUnderflow
  BY <1>10 DEF TxUnderflow, ResumeTx
<1>11. CASE UNCHANGED vars
  BY <1>1, <1>11 DEF vars, dmaVars, txVars
<1>12. QED
  BY <1>2, <1>3, <1>4, <1>5, <1>6, <1>7, <1>8, <1>9, <1>10, <1>11 DEF Next, Dma, Tcpip

\* The transmit DMA never stays suspended at a frame it was given once
\* HAL_ETH_TransmitFrame has returned, unless it underflowed.
THEOREM TxNotStalledHolds == Spec => []TxNotStalled
<1>1. Init => TxStallInv
  BY DEF Init, TxStallInv, TxNotStalled
<1>2. TxStallInv => TxNotStalled
  BY DEF TxStallInv
<1>3. QED
  BY <1>1, <1>2, TypeCorrect, TxStallStep, PTL DEF Spec

-----------------------------------------------------------------------------
(* The receive ring. *)

\* Walking the ring.
LEMMA RingWalk ==
  ASSUME NEW a \in RxRing
  PROVE  /\ \A d \in RxRing : Dist(a, d) \in 0 .. ETH_RXBUFNB - 1
         /\ \A d \in RxRing : Plus(a, Dist(a, d)) = d
         /\ \A d, e \in RxRing : Dist(a, d) = Dist(a, e) => d = e
         /\ \A n \in 0 .. ETH_RXBUFNB : Plus(a, n) \in RxRing
         /\ \A n \in 0 .. ETH_RXBUFNB - 1 : Dist(a, Plus(a, n)) = n
         /\ \A n \in 0 .. ETH_RXBUFNB - 1 : NextRx(Plus(a, n)) = Plus(a, n + 1)
         /\ \A n \in 0 .. ETH_RXBUFNB - 1 : Plus(NextRx(a), n) = Plus(a, n + 1)
         /\ Plus(a, 0) = a /\ Plus(a, 1) = NextRx(a) /\ Plus(a, ETH_RXBUFNB) = a
         /\ Dist(a, a) = 0
         /\ Prev(a) \in RxRing /\ Prev(NextRx(a)) = a /\ NextRx(Prev(a)) = a
         /\ NextRx(a) # a /\ Prev(a) # a
  BY SizesAssumption DEF RxRing, Dist, Plus, NextRx, NextIn, Prev

\* Distances from the next and to the previous descriptor.
LEMMA RingDist ==
  ASSUME NEW a \in RxRing, NEW d \in RxRing
  PROVE  /\ Dist(NextRx(a), d) = IF d = a THEN ETH_RXBUFNB - 1 ELSE Dist(a, d) - 1
         /\ Dist(a, Prev(d)) = IF d = a THEN ETH_RXBUFNB - 1 ELSE Dist(a, d) - 1
  BY SizesAssumption DEF RxRing, Dist, NextRx, NextIn, Prev

\* A distance determines the descriptor.
LEMMA RingOne ==
  ASSUME NEW a \in RxRing, NEW d \in RxRing, NEW e \in RxRing
  PROVE  /\ Dist(a, d) \in 0 .. ETH_RXBUFNB - 1
         /\ d = e <=> Dist(a, d) = Dist(a, e)
         /\ d = a <=> Dist(a, d) = 0
  BY SizesAssumption DEF RxRing, Dist

\* The arc depends on the state of the task only through Base, Scanned, Part
\* and HasFrame.
LEMMA ArcSame ==
  ASSUME NEW k,
         ArcInv(k),
         UNCHANGED <<rxd, rxDmaDesc, rxDmaSeg, RxDesc, SegCount>>,
         Base' = Base, Scanned' = Scanned, Part' = Part, HasFrame' <=> HasFrame
  PROVE  ArcInv(k)'
  BY SMTT(30) DEF ArcInv, OwnsArc

\* The arc is disturbed by nothing but its own variables.
LEMMA ArcFrame ==
  ASSUME NEW k,
         ArcInv(k),
         UNCHANGED <<rxd, rxDmaDesc, rxDmaSeg, RxDesc, FSRxDesc, SegCount, dmarxdesc, i>>,
         rxpc' = rxpc \/ (~HasFrame /\ ~HasFrame')
  PROVE  ArcInv(k)'
<1>1. Base' = Base /\ Scanned' = Scanned /\ Part' = Part /\ (HasFrame' <=> HasFrame)
  BY DEF Base, Scanned, Part, HasFrame
<1>2. QED
  BY <1>1, ArcSame

\* The types of the parts of ArcInv.
LEMMA ArcTypes ==
  ASSUME TypeOK, RingInv
  PROVE  /\ Base \in RxRing
         /\ Scanned \in Nat
         /\ ~HasFrame => Scanned = SegCount
         /\ Part = IF HasFrame THEN 0 ELSE SegCount
  BY DEF TypeOK, RingInv, Base, Scanned, Part, HasFrame

\* A buffer written by the DMA extends the arc of the driver by one.
LEMMA ArcWrite ==
  ASSUME TypeOK, RingInv, DmaRxLast \/ DmaRxMore,
         NEW k \in 0 .. ETH_RXBUFNB, ArcInv(k)
  PROVE  /\ RingInv'
         /\ k + 1 \in 0 .. ETH_RXBUFNB /\ ArcInv(k + 1)'
         /\ Dist(Base, rxDmaDesc) = k
         /\ Base' = Base /\ Scanned' = Scanned /\ (HasFrame' <=> HasFrame)
<1> USE ArcTypes
<1>1. ArcInv(k)
  OBVIOUS
<1>2. /\ Base' = Base /\ Scanned' = Scanned /\ Part' = Part /\ HasFrame' = HasFrame
      /\ UNCHANGED <<rxpc, i, SegCount, RxDesc>>
  BY DEF DmaRxLast, DmaRxMore, rxVars, Base, Scanned, Part, HasFrame
<1>3. rxDma = "ready" /\ rxd[rxDmaDesc].own = "dma"
  BY DEF RingInv, DmaRxLast, DmaRxMore
<1>4. k < ETH_RXBUFNB /\ Dist(Base, rxDmaDesc) = k /\ rxDmaDesc \in RxRing
  <2>1. rxDmaDesc = Plus(Base, k) /\ ~(Dist(Base, rxDmaDesc) < k) /\ rxDmaDesc \in RxRing
    BY <1>1, <1>3 DEF ArcInv, OwnsArc, TypeOK
  <2>2. Base \in RxRing /\ ETH_RXBUFNB \in Nat \ {0}
    BY ArcTypes, SizesAssumption
  <2>3. Plus(Base, ETH_RXBUFNB) = Base /\ Dist(Base, Base) = 0
    BY <2>2, RingWalk
  <2>4. \A n \in 0 .. ETH_RXBUFNB - 1 : Dist(Base, Plus(Base, n)) = n
    BY <2>2, RingWalk
  <2>5. k # ETH_RXBUFNB
    BY <2>1, <2>2, <2>3
  <2>6. k \in 0 .. ETH_RXBUFNB - 1
    BY <2>2, <2>5
  <2>7. Dist(Base, rxDmaDesc) = k
    BY <2>1, <2>4, <2>6
  <2>8. QED
    BY <2>1, <2>2, <2>6, <2>7
<1>5. PICK last \in BOOLEAN :
        /\ rxd' = [rxd EXCEPT ![rxDmaDesc] =
                     [own |-> "cpu", fs |-> rxDmaSeg = 0, ls |-> last, seq |-> rxDmaSeq]]
        /\ last <=> rxDmaSeg' = 0
        /\ last => rxDma' = "fetch"
        /\ ~last => rxd[NextRx(rxDmaDesc)].own = "dma" /\ rxDma' = rxDma
  <2>1. CASE DmaRxLast
    <3>1. WITNESS TRUE \in BOOLEAN
    <3>2. QED
      BY <2>1 DEF DmaRxLast, WriteBuffer
  <2>2. CASE DmaRxMore
    <3>1. WITNESS FALSE \in BOOLEAN
    <3>2. QED
      BY <2>2 DEF DmaRxMore, WriteBuffer, TypeOK
  <2>3. QED
    BY <2>1, <2>2
<1>6. /\ \A d \in RxRing : d # rxDmaDesc => rxd'[d] = rxd[d]
      /\ rxd'[rxDmaDesc].own = "cpu" /\ rxd'[rxDmaDesc].fs = (rxDmaSeg = 0)
      /\ rxd'[rxDmaDesc].ls = last
  BY <1>4, <1>5 DEF TypeOK
<1>7. rxDmaDesc' = NextRx(rxDmaDesc)
  BY DEF DmaRxLast, DmaRxMore
<1>8. ArcInv(k + 1)'
  <2>1. rxDmaDesc' = Plus(Base, k + 1)
    BY <1>1, <1>4, <1>7, RingWalk DEF ArcInv, OwnsArc
  <2>2. \A d \in RxRing : d = rxDmaDesc <=> Dist(Base, d) = k
    BY <1>4, RingWalk
  <2>3. \A d \in RxRing : (rxd'[d].own = "cpu") <=> (Dist(Base, d) < k + 1)
    <3>1. \A d \in RxRing : Dist(Base, d) \in 0 .. ETH_RXBUFNB - 1
      BY RingWalk
    <3>2. \A d \in RxRing : (rxd[d].own = "cpu") <=> (Dist(Base, d) < k)
      BY <1>1 DEF ArcInv, OwnsArc
    <3>3. QED
      BY <1>6, <2>2, <3>1, <3>2, SizesAssumption
  <2>4. Scanned <= k + 1 /\ RxDesc = Plus(Base, Scanned)
    BY <1>1 DEF ArcInv
  <2>5. ~HasFrame => \A d \in RxRing : Dist(Base, d) < SegCount => ~rxd'[d].ls
    BY <1>1, <1>6, <2>2 DEF ArcInv
  <2>6. ASSUME NEW d \in RxRing, Scanned <= Dist(Base, d), Dist(Base, d) < k + 1
        PROVE  rxd'[d].fs <=> IF Dist(Base, d) = Scanned THEN Part = 0 ELSE rxd'[Prev(d)].ls
    <3>1. Prev(d) \in RxRing /\ Dist(Base, d) \in Nat
      BY RingWalk
    <3>2. Dist(Base, d) # Scanned => Prev(d) # rxDmaDesc /\ rxd'[Prev(d)] = rxd[Prev(d)]
      <4>1. SUFFICES ASSUME Dist(Base, d) # Scanned
                     PROVE  Prev(d) # rxDmaDesc
        BY <1>6, <3>1
      <4>2. Dist(Base, Prev(d)) = Dist(Base, d) - 1
        BY <2>6, <3>1, <4>1, RingDist, RingWalk
      <4>3. QED
        BY <2>2, <2>6, <3>1, <4>2
    <3>3. CASE d = rxDmaDesc
      BY <1>1, <1>4, <1>6, <3>2, <3>3 DEF ArcInv
    <3>4. CASE d # rxDmaDesc
      BY <1>1, <1>4, <1>6, <2>2, <2>6, <3>1, <3>2, <3>4 DEF ArcInv
    <3>5. QED
      BY <3>3, <3>4
  <2>7. Prev(rxDmaDesc') = rxDmaDesc /\ Scanned # k + 1
    BY <1>1, <1>4, <1>7, RingWalk DEF ArcInv
  <2>8. (rxDmaSeg' = 0) <=> IF k + 1 = Scanned THEN Part = 0 ELSE rxd'[Prev(rxDmaDesc')].ls
    BY <1>5, <1>6, <2>7
  <2>9. QED
    BY <1>2, <2>1, <2>3, <2>4, <2>5, <2>6, <2>8, Zenon DEF ArcInv, OwnsArc
<1>9. rxDma' = "ready" => rxd'[rxDmaDesc'].own = "dma"
  <2>1. NextRx(rxDmaDesc) \in RxRing /\ NextRx(rxDmaDesc) # rxDmaDesc
    BY <1>4, NextTypes, RingWalk
  <2>2. rxd'[NextRx(rxDmaDesc)] = rxd[NextRx(rxDmaDesc)]
    BY <1>6, <2>1
  <2>3. QED
    BY <1>5, <1>7, <2>2
<1>10. rxDmaSeg' > 0 => rxDma' = "ready"
  BY <1>3, <1>5
<1>11. k + 1 \in 0 .. ETH_RXBUFNB
  BY <1>4, SizesAssumption
<1>12. QED
  <2>1. \E m \in 0 .. ETH_RXBUFNB : ArcInv(m)'
    BY <1>8, <1>11
  <2>2. /\ HasFrame' => SegCount' > 0
        /\ rxpc' = "copy" => i' = 0
        /\ rxpc' = "give" => i' < SegCount'
    BY <1>2 DEF RingInv
  <2>3. RingInv'
    BY <1>9, <1>10, <2>1, <2>2 DEF RingInv
  <2>4. QED
    BY <1>2, <1>4, <1>8, <1>11, <2>3

\* Scanning a descriptor moves the boundary between the scanned part of the
\* arc and the rest.
LEMMA ArcScan ==
  ASSUME TypeOK, RingInv, RxScanDesc,
         NEW k \in 0 .. ETH_RXBUFNB, ArcInv(k)
  PROVE  /\ RingInv' /\ ArcInv(k)'
         /\ ~HasFrame /\ Scanned < k /\ Dist(Base, RxDesc) = Scanned
         /\ rxd[RxDesc].fs <=> Scanned = 0
         /\ Base' = Base /\ Scanned' = Scanned + 1
         /\ HasFrame' <=> rxd[RxDesc].ls
<1> DEFINE d0 == rxd[RxDesc]
<1>1. ArcInv(k)
  OBVIOUS
<1>2. /\ rxpc = "scan" /\ rxpc' = (IF d0.ls THEN "alloc" ELSE "scan")
      /\ d0.own = "cpu" /\ RxDesc \in RxRing /\ SegCount \in Nat
      /\ UNCHANGED <<rxd, rxDma, rxDmaDesc, rxDmaSeg>>
  BY DEF RxScanDesc, TypeOK, dmaVars
<1>3. /\ ~HasFrame /\ Scanned = SegCount /\ Part = SegCount
      /\ Base = (IF SegCount > 0 THEN FSRxDesc ELSE RxDesc) /\ Base \in RxRing
  BY <1>2 DEF HasFrame, Scanned, Part, Base, TypeOK
<1>0. /\ \A d \in RxRing : Dist(Base, d) \in 0 .. ETH_RXBUFNB - 1
      /\ \A d, e \in RxRing : Dist(Base, d) = Dist(Base, e) => d = e
      /\ \A n \in 0 .. ETH_RXBUFNB - 1 : Dist(Base, Plus(Base, n)) = n
      /\ \A n \in 0 .. ETH_RXBUFNB - 1 : NextRx(Plus(Base, n)) = Plus(Base, n + 1)
      /\ Plus(Base, ETH_RXBUFNB) = Base /\ Dist(Base, Base) = 0
  <2>1. Base \in RxRing
    BY <1>3
  <2>2. QED
    BY <2>1, RingWalk
<1>4. Scanned < k /\ Dist(Base, RxDesc) = Scanned
  <2>1. /\ Scanned <= k /\ RxDesc = Plus(Base, Scanned) /\ Dist(Base, RxDesc) < k
        /\ rxDmaDesc = Plus(Base, k)
    BY <1>1, <1>2 DEF ArcInv, OwnsArc
  <2>2. Scanned # k
    <3>1. SUFFICES ASSUME Scanned = k PROVE FALSE
      OBVIOUS
    <3>2. k = ETH_RXBUFNB
      BY <1>0, <1>2, <1>3, <2>1, <3>1, SizesAssumption
    <3>3. rxDmaSeg # 0
      BY <1>1, <1>3, <3>1, <3>2, SizesAssumption DEF ArcInv
    <3>4. rxd[rxDmaDesc].own = "dma" /\ rxDmaDesc \in RxRing
      BY <3>3 DEF RingInv, TypeOK
    <3>5. ~(Dist(Base, rxDmaDesc) < k)
      BY <1>1, <3>4 DEF ArcInv, OwnsArc
    <3>6. QED
      BY <1>0, <2>1, <3>2, <3>5, SizesAssumption
  <2>3. QED
    BY <1>0, <1>2, <1>3, <2>1, <2>2, SizesAssumption
<1>5. d0.fs <=> SegCount = 0
  BY <1>1, <1>2, <1>3, <1>4 DEF ArcInv
<1>6. SegCount' = SegCount + 1 /\ FSRxDesc' = Base
  <2>1. SegCount' = SegCount + 1
    BY <1>2, <1>5 DEF RxScanDesc, ScanCount
  <2>2. FSRxDesc' = IF (d0.fs \/ d0.ls) /\ SegCount' = 1 THEN RxDesc ELSE FSRxDesc
    BY DEF RxScanDesc
  <2>3. QED
    BY <1>2, <1>3, <1>5, <2>1, <2>2
<1>7. /\ Base' = Base /\ Scanned' = Scanned + 1
      /\ HasFrame' <=> d0.ls
      /\ Part' = 0 <=> d0.ls
  BY <1>2, <1>3, <1>6 DEF Base, Scanned, Part, HasFrame
<1>8. RxDesc' = NextRx(RxDesc)
  BY DEF RxScanDesc
<1>9. ArcInv(k)'
  <2>1. OwnsArc(k)'
    BY <1>1, <1>2, <1>7 DEF ArcInv, OwnsArc
  <2>2. Scanned' <= k /\ RxDesc' = Plus(Base, Scanned + 1)
    <3>1. RxDesc = Plus(Base, Scanned)
      BY <1>1 DEF ArcInv
    <3>2. Scanned \in 0 .. ETH_RXBUFNB - 1
      BY <1>2, <1>3, <1>4, SizesAssumption
    <3>3. QED
      BY <1>0, <1>4, <1>7, <1>8, <3>1, <3>2
  <2>3. \A d \in RxRing : /\ d = RxDesc <=> Dist(Base, d) = Scanned
                          /\ Dist(Base, d) \in 0 .. ETH_RXBUFNB - 1
    BY <1>0, <1>2, <1>4
  <2>4. ~HasFrame' => \A d \in RxRing : Dist(Base, d) < SegCount' => ~rxd[d].ls
    BY <1>1, <1>2, <1>3, <1>6, <1>7, <2>3 DEF ArcInv
  <2>5. ASSUME NEW d \in RxRing, Scanned' <= Dist(Base, d), Dist(Base, d) < k
        PROVE  rxd[d].fs <=> IF Dist(Base, d) = Scanned' THEN Part' = 0 ELSE rxd[Prev(d)].ls
    <3>1. rxd[d].fs <=> rxd[Prev(d)].ls
      BY <1>1, <1>2, <1>3, <1>7, <2>3, <2>5 DEF ArcInv
    <3>2. Dist(Base, Prev(d)) = Dist(Base, d) - 1 /\ Prev(d) \in RxRing
      <4>1. d # Base /\ Base \in RxRing
        BY <1>0, <1>2, <1>3, <1>7, <2>5
      <4>2. QED
        BY <4>1, RingDist, RingWalk
    <3>3. Dist(Base, d) = Scanned' => Prev(d) = RxDesc
      BY <1>2, <1>3, <1>7, <2>3, <3>2
    <3>4. QED
      BY <1>7, <3>1, <3>3
  <2>6. (rxDmaSeg = 0) <=> IF k = Scanned' THEN Part' = 0 ELSE rxd[Prev(rxDmaDesc)].ls
    <3>1. (rxDmaSeg = 0) <=> rxd[Prev(rxDmaDesc)].ls
      BY <1>1, <1>4, <1>3, <1>2 DEF ArcInv
    <3>2. k = Scanned' => rxDmaDesc = NextRx(RxDesc)
      BY <1>1, <1>7, <1>8, <2>2 DEF ArcInv, OwnsArc
    <3>3. k = Scanned' => Prev(rxDmaDesc) = RxDesc
      BY <1>2, <3>2, RingWalk
    <3>4. QED
      BY <1>7, <3>1, <3>3
  <2>7. QED
    BY <1>2, <1>7, <2>1, <2>2, <2>4, <2>5, <2>6, Zenon DEF ArcInv
<1>10. /\ HasFrame' => SegCount' > 0
       /\ rxpc' # "copy" /\ rxpc' # "give"
  BY <1>2, <1>6
<1>11. RingInv'
  BY <1>1, <1>2, <1>9, <1>10, Zenon DEF RingInv
<1>12. QED
  BY <1>3, <1>4, <1>5, <1>7, <1>9, <1>11

\* Giving a descriptor back takes it off the near end of the arc.
LEMMA ArcGive ==
  ASSUME TypeOK, RingInv, RxGive,
         NEW k \in 0 .. ETH_RXBUFNB, ArcInv(k)
  PROVE  /\ RingInv'
         /\ k - 1 \in 0 .. ETH_RXBUFNB /\ ArcInv(k - 1)'
         /\ Base \in RxRing /\ Base = dmarxdesc /\ 0 < Scanned /\ Scanned <= k
         /\ Base' = NextRx(Base) /\ Scanned' = Scanned - 1
<1>1. ArcInv(k)
  OBVIOUS
<1>2. /\ rxpc = "give" /\ i' = i + 1
      /\ rxd' = [rxd EXCEPT ![dmarxdesc].own = "dma"]
      /\ dmarxdesc' = NextRx(dmarxdesc)
      /\ UNCHANGED <<RxDesc, rxDma, rxDmaDesc, rxDmaSeg>>
  BY Zenon DEF RxGive, dmaVars
<1>3. \/ ~(i + 1 >= SegCount) /\ SegCount' = SegCount /\ rxpc' = "give"
      \/ i + 1 >= SegCount /\ SegCount' = 0 /\ rxpc' = "resume"
  BY Zenon DEF RxGive, VisitedAll
<1>4. /\ HasFrame /\ Base = dmarxdesc /\ Base \in RxRing /\ Part = 0
      /\ Scanned = SegCount - i /\ i \in Nat /\ SegCount \in Nat /\ i < SegCount
  BY <1>2 DEF HasFrame, Base, Part, Scanned, TypeOK, RingInv
<1>0. /\ \A d \in RxRing : Dist(Base, d) \in 0 .. ETH_RXBUFNB - 1
      /\ \A d, e \in RxRing : Dist(Base, d) = Dist(Base, e) => d = e
      /\ \A n \in 0 .. ETH_RXBUFNB - 1 : Plus(NextRx(Base), n) = Plus(Base, n + 1)
      /\ Dist(Base, Base) = 0
  <2>1. Base \in RxRing
    BY <1>4
  <2>2. QED
    BY <2>1, RingWalk
<1>5. \A d \in RxRing :
        /\ rxd'[d].own = IF d = Base THEN "dma" ELSE rxd[d].own
        /\ rxd'[d].fs = rxd[d].fs /\ rxd'[d].ls = rxd[d].ls
  BY <1>2, <1>4 DEF TypeOK, RxDescriptor
<1>6. 0 < Scanned /\ Scanned <= k /\ Scanned \in Nat /\ RxDesc = Plus(Base, Scanned)
  BY <1>1, <1>4 DEF ArcInv
<1>7. /\ Base' = NextRx(Base) /\ Scanned' = Scanned - 1 /\ Part' = 0
      /\ ~HasFrame' => SegCount' = 0
  <2>1. CASE i + 1 >= SegCount
    <3>1. Scanned = 1 /\ RxDesc = NextRx(Base)
      BY <1>4, <1>6, <2>1, RingWalk
    <3>2. QED
      BY <1>2, <1>3, <2>1, <3>1 DEF HasFrame, Base, Scanned, Part
  <2>2. CASE ~(i + 1 >= SegCount)
    BY <1>2, <1>3, <1>4, <2>2 DEF HasFrame, Base, Scanned, Part
  <2>3. QED
    BY <2>1, <2>2
<1>8. \A d \in RxRing :
        /\ Dist(Base, d) \in 0 .. ETH_RXBUFNB - 1
        /\ d = Base <=> Dist(Base, d) = 0
        /\ Dist(Base', d) = IF d = Base THEN ETH_RXBUFNB - 1 ELSE Dist(Base, d) - 1
  <2>1. Base \in RxRing
    BY <1>4
  <2>2. \A d \in RxRing :
          Dist(NextRx(Base), d) = IF d = Base THEN ETH_RXBUFNB - 1 ELSE Dist(Base, d) - 1
    BY <2>1, RingDist
  <2>3. \A d \in RxRing : d = Base <=> Dist(Base, d) = 0
    BY <1>0, <2>1
  <2>4. QED
    BY <1>0, <1>7, <2>2, <2>3
<1>9. ArcInv(k - 1)'
  <2>1. rxDmaDesc' = Plus(Base', k - 1)
    <3>1. k - 1 \in 0 .. ETH_RXBUFNB - 1 /\ rxDmaDesc = Plus(Base, (k - 1) + 1)
      BY <1>1, <1>6, SizesAssumption DEF ArcInv, OwnsArc
    <3>2. QED
      BY <1>0, <1>2, <1>7, <3>1
  <2>2. \A d \in RxRing : (rxd'[d].own = "cpu") <=> (Dist(Base', d) < k - 1)
    <3>1. \A d \in RxRing : (rxd[d].own = "cpu") <=> (Dist(Base, d) < k)
      BY <1>1 DEF ArcInv, OwnsArc
    <3>2. QED
      BY <1>5, <1>6, <1>8, <3>1, SizesAssumption
  <2>3. Scanned' <= k - 1 /\ RxDesc' = Plus(Base', Scanned')
    <3>1. Scanned - 1 \in 0 .. ETH_RXBUFNB - 1 /\ RxDesc = Plus(Base, (Scanned - 1) + 1)
      BY <1>6, SizesAssumption
    <3>2. QED
      BY <1>0, <1>2, <1>6, <1>7, <3>1
  <2>4. ~HasFrame' => \A d \in RxRing : Dist(Base', d) < SegCount' => ~rxd'[d].ls
    BY <1>7, <1>8, SizesAssumption
  <2>5. ASSUME NEW d \in RxRing, Scanned' <= Dist(Base', d), Dist(Base', d) < k - 1
        PROVE  rxd'[d].fs <=>
                 IF Dist(Base', d) = Scanned' THEN Part' = 0 ELSE rxd'[Prev(d)].ls
    <3>1. d # Base /\ Dist(Base', d) = Dist(Base, d) - 1
      BY <1>8, <2>5, SizesAssumption
    <3>2. rxd[d].fs <=> IF Dist(Base, d) = Scanned THEN Part = 0 ELSE rxd[Prev(d)].ls
      BY <1>1, <1>6, <1>7, <1>8, <2>5, <3>1 DEF ArcInv
    <3>3. Prev(d) \in RxRing
      BY RingWalk
    <3>4. Dist(Base', d) = Scanned' <=> Dist(Base, d) = Scanned
      BY <1>6, <1>7, <1>8, <3>1
    <3>5. QED
      BY <1>4, <1>5, <1>7, <3>2, <3>3, <3>4
  <2>6. (rxDmaSeg' = 0) <=> IF k - 1 = Scanned' THEN Part' = 0 ELSE rxd'[Prev(rxDmaDesc')].ls
    <3>1. (rxDmaSeg = 0) <=> IF k = Scanned THEN Part = 0 ELSE rxd[Prev(rxDmaDesc)].ls
      BY <1>1 DEF ArcInv
    <3>2. Prev(rxDmaDesc) \in RxRing
      BY RingWalk DEF TypeOK
    <3>3. k - 1 = Scanned' <=> k = Scanned
      BY <1>6, <1>7
    <3>4. QED
      BY <1>2, <1>4, <1>5, <1>7, <3>1, <3>2, <3>3
  <2>7. QED
    BY <2>1, <2>2, <2>3, <2>4, <2>5, <2>6, Zenon DEF ArcInv, OwnsArc
<1>10. k - 1 \in 0 .. ETH_RXBUFNB
  BY <1>6, SizesAssumption
<1>11. rxDma' = "ready" => rxd'[rxDmaDesc'].own = "dma"
  BY <1>2, <1>5 DEF RingInv, TypeOK
<1>12. rxDmaSeg' > 0 => rxDma' = "ready"
  BY <1>2 DEF RingInv
<1>13. /\ HasFrame' => SegCount' > 0
       /\ rxpc' = "copy" => i' = 0
       /\ rxpc' = "give" => i' < SegCount'
  BY <1>2, <1>3, <1>4 DEF HasFrame
<1>14. RingInv'
  BY <1>9, <1>10, <1>11, <1>12, <1>13, Zenon DEF RingInv
<1>15. QED
  BY <1>4, <1>6, <1>7, <1>9, <1>10, <1>14

\* Allocating and copying leave the arc where it is.
LEMMA ArcTake ==
  ASSUME TypeOK, RingInv, RxAlloc \/ RxCopy,
         NEW k \in 0 .. ETH_RXBUFNB, ArcInv(k)
  PROVE  /\ RingInv' /\ ArcInv(k)'
         /\ Base' = Base /\ Scanned' = Scanned
<1>1. ArcInv(k)
  OBVIOUS
<1>2. /\ UNCHANGED <<rxd, rxDma, rxDmaDesc, rxDmaSeg, RxDesc, FSRxDesc, SegCount>>
      /\ HasFrame /\ HasFrame'
      /\ rxpc # "give" /\ rxpc' # "alloc" /\ i' = 0
      /\ rxpc' = "give" => dmarxdesc' = FSRxDesc
  BY DEF RxAlloc, RxCopy, dmaVars, HasFrame, RingInv
<1>3. Base' = Base /\ Scanned' = Scanned /\ Part' = Part
  BY <1>2 DEF RingInv, Base, Scanned, Part, TypeOK
<1>4. ArcInv(k)'
  BY <1>1, <1>2, <1>3, ArcSame
<1>5. RingInv'
  BY <1>1, <1>2, <1>4 DEF RingInv
<1>6. QED
  BY <1>3, <1>4, <1>5

\* RingInv is inductive.
LEMMA RingInvStep == TypeOK /\ RingInv /\ [Next]_vars => RingInv'
<1> SUFFICES ASSUME TypeOK, RingInv, [Next]_vars PROVE RingInv'
  OBVIOUS
<1>1. ASSUME UNCHANGED <<rxd, rxDmaDesc, rxDmaSeg, RxDesc, FSRxDesc, SegCount, dmarxdesc, i>>,
             rxpc' = rxpc \/ (~HasFrame /\ ~HasFrame'),
             rxDma' = "ready" => rxd[rxDmaDesc].own = "dma",
             rxDma = "ready" => rxDma' = "ready"
      PROVE  RingInv'
  <2>1. PICK k \in 0 .. ETH_RXBUFNB : ArcInv(k)
    BY DEF RingInv
  <2>2. ArcInv(k)'
    BY <1>1, <2>1, ArcFrame
  <2>3. QED
    BY <1>1, <2>1, <2>2 DEF RingInv, HasFrame
<1>2. ASSUME UNCHANGED <<rxd, dmaVars, RxDesc, FSRxDesc, SegCount, dmarxdesc, i>>,
             rxpc' = rxpc \/ (~HasFrame /\ ~HasFrame')
      PROVE  RingInv'
  BY <1>1, <1>2 DEF RingInv, dmaVars
<1>3. CASE DmaRxFetch
  BY <1>1, <1>3 DEF DmaRxFetch, rxVars
<1>4. CASE DmaTxFetch \/ DmaTxSend \/ DmaTxUnderflow
  BY <1>1, <1>4 DEF DmaTxFetch, DmaTxSend, DmaTxUnderflow, rxVars, RingInv
<1>5. CASE Isr
  BY <1>2, <1>5 DEF Isr, IrqRxCplt, IrqClear, rxVars
<1>6. CASE RxResume
  BY <1>1, <1>6 DEF RxResume, ResumeRx, HasFrame, RingInv
<1>7. CASE RxWait \/ RxRefSem \/ RxLock \/ RxScanEnd \/ RxInput
  BY <1>2, <1>7 DEF RxWait, RxRefSem, RxLock, RxScanEnd, RxInput, HasFrame
<1>8. CASE TxResume \/ TxUnderflow
  BY <1>1, <1>8 DEF TxResume, TxUnderflow, rxVars, RingInv
<1>9. CASE TcpipFetch \/ TcpipInput \/ AppRecv \/ TxCheck \/ TxLock \/ TxOwn
  BY <1>2, <1>9 DEF TcpipFetch, TcpipInput, AppRecv, TxCheck, TxLock, TxOwn, rxVars
<1>10. CASE UNCHANGED vars
  BY <1>2, <1>10 DEF vars, rxVars
<1>11. CASE DmaRxLast \/ DmaRxMore \/ RxScanDesc \/ RxGive \/ RxAlloc \/ RxCopy
  <2>1. PICK k \in 0 .. ETH_RXBUFNB : ArcInv(k)
    BY DEF RingInv
  <2>2. QED
    BY <1>11, <2>1, ArcWrite, ArcScan, ArcGive, ArcTake
<1>12. QED
  BY <1>3, <1>4, <1>5, <1>6, <1>7, <1>8, <1>9, <1>10, <1>11 DEF Next, Dma, RxTask, Tcpip

\* RingInv holds initially: the ring belongs to the DMA.
LEMMA RingInvInit == Init => RingInv
<1> SUFFICES ASSUME Init PROVE RingInv
  OBVIOUS
<1>1. 0 \in RxRing /\ 0 \in 0 .. ETH_RXBUFNB
  BY SizesAssumption DEF RxRing
<1>2. Base = 0 /\ Scanned = 0 /\ Part = 0 /\ ~HasFrame
  BY DEF Init, Base, Scanned, Part, HasFrame
<1>3. \A d \in RxRing : Dist(0, d) \in 0 .. ETH_RXBUFNB - 1
  BY <1>1, RingWalk
<1>4. OwnsArc(0)
  BY <1>1, <1>2, <1>3, SizesAssumption DEF Init, OwnsArc, Plus
<1>5. ArcInv(0)
  BY <1>1, <1>2, <1>3, <1>4, SizesAssumption DEF Init, ArcInv, Plus
<1>6. QED
  BY <1>1, <1>2, <1>5 DEF Init, RingInv

\* At all times the driver and the DMA divide the receive ring in two arcs,
\* for every size of the ring and every number of buffers per frame.
THEOREM RingSplitHolds == Spec => []RingSplit
<1>1. RingInv => RingSplit
  BY DEF RingInv, ArcInv, RingSplit
<1>2. QED
  BY <1>1, RingInvInit, RingInvStep, TypeCorrect, PTL DEF Spec

-----------------------------------------------------------------------------
(* Whole frames, in order. *)

\* The numbers along the arc depend on the state of the task only through
\* Base, Scanned, HasFrame and taken.
LEMMA SeqSame ==
  ASSUME NEW k,
         SeqArc(k),
         UNCHANGED <<rxd, rxDmaDesc, rxDmaSeq, taken>>,
         Base' = Base, Scanned' = Scanned, HasFrame' <=> HasFrame,
         rxpc = "give" => rxpc' = "give"
  PROVE  SeqArc(k)'
<1>1. Fresh' = Fresh /\ \A d : Follow(d)' = Follow(d)
  BY DEF Fresh, Follow
<1>2. QED
  BY <1>1, SMTT(30) DEF SeqArc

\* They are disturbed by nothing but the variables of the arc and the number
\* of the next frame.
LEMMA SeqFrame ==
  ASSUME NEW k \in 0 .. ETH_RXBUFNB,
         ArcInv(k), SeqArc(k),
         UNCHANGED <<rxd, rxDmaDesc, rxDmaSeg, rxDmaSeq, RxDesc, FSRxDesc, SegCount,
                     dmarxdesc, i, taken>>,
         rxpc' = rxpc \/ (~HasFrame /\ ~HasFrame')
  PROVE  SeqInv'
<1>1. Base' = Base /\ Scanned' = Scanned /\ (HasFrame' <=> HasFrame)
  BY DEF Base, Scanned, HasFrame
<1>2. SeqArc(k)'
  BY <1>1, SeqSame DEF HasFrame
<1>3. ArcInv(k)'
  BY ArcFrame
<1>4. QED
  BY <1>2, <1>3 DEF SeqInv

\* The buffer the DMA writes carries the number after the last of the arc.
LEMMA SeqWrite ==
  ASSUME TypeOK, RingInv, DmaRxLast \/ DmaRxMore,
         NEW k \in 0 .. ETH_RXBUFNB, ArcInv(k), SeqArc(k)
  PROVE  SeqInv'
<1>1. /\ k + 1 \in 0 .. ETH_RXBUFNB /\ ArcInv(k + 1)'
      /\ Dist(Base, rxDmaDesc) = k
      /\ Base' = Base /\ Scanned' = Scanned /\ (HasFrame' <=> HasFrame)
  BY ArcWrite
<1>2. /\ Base \in RxRing /\ Scanned \in Nat /\ Scanned <= k /\ rxDmaDesc \in RxRing
      /\ UNCHANGED <<rxpc, taken>> /\ rxDmaDesc' = NextRx(rxDmaDesc)
  BY ArcTypes DEF TypeOK, ArcInv, DmaRxLast, DmaRxMore, rxVars
<1>3. /\ \A d \in RxRing : d # rxDmaDesc => rxd'[d] = rxd[d]
      /\ rxd'[rxDmaDesc].seq = rxDmaSeq
      /\ rxDmaSeq' = IF rxd'[rxDmaDesc].ls THEN NextSeq(rxDmaSeq) ELSE rxDmaSeq
  <2>1. CASE DmaRxLast
    BY <1>2, <2>1 DEF DmaRxLast, WriteBuffer, TypeOK
  <2>2. CASE DmaRxMore
    BY <1>2, <2>2 DEF DmaRxMore, WriteBuffer, TypeOK
  <2>3. QED
    BY <2>1, <2>2
<1>4. Fresh' = Fresh
  BY <1>1, <1>2 DEF Fresh
<1>5. \A d \in RxRing : /\ Dist(Base, d) \in 0 .. ETH_RXBUFNB - 1
                        /\ d = rxDmaDesc <=> Dist(Base, d) = k
  BY <1>1, <1>2, RingOne
<1>6. ASSUME NEW d \in RxRing, Dist(Base, d) < Scanned
      PROVE  /\ rxd'[d].seq = taken
             /\ rxpc # "give" => (rxd'[d].fs <=> d = Base)
             /\ HasFrame => (rxd'[d].ls <=> Dist(Base, d) = Scanned - 1)
  BY <1>2, <1>3, <1>5, <1>6 DEF SeqArc
<1>7. ASSUME NEW d \in RxRing, Scanned <= Dist(Base, d), Dist(Base, d) < k + 1
      PROVE  rxd'[d].seq = IF Dist(Base, d) = Scanned THEN Fresh ELSE Follow(Prev(d))'
  <2>1. CASE Dist(Base, d) = Scanned
    BY <1>2, <1>3, <1>5, <1>7, <2>1 DEF SeqArc
  <2>2. CASE Dist(Base, d) # Scanned
    <3>1. Prev(d) \in RxRing /\ Dist(Base, Prev(d)) = Dist(Base, d) - 1
      BY <1>2, <1>5, <1>7, <2>2, RingDist, RingWalk
    <3>2. rxd'[Prev(d)] = rxd[Prev(d)]
      BY <1>3, <1>5, <1>7, <3>1
    <3>3. Follow(Prev(d))' = Follow(Prev(d))
      BY <3>2 DEF Follow, Prev
    <3>4. CASE d = rxDmaDesc
      BY <1>2, <1>3, <1>5, <2>2, <3>3, <3>4 DEF SeqArc
    <3>5. CASE d # rxDmaDesc
      BY <1>2, <1>3, <1>5, <1>7, <2>2, <3>3, <3>5 DEF SeqArc
    <3>6. QED
      BY <3>4, <3>5
  <2>3. QED
    BY <2>1, <2>2
<1>8. rxDmaSeq' = IF k + 1 = Scanned THEN Fresh ELSE Follow(Prev(rxDmaDesc))'
  <2>1. Prev(rxDmaDesc') = rxDmaDesc /\ k + 1 # Scanned
    BY <1>2, RingWalk
  <2>2. Follow(Prev(rxDmaDesc))' =
          IF rxd'[rxDmaDesc].ls THEN NextSeq(rxDmaSeq) ELSE rxDmaSeq
    BY <1>3, <2>1 DEF Follow, Prev
  <2>3. QED
    BY <1>3, <2>1, <2>2
<1>9. SeqArc(k + 1)'
  BY <1>1, <1>2, <1>4, <1>6, <1>7, <1>8, Zenon DEF SeqArc
<1>10. QED
  BY <1>1, <1>9 DEF SeqInv

\* The descriptor scanned is the next one of frame taken.
LEMMA SeqScan ==
  ASSUME TypeOK, RingInv, RxScanDesc,
         NEW k \in 0 .. ETH_RXBUFNB, ArcInv(k), SeqArc(k)
  PROVE  SeqInv'
<1>1. /\ ArcInv(k)'
      /\ ~HasFrame /\ Scanned < k /\ Dist(Base, RxDesc) = Scanned
      /\ rxd[RxDesc].fs <=> Scanned = 0
      /\ Base' = Base /\ Scanned' = Scanned + 1
      /\ HasFrame' <=> rxd[RxDesc].ls
  BY ArcScan
<1>2. /\ Base \in RxRing /\ Scanned \in Nat /\ RxDesc \in RxRing /\ rxpc = "scan"
      /\ UNCHANGED <<rxd, rxDmaDesc, rxDmaSeq, taken>> /\ Fresh = taken
  BY <1>1, ArcTypes DEF TypeOK, RxScanDesc, dmaVars, Fresh
<1>3. /\ \A d \in RxRing : /\ Dist(Base, d) \in 0 .. ETH_RXBUFNB - 1
                           /\ d = RxDesc <=> Dist(Base, d) = Scanned
                           /\ d = Base <=> Dist(Base, d) = 0
  BY <1>1, <1>2, RingOne
<1>4. /\ rxd[RxDesc].seq = taken
      /\ Fresh' = Follow(RxDesc)
      /\ \A d : Follow(d)' = Follow(d)
  <2>1. rxd[RxDesc].seq = taken
    BY <1>1, <1>2 DEF SeqArc
  <2>2. QED
    BY <1>1, <1>2, <2>1 DEF Fresh, Follow
<1>5. ~HasFrame => \A d \in RxRing : Dist(Base, d) < Scanned => ~rxd[d].ls
  BY <1>1, ArcTypes DEF ArcInv
<1>6. ASSUME NEW d \in RxRing, Dist(Base, d) < Scanned + 1
      PROVE  /\ rxd[d].seq = taken
             /\ rxd[d].fs <=> d = Base
             /\ HasFrame' => (rxd[d].ls <=> Dist(Base, d) = Scanned)
  <2>1. CASE d = RxDesc
    BY <1>1, <1>2, <1>3, <1>4, <2>1
  <2>2. CASE d # RxDesc
    BY <1>1, <1>2, <1>3, <1>5, <1>6, <2>2 DEF SeqArc
  <2>3. QED
    BY <2>1, <2>2
<1>7. ASSUME NEW d \in RxRing, Scanned + 1 <= Dist(Base, d), Dist(Base, d) < k
      PROVE  rxd[d].seq = IF Dist(Base, d) = Scanned + 1 THEN Follow(RxDesc) ELSE Follow(Prev(d))
  <2>1. rxd[d].seq = Follow(Prev(d))
    BY <1>2, <1>3, <1>7 DEF SeqArc
  <2>2. Prev(d) \in RxRing /\ Dist(Base, Prev(d)) = Dist(Base, d) - 1
    BY <1>2, <1>3, <1>7, RingDist, RingWalk
  <2>3. Dist(Base, d) = Scanned + 1 => Prev(d) = RxDesc
    BY <1>2, <1>3, <2>2
  <2>4. QED
    BY <2>1, <2>3
<1>8. rxDmaSeq = IF k = Scanned + 1 THEN Follow(RxDesc) ELSE Follow(Prev(rxDmaDesc))
  <2>1. rxDmaSeq = Follow(Prev(rxDmaDesc))
    BY <1>1, <1>2 DEF SeqArc
  <2>2. k = Scanned + 1 => Prev(rxDmaDesc) = RxDesc
    <3>1. SUFFICES ASSUME k = Scanned + 1 PROVE Prev(rxDmaDesc) = RxDesc
      OBVIOUS
    <3>2. rxDmaDesc = Plus(Base, Scanned + 1) /\ RxDesc = Plus(Base, Scanned)
      BY <3>1 DEF ArcInv, OwnsArc
    <3>3. Scanned \in 0 .. ETH_RXBUFNB - 1
      BY <1>2, <3>1, SizesAssumption
    <3>4. rxDmaDesc = NextRx(RxDesc)
      BY <1>2, <3>2, <3>3, RingWalk
    <3>5. QED
      BY <1>2, <3>4, RingWalk
  <2>3. QED
    BY <2>1, <2>2
<1>9. SeqArc(k)'
  <2>1. \A d \in RxRing : Dist(Base', d) < Scanned' =>
          /\ rxd'[d].seq = taken'
          /\ rxpc' # "give" => (rxd'[d].fs <=> d = Base')
          /\ HasFrame' => (rxd'[d].ls <=> Dist(Base', d) = Scanned' - 1)
    BY <1>1, <1>2, <1>6
  <2>2. \A d \in RxRing :
          Scanned' <= Dist(Base', d) /\ Dist(Base', d) < k =>
            rxd'[d].seq = IF Dist(Base', d) = Scanned' THEN Fresh' ELSE Follow(Prev(d))'
    BY <1>1, <1>2, <1>4, <1>7 DEF Prev
  <2>3. rxDmaSeq' = IF k = Scanned' THEN Fresh' ELSE Follow(Prev(rxDmaDesc))'
    <3>1. Follow(Prev(rxDmaDesc))' = Follow(Prev(rxDmaDesc))
      BY <1>2 DEF Follow, Prev
    <3>2. QED
      BY <1>1, <1>2, <1>4, <1>8, <3>1
  <2>4. QED
    BY <2>1, <2>2, <2>3, Zenon DEF SeqArc
<1>10. QED
  BY <1>1, <1>9 DEF SeqInv

\* Giving a descriptor back leaves the numbers of the others; with the last of
\* the frame the first unscanned one becomes the next to take.
LEMMA SeqGive ==
  ASSUME TypeOK, RingInv, RxGive,
         NEW k \in 0 .. ETH_RXBUFNB, ArcInv(k), SeqArc(k)
  PROVE  SeqInv'
<1>1. /\ k - 1 \in 0 .. ETH_RXBUFNB /\ ArcInv(k - 1)'
      /\ Base \in RxRing /\ Base = dmarxdesc /\ 0 < Scanned /\ Scanned <= k
      /\ Base' = NextRx(Base) /\ Scanned' = Scanned - 1
  BY ArcGive
<1>2. /\ rxpc = "give" /\ HasFrame /\ Scanned \in Nat
      /\ UNCHANGED <<rxDmaDesc, rxDmaSeq>>
      /\ rxd' = [rxd EXCEPT ![dmarxdesc].own = "dma"]
  <2>1. /\ rxpc = "give"
        /\ UNCHANGED <<rxDmaDesc, rxDmaSeq>>
        /\ rxd' = [rxd EXCEPT ![dmarxdesc].own = "dma"]
    BY Zenon DEF RxGive, dmaVars
  <2>2. QED
    BY <2>1, ArcTypes DEF HasFrame
<1>3. \A d \in RxRing : /\ rxd'[d].fs = rxd[d].fs /\ rxd'[d].ls = rxd[d].ls
                        /\ rxd'[d].seq = rxd[d].seq
  BY <1>2 DEF TypeOK, RxDescriptor
<1>4. \/ /\ HasFrame' /\ taken' = taken /\ rxpc' = "give"
      \/ /\ ~HasFrame' /\ taken' = NextSeq(taken) /\ Scanned = 1
  <2>1. \/ ~(i + 1 >= SegCount) /\ UNCHANGED <<SegCount, rxpc, taken>>
        \/ i + 1 >= SegCount /\ rxpc' = "resume" /\ taken' = NextSeq(taken)
    BY Zenon DEF RxGive, VisitedAll
  <2>2. Scanned = SegCount - i /\ i \in Nat /\ SegCount \in Nat
    BY <1>2 DEF Scanned, TypeOK
  <2>3. QED
    BY <1>1, <1>2, <2>1, <2>2 DEF HasFrame
<1>5. Fresh' = Fresh
  BY <1>2, <1>4 DEF Fresh
<1>6. \A d \in RxRing : Prev(d) \in RxRing /\ Follow(Prev(d))' = Follow(Prev(d))
  <2>1. \A d \in RxRing : Prev(d) \in RxRing
    BY RingWalk
  <2>2. \A d \in RxRing : Follow(d)' = Follow(d)
    BY <1>3 DEF Follow
  <2>3. QED
    BY <2>1, <2>2 DEF Follow, Prev
<1>7. \A d \in RxRing :
        /\ Dist(Base, d) \in 0 .. ETH_RXBUFNB - 1
        /\ d = Base <=> Dist(Base, d) = 0
        /\ Dist(Base', d) = IF d = Base THEN ETH_RXBUFNB - 1 ELSE Dist(Base, d) - 1
  BY <1>1, RingOne, RingDist
<1>8. ASSUME NEW d \in RxRing, Dist(Base', d) < k - 1
      PROVE  Dist(Base', d) = Dist(Base, d) - 1 /\ Dist(Base, d) \in Nat
  BY <1>7, <1>8, SizesAssumption
<1>9. \A d \in RxRing : Dist(Base', d) < Scanned' =>
        /\ rxd'[d].seq = taken'
        /\ rxpc' # "give" => (rxd'[d].fs <=> d = Base')
        /\ HasFrame' => (rxd'[d].ls <=> Dist(Base', d) = Scanned' - 1)
  <2> SUFFICES ASSUME NEW d \in RxRing, Dist(Base', d) < Scanned'
               PROVE  /\ rxd'[d].seq = taken'
                      /\ rxpc' # "give" => (rxd'[d].fs <=> d = Base')
                      /\ HasFrame' => (rxd'[d].ls <=> Dist(Base', d) = Scanned' - 1)
    OBVIOUS
  <2>1. Dist(Base', d) = Dist(Base, d) - 1 /\ Dist(Base, d) \in Nat
    BY <1>1, <1>2, <1>7, <1>8, SizesAssumption
  <2>2. Scanned # 1
    BY <1>1, <1>7, <2>1, SizesAssumption
  <2>3. Dist(Base, d) < Scanned
    BY <1>1, <1>2, <2>1
  <2>4. rxd[d].seq = taken /\ (rxd[d].ls <=> Dist(Base, d) = Scanned - 1)
    BY <1>2, <2>3 DEF SeqArc
  <2>5. QED
    BY <1>1, <1>2, <1>3, <1>4, <2>1, <2>2, <2>4
<1>10. \A d \in RxRing :
         Scanned' <= Dist(Base', d) /\ Dist(Base', d) < k - 1 =>
           rxd'[d].seq = IF Dist(Base', d) = Scanned' THEN Fresh' ELSE Follow(Prev(d))'
  <2> SUFFICES ASSUME NEW d \in RxRing, Scanned' <= Dist(Base', d), Dist(Base', d) < k - 1
               PROVE  rxd'[d].seq =
                        IF Dist(Base', d) = Scanned' THEN Fresh' ELSE Follow(Prev(d))'
    OBVIOUS
  <2>1. Dist(Base', d) = Dist(Base, d) - 1 /\ Dist(Base, d) \in Nat
    BY <1>8
  <2>2. rxd[d].seq = IF Dist(Base, d) = Scanned THEN Fresh ELSE Follow(Prev(d))
    BY <1>1, <1>2, <2>1 DEF SeqArc
  <2>3. QED
    BY <1>1, <1>2, <1>3, <1>5, <1>6, <2>1, <2>2
<1>11. rxDmaSeq' = IF k - 1 = Scanned' THEN Fresh' ELSE Follow(Prev(rxDmaDesc))'
  <2>1. rxDmaSeq = IF k = Scanned THEN Fresh ELSE Follow(Prev(rxDmaDesc))
    BY DEF SeqArc
  <2>2. Follow(Prev(rxDmaDesc))' = Follow(Prev(rxDmaDesc))
    BY <1>2, <1>6 DEF TypeOK, Follow, Prev
  <2>3. QED
    BY <1>1, <1>2, <1>5, <2>1, <2>2
<1>12. SeqArc(k - 1)'
  BY <1>9, <1>10, <1>11, Zenon DEF SeqArc
<1>13. QED
  BY <1>1, <1>12 DEF SeqInv

\* SeqInv is inductive.
LEMMA SeqInvStep == TypeOK /\ RingInv /\ SeqInv /\ [Next]_vars => SeqInv'
<1> SUFFICES ASSUME TypeOK, RingInv, SeqInv, [Next]_vars PROVE SeqInv'
  OBVIOUS
<1>1. PICK k \in 0 .. ETH_RXBUFNB : ArcInv(k) /\ SeqArc(k)
  BY DEF SeqInv
<1>2. ASSUME UNCHANGED <<rxd, rxDmaDesc, rxDmaSeg, rxDmaSeq, RxDesc, FSRxDesc, SegCount,
                         dmarxdesc, i, taken>>,
             rxpc' = rxpc \/ (~HasFrame /\ ~HasFrame')
      PROVE  SeqInv'
  BY <1>1, <1>2, SeqFrame
<1>3. CASE DmaRxFetch \/ DmaTxFetch \/ DmaTxSend \/ DmaTxUnderflow
  BY <1>2, <1>3 DEF DmaRxFetch, DmaTxFetch, DmaTxSend, DmaTxUnderflow, rxVars
<1>4. CASE Isr
  BY <1>2, <1>4 DEF Isr, IrqRxCplt, IrqClear, rxVars, dmaVars
<1>5. CASE RxWait \/ RxRefSem \/ RxLock \/ RxScanEnd \/ RxResume \/ RxInput
  BY <1>2, <1>5 DEF RxWait, RxRefSem, RxLock, RxScanEnd, RxResume, RxInput, HasFrame, dmaVars
<1>6. CASE Tcpip \/ AppRecv
  BY <1>2, <1>6 DEF Tcpip, TcpipFetch, TcpipInput, TxCheck, TxLock, TxOwn, TxResume,
                    TxUnderflow, AppRecv, rxVars, dmaVars
<1>7. CASE UNCHANGED vars
  BY <1>2, <1>7 DEF vars, rxVars, dmaVars
<1>8. CASE DmaRxLast \/ DmaRxMore
  BY <1>1, <1>8, SeqWrite
<1>9. CASE RxScanDesc
  BY <1>1, <1>9, SeqScan
<1>10. CASE RxGive
  BY <1>1, <1>10, SeqGive
<1>11. CASE RxAlloc \/ RxCopy
  <2>1. ArcInv(k)' /\ Base' = Base /\ Scanned' = Scanned
    BY <1>1, <1>11, ArcTake
  <2>2. /\ UNCHANGED <<rxd, rxDmaDesc, rxDmaSeq, taken>> /\ HasFrame /\ HasFrame'
        /\ rxpc # "give"
    BY <1>11 DEF RxAlloc, RxCopy, dmaVars, HasFrame
  <2>3. SeqArc(k)'
    BY <1>1, <2>1, <2>2, SeqSame
  <2>4. QED
    BY <2>1, <2>3 DEF SeqInv
<1>12. QED
  BY <1>3, <1>4, <1>5, <1>6, <1>7, <1>8, <1>9, <1>10, <1>11 DEF Next, Dma, RxTask

\* SeqInv holds initially: frame 0 is the first received and the first taken.
LEMMA SeqInvInit == Init => SeqInv
<1> SUFFICES ASSUME Init PROVE SeqInv
  OBVIOUS
<1>1. PICK k \in 0 .. ETH_RXBUFNB : ArcInv(k)
  BY RingInvInit DEF RingInv
<1>2. 0 \in RxRing /\ Base = 0 /\ Scanned = 0 /\ ~HasFrame /\ Fresh = 0
  BY SizesAssumption DEF Init, Base, Scanned, HasFrame, Fresh, RxRing
<1>3. \A d \in RxRing : Dist(0, d) \in 0 .. ETH_RXBUFNB - 1 /\ Dist(0, 0) = 0
  BY <1>2, RingWalk
<1>4. k = 0
  <2>1. rxd[0].own = "dma"
    BY <1>2 DEF Init
  <2>2. ~(Dist(0, 0) < k)
    BY <1>1, <1>2, <2>1 DEF ArcInv, OwnsArc
  <2>3. QED
    BY <1>2, <1>3, <2>2
<1>5. SeqArc(k)
  BY <1>2, <1>3, <1>4 DEF SeqArc, Init
<1>6. QED
  BY <1>1, <1>5 DEF SeqInv

\* While the task copies, the descriptor it is at is the next one of the frame.
LEMMA CopiedNext ==
  ASSUME TypeOK, RingInv, SeqInv, CopyInv, rxpc = "copy"
  PROVE  /\ rxd[dmarxdesc].fs <=> Len(p) = 0
         /\ rxd[dmarxdesc].ls <=> Len(p) + 1 = SegCount
         /\ rxd[dmarxdesc].seq = taken
<1>1. PICK k \in 0 .. ETH_RXBUFNB : ArcInv(k) /\ SeqArc(k)
  BY DEF SeqInv
<1>2. /\ SegCount > 0 /\ HasFrame /\ Base = FSRxDesc /\ Scanned = SegCount
      /\ SegCount \in Nat /\ FSRxDesc \in RxRing /\ dmarxdesc \in RxRing
  BY DEF RingInv, TypeOK, HasFrame, Base, Scanned
<1>3. Len(p) \in Nat /\ Len(p) < SegCount /\ dmarxdesc = Plus(FSRxDesc, Len(p))
  BY DEF TypeOK, CopyInv
<1>4. Len(p) \in 0 .. ETH_RXBUFNB - 1
  BY <1>1, <1>2, <1>3, SizesAssumption DEF ArcInv
<1>5. Dist(Base, dmarxdesc) = Len(p)
  BY <1>2, <1>3, <1>4, RingWalk
<1>6. dmarxdesc = Base <=> Len(p) = 0
  BY <1>2, <1>5, RingOne
<1>7. QED
  BY <1>1, <1>2, <1>3, <1>5, <1>6 DEF SeqArc

\* CopyInv is inductive: the DMA writes to no descriptor of the frame that is
\* copied.
LEMMA CopyInvStep ==
  TypeOK /\ RingInv /\ SeqInv /\ CopyInv /\ [Next]_vars => CopyInv'
<1> SUFFICES ASSUME TypeOK, RingInv, SeqInv, CopyInv, [Next]_vars PROVE CopyInv'
  OBVIOUS
<1>1. ASSUME UNCHANGED <<p, taken, SegCount, FSRxDesc, dmarxdesc, rxpc>>
      PROVE  CopyInv'
  BY <1>1 DEF CopyInv, ChainOf
<1>2. ASSUME p' = <<>>, rxpc' \in {"wait", "ref", "lock", "scan", "alloc"}
      PROVE  CopyInv'
  BY <1>2 DEF CopyInv
<1>3. CASE Dma
  BY <1>1, <1>3 DEF Dma, DmaRxFetch, DmaRxLast, DmaRxMore, DmaTxFetch, DmaTxSend,
                    DmaTxUnderflow, rxVars
<1>4. CASE Isr \/ Tcpip \/ AppRecv
  BY <1>1, <1>4 DEF Isr, IrqRxCplt, IrqClear, Tcpip, TcpipFetch, TcpipInput, TxCheck,
                    TxLock, TxOwn, TxResume, TxUnderflow, AppRecv, rxVars
<1>5. CASE UNCHANGED vars
  BY <1>1, <1>5 DEF vars, rxVars
<1>6. CASE RxWait \/ RxRefSem \/ RxLock \/ RxScanDesc \/ RxScanEnd \/ RxInput
  <2>1. p' = <<>>
    BY <1>6 DEF RxWait, RxRefSem, RxLock, RxScanDesc, RxScanEnd, RxInput, CopyInv
  <2>2. rxpc' \in {"wait", "ref", "lock", "scan", "alloc"}
    BY <1>6 DEF RxWait, RxRefSem, RxLock, RxScanDesc, RxScanEnd, RxInput
  <2>3. QED
    BY <1>2, <2>1, <2>2
<1>7. CASE RxAlloc
  <2>1. p' = <<>> /\ rxpc' \in {"copy", "give"} /\ SegCount' = SegCount /\ SegCount > 0
    BY <1>7 DEF RxAlloc, CopyInv, RingInv, HasFrame
  <2>2. dmarxdesc' = FSRxDesc /\ FSRxDesc' = FSRxDesc /\ FSRxDesc \in RxRing
    BY <1>7 DEF RxAlloc, TypeOK
  <2>3. dmarxdesc' = Plus(FSRxDesc', Len(p')) /\ Len(p') = 0
    BY <2>1, <2>2, RingWalk
  <2>4. QED
    BY <2>1, <2>3 DEF CopyInv, ChainOf
<1>8. CASE RxCopy
  <2>1. /\ rxpc = "copy" /\ p' = Append(p, rxd[dmarxdesc])
        /\ UNCHANGED <<SegCount, FSRxDesc, taken>>
        /\ \/ Len(p) + 1 >= SegCount /\ rxpc' = "give"
           \/ /\ ~(Len(p) + 1 >= SegCount) /\ rxpc' = "copy"
              /\ dmarxdesc' = NextRx(dmarxdesc)
    BY <1>8 DEF RxCopy, VisitedAll
  <2>2. /\ rxd[dmarxdesc].fs <=> Len(p) = 0
        /\ rxd[dmarxdesc].ls <=> Len(p) + 1 = SegCount
        /\ rxd[dmarxdesc].seq = taken
    BY <2>1, CopiedNext
  <2>3. /\ p \in Seq(RxDescriptor) /\ rxd[dmarxdesc] \in RxDescriptor
        /\ Len(p) \in Nat /\ SegCount \in Nat
    BY DEF TypeOK
  <2>4. /\ Len(p') = Len(p) + 1
        /\ \A m \in 1 .. Len(p) : p'[m] = p[m]
        /\ p'[Len(p) + 1] = rxd[dmarxdesc]
    BY <2>1, <2>3
  <2>5. /\ Len(p) < SegCount
        /\ dmarxdesc = Plus(FSRxDesc, Len(p))
        /\ ChainOf(SegCount)
        /\ \A m \in 1 .. Len(p) : p[m].seq = taken
    BY <2>1 DEF CopyInv
  <2>6. \A m \in 1 .. Len(p') :
          (p'[m].fs <=> m = 1) /\ (p'[m].ls <=> m = SegCount) /\ p'[m].seq = taken
    BY <2>2, <2>3, <2>4, <2>5 DEF ChainOf
  <2>7. CASE Len(p) + 1 >= SegCount
    <3>1. rxpc' = "give" /\ Len(p') = SegCount
      BY <2>1, <2>3, <2>4, <2>5, <2>7
    <3>2. QED
      BY <2>1, <2>6, <3>1 DEF CopyInv, ChainOf
  <2>8. CASE ~(Len(p) + 1 >= SegCount)
    <3>1. rxpc' = "copy" /\ Len(p') < SegCount
      BY <2>1, <2>3, <2>4, <2>8
    <3>2. dmarxdesc' = Plus(FSRxDesc, Len(p'))
      <4>1. PICK k \in 0 .. ETH_RXBUFNB : ArcInv(k)
        BY DEF RingInv
      <4>2. SegCount <= k /\ FSRxDesc \in RxRing
        BY <2>1, <4>1 DEF ArcInv, Scanned, TypeOK
      <4>3. Len(p) \in 0 .. ETH_RXBUFNB - 1
        BY <2>3, <2>5, <4>2, SizesAssumption
      <4>4. NextRx(Plus(FSRxDesc, Len(p))) = Plus(FSRxDesc, Len(p) + 1)
        <5>1. FSRxDesc \in RxRing
          BY <4>2
        <5>2. \A n \in 0 .. ETH_RXBUFNB - 1 : NextRx(Plus(FSRxDesc, n)) = Plus(FSRxDesc, n + 1)
          BY <5>1, RingWalk
        <5>3. QED
          BY <4>3, <5>2
      <4>5. QED
        BY <2>1, <2>4, <2>5, <2>8, <4>4
    <3>3. QED
      BY <2>1, <2>6, <3>1, <3>2 DEF CopyInv, ChainOf
  <2>9. QED
    BY <2>7, <2>8
<1>9. CASE RxGive
  <2>1. /\ rxpc = "give" /\ p' = p
        /\ \/ rxpc' = "give" /\ taken' = taken
           \/ rxpc' = "resume" /\ taken' = NextSeq(taken)
    BY <1>9, Zenon DEF RxGive
  <2>2. ChainOf(Len(p)) /\ \A m \in 1 .. Len(p) : p[m].seq = taken
    BY <2>1 DEF CopyInv
  <2>3. QED
    BY <2>1, <2>2 DEF CopyInv, ChainOf
<1>10. CASE RxResume
  <2>1. /\ rxpc = "resume" /\ p' = p /\ taken' = taken
        /\ rxpc' = IF p = <<>> THEN "wait" ELSE "input"
    BY <1>10 DEF RxResume
  <2>2. QED
    BY <2>1 DEF CopyInv, ChainOf
<1>11. QED
  BY <1>3, <1>4, <1>5, <1>6, <1>7, <1>8, <1>9, <1>10 DEF Next, RxTask

\* low_level_input hands whole frames to netif->input, each the next one after
\* the frame taken before it, for every size of the ring and every number of
\* buffers per frame: the DMA overwrites nothing that is still to be copied,
\* and the scan finds the bounds of a frame whatever it was interrupted by.
THEOREM FrameIntactHolds == Spec => []FrameIntact
<1>1. Init => CopyInv
  BY DEF Init, CopyInv
<1>2. TypeOK /\ CopyInv => FrameIntact
  <2> SUFFICES ASSUME TypeOK, CopyInv, rxpc = "input", NEW n \in 1 .. Len(p)
               PROVE  /\ p[n].fs = (n = 1)
                      /\ p[n].ls = (n = Len(p))
                      /\ NextSeq(p[n].seq) = taken
    BY DEF FrameIntact
  <2>1. p[n].fs \in BOOLEAN /\ p[n].ls \in BOOLEAN
    <3>1. p[n] \in RxDescriptor
      BY DEF TypeOK
    <3>2. QED
      BY <3>1, Zenon DEF RxDescriptor
  <2>2. /\ p[n].fs <=> n = 1
        /\ p[n].ls <=> n = Len(p)
        /\ NextSeq(p[n].seq) = taken
    BY DEF CopyInv, ChainOf
  <2>3. QED
    BY <2>1, <2>2
<1>3. QED
  BY <1>1, <1>2, TypeCorrect, RingInvInit, RingInvStep, SeqInvInit, SeqInvStep, CopyInvStep,
     PTL DEF Spec

-----------------------------------------------------------------------------
(* Buffers of the pool. *)

\* A non-empty set of numbers has a least element.
LEMMA LeastNat ==
  ASSUME NEW T \in SUBSET Nat, T # {}
  PROVE  \E x \in T : \A y \in T : x <= y
<1>1. \E x \in T : \A y \in T : ~(<<y, x>> \in OpToRel(<, Nat))
  BY NatLessThanWellFounded, WFMin, Zenon
<1>2. \A x, y \in Nat : y < x => <<y, x>> \in OpToRel(<, Nat)
  BY Zenon DEF OpToRel
<1>3. \E x \in T : \A y \in T : ~(y < x)
  <2>1. PICK x \in T : \A y \in T : ~(<<y, x>> \in OpToRel(<, Nat))
    BY <1>1, Zenon
  <2>2. x \in Nat /\ \A y \in T : y \in Nat
    OBVIOUS
  <2>3. \A y \in T : ~(y < x)
    BY <1>2, <2>1, <2>2, Zenon
  <2>4. QED
    BY <2>3
<1>4. QED
  BY <1>3

\* Induction up to n: a set that has 0, and with each number below n the next
\* one, has all of them.
LEMMA Climb ==
  ASSUME NEW n \in Nat, NEW T, 0 \in T, \A k \in 0 .. n - 1 : k \in T => k + 1 \in T
  PROVE  \A k \in 0 .. n : k \in T
<1> DEFINE U == {k \in 0 .. n : k \notin T}
<1> SUFFICES ASSUME U # {} PROVE FALSE
  OBVIOUS
<1>1. U \in SUBSET Nat
  OBVIOUS
<1>2. PICK x \in U : \A y \in U : x <= y
  BY <1>1, LeastNat, Zenon
<1>3. x \in 0 .. n /\ x \notin T /\ x # 0
  BY <1>2
<1>4. x - 1 \in 0 .. n - 1 /\ x - 1 \notin U
  BY <1>2, <1>3
<1>5. x - 1 \in T
  BY <1>3, <1>4
<1> QED BY <1>3, <1>4, <1>5


\* The recursion by which PbufsTo is defined has a solution.
LEMMA PbufsExist ==
  ASSUME NEW m \in Seq(Nat)
  PROVE  \E f \in [0 .. Len(m) -> Nat] :
           f = [n \in 0 .. Len(m) |-> IF n = 0 THEN 0 ELSE f[n - 1] + m[n]]
<1> DEFINE G(f, k) == \A n \in 0 .. k : f[n] = IF n = 0 THEN 0 ELSE f[n - 1] + m[n]
           T == {k \in 0 .. Len(m) : \E f \in [0 .. k -> Nat] : G(f, k)}
<1>0. Len(m) \in Nat
  OBVIOUS
<1>1. 0 \in T
  <2> DEFINE z == [n \in 0 .. 0 |-> 0]
  <2>1. z \in [0 .. 0 -> Nat] /\ G(z, 0)
    OBVIOUS
  <2>2. 0 \in 0 .. Len(m)
    BY <1>0
  <2> HIDE DEF z, G
  <2> QED BY <2>1, <2>2
<1>2. ASSUME NEW k \in 0 .. Len(m) - 1, k \in T PROVE k + 1 \in T
  <2>1. PICK f \in [0 .. k -> Nat] : G(f, k)
    BY <1>2
  <2> DEFINE g == [n \in 0 .. k + 1 |-> IF n = k + 1 THEN f[k] + m[k + 1] ELSE f[n]]
  <2>2. m[k + 1] \in Nat /\ f[k] \in Nat
    BY <1>0
  <2>3. g \in [0 .. k + 1 -> Nat]
    BY <2>2
  <2>4. G(g, k + 1)
    <3> SUFFICES ASSUME NEW n \in 0 .. k + 1
                 PROVE  g[n] = IF n = 0 THEN 0 ELSE g[n - 1] + m[n]
      OBVIOUS
    <3>1. CASE n = k + 1
      BY <3>1
    <3>2. CASE n # k + 1
      <4>1. n \in 0 .. k /\ f[n] = IF n = 0 THEN 0 ELSE f[n - 1] + m[n]
        BY <2>1, <3>2
      <4>2. g[n] = f[n] /\ (n # 0 => g[n - 1] = f[n - 1])
        BY <4>1
      <4> QED BY <4>1, <4>2
    <3> QED BY <3>1, <3>2
  <2> HIDE DEF g, G
  <2>5. k + 1 \in 0 .. Len(m)
    BY <1>0
  <2> QED BY <2>3, <2>4, <2>5
<1>3. Len(m) \in T
  <2> HIDE DEF T
  <2>1. \A k \in 0 .. Len(m) : k \in T
    BY <1>0, <1>1, <1>2, Climb
  <2> QED BY <1>0, <2>1
<1>4. PICK f \in [0 .. Len(m) -> Nat] : G(f, Len(m))
  BY <1>3
<1>5. f = [n \in 0 .. Len(m) |-> IF n = 0 THEN 0 ELSE f[n - 1] + m[n]]
  BY <1>4
<1> QED BY <1>5

\* PbufsTo follows its recursion.
LEMMA PbufsAre ==
  ASSUME NEW m \in Seq(Nat)
  PROVE  /\ PbufsTo(m)[0] = 0
         /\ \A n \in 1 .. Len(m) : PbufsTo(m)[n] = PbufsTo(m)[n - 1] + m[n]
<1> DEFINE E(f) == f = [n \in 0 .. Len(m) |-> IF n = 0 THEN 0 ELSE f[n - 1] + m[n]]
           s == PbufsTo(m)
<1>1. \E f : E(f)
  BY PbufsExist
<1>2. s = CHOOSE f : E(f)
  BY DEF PbufsTo
<1>3. E(s)
  <2> HIDE DEF E, s
  <2> QED BY <1>1, <1>2
<1> HIDE DEF s
<1>4. s[0] = 0 /\ \A n \in 1 .. Len(m) : s[n] = s[n - 1] + m[n]
  <2>1. Len(m) \in Nat
    OBVIOUS
  <2>2. s = [n \in 0 .. Len(m) |-> IF n = 0 THEN 0 ELSE s[n - 1] + m[n]]
    BY <1>3
  <2>3. \A n \in 0 .. Len(m) : s[n] = IF n = 0 THEN 0 ELSE s[n - 1] + m[n]
    BY <2>2
  <2> QED BY <2>1, <2>3
<1> QED BY <1>4 DEF s

\* A number of pbufs is a natural number.
LEMMA PbufsTyped ==
  ASSUME NEW m \in Seq(Nat)
  PROVE  \A k \in 0 .. Len(m) : PbufsTo(m)[k] \in Nat
<1> DEFINE s == PbufsTo(m)
           T == {k \in 0 .. Len(m) : s[k] \in Nat}
<1>0. Len(m) \in Nat
  OBVIOUS
<1>1. s[0] = 0 /\ \A n \in 1 .. Len(m) : s[n] = s[n - 1] + m[n]
  BY PbufsAre
<1> HIDE DEF s
<1>2. 0 \in T
  BY <1>0, <1>1
<1>3. ASSUME NEW k \in 0 .. Len(m) - 1, k \in T PROVE k + 1 \in T
  <2>1. k + 1 \in 1 .. Len(m) /\ (k + 1) - 1 = k /\ m[k + 1] \in Nat /\ s[k] \in Nat
    BY <1>0, <1>3
  <2>2. s[k + 1] = s[k] + m[k + 1]
    BY <1>1, <2>1
  <2> QED BY <2>1, <2>2
<1>4. \A k \in 0 .. Len(m) : k \in T
  <2> HIDE DEF T
  <2> QED BY <1>0, <1>2, <1>3, Climb
<1> QED BY <1>4 DEF s

\* Posting a chain adds its pbufs to the mailbox.
LEMMA PbufsAppend ==
  ASSUME NEW m \in Seq(Nat), NEW x \in Nat
  PROVE  PbufsIn(Append(m, x)) = PbufsIn(m) + x
<1> DEFINE e == Append(m, x)
           s == PbufsTo(m)
           t == PbufsTo(e)
           T == {k \in 0 .. Len(m) : t[k] = s[k]}
<1>0. /\ Len(m) \in Nat /\ e \in Seq(Nat) /\ Len(e) = Len(m) + 1
      /\ e[Len(m) + 1] = x /\ \A n \in 1 .. Len(m) : e[n] = m[n]
  OBVIOUS
<1>1. s[0] = 0 /\ \A n \in 1 .. Len(m) : s[n] = s[n - 1] + m[n]
  BY PbufsAre
<1> HIDE DEF e
<1>2. t[0] = 0 /\ \A n \in 1 .. Len(m) + 1 : t[n] = t[n - 1] + e[n]
  BY <1>0, PbufsAre
<1> HIDE DEF s, t
<1>3. 0 \in T
  BY <1>0, <1>1, <1>2
<1>4. ASSUME NEW k \in 0 .. Len(m) - 1, k \in T PROVE k + 1 \in T
  <2>1. k + 1 \in 1 .. Len(m) /\ (k + 1) - 1 = k
    BY <1>0
  <2>2. s[k + 1] = s[k] + m[k + 1] /\ t[k + 1] = t[k] + e[k + 1]
    BY <1>0, <1>1, <1>2, <2>1
  <2> QED BY <1>0, <1>4, <2>1, <2>2
<1>5. \A k \in 0 .. Len(m) : k \in T
  <2> HIDE DEF T
  <2> QED BY <1>0, <1>3, <1>4, Climb
<1>6. t[Len(m)] = s[Len(m)]
  BY <1>0, <1>5
<1>7. t[Len(m) + 1] = t[Len(m)] + x
  BY <1>0, <1>2
<1> QED BY <1>0, <1>6, <1>7 DEF PbufsIn, s, t, e

\* Fetching a chain takes its pbufs from the mailbox.
LEMMA PbufsTail ==
  ASSUME NEW m \in Seq(Nat), m # <<>>
  PROVE  PbufsIn(m) = Head(m) + PbufsIn(Tail(m))
<1> DEFINE e == Tail(m)
           s == PbufsTo(m)
           t == PbufsTo(e)
           T == {k \in 0 .. Len(e) : s[k + 1] = m[1] + t[k]}
<1>0. /\ Len(m) \in Nat /\ Len(m) >= 1 /\ e \in Seq(Nat)
      /\ Len(e) \in Nat /\ Len(e) = Len(m) - 1
      /\ Head(m) = m[1] /\ m[1] \in Nat /\ \A n \in 1 .. Len(e) : e[n] = m[n + 1]
  OBVIOUS
<1>1. s[0] = 0 /\ \A n \in 1 .. Len(m) : s[n] = s[n - 1] + m[n]
  BY PbufsAre
<1> HIDE DEF e
<1>2. t[0] = 0 /\ \A n \in 1 .. Len(e) : t[n] = t[n - 1] + e[n]
  BY <1>0, PbufsAre
<1>7. \A k \in 0 .. Len(e) : t[k] \in Nat
  BY <1>0, PbufsTyped
<1>8. \A n \in 1 .. Len(m) : m[n] \in Nat
  BY <1>0
<1> HIDE DEF s, t
<1>3. 0 \in T
  BY <1>0, <1>1, <1>2
<1>4. ASSUME NEW k \in 0 .. Len(e) - 1, k \in T PROVE k + 1 \in T
  <2>1. k + 1 \in 1 .. Len(e) /\ (k + 1) - 1 = k /\ k + 2 \in 1 .. Len(m) /\ (k + 2) - 1 = k + 1
        /\ (k + 1) + 1 = k + 2
    BY <1>0
  <2>2. s[k + 2] = s[k + 1] + m[k + 2] /\ t[k + 1] = t[k] + m[k + 2]
    BY <1>0, <1>1, <1>2, <2>1
  <2>3. t[k] \in Nat /\ m[k + 2] \in Nat /\ m[1] \in Nat
    BY <1>0, <1>7, <1>8, <2>1
  <2>4. s[k + 2] = m[1] + t[k + 1]
    BY <1>4, <2>2, <2>3
  <2> QED BY <1>0, <2>1, <2>4
<1>5. \A k \in 0 .. Len(e) : k \in T
  <2> HIDE DEF T
  <2> QED BY <1>0, <1>3, <1>4, Climb
<1>6. s[Len(e) + 1] = m[1] + t[Len(e)]
  BY <1>0, <1>5
<1> QED BY <1>0, <1>6 DEF PbufsIn, s, t, e

\* No step loses a pbuf or frees one twice.
LEMMA ConservedStep ==
  TypeOK /\ CopyInv /\ PbufsConserved /\ [Next]_vars => PbufsConserved'
<1> SUFFICES ASSUME TypeOK, CopyInv, PbufsConserved, [Next]_vars PROVE PbufsConserved'
  OBVIOUS
<1> DEFINE n == PbufsIn(mbox)
<1>0. /\ pbufs \in Nat /\ mbox \in Seq(Nat) /\ cur \in Nat /\ held \in Nat
      /\ SegCount \in Nat /\ p \in Seq(RxDescriptor) /\ Len(p) \in Nat
      /\ PBUF_POOL_SIZE \in Nat
  BY SizesAssumption DEF TypeOK
<1>1. n \in Nat
  <2>1. Len(mbox) \in 0 .. Len(mbox)
    BY <1>0
  <2> QED BY <1>0, <2>1, PbufsTyped DEF PbufsIn
<1>2. pbufs + InHand + n + cur + held = PBUF_POOL_SIZE
  BY DEF PbufsConserved
<1> HIDE DEF n
<1>3. ASSUME UNCHANGED ipVars, InHand' = InHand PROVE PbufsConserved'
  <2>1. PbufsIn(mbox)' = n
    BY <1>3 DEF ipVars, n, PbufsIn, PbufsTo
  <2> QED BY <1>2, <1>3, <2>1 DEF PbufsConserved, ipVars
<1>4. ASSUME UNCHANGED <<rxpc, p, SegCount>> PROVE InHand' = InHand
  BY <1>4 DEF InHand
<1>5. CASE Dma
  BY <1>3, <1>4, <1>5 DEF Dma, DmaRxFetch, DmaRxLast, DmaRxMore, DmaTxFetch, DmaTxSend,
                          DmaTxUnderflow, rxVars
<1>6. CASE Isr \/ TxCheck \/ TxLock \/ TxOwn \/ TxResume \/ TxUnderflow
  BY <1>3, <1>4, <1>6 DEF Isr, IrqRxCplt, IrqClear, TxCheck, TxLock, TxOwn, TxResume,
                          TxUnderflow, rxVars
<1>7. CASE UNCHANGED vars
  BY <1>3, <1>4, <1>7 DEF vars, rxVars
<1>8. CASE RxWait \/ RxRefSem \/ RxLock \/ RxScanDesc \/ RxScanEnd \/ RxGive \/ RxResume
  <2>1. rxpc # "copy" /\ rxpc' # "copy" /\ p' = p /\ UNCHANGED ipVars
    BY <1>8, Zenon DEF RxWait, RxRefSem, RxLock, RxScanDesc, RxScanEnd, RxGive, RxResume
  <2> QED BY <1>3, <2>1 DEF InHand
<1>9. CASE RxAlloc
  <2>1. p = <<>> /\ InHand = 0 /\ p' = p /\ SegCount' = SegCount /\ UNCHANGED <<mbox, cur, held>>
    BY <1>9 DEF RxAlloc, CopyInv, InHand
  <2>2. PbufsIn(mbox)' = n
    BY <2>1 DEF n, PbufsIn, PbufsTo
  <2>3. CASE pbufs >= SegCount /\ pbufs' = pbufs - SegCount /\ rxpc' = "copy"
    <3>1. InHand' = SegCount
      BY <2>1, <2>3 DEF InHand
    <3> QED BY <1>0, <1>1, <1>2, <2>1, <2>2, <2>3, <3>1 DEF PbufsConserved
  <2>4. CASE rxpc' = "give" /\ pbufs' = pbufs
    <3>1. InHand' = 0
      BY <2>1, <2>4 DEF InHand
    <3> QED BY <1>2, <2>1, <2>2, <2>4, <3>1 DEF PbufsConserved
  <2> QED BY <1>9, <2>3, <2>4 DEF RxAlloc
<1>10. CASE RxCopy
  <2>1. /\ rxpc = "copy" /\ SegCount' = SegCount /\ UNCHANGED ipVars
        /\ p' = Append(p, rxd[dmarxdesc])
        /\ rxpc' = IF Len(p) + 1 >= SegCount THEN "give" ELSE "copy"
    BY <1>10 DEF RxCopy, VisitedAll
  <2>2. Len(p) < SegCount /\ Len(p') = Len(p) + 1
    BY <1>0, <2>1 DEF CopyInv, TypeOK
  <2>3. InHand' = SegCount /\ InHand = SegCount
    BY <1>0, <2>1, <2>2 DEF InHand
  <2> QED BY <1>3, <2>1, <2>3
<1>11. CASE RxInput
  <2>1. /\ InHand = Len(p) /\ InHand' = 0 /\ UNCHANGED <<cur, held>>
    BY <1>11 DEF RxInput, InHand
  <2>2. CASE mbox' = Append(mbox, Len(p)) /\ pbufs' = pbufs
    <3>1. PbufsIn(Append(mbox, Len(p))) = n + Len(p)
      BY <1>0, PbufsAppend DEF n
    <3>2. PbufsIn(mbox)' = n + Len(p)
      BY <2>2, <3>1, ZenonT(40) DEF PbufsIn, PbufsTo
    <3> QED BY <1>0, <1>1, <1>2, <2>1, <2>2, <3>2 DEF PbufsConserved
  <2>3. CASE mbox' = mbox /\ pbufs' = pbufs + Len(p)
    <3>1. PbufsIn(mbox)' = n
      BY <2>3 DEF n, PbufsIn, PbufsTo
    <3> QED BY <1>0, <1>1, <1>2, <2>1, <2>3, <3>1 DEF PbufsConserved
  <2> QED BY <1>11, <2>2, <2>3 DEF RxInput, PbufFree
<1>12. CASE TcpipFetch
  <2>1. /\ cur = 0 /\ mbox # <<>> /\ cur' = Head(mbox) /\ mbox' = Tail(mbox)
        /\ UNCHANGED <<rxpc, p, SegCount, pbufs, held>>
    BY <1>12 DEF TcpipFetch, rxVars
  <2>2. InHand' = InHand /\ InHand \in Nat
    BY <1>0, <1>4, <2>1 DEF InHand
  <2>3. n = Head(mbox) + PbufsIn(mbox)'
    BY <1>0, <2>1, PbufsTail DEF n, PbufsIn, PbufsTo
  <2>4. PbufsIn(mbox)' \in Nat /\ Head(mbox) \in Nat
    <3>1. Tail(mbox) \in Seq(Nat) /\ Head(mbox) \in Nat
      BY <1>0, <2>1
    <3>2. Len(Tail(mbox)) \in 0 .. Len(Tail(mbox))
      BY <3>1
    <3>3. PbufsTo(Tail(mbox))[Len(Tail(mbox))] \in Nat
      BY <3>1, <3>2, PbufsTyped
    <3> QED BY <2>1, <3>1, <3>3, ZenonT(40) DEF PbufsIn, PbufsTo
  <2> QED BY <1>0, <1>1, <1>2, <2>1, <2>2, <2>3, <2>4 DEF PbufsConserved
<1>13. CASE TcpipInput \/ AppRecv
  <2>1. UNCHANGED <<rxpc, p, SegCount, mbox>>
    BY <1>13 DEF TcpipInput, AppRecv, rxVars
  <2>2. InHand' = InHand /\ InHand \in Nat /\ PbufsIn(mbox)' = n
    BY <1>0, <1>4, <2>1 DEF InHand, n, PbufsIn, PbufsTo
  <2>3. \/ pbufs' = pbufs + cur /\ cur' = 0 /\ held' = held
        \/ pbufs' = pbufs /\ cur' = 0 /\ held' = held + cur
        \/ pbufs' = pbufs + 1 /\ cur' = cur /\ held' = held - 1 /\ held > 0
    BY <1>13 DEF TcpipInput, AppRecv, PbufFree
  <2>4. pbufs' + InHand + n + cur' + held' = PBUF_POOL_SIZE
    <3>1. CASE pbufs' = pbufs + cur /\ cur' = 0 /\ held' = held
      BY <1>0, <1>1, <1>2, <2>2, <3>1
    <3>2. CASE pbufs' = pbufs /\ cur' = 0 /\ held' = held + cur
      BY <1>0, <1>1, <1>2, <2>2, <3>2
    <3>3. CASE pbufs' = pbufs + 1 /\ cur' = cur /\ held' = held - 1 /\ held > 0
      BY <1>0, <1>1, <1>2, <2>2, <3>3
    <3> QED BY <2>3, <3>1, <3>2, <3>3
  <2> QED BY <2>2, <2>4 DEF PbufsConserved
<1> QED BY <1>5, <1>6, <1>7, <1>8, <1>9, <1>10, <1>11, <1>12, <1>13 DEF Next, RxTask, Tcpip

\* Every buffer of the pbuf pool is free or has exactly one holder, for every
\* size of the pool, of the mailbox and of the rings.
THEOREM PbufsConservedHolds == Spec => []PbufsConserved
<1>1. Init => CopyInv
  BY DEF Init, CopyInv
<1>2. Init => PbufsConserved
  <2> SUFFICES ASSUME Init PROVE PbufsConserved
    OBVIOUS
  <2>1. mbox = <<>> /\ mbox \in Seq(Nat) /\ Len(mbox) = 0 /\ InHand = 0
    BY DEF Init, InHand
  <2>2. PbufsIn(mbox) = 0
    BY <2>1, PbufsAre DEF PbufsIn
  <2> QED BY <2>1, <2>2, SizesAssumption DEF Init, PbufsConserved
<1> QED BY <1>1, <1>2, TypeCorrect, RingInvInit, RingInvStep, SeqInvInit, SeqInvStep,
           CopyInvStep, ConservedStep, PTL DEF Spec

-----------------------------------------------------------------------------
(* Wake-ups. *)

\* If the descriptor the scan is at belongs to the DMA, no complete frame
\* waits in the ring.
LEMMA NothingScanned ==
  ASSUME TypeOK, RingInv, ~HasFrame, rxd[RxDesc].own = "dma"
  PROVE  \A s \in Seqs : ~Received(s)
<1>1. PICK k \in 0 .. ETH_RXBUFNB : ArcInv(k)
  BY DEF RingInv
<1>2. /\ Base \in RxRing /\ RxDesc \in RxRing
      /\ SegCount \in Nat /\ Scanned = SegCount
      /\ SegCount <= k /\ RxDesc = Plus(Base, SegCount)
      /\ ~(Dist(Base, RxDesc) < k)
      /\ \A d \in RxRing : rxd[d].own = "cpu" => Dist(Base, d) < k
      /\ \A d \in RxRing : Dist(Base, d) < SegCount => ~rxd[d].ls
  BY <1>1, ArcTypes DEF ArcInv, OwnsArc, TypeOK
<1>3. k = SegCount
  <2>1. SUFFICES ASSUME SegCount < k PROVE FALSE
    BY <1>2
  <2>2. SegCount \in 0 .. ETH_RXBUFNB - 1
    BY <1>2, <2>1, SizesAssumption
  <2>3. Dist(Base, Plus(Base, SegCount)) = SegCount
    BY <1>2, <2>2, RingWalk
  <2>4. QED
    BY <1>2, <2>1, <2>3
<1>4. QED
  BY <1>2, <1>3 DEF Received

\* WakeInv is inductive. The semaphore is signalled before R is cleared, the
\* task goes back to waiting only after it has found the next descriptor in
\* the hands of the DMA, or with a count left, or out of pbufs.
LEMMA WakeInvStep ==
  TypeOK /\ LockInv /\ RingInv /\ WakeInv /\ [Next]_vars => WakeInv'
<1> SUFFICES ASSUME TypeOK, LockInv, RingInv, WakeInv, [Next]_vars PROVE WakeInv'
  OBVIOUS
<1> DEFINE Some == \E s \in Seqs : Received(s)
<1>1. ASSUME Some' => Some \/ "R" \in DMASR',
             "R" \in DMASR => "R" \in DMASR',
             UNCHANGED <<semcnt, dry, rxpc, isr, p>>
      PROVE  WakeInv'
  BY <1>1 DEF WakeInv
<1>2. rxd' = rxd => (Some' <=> Some)
  BY DEF Received
<1>3. CASE DmaRxFetch \/ DmaTxFetch \/ DmaTxSend \/ DmaTxUnderflow
  BY <1>1, <1>2, <1>3 DEF DmaRxFetch, DmaTxFetch, DmaTxSend, DmaTxUnderflow, rxVars
<1>4. CASE DmaRxLast
  BY <1>1, <1>4 DEF DmaRxLast, rxVars
<1>5. CASE DmaRxMore
  <2>1. \A d \in RxRing : rxd'[d].ls => rxd'[d] = rxd[d]
    BY <1>5 DEF DmaRxMore, WriteBuffer, TypeOK
  <2>2. Some' => Some
    BY <2>1 DEF Received
  <2>3. QED
    BY <1>1, <1>5, <2>2 DEF DmaRxMore, rxVars
<1>6. CASE IrqRxCplt
  <2>1. semcnt' > 0
    BY <1>6, SizesAssumption DEF IrqRxCplt, TypeOK
  <2>2. QED
    BY <1>6, <2>1 DEF IrqRxCplt, WakeInv, rxVars
<1>7. CASE IrqClear
  BY <1>7 DEF IrqClear, WakeInv, rxVars
<1>8. CASE RxWait
  BY <1>8 DEF RxWait, RxMayRun, WakeInv
<1>9. CASE RxRefSem
  BY <1>9 DEF RxRefSem, RxMayRun, WakeInv, WaitOk, TypeOK
<1>10. CASE RxLock
  <2>1. ~Lock
    BY <1>10 DEF RxLock, RxMayRun, LockInv, RxBlocked
  <2>2. QED
    BY <1>10, <2>1 DEF RxLock, RxMayRun, WakeInv
<1>11. CASE RxScanDesc
  BY <1>11 DEF RxScanDesc, RxMayRun, WakeInv
<1>12. CASE RxScanEnd
  <2>1. ~Some
    BY <1>12, NothingScanned DEF RxScanEnd, HasFrame
  <2>2. ~Some'
    BY <1>2, <1>12, <2>1 DEF RxScanEnd
  <2>3. QED
    BY <1>12, <2>2 DEF RxScanEnd, RxMayRun, WakeInv
<1>13. CASE RxAlloc
  BY <1>13 DEF RxAlloc, RxMayRun, WakeInv
<1>14. CASE RxCopy
  <2>1. p' # <<>>
    <3>1. p \in Seq(RxDescriptor) /\ rxd[dmarxdesc] \in RxDescriptor
      BY DEF TypeOK
    <3>2. Len(Append(p, rxd[dmarxdesc])) = Len(p) + 1 /\ Len(p) \in Nat
      BY <3>1
    <3>3. QED
      BY <1>14, <3>2 DEF RxCopy
  <2>2. QED
    BY <1>14, <2>1 DEF RxCopy, RxMayRun, WakeInv
<1>15. CASE RxGive
  <2>1. /\ rxpc = "give" /\ rxpc' \in {"give", "resume"} /\ isr = "idle"
        /\ UNCHANGED <<isr, p, dry>>
    BY <1>15, Zenon DEF RxGive, RxMayRun
  <2>2. QED
    BY <2>1 DEF WakeInv
<1>16. CASE RxResume
  BY <1>16 DEF RxResume, RxMayRun, WakeInv
<1>17. CASE RxInput
  BY <1>17 DEF RxInput, RxMayRun, WakeInv
<1>18. CASE Tcpip \/ AppRecv
  BY <1>1, <1>2, <1>18 DEF Tcpip, TcpipFetch, TcpipInput, TxCheck, TxLock, TxOwn, TxResume,
                          TxUnderflow, ResumeTx, AppRecv, rxVars
<1>19. CASE UNCHANGED vars
  BY <1>1, <1>2, <1>19 DEF vars, rxVars
<1>20. QED
  BY <1>3, <1>4, <1>5, <1>6, <1>7, <1>8, <1>9, <1>10, <1>11, <1>12, <1>13, <1>14, <1>15,
     <1>16, <1>17, <1>18, <1>19 DEF Next, Dma, Isr, RxTask

\* No interleaving of the DMA, the handler and the task leaves a complete
\* frame in the ring with the task asleep and no interrupt pending, unless the
\* pbuf pool ran dry.
THEOREM NoLostWakeupHolds == Spec => []NoLostWakeup
<1>1. Init => LockInv /\ WakeInv
  BY DEF Init, LockInv, WakeInv
<1>2. WakeInv => NoLostWakeup
  BY DEF WakeInv, NoLostWakeup, LowMayRun, RxBlocked
<1>3. QED
  BY <1>1, <1>2, TypeCorrect, LockInvStep, RingInvInit, RingInvStep, WakeInvStep, PTL DEF Spec
=============================================================================
