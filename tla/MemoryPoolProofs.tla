-------------------------- MODULE MemoryPoolProofs --------------------------
(***************************************************************************)
(* Proofs about the memory pool, for any threads, priorities and number of *)
(* blocks. What get and release take from or add to the list is what they  *)
(* take from or add to the semaphore, but not at the same time: Accounting *)
(* says by how much the two differ in between.                             *)
(***************************************************************************)
EXTENDS MemoryPool, FiniteSetTheorems, TLAPS

Places == {"idle", "wait", "woken", "take", "link"}
TakersOf(p) == {t \in Threads : p[t] \in {"woken", "take"}}
LinkersOf(p) == {t \in Threads : p[t] = "link"}

PoolInv ==
  /\ TypeOK /\ WaitInv /\ PlaceInv /\ IsrInv
  /\ OneHolder /\ Accounting /\ FaultOnlyInWindow /\ SafeAmongEquals

----------------------------------------------------------------------------
(* Counting threads. *)

\* Sets of threads are finite.
LEMMA Finite ==
  ASSUME NEW S, S \subseteq Threads
  PROVE  IsFiniteSet(S) /\ Cardinality(S) \in Nat
  BY FS_Subset, FS_CardinalityType, PoolAssumption

\* One thread more, one thread less.
LEMMA OneMore ==
  ASSUME NEW S, S \subseteq Threads, NEW t \in Threads, t \notin S
  PROVE  Cardinality(S \cup {t}) = Cardinality(S) + 1
  BY Finite, FS_AddElement

LEMMA OneLess ==
  ASSUME NEW S, S \subseteq Threads, NEW t \in S
  PROVE  Cardinality(S \ {t}) = Cardinality(S) - 1
  BY Finite, FS_RemoveElement

\* The set of blocks of interrupt handlers is finite too.
LEMMA IsrFinite ==
  ASSUME NEW S, S \subseteq Blocks
  PROVE  IsFiniteSet(S) /\ Cardinality(S) \in Nat
<1>1. IsFiniteSet(1 .. NumBlocks)
  BY FS_Interval, PoolAssumption
<1> QED
  BY <1>1, FS_Subset, FS_CardinalityType DEF Blocks

\* The queue p waits in.
Queue(p, w) ==
  /\ \A j \in 1 .. Len(w) : p[w[j]] = "wait"
  /\ \A j, k \in 1 .. Len(w) : w[j] = w[k] => j = k

\* Signal raises the count or lets one thread through, and leaves the rest.
LEMMA SignalEffect ==
  ASSUME NEW p \in [Threads -> Places], sem \in Nat, waiters \in Seq(Threads),
         Queue(p, waiters), Signal(p)
  PROVE  /\ pc' \in [Threads -> Places]
         /\ sem' \in Nat /\ waiters' \in Seq(Threads)
         /\ Queue(pc', waiters')
         /\ LinkersOf(pc') = LinkersOf(p)
         /\ sem' + Cardinality(TakersOf(pc')) = sem + Cardinality(TakersOf(p)) + 1
<1>0. TakersOf(p) \subseteq Threads /\ Cardinality(TakersOf(p)) \in Nat
  BY Finite DEF TakersOf
<1>1. CASE waiters = <<>> /\ sem' = sem + 1 /\ pc' = p /\ UNCHANGED waiters
  BY <1>0, <1>1
<1>2. CASE /\ waiters # <<>>
           /\ pc' = [p EXCEPT ![Head(waiters)] = "woken"]
           /\ waiters' = Tail(waiters)
           /\ UNCHANGED sem
  <2> DEFINE h == Head(waiters)
  <2>1. h \in Threads /\ h = waiters[1] /\ 1 \in 1 .. Len(waiters)
    BY <1>2
  <2>2. p[h] = "wait"
    BY <2>1 DEF Queue
  <2>3. /\ waiters' \in Seq(Threads) /\ Len(waiters') = Len(waiters) - 1
        /\ \A j \in 1 .. Len(waiters') : waiters'[j] = waiters[j + 1] /\ j + 1 \in 1 .. Len(waiters)
    BY <1>2
  <2>4. pc' \in [Threads -> Places]
    BY <1>2, <2>1 DEF Places
  <2>5. \A j \in 1 .. Len(waiters') : waiters'[j] # h
    BY <2>1, <2>3 DEF Queue
  <2>6. \A j \in 1 .. Len(waiters') : waiters'[j] \in Threads /\ pc'[waiters'[j]] = "wait"
    BY <1>2, <2>1, <2>3, <2>5 DEF Queue
  <2>7. \A j, k \in 1 .. Len(waiters') : waiters'[j] = waiters'[k] => j = k
    BY <2>3 DEF Queue
  <2>8. LinkersOf(pc') = LinkersOf(p)
    BY <1>2, <2>1, <2>2 DEF LinkersOf
  <2>9. TakersOf(pc') = TakersOf(p) \cup {h} /\ h \notin TakersOf(p)
    BY <1>2, <2>1, <2>2 DEF TakersOf
  <2>10. Cardinality(TakersOf(pc')) = Cardinality(TakersOf(p)) + 1
    BY <1>0, <2>1, <2>9, OneMore
  <2>11. sem' + Cardinality(TakersOf(pc')) = sem + Cardinality(TakersOf(p)) + 1
    BY <1>0, <1>2, <2>10
  <2> HIDE DEF h
  <2>12. Queue(pc', waiters')
    BY <2>6, <2>7 DEF Queue
  <2>13. sem' \in Nat
    BY <1>2
  <2> QED
    BY <2>3, <2>4, <2>8, <2>11, <2>12, <2>13
<1> QED
  BY <1>1, <1>2 DEF Signal

\* What Take gives: a block that was in nobody's hands.
LEMMA TakeEffect ==
  ASSUME TypeOK, OneHolder, PlaceInv, NEW b \in Blocks, Take(b)
  PROVE  /\ allocated' \in 0 .. NumBlocks /\ free' \in Seq(Blocks)
         /\ allocated <= allocated' /\ b <= allocated'
         /\ (NumBlocks - allocated') + Len(free') = ((NumBlocks - allocated) + Len(free)) - 1
         /\ \A j \in 1 .. Len(free') : free'[j] # b /\ \E k \in 1 .. Len(free) : free'[j] = free[k]
         /\ \A j, k \in 1 .. Len(free') : free'[j] = free'[k] => j = k
         /\ \A t \in Threads : b \notin held[t] /\ block[t] # b
         /\ b \notin isr
<1>0. /\ allocated \in 0 .. NumBlocks /\ NumBlocks \in Nat /\ free \in Seq(Blocks)
      /\ Blocks = 1 .. NumBlocks
      /\ \A t \in Threads : block[t] \in Blocks \cup {NoBlock} /\ held[t] \subseteq Blocks
      /\ isr \subseteq Blocks /\ NoBlock \notin Blocks
  BY PoolAssumption DEF TypeOK, Blocks
<1>1. CASE allocated # NumBlocks /\ b = allocated + 1 /\ allocated' = b /\ UNCHANGED free
  <2>1. \A t \in Threads : b \notin held[t] /\ block[t] # b
    BY <1>0, <1>1 DEF OneHolder, PlaceInv
  <2>2. b \notin isr
    BY <1>0, <1>1 DEF PlaceInv
  <2>3. \A j \in 1 .. Len(free') : free'[j] # b /\ \E k \in 1 .. Len(free) : free'[j] = free[k]
    BY <1>0, <1>1 DEF PlaceInv
  <2>4. \A j, k \in 1 .. Len(free') : free'[j] = free'[k] => j = k
    BY <1>1 DEF OneHolder
  <2>5. /\ allocated' \in 0 .. NumBlocks /\ free' \in Seq(Blocks)
        /\ allocated <= allocated' /\ b <= allocated'
        /\ (NumBlocks - allocated') + Len(free') = ((NumBlocks - allocated) + Len(free)) - 1
    BY <1>0, <1>1
  <2> QED
    BY <2>1, <2>2, <2>3, <2>4, <2>5
<1>2. CASE allocated = NumBlocks /\ free # <<>> /\ b = Head(free) /\ free' = Tail(free)
           /\ UNCHANGED allocated
  <2>0. b = free[1] /\ 1 \in 1 .. Len(free) /\ InList(b)
    BY <1>0, <1>2 DEF InList
  <2>1. \A t \in Threads : b \notin held[t] /\ block[t] # b
    BY <1>0, <2>0 DEF OneHolder, PlaceInv
  <2>2. b \notin isr
    BY <2>0 DEF PlaceInv
  <2>3. /\ free' \in Seq(Blocks) /\ Len(free') = Len(free) - 1
        /\ \A j \in 1 .. Len(free') : free'[j] = free[j + 1] /\ j + 1 \in 1 .. Len(free)
    BY <1>0, <1>2
  <2>4. \A j \in 1 .. Len(free') : free'[j] # b /\ \E k \in 1 .. Len(free) : free'[j] = free[k]
    BY <2>0, <2>3 DEF OneHolder
  <2>5. \A j, k \in 1 .. Len(free') : free'[j] = free'[k] => j = k
    BY <2>3, SMTT(30) DEF OneHolder
  <2>6. /\ allocated' \in 0 .. NumBlocks
        /\ allocated <= allocated' /\ b <= allocated'
        /\ (NumBlocks - allocated') + Len(free') = ((NumBlocks - allocated) + Len(free)) - 1
    BY <1>0, <1>2, <2>3
  <2> QED
    BY <2>1, <2>2, <2>3, <2>4, <2>5, <2>6
<1> QED
  BY <1>1, <1>2 DEF Take

----------------------------------------------------------------------------
(* The invariant. *)

\* The invariant holds after FixedMemoryPool::create.
LEMMA PoolInit == Init => PoolInv
<1> SUFFICES ASSUME Init PROVE PoolInv
  OBVIOUS
<1> USE PoolAssumption DEF Init
<1>1. TypeOK
  <2>1. pc \in [Threads -> {"idle", "wait", "woken", "take", "link"}]
    OBVIOUS
  <2>2. block \in [Threads -> Blocks \cup {NoBlock}] /\ held \in [Threads -> SUBSET Blocks]
    OBVIOUS
  <2>3. fault \in {"no", "thread", "isr"}
    OBVIOUS
  <2>4. waiters \in Seq(Threads) /\ free \in Seq(Blocks) /\ isr \in SUBSET Blocks
    OBVIOUS
  <2> QED
    BY <2>1, <2>2, <2>3, <2>4 DEF TypeOK
<1>2. WaitInv /\ IsrInv
  BY DEF WaitInv, IsrInv
<1>3. PlaceInv
  BY DEF PlaceInv, InList
<1>4. OneHolder
  BY DEF OneHolder, InList
<1>5. Takers = {} /\ Linkers = {} /\ isr = {}
  BY DEF Takers, Linkers
<1>6. Accounting
  BY <1>5, FS_EmptySet DEF Accounting
<1>7. FaultOnlyInWindow /\ SafeAmongEquals
  BY DEF FaultOnlyInWindow, SafeAmongEquals
<1> QED
  BY <1>1, <1>2, <1>3, <1>4, <1>6, <1>7 DEF PoolInv

\* The facts about the queue and the counts that TypeOK, WaitInv and Accounting
\* give in the form of the lemmas above.
LEMMA PoolFacts ==
  ASSUME PoolInv
  PROVE  /\ pc \in [Threads -> Places] /\ sem \in Nat /\ waiters \in Seq(Threads)
         /\ Queue(pc, waiters)
         /\ Takers = TakersOf(pc) /\ Linkers = LinkersOf(pc)
         /\ Takers \subseteq Threads /\ Linkers \subseteq Threads
         /\ Cardinality(Takers) \in Nat /\ Cardinality(Linkers) \in Nat
         /\ Cardinality(isr) \in Nat /\ NumBlocks \in Nat /\ Len(free) \in Nat
         /\ allocated \in 0 .. NumBlocks
<1>1. /\ pc \in [Threads -> Places] /\ sem \in Nat /\ waiters \in Seq(Threads)
      /\ allocated \in 0 .. NumBlocks /\ Len(free) \in Nat /\ isr \subseteq Blocks
  BY DEF PoolInv, TypeOK, Places
<1>2. Takers \subseteq Threads /\ Linkers \subseteq Threads
  BY DEF Takers, Linkers
<1>3. Takers = TakersOf(pc) /\ Linkers = LinkersOf(pc)
  BY DEF Takers, Linkers, TakersOf, LinkersOf
<1>4. Cardinality(isr) \in Nat
  BY <1>1, IsrFinite
<1> QED
  BY <1>1, <1>2, <1>3, <1>4, Finite, PoolAssumption DEF Queue, PoolInv, WaitInv

\* Without a fault the two properties about faults say nothing.
LEMMA NoFault ==
  ASSUME fault' = "no"
  PROVE  FaultOnlyInWindow' /\ SafeAmongEquals'
  BY DEF FaultOnlyInWindow, SafeAmongEquals

\* get before the list: the semaphore.
LEMMA GetWaitStep ==
  ASSUME PoolInv, NEW t \in Threads, GetWait(t)
  PROVE  PoolInv'
<1> USE PoolFacts
<1>0. TypeOK /\ WaitInv /\ PlaceInv /\ IsrInv /\ OneHolder /\ Accounting /\ fault = "no"
  BY DEF PoolInv, GetWait, Runs
<1>1. UNCHANGED <<allocated, free, held, isr, fault, block>>
  BY DEF GetWait, poolVars
<1>2. pc[t] = "idle" /\ (\E w \in {"take", "wait"} : pc' = [pc EXCEPT ![t] = w])
  BY DEF GetWait
<1>3. pc' \in [Threads -> Places]
  BY <1>2 DEF Places
<1>4. sem' \in Nat /\ waiters' \in Seq(Threads)
  <2>1. CASE sem > 0 /\ sem' = sem - 1 /\ UNCHANGED waiters
    BY <2>1
  <2>2. CASE waiters' = Append(waiters, t) /\ UNCHANGED sem
    BY <2>2
  <2> QED
    BY <2>1, <2>2 DEF GetWait
<1>5. TypeOK'
  BY <1>0, <1>1, <1>3, <1>4 DEF TypeOK, Places
<1>6. WaitInv'
  <2>1. \A j \in 1 .. Len(waiters) : waiters[j] \in Threads /\ waiters[j] # t
    BY <1>0, <1>2 DEF WaitInv
  <2>2. CASE UNCHANGED waiters
    BY <1>0, <1>2, <2>1, <2>2 DEF WaitInv
  <2>3. CASE waiters' = Append(waiters, t) /\ pc' = [pc EXCEPT ![t] = "wait"]
    <3>1. /\ Len(waiters') = Len(waiters) + 1
          /\ \A j \in 1 .. Len(waiters') : waiters'[j] = IF j = Len(waiters) + 1 THEN t ELSE waiters[j]
      BY <2>3
    <3>2. \A j \in 1 .. Len(waiters') : j = Len(waiters) + 1 \/ j \in 1 .. Len(waiters)
      BY <3>1
    <3>3. \A j \in 1 .. Len(waiters') : pc'[waiters'[j]] = "wait"
      BY <1>0, <2>1, <2>3, <3>1, <3>2 DEF WaitInv
    <3>4. \A j, k \in 1 .. Len(waiters') : waiters'[j] = waiters'[k] => j = k
      BY <1>0, <2>1, <3>1, <3>2 DEF WaitInv
    <3> QED
      BY <3>3, <3>4 DEF WaitInv
  <2> QED
    BY <2>2, <2>3 DEF GetWait
<1>7. PlaceInv'
  BY <1>0, <1>1, <1>2 DEF PlaceInv, InList
<1>8. OneHolder' /\ IsrInv'
  BY <1>0, <1>1 DEF OneHolder, IsrInv, InList
<1>9. Linkers' = Linkers
  BY <1>2 DEF Linkers
<1>10. Accounting'
  <2>1. CASE sem > 0 /\ sem' = sem - 1 /\ pc' = [pc EXCEPT ![t] = "take"]
    <3>1. Takers' = Takers \cup {t} /\ t \notin Takers
      BY <1>2, <2>1 DEF Takers
    <3>2. Cardinality(Takers') = Cardinality(Takers) + 1
      BY <3>1, OneMore
    <3> QED
      BY <1>0, <1>1, <1>9, <2>1, <3>2 DEF Accounting
  <2>2. CASE UNCHANGED sem /\ pc' = [pc EXCEPT ![t] = "wait"]
    <3>1. Takers' = Takers
      BY <1>2, <2>2 DEF Takers
    <3> QED
      BY <1>0, <1>1, <1>9, <2>2, <3>1 DEF Accounting
  <2> QED
    BY <2>1, <2>2 DEF GetWait
<1>11. FaultOnlyInWindow' /\ SafeAmongEquals'
  <2>1. fault' = "no"
    BY <1>0, <1>1 DEF TypeOK
  <2> QED
    BY <2>1, NoFault
<1> QED
  BY <1>5, <1>6, <1>7, <1>8, <1>10, <1>11 DEF PoolInv

\* A function on 1 .. n is a sequence of length n.
LEMMA SeqOfLength ==
  ASSUME NEW S, NEW n \in Nat, NEW f \in [1 .. n -> S]
  PROVE  f \in Seq(S) /\ Len(f) = n
OBVIOUS

\* get gives up waiting.
LEMMA GetTimeoutStep ==
  ASSUME PoolInv, NEW t \in Threads, GetTimeout(t)
  PROVE  PoolInv'
<1> USE PoolFacts
<1>0. TypeOK /\ WaitInv /\ PlaceInv /\ IsrInv /\ OneHolder /\ Accounting
      /\ FaultOnlyInWindow /\ SafeAmongEquals
  BY DEF PoolInv
<1>1. UNCHANGED <<sem, allocated, free, held, isr, fault, block>>
  BY DEF GetTimeout, poolVars
<1>2. pc[t] = "wait" /\ pc' = [pc EXCEPT ![t] = "idle"]
  BY DEF GetTimeout
<1>3. PICK k \in 1 .. Len(waiters) : waiters[k] = t /\ waiters' = Without(waiters, k)
  BY DEF GetTimeout
<1>4. /\ Len(waiters) \in Nat
      /\ \A j \in 1 .. Len(waiters) - 1 :
           /\ j \in 1 .. Len(waiters) /\ j + 1 \in 1 .. Len(waiters)
           /\ waiters[j] \in Threads /\ waiters[j + 1] \in Threads
  OBVIOUS
<1>5. waiters' \in Seq(Threads) /\ Len(waiters') = Len(waiters) - 1
  <2>1. waiters' \in [1 .. Len(waiters) - 1 -> Threads]
    BY <1>3, <1>4 DEF Without
  <2>2. Len(waiters) - 1 \in Nat
    BY <1>3, <1>4
  <2> QED
    <3> DEFINE n == Len(waiters) - 1
               w == waiters'
    <3>1. n \in Nat /\ w \in [1 .. n -> Threads]
      BY <2>1, <2>2
    <3> HIDE DEF n, w
    <3>2. w \in Seq(Threads) /\ Len(w) = n
      BY ONLY <3>1, SeqOfLength
    <3> QED
      BY ONLY <3>2 DEF n, w
<1>6. \A j \in 1 .. Len(waiters') : waiters'[j] = IF j < k THEN waiters[j] ELSE waiters[j + 1]
  BY <1>3, <1>5 DEF Without
<1>7. pc' \in [Threads -> Places]
  BY <1>2 DEF Places
<1>8. TypeOK'
  BY <1>0, <1>1, <1>5, <1>7 DEF TypeOK, Places
<1>9. WaitInv'
  <2>0. \A j \in 1 .. Len(waiters') :
          LET i == IF j < k THEN j ELSE j + 1
          IN  i \in 1 .. Len(waiters) /\ i # k /\ waiters'[j] = waiters[i]
    BY <1>3, <1>4, <1>5, <1>6
  <2>1. \A j \in 1 .. Len(waiters') : waiters'[j] # t /\ waiters'[j] \in Threads
                                    /\ pc[waiters'[j]] = "wait"
    <3> SUFFICES ASSUME NEW j \in 1 .. Len(waiters')
                 PROVE  waiters'[j] # t /\ waiters'[j] \in Threads /\ pc[waiters'[j]] = "wait"
      OBVIOUS
    <3> DEFINE i == IF j < k THEN j ELSE j + 1
    <3>1. i \in 1 .. Len(waiters) /\ i # k /\ waiters'[j] = waiters[i]
      BY <2>0
    <3> HIDE DEF i
    <3>2. WaitInv
      BY <1>0
    <3> QED
      BY <1>3, <3>1, <3>2 DEF WaitInv
  <2>2. \A i, j \in 1 .. Len(waiters') : waiters'[i] = waiters'[j] => i = j
    <3> SUFFICES ASSUME NEW i \in 1 .. Len(waiters'), NEW j \in 1 .. Len(waiters'),
                        waiters'[i] = waiters'[j]
                 PROVE  i = j
      OBVIOUS
    <3> DEFINE p == IF i < k THEN i ELSE i + 1
               q == IF j < k THEN j ELSE j + 1
    <3>1. p \in 1 .. Len(waiters) /\ waiters'[i] = waiters[p]
      BY <2>0
    <3>2. q \in 1 .. Len(waiters) /\ waiters'[j] = waiters[q]
      BY <2>0
    <3> HIDE DEF p, q
    <3>3. p = q
      BY <1>0, <3>1, <3>2 DEF WaitInv
    <3> USE DEF p, q
    <3> QED
      BY <3>3, <1>3
  <2> QED
    BY <1>2, <2>1, <2>2 DEF WaitInv
<1>10. PlaceInv'
  BY <1>0, <1>1, <1>2 DEF PlaceInv, InList
<1>11. OneHolder' /\ IsrInv'
  BY <1>0, <1>1 DEF OneHolder, IsrInv, InList
<1>12. Takers' = Takers /\ Linkers' = Linkers
  BY <1>2 DEF Takers, Linkers
<1>13. Accounting'
  BY <1>0, <1>1, <1>12 DEF Accounting
<1>14. FaultOnlyInWindow' /\ SafeAmongEquals'
  <2>1. \A u \in Threads : pc[u] = "link" => pc'[u] = "link"
    BY <1>2
  <2> QED
    BY <1>0, <1>1, <2>1 DEF FaultOnlyInWindow, SafeAmongEquals, SamePriority
<1> QED
  BY <1>8, <1>9, <1>10, <1>11, <1>13, <1>14 DEF PoolInv

\* t takes a block, or finds the list empty.
LEMMA GetTakeStep ==
  ASSUME PoolInv, NEW t \in Threads, GetTake(t)
  PROVE  PoolInv'
<1> USE PoolFacts
<1>0. TypeOK /\ WaitInv /\ PlaceInv /\ IsrInv /\ OneHolder /\ Accounting /\ fault = "no"
  BY DEF PoolInv, GetTake, Runs
<1>1. UNCHANGED <<sem, waiters, isr, block>> /\ pc[t] \in {"take", "woken"}
      /\ pc' = [pc EXCEPT ![t] = "idle"]
  BY DEF GetTake
<1>2. pc' \in [Threads -> Places]
  BY <1>1 DEF Places
<1>3. WaitInv' /\ IsrInv'
  BY <1>0, <1>1 DEF WaitInv, IsrInv
<1>4. Linkers' = Linkers /\ Takers' = Takers \ {t} /\ t \in Takers
  BY <1>1 DEF Linkers, Takers
<1>5. Cardinality(Takers') = Cardinality(Takers) - 1
  BY <1>4, OneLess
<1>6. CASE Empty /\ fault' = "thread" /\ UNCHANGED <<allocated, free, held>>
  <2>1. TypeOK'
    BY <1>0, <1>1, <1>2, <1>6 DEF TypeOK, Places
  <2>2. PlaceInv' /\ OneHolder'
    BY <1>0, <1>1, <1>6 DEF PlaceInv, OneHolder, InList
  <2>3. Accounting'
    BY <1>6 DEF Accounting
  <2>4. isr = {} => \E u \in Threads : pc[u] = "link"
    <3> SUFFICES ASSUME isr = {} PROVE Cardinality(Linkers) # 0
      BY FS_EmptySet DEF Linkers
    <3>1. Cardinality(isr) = 0
      BY FS_EmptySet
    <3>2. Cardinality(Takers) >= 1
      BY <1>4, FS_EmptySet, Finite
    <3>3. (NumBlocks - allocated) + Len(free) = 0
      BY <1>6 DEF Empty
    <3> QED
      BY <1>0, <3>1, <3>2, <3>3 DEF Accounting
  <2>5. \A u \in Threads : pc[u] = "link" => pc'[u] = "link" /\ Prio[t] < Prio[u]
    BY <1>1 DEF GetTake, Runs
  <2>6. FaultOnlyInWindow'
    BY <1>1, <2>4, <2>5 DEF FaultOnlyInWindow
  <2>7. SafeAmongEquals'
    <3> SUFFICES ASSUME SamePriority, ~MayIsr PROVE FALSE
      BY DEF SafeAmongEquals, SamePriority
    <3>1. PICK u \in Threads : pc[u] = "link"
      BY <1>0, <2>4 DEF IsrInv
    <3> QED
      BY <2>5, <3>1, PoolAssumption DEF SamePriority
  <2> QED
    BY <1>3, <2>1, <2>2, <2>3, <2>6, <2>7 DEF PoolInv
<1>7. ASSUME ~Empty, UNCHANGED fault, NEW b \in Blocks, Take(b),
             held' = [held EXCEPT ![t] = @ \cup {b}]
      PROVE  PoolInv'
  <2> USE <1>7
  <2>1. /\ allocated' \in 0 .. NumBlocks /\ free' \in Seq(Blocks)
        /\ allocated <= allocated' /\ b <= allocated'
        /\ (NumBlocks - allocated') + Len(free') = ((NumBlocks - allocated) + Len(free)) - 1
        /\ \A j \in 1 .. Len(free') : free'[j] # b /\ \E k \in 1 .. Len(free) : free'[j] = free[k]
        /\ \A j, k \in 1 .. Len(free') : free'[j] = free'[k] => j = k
        /\ \A u \in Threads : b \notin held[u] /\ block[u] # b
        /\ b \notin isr
    BY <1>0, TakeEffect
  <2>2. held \in [Threads -> SUBSET Blocks] /\ held' \in [Threads -> SUBSET Blocks]
        /\ \A u \in Threads : held'[u] = IF u = t THEN held[t] \cup {b} ELSE held[u]
    BY <1>0 DEF TypeOK
  <2>3. TypeOK'
    BY <1>0, <1>1, <1>2, <2>1, <2>2 DEF TypeOK, Places
  <2>4. \A c \in Blocks : InList(c)' => InList(c) /\ c # b
    BY <2>1 DEF InList
  <2>a. \A c \in Blocks : c <= allocated => c <= allocated'
    BY <2>1 DEF Blocks
  <2>b. /\ \A u \in Threads : block[u] \in Blocks \cup {NoBlock}
        /\ isr \subseteq Blocks
        /\ \A j \in 1 .. Len(free) : free[j] \in Blocks
    BY <1>0 DEF TypeOK
  <2>5. PlaceInv'
    <3>1. \A u \in Threads : pc'[u] = "link" <=> block'[u] # NoBlock
      BY <1>0, <1>1 DEF PlaceInv
    <3>2. \A u \in Threads : block[u] # NoBlock =>
            block[u] \in Blocks /\ block[u] <= allocated' /\ ~InList(block[u])' /\ block[u] \notin isr
      BY <1>0, <1>1, <2>4, <2>a, <2>b DEF PlaceInv
    <3>3. \A c \in isr : c <= allocated' /\ ~InList(c)'
      BY <1>0, <2>4, <2>a, <2>b DEF PlaceInv
    <3>4. \A j \in 1 .. Len(free') : free'[j] <= allocated'
      BY <1>0, <2>1, <2>a, <2>b DEF PlaceInv
    <3> QED
      BY <1>0, <1>1, <3>1, <3>2, <3>3, <3>4 DEF PlaceInv, InList
  <2>6. OneHolder'
    <3>1. \A u, v \in Threads : u # v => held'[u] \cap held'[v] = {}
      BY <1>0, <2>1, <2>2, SMTT(30) DEF OneHolder
    <3>2. \A u \in Threads : \A c \in held'[u] :
            c \in Blocks /\ c <= allocated' /\ ~InList(c)' /\ c \notin isr
            /\ \A v \in Threads : block[v] # c
      BY <1>0, <2>1, <2>2, <2>4, <2>a DEF OneHolder
    <3> QED
      BY <1>1, <2>1, <3>1, <3>2 DEF OneHolder, InList
  <2>7. Accounting'
    <3>1. Cardinality(isr') = Cardinality(isr) /\ Cardinality(Linkers') = Cardinality(Linkers)
      BY <1>1, <1>4
    <3>2. sem + Cardinality(Takers) =
            ((NumBlocks - allocated) + Len(free)) + Cardinality(Linkers) + 2 * Cardinality(isr)
      BY <1>0 DEF Accounting
    <3>3. Len(free') \in Nat /\ allocated' \in Nat
      BY <2>1
    <3>4. (NumBlocks - allocated') + Len(free') = ((NumBlocks - allocated) + Len(free)) - 1
      BY <2>1
    <3>5. sem' + Cardinality(Takers') =
            ((NumBlocks - allocated') + Len(free')) + Cardinality(Linkers) + 2 * Cardinality(isr)
      <4>1. /\ (NumBlocks - allocated) + Len(free) \in Int
            /\ (NumBlocks - allocated') + Len(free') \in Int
        BY <3>3
      <4>2. /\ Cardinality(Takers') \in Int /\ Cardinality(Takers) \in Int
            /\ Cardinality(Linkers) \in Int /\ Cardinality(isr) \in Int /\ sem \in Int
        BY <1>5
      <4> HIDE PoolFacts, <1>7
      <4> DEFINE a == (NumBlocks - allocated) + Len(free)
                 a1 == (NumBlocks - allocated') + Len(free')
                 k == Cardinality(Takers)
                 k1 == Cardinality(Takers')
                 l == Cardinality(Linkers)
                 i == Cardinality(isr)
      <4>4. /\ a \in Int /\ a1 \in Int /\ k \in Int /\ k1 \in Int /\ l \in Int /\ i \in Int
            /\ sem \in Int
            /\ sem + k = a + l + 2 * i /\ k1 = k - 1 /\ a1 = a - 1
        BY <1>5, <3>2, <3>4, <4>1, <4>2
      <4> HIDE DEF a, a1, k, k1, l, i
      <4>5. sem + k1 = a1 + l + 2 * i
        BY <4>4
      <4> USE DEF a, a1, k, k1, l, i
      <4>3. sem + Cardinality(Takers') =
              ((NumBlocks - allocated') + Len(free')) + Cardinality(Linkers) + 2 * Cardinality(isr)
        BY <4>5
      <4> QED
        BY <1>1, <4>3
    <3> QED
      BY <3>1, <3>5 DEF Accounting
  <2>8. fault' = "no"
    BY <1>0 DEF TypeOK
  <2> QED
    BY <1>3, <2>3, <2>5, <2>6, <2>7, <2>8, NoFault DEF PoolInv
<1> QED
  BY <1>6, <1>7 DEF GetTake

\* get_isr, with or without a block on the list.
LEMMA GetIsrStep ==
  ASSUME PoolInv, GetIsr
  PROVE  PoolInv'
<1>0. TypeOK /\ WaitInv /\ PlaceInv /\ IsrInv /\ OneHolder /\ Accounting /\ fault = "no" /\ MayIsr
  BY DEF PoolInv, GetIsr
<1>1. UNCHANGED <<held, block>>
  BY DEF GetIsr
<1>2. /\ pc \in [Threads -> Places] /\ sem \in Nat /\ waiters \in Seq(Threads)
      /\ Queue(pc, waiters) /\ Signal(pc)
  BY PoolFacts DEF GetIsr
<1>3. /\ pc' \in [Threads -> Places] /\ sem' \in Nat /\ waiters' \in Seq(Threads)
      /\ Queue(pc', waiters') /\ LinkersOf(pc') = LinkersOf(pc)
      /\ sem' + Cardinality(TakersOf(pc')) = sem + Cardinality(TakersOf(pc)) + 1
  BY <1>2, SignalEffect
<1>4. WaitInv' /\ IsrInv'
  BY <1>0, <1>3 DEF WaitInv, Queue, IsrInv
<1>5. \A u \in Threads : pc'[u] = "link" <=> pc[u] = "link"
  BY <1>3 DEF LinkersOf
<1>6. FaultOnlyInWindow' /\ SafeAmongEquals'
  BY <1>0 DEF FaultOnlyInWindow, SafeAmongEquals, GetIsr
<1>7. CASE Empty /\ fault' = "isr" /\ UNCHANGED <<allocated, free, isr>>
  <2>2. TypeOK'
    BY <1>0, <1>1, <1>3, <1>7 DEF TypeOK, Places
  <2>3. PlaceInv' /\ OneHolder'
    BY <1>0, <1>1, <1>5, <1>7 DEF PlaceInv, OneHolder, InList
  <2>4. Accounting'
    BY <1>7 DEF Accounting
  <2> QED
    BY <1>4, <1>6, <2>2, <2>3, <2>4 DEF PoolInv
<1>8. ASSUME ~Empty, UNCHANGED fault, NEW b \in Blocks, Take(b), isr' = isr \cup {b}
      PROVE  PoolInv'
  <2>1. /\ allocated' \in 0 .. NumBlocks /\ free' \in Seq(Blocks)
        /\ allocated <= allocated' /\ b <= allocated'
        /\ (NumBlocks - allocated') + Len(free') = ((NumBlocks - allocated) + Len(free)) - 1
        /\ \A j \in 1 .. Len(free') : free'[j] # b /\ \E k \in 1 .. Len(free) : free'[j] = free[k]
        /\ \A j, k \in 1 .. Len(free') : free'[j] = free'[k] => j = k
        /\ \A u \in Threads : b \notin held[u] /\ block[u] # b
        /\ b \notin isr
    BY <1>0, <1>8, TakeEffect
  <2>2. /\ \A u \in Threads : block[u] \in Blocks \cup {NoBlock} /\ held[u] \subseteq Blocks
        /\ isr \subseteq Blocks /\ isr' \subseteq Blocks
        /\ \A j \in 1 .. Len(free) : free[j] \in Blocks
    BY <1>0, <1>8 DEF TypeOK
  <2>3. TypeOK'
    BY <1>0, <1>1, <1>3, <1>8, <2>1, <2>2 DEF TypeOK, Places
  <2>4. \A c \in Blocks : InList(c)' => InList(c) /\ c # b
    BY <2>1 DEF InList
  <2>5. \A c \in Blocks : c <= allocated => c <= allocated'
    BY <2>1, PoolFacts DEF Blocks
  <2>6. PlaceInv'
    <3>1. \A u \in Threads : pc'[u] = "link" <=> block'[u] # NoBlock
      BY <1>0, <1>1, <1>5 DEF PlaceInv
    <3>2. \A u \in Threads : block[u] # NoBlock =>
            block[u] \in Blocks /\ block[u] <= allocated' /\ ~InList(block[u])' /\ block[u] \notin isr'
      BY <1>0, <1>1, <1>8, <2>1, <2>2, <2>4, <2>5 DEF PlaceInv
    <3>3. \A c \in isr' : c <= allocated' /\ ~InList(c)'
      BY <1>0, <1>8, <2>1, <2>2, <2>4, <2>5 DEF PlaceInv
    <3>4. \A j \in 1 .. Len(free') : free'[j] <= allocated'
      BY <1>0, <2>1, <2>2, <2>5 DEF PlaceInv
    <3> QED
      BY <1>0, <1>1, <3>1, <3>2, <3>3, <3>4 DEF PlaceInv, InList
  <2>7. OneHolder'
    <3>1. \A u \in Threads : \A c \in held[u] :
            c \in Blocks /\ c <= allocated' /\ ~InList(c)' /\ c \notin isr'
            /\ \A v \in Threads : block[v] # c
      BY <1>0, <1>8, <2>1, <2>2, <2>4, <2>5 DEF OneHolder
    <3> QED
      BY <1>0, <1>1, <2>1, <3>1 DEF OneHolder, InList
  <2>8. Accounting'
    <3> DEFINE sk == sem + Cardinality(TakersOf(pc))
               sk1 == sem' + Cardinality(TakersOf(pc'))
               a == (NumBlocks - allocated) + Len(free)
               a1 == (NumBlocks - allocated') + Len(free')
               l == Cardinality(LinkersOf(pc))
               i == Cardinality(isr)
               i1 == Cardinality(isr')
    <3>1. sk = a + l + 2 * i /\ sk \in Int /\ l \in Int /\ i \in Int /\ a \in Int
      BY <1>0, PoolFacts DEF Accounting
    <3>2. sk1 = sk + 1
      BY <1>3
    <3>3. a1 = a - 1
      BY <2>1
    <3>4. i1 = i + 1
      BY <1>8, <2>1, <2>2, IsrFinite, FS_AddElement
    <3> HIDE DEF sk, sk1, a, a1, l, i, i1
    <3>5. sk1 = a1 + l + 2 * i1
      BY <3>1, <3>2, <3>3, <3>4
    <3> USE DEF sk, sk1, a, a1, l, i, i1
    <3>6. Takers' = TakersOf(pc') /\ Linkers' = LinkersOf(pc)
      BY <1>3 DEF Takers, Linkers, TakersOf, LinkersOf
    <3> QED
      BY <3>5, <3>6 DEF Accounting
  <2> QED
    BY <1>4, <1>6, <2>3, <2>6, <2>7, <2>8 DEF PoolInv
<1> QED
  BY <1>7, <1>8 DEF GetIsr

\* release before the list: the semaphore.
LEMMA ReleaseSignalStep ==
  ASSUME PoolInv, NEW t \in Threads, NEW b \in Blocks, ReleaseSignal(t, b)
  PROVE  PoolInv'
<1> DEFINE p == [pc EXCEPT ![t] = "link"]
<1>0. TypeOK /\ WaitInv /\ PlaceInv /\ IsrInv /\ OneHolder /\ Accounting /\ fault = "no"
  BY DEF PoolInv, ReleaseSignal, Runs
<1>1. /\ pc[t] = "idle" /\ b \in held[t] /\ Signal(p)
      /\ held' = [held EXCEPT ![t] = @ \ {b}] /\ block' = [block EXCEPT ![t] = b]
      /\ UNCHANGED <<allocated, free, isr, fault>>
  BY DEF ReleaseSignal
<1>2. /\ pc \in [Threads -> Places] /\ sem \in Nat /\ waiters \in Seq(Threads)
      /\ Queue(pc, waiters)
  BY PoolFacts
<1>3. p \in [Threads -> Places] /\ Queue(p, waiters)
  <2>1. \A j \in 1 .. Len(waiters) : waiters[j] \in Threads /\ waiters[j] # t
    BY <1>1, <1>2 DEF Queue
  <2> QED
    BY <1>2, <2>1 DEF Queue, Places
<1>4. /\ pc' \in [Threads -> Places] /\ sem' \in Nat /\ waiters' \in Seq(Threads)
      /\ Queue(pc', waiters') /\ LinkersOf(pc') = LinkersOf(p)
      /\ sem' + Cardinality(TakersOf(pc')) = sem + Cardinality(TakersOf(p)) + 1
  BY <1>1, <1>2, <1>3, SignalEffect
<1>5. /\ TakersOf(p) = TakersOf(pc)
      /\ LinkersOf(p) = LinkersOf(pc) \cup {t} /\ t \notin LinkersOf(pc)
  BY <1>1, <1>2 DEF TakersOf, LinkersOf
<1>6. \A u \in Threads : pc'[u] = "link" <=> (pc[u] = "link" \/ u = t)
  BY <1>4, <1>5 DEF LinkersOf
<1> HIDE DEF p
<1>7. WaitInv' /\ IsrInv'
  BY <1>0, <1>1, <1>4 DEF WaitInv, Queue, IsrInv
<1>8. /\ held \in [Threads -> SUBSET Blocks] /\ held' \in [Threads -> SUBSET Blocks]
      /\ \A u \in Threads : held'[u] = IF u = t THEN held[t] \ {b} ELSE held[u]
  BY <1>0, <1>1 DEF TypeOK
<1>9. /\ block' \in [Threads -> Blocks \cup {NoBlock}] /\ NoBlock \notin Blocks
      /\ \A u \in Threads : block'[u] = IF u = t THEN b ELSE block[u]
  BY <1>0, <1>1, PoolAssumption DEF TypeOK
<1>10. TypeOK'
  BY <1>0, <1>1, <1>4, <1>8, <1>9 DEF TypeOK, Places
<1>11. b <= allocated /\ ~InList(b) /\ b \notin isr /\ \A u \in Threads : block[u] # b
  BY <1>0, <1>1 DEF OneHolder
<1>12. \A c : InList(c)' <=> InList(c)
  BY <1>1 DEF InList
<1>13. PlaceInv'
  <2>1. \A u \in Threads : pc'[u] = "link" <=> block'[u] # NoBlock
    BY <1>0, <1>6, <1>9 DEF PlaceInv
  <2>2. \A u, v \in Threads : u # v /\ block'[u] # NoBlock => block'[u] # block'[v]
    BY <1>0, <1>9, <1>11 DEF PlaceInv
  <2>3. \A u \in Threads : block'[u] # NoBlock =>
          block'[u] <= allocated' /\ ~(\E j \in 1 .. Len(free) : free[j] = block'[u]) /\ block'[u] \notin isr'
    BY <1>0, <1>1, <1>9, <1>11 DEF PlaceInv, InList
  <2> QED
    BY <1>0, <1>1, <2>1, <2>2, <2>3 DEF PlaceInv, InList
<1>14. OneHolder'
  <2>1. \A u, v \in Threads : u # v => held'[u] \cap held'[v] = {}
    BY <1>0, <1>8 DEF OneHolder
  <2>2. \A u \in Threads : \A c \in held'[u] :
          c <= allocated /\ ~InList(c) /\ c \notin isr /\ \A v \in Threads : block'[v] # c
    BY <1>0, <1>1, <1>8, <1>9 DEF OneHolder
  <2> QED
    BY <1>0, <1>1, <2>1, <2>2 DEF OneHolder, InList
<1>15. Accounting'
  <2> DEFINE sk == sem + Cardinality(TakersOf(pc))
             sk1 == sem' + Cardinality(TakersOf(pc'))
             a == (NumBlocks - allocated) + Len(free)
             l == Cardinality(LinkersOf(pc))
             l1 == Cardinality(LinkersOf(pc'))
             i == Cardinality(isr)
  <2>1. sk = a + l + 2 * i /\ sk \in Int /\ l \in Int /\ i \in Int /\ a \in Int
    BY <1>0, PoolFacts DEF Accounting
  <2>2. sk1 = sk + 1
    BY <1>4, <1>5
  <2>3. l1 = l + 1
    <3>1. LinkersOf(pc) \subseteq Threads
      BY DEF LinkersOf
    <3> QED
      BY <1>4, <1>5, <3>1, OneMore
  <2> HIDE DEF sk, sk1, a, l, l1, i
  <2>4. sk1 = a + l1 + 2 * i
    BY <2>1, <2>2, <2>3
  <2> USE DEF sk, sk1, a, l, l1, i
  <2>5. Takers' = TakersOf(pc') /\ Linkers' = LinkersOf(pc')
    BY DEF Takers, Linkers, TakersOf, LinkersOf
  <2> QED
    BY <1>1, <2>4, <2>5 DEF Accounting
<1>16. fault' = "no"
  BY <1>0, <1>1 DEF TypeOK
<1> QED
  BY <1>7, <1>10, <1>13, <1>14, <1>15, <1>16, NoFault DEF PoolInv

\* release links the block.
LEMMA ReleaseLinkStep ==
  ASSUME PoolInv, NEW t \in Threads, ReleaseLink(t)
  PROVE  PoolInv'
<1> DEFINE b == block[t]
<1>0. TypeOK /\ WaitInv /\ PlaceInv /\ IsrInv /\ OneHolder /\ Accounting /\ fault = "no"
  BY DEF PoolInv, ReleaseLink, Runs
<1>1. /\ pc[t] = "link" /\ free' = <<b>> \o free
      /\ block' = [block EXCEPT ![t] = NoBlock] /\ pc' = [pc EXCEPT ![t] = "idle"]
      /\ UNCHANGED <<sem, waiters, allocated, held, isr, fault>>
  BY DEF ReleaseLink, Link
<1>2. /\ pc \in [Threads -> Places] /\ block \in [Threads -> Blocks \cup {NoBlock}]
      /\ free \in Seq(Blocks) /\ NoBlock \notin Blocks
  BY <1>0, PoolAssumption DEF TypeOK, Places
<1>3. b \in Blocks /\ b # NoBlock
  BY <1>0, <1>1, <1>2 DEF PlaceInv
<1>4. b <= allocated /\ ~InList(b) /\ b \notin isr
      /\ (\A u \in Threads : u # t => block[u] # b) /\ \A u \in Threads : b \notin held[u]
  BY <1>0, <1>3 DEF PlaceInv, OneHolder
<1>5. pc' \in [Threads -> Places]
  BY <1>1, <1>2 DEF Places
<1>6. /\ block' \in [Threads -> Blocks \cup {NoBlock}]
      /\ \A u \in Threads : block'[u] = IF u = t THEN NoBlock ELSE block[u]
  BY <1>1, <1>2
<1> HIDE DEF b
<1>7. /\ free' \in Seq(Blocks) /\ Len(free') = Len(free) + 1 /\ Len(free) \in Nat
      /\ \A j \in 1 .. Len(free') : free'[j] = IF j = 1 THEN b ELSE free[j - 1]
  BY <1>1, <1>2, <1>3
<1>8. \A j \in 1 .. Len(free') : j = 1 \/ j - 1 \in 1 .. Len(free)
  BY <1>7
<1>9. TypeOK'
  BY <1>0, <1>1, <1>5, <1>6, <1>7 DEF TypeOK, Places
<1>10. WaitInv' /\ IsrInv'
  <2>1. \A j \in 1 .. Len(waiters) : waiters[j] \in Threads /\ waiters[j] # t
    BY <1>0, <1>1 DEF WaitInv, TypeOK
  <2> QED
    BY <1>0, <1>1, <1>2, <2>1 DEF WaitInv, IsrInv
<1>11. \A c : (\E j \in 1 .. Len(free') : free'[j] = c) => c = b \/ \E j \in 1 .. Len(free) : free[j] = c
  BY <1>7, <1>8
<1>12. PlaceInv'
  <2>1. \A u \in Threads : pc'[u] = "link" <=> block'[u] # NoBlock
    BY <1>0, <1>1, <1>2, <1>6 DEF PlaceInv
  <2>2. \A u \in Threads : block'[u] # NoBlock =>
          /\ block'[u] <= allocated' /\ block'[u] \notin isr'
          /\ ~(\E j \in 1 .. Len(free') : free'[j] = block'[u])
    BY <1>0, <1>1, <1>4, <1>6, <1>11 DEF PlaceInv, InList
  <2>3. \A c \in isr' : c <= allocated' /\ ~(\E j \in 1 .. Len(free') : free'[j] = c)
    BY <1>0, <1>1, <1>4, <1>11 DEF PlaceInv, InList
  <2>4. \A j \in 1 .. Len(free') : free'[j] <= allocated'
    BY <1>0, <1>1, <1>4, <1>7, <1>8 DEF PlaceInv
  <2>5. \A u, v \in Threads : u # v /\ block'[u] # NoBlock => block'[u] # block'[v]
    BY <1>0, <1>6 DEF PlaceInv
  <2> QED
    BY <2>1, <2>2, <2>3, <2>4, <2>5 DEF PlaceInv, InList
<1>13. OneHolder'
  <2>1. \A u \in Threads : \A c \in held'[u] :
          /\ c <= allocated' /\ c \notin isr' /\ \A v \in Threads : block'[v] # c
          /\ ~(\E j \in 1 .. Len(free') : free'[j] = c)
    <3> SUFFICES ASSUME NEW u \in Threads, NEW c \in held[u]
                 PROVE  /\ c <= allocated' /\ c \notin isr' /\ \A v \in Threads : block'[v] # c
                        /\ ~(\E j \in 1 .. Len(free') : free'[j] = c)
      BY <1>1
    <3>1. c \in Blocks
      BY <1>0 DEF TypeOK
    <3>2. c <= allocated /\ ~InList(c) /\ c \notin isr /\ \A v \in Threads : block[v] # c
      BY <1>0 DEF OneHolder
    <3> QED
      BY <1>1, <1>2, <1>4, <1>6, <1>11, <3>1, <3>2 DEF InList
  <2>2. \A j, k \in 1 .. Len(free') : free'[j] = free'[k] => j = k
    <3> SUFFICES ASSUME NEW j \in 1 .. Len(free'), NEW k \in 1 .. Len(free'),
                        free'[j] = free'[k], j # k
                 PROVE  FALSE
      OBVIOUS
    <3>1. \A m \in 1 .. Len(free) : free[m] # b
      BY <1>4 DEF InList
    <3>2. j # 1 /\ k # 1
      BY <1>7, <1>8, <3>1
    <3>3. free[j - 1] = free[k - 1] /\ j - 1 \in 1 .. Len(free) /\ k - 1 \in 1 .. Len(free)
      BY <1>7, <1>8, <3>2
    <3>4. j - 1 = k - 1
      BY <1>0, <3>3 DEF OneHolder
    <3> QED
      BY <3>4
  <2> QED
    BY <1>0, <1>1, <2>1, <2>2 DEF OneHolder, InList
<1>14. Accounting'
  <2> DEFINE sk == sem + Cardinality(Takers)
             a == (NumBlocks - allocated) + Len(free)
             a1 == (NumBlocks - allocated) + Len(free')
             l == Cardinality(Linkers)
             l1 == Cardinality(Linkers')
             i == Cardinality(isr)
  <2>1. sk = a + l + 2 * i /\ sk \in Int /\ l \in Int /\ i \in Int /\ a \in Int
    BY <1>0, PoolFacts DEF Accounting
  <2>2. Takers' = Takers
    BY <1>1, <1>2 DEF Takers
  <2>3. l1 = l - 1
    <3>1. Linkers' = Linkers \ {t} /\ t \in Linkers /\ Linkers \subseteq Threads
      BY <1>1, <1>2 DEF Linkers
    <3> QED
      BY <3>1, OneLess
  <2>4. a1 = a + 1
    BY <1>7, PoolFacts
  <2> HIDE DEF sk, a, a1, l, l1, i
  <2>5. sk = a1 + l1 + 2 * i
    BY <2>1, <2>3, <2>4
  <2> USE DEF sk, a, a1, l, l1, i
  <2> QED
    BY <1>1, <2>2, <2>5 DEF Accounting
<1>15. fault' = "no"
  BY <1>0, <1>1 DEF TypeOK
<1> QED
  BY <1>9, <1>10, <1>12, <1>13, <1>14, <1>15, NoFault DEF PoolInv

\* Every step preserves the invariant.
LEMMA PoolStep == PoolInv /\ [Next]_vars => PoolInv'
<1> SUFFICES ASSUME PoolInv, [Next]_vars PROVE PoolInv'
  OBVIOUS
<1>1. CASE UNCHANGED vars
  <2>1. UNCHANGED <<sem, waiters, allocated, free, held, isr, fault, pc, block>>
    BY <1>1 DEF vars, poolVars
  <2>2. Takers' = Takers /\ Linkers' = Linkers
    BY <2>1 DEF Takers, Linkers
  <2>3. TypeOK' /\ WaitInv' /\ PlaceInv' /\ IsrInv' /\ OneHolder'
    BY <2>1 DEF PoolInv, TypeOK, WaitInv, PlaceInv, IsrInv, OneHolder, InList
  <2>4. Accounting' /\ FaultOnlyInWindow' /\ SafeAmongEquals'
    BY <2>1, <2>2 DEF PoolInv, Accounting, FaultOnlyInWindow, SafeAmongEquals, SamePriority
  <2> QED
    BY <2>3, <2>4 DEF PoolInv
<1>2. CASE Next
  BY <1>2, GetIsrStep, GetWaitStep, GetTimeoutStep, GetTakeStep, ReleaseLinkStep,
     ReleaseSignalStep DEF Next
<1> QED
  BY <1>1, <1>2

----------------------------------------------------------------------------
(* The theorems. *)

\* The invariant holds always.
LEMMA PoolInvariant == Spec => []PoolInv
  BY PoolInit, PoolStep, PTL DEF Spec

\* The variables of a FixedMemoryPool and its threads keep their types.
THEOREM PoolTypeCorrect == Spec => []TypeOK
<1>1. PoolInv => TypeOK
  BY DEF PoolInv
<1> QED
  BY <1>1, PoolInvariant, PTL

\* No interleaving of FixedMemoryPool::get, get_isr and release hands a block to
\* two threads.
THEOREM OneHolderHolds == Spec => []OneHolder
<1>1. PoolInv => OneHolder
  BY DEF PoolInv
<1> QED
  BY <1>1, PoolInvariant, PTL

\* The count of m_sem differs from the blocks on the list by the threads between
\* their two steps and by two for each get_isr.
THEOREM AccountingHolds == Spec => []Accounting
<1>1. PoolInv => Accounting
  BY DEF PoolInv
<1> QED
  BY <1>1, PoolInvariant, PTL

\* Until get_isr is used, FixedMemoryPool::get takes from an empty list only
\* while a thread of lower priority is between the signal and the link of release.
THEOREM FaultOnlyInWindowHolds == Spec => []FaultOnlyInWindow
<1>1. PoolInv => FaultOnlyInWindow
  BY DEF PoolInv
<1> QED
  BY <1>1, PoolInvariant, PTL

\* Among threads of one priority FixedMemoryPool::get never takes from an empty
\* list.
THEOREM SafeAmongEqualsHolds == Spec => []SafeAmongEquals
<1>1. PoolInv => SafeAmongEquals
  BY DEF PoolInv
<1> QED
  BY <1>1, PoolInvariant, PTL
=============================================================================
