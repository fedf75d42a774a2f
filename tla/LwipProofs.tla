----------------------------- MODULE LwipProofs -----------------------------
(***************************************************************************)
(* Proofs about two parts of lwIP: a pool whose list operations are        *)
(* protected, for any number of blocks and threads and any priorities, and *)
(* the timers of the tcpip thread, for any timers and intervals.           *)
(***************************************************************************)
EXTENDS Memp, Timeouts, FiniteSetTheorems, SequenceTheorems, WellFoundedInduction, TLAPS

-----------------------------------------------------------------------------
(* The pools. *)

\* Every step of a thread keeps its type.
LEMMA TypeStep == TypeOK /\ [Next]_vars => TypeOK'
<1> SUFFICES ASSUME TypeOK, [Next]_vars PROVE TypeOK'
  OBVIOUS
<1> USE MempAssumption DEF TypeOK, Protect, Unprotect
<1>1. ASSUME NEW t \in Threads, MallocHead(t) PROVE TypeOK'
  BY <1>1 DEF MallocHead
<1>2. ASSUME NEW t \in Threads, MallocNext(t) PROVE TypeOK'
  BY <1>2 DEF MallocNext
<1>3. ASSUME NEW t \in Threads, MallocStore(t) PROVE TypeOK'
  BY <1>3 DEF MallocStore
<1>4. ASSUME NEW t \in Threads, FreeStore(t) PROVE TypeOK'
  BY <1>4 DEF FreeStore
<1>5. ASSUME NEW t \in Threads, NEW b \in Blocks, FreeLink(t, b) PROVE TypeOK'
  BY <1>5, SMTT(30) DEF FreeLink, Link, Blocks, NULL
<1>6. ASSUME NEW t \in Threads, NEW b \in Blocks, NEW v \in Blocks \cup {NULL}, Write(t, b, v)
      PROVE TypeOK'
  BY <1>6 DEF Write
<1>7. QED
  BY <1>1, <1>2, <1>3, <1>4, <1>5, <1>6 DEF Next, vars

\* A list without repetition is no longer than there are blocks.
LEMMA ListBound ==
  ASSUME NEW n \in Nat, NEW s \in [1 .. n -> Blocks],
         \A j, k \in 1 .. n : s[j] = s[k] => j = k
  PROVE  n <= NumBlocks
<1>1. s \in Injection(1 .. n, Blocks)
  BY DEF Injection, IsInjective
<1>2. IsFiniteSet(Blocks) /\ Cardinality(Blocks) = NumBlocks
  BY MempAssumption, FS_Interval DEF Blocks
<1>3. Cardinality(1 .. n) = n
  BY FS_Interval
<1>4. QED
  BY <1>1, <1>2, <1>3, FS_Injection

\* LockInv, LocalInv and Exclusive are preserved by every step of a thread.
LEMMA LocalStep ==
  ASSUME PROT, TypeOK, PoolInv, [Next]_vars
  PROVE  Exclusive' /\ LockInv' /\ LocalInv'
<1> USE MempAssumption DEF TypeOK, Exclusive, LockInv, LocalInv
<1>0. Exclusive /\ LockInv /\ LocalInv
  BY DEF PoolInv
<1>1. ASSUME NEW t \in Threads, MallocHead(t) PROVE Exclusive' /\ LockInv' /\ LocalInv'
  BY <1>0, <1>1 DEF MallocHead, Runs, Protect
<1>2. ASSUME NEW t \in Threads, MallocNext(t) PROVE Exclusive' /\ LockInv' /\ LocalInv'
  BY <1>0, <1>2 DEF MallocNext, Runs
<1>3. ASSUME NEW t \in Threads, MallocStore(t) PROVE Exclusive' /\ LockInv' /\ LocalInv'
  <2>1. tab # NULL /\ memp[t] = tab /\ tab \in Blocks
    BY <1>0, <1>3 DEF MallocStore
  <2>2. refs[tab] = 0
    <3>1. PICK n \in 0 .. NumBlocks : \E s \in [1 .. n -> Blocks] : ListInv(s, n)
      BY DEF PoolInv
    <3>2. PICK s \in [1 .. n -> Blocks] : ListInv(s, n)
      BY <3>1
    <3>3. n # 0 /\ tab = s[1]
      BY <2>1, <3>2 DEF ListInv, IsList
    <3>4. 1 \in 1 .. n
      BY <3>3
    <3>5. QED
      BY <2>1, <3>2, <3>3, <3>4 DEF ListInv
  <2>3. QED
    BY <1>0, <1>3, <2>1, <2>2 DEF MallocStore, Runs, Unprotect
<1>4. ASSUME NEW t \in Threads, FreeStore(t) PROVE Exclusive' /\ LockInv' /\ LocalInv'
  BY <1>0, <1>4 DEF FreeStore, Runs, Unprotect
<1>5. ASSUME NEW t \in Threads, NEW b \in Blocks, FreeLink(t, b)
      PROVE  Exclusive' /\ LockInv' /\ LocalInv'
  BY <1>0, <1>5 DEF FreeLink, Link, Runs, Protect
<1>6. ASSUME NEW t \in Threads, NEW b \in Blocks, NEW v \in Blocks \cup {NULL}, Write(t, b, v)
      PROVE  Exclusive' /\ LockInv' /\ LocalInv'
  BY <1>0, <1>6 DEF Write, Runs
<1>7. CASE UNCHANGED vars
  BY <1>0, <1>7 DEF vars
<1>8. QED
  BY <1>1, <1>2, <1>3, <1>4, <1>5, <1>6, <1>7 DEF Next

\* The list is what it was after a step that changes neither the list nor
\* who holds a block.
LEMMA ListSame ==
  ASSUME NEW n \in Nat, NEW s \in [1 .. n -> Blocks], ListInv(s, n),
         tab' = tab,
         \A j \in 1 .. n : next'[s[j]] = next[s[j]],
         \A b \in Blocks : (refs'[b] = 0 /\ ~Freed(b)') <=> (refs[b] = 0 /\ ~Freed(b))
  PROVE  ListInv(s, n)'
  BY DEF ListInv, IsList

\* Taking the head of the list.
LEMMA ListPop ==
  ASSUME NEW n \in Nat, NEW s \in [1 .. n -> Blocks], ListInv(s, n),
         n # 0,
         tab' = next[s[1]], next' = next,
         \A b \in Blocks : (refs'[b] = 0 /\ ~Freed(b)') <=> (refs[b] = 0 /\ ~Freed(b) /\ b # s[1])
  PROVE  \E m \in Nat : \E r \in [1 .. m -> Blocks] : ListInv(r, m)'
<1> DEFINE m == n - 1
           r == [j \in 1 .. m |-> s[j + 1]]
<1>1. m \in Nat /\ (\A j \in 1 .. m : j + 1 \in 1 .. n) /\ 1 \in 1 .. n
  OBVIOUS
<1>2. r \in [1 .. m -> Blocks] /\ \A j \in 1 .. m : r[j] = s[j + 1]
  BY <1>1
<1>3. \A j, k \in 1 .. n : s[j] = s[k] => j = k
  BY DEF ListInv, IsList
<1>4. \A j \in 1 .. n : next[s[j]] = IF j = n THEN NULL ELSE s[j + 1]
  BY DEF ListInv, IsList
<1> HIDE DEF r
<1>5. IsList(r, m)'
  <2>1. \A j, k \in 1 .. m : r[j] = r[k] => j = k
    BY <1>1, <1>2, <1>3
  <2>2. tab' = IF m = 0 THEN NULL ELSE r[1]
    BY <1>1, <1>2, <1>4
  <2>3. \A j \in 1 .. m : next[r[j]] = IF j = m THEN NULL ELSE r[j + 1]
    <3>1. TAKE j \in 1 .. m
    <3>2. next[r[j]] = IF j + 1 = n THEN NULL ELSE s[(j + 1) + 1]
      BY <1>1, <1>2, <1>4
    <3>3. j # m => j + 1 \in 1 .. m
      OBVIOUS
    <3>4. QED
      BY <1>2, <3>2, <3>3
  <2>4. QED
    BY <2>1, <2>2, <2>3 DEF IsList
<1>6. ASSUME NEW b \in Blocks
      PROVE  (refs'[b] = 0 /\ ~Freed(b)') <=> \E j \in 1 .. m : r[j] = b
  <2>1. (refs[b] = 0 /\ ~Freed(b)) <=> \E j \in 1 .. n : s[j] = b
    BY DEF ListInv
  <2>2. (\E j \in 1 .. n : s[j] = b /\ b # s[1]) <=> \E j \in 1 .. m : r[j] = b
    <3>1. ASSUME NEW j \in 1 .. n, s[j] = b, b # s[1] PROVE \E k \in 1 .. m : r[k] = b
      <4>1. j - 1 \in 1 .. m /\ (j - 1) + 1 = j
        BY <3>1
      <4>2. QED
        BY <1>2, <3>1, <4>1
    <3>2. ASSUME NEW j \in 1 .. m, r[j] = b PROVE \E k \in 1 .. n : s[k] = b /\ b # s[1]
      <4>1. j + 1 \in 1 .. n /\ s[j + 1] = b /\ j + 1 # 1
        BY <1>1, <1>2, <3>2
      <4>2. QED
        BY <1>1, <1>3, <4>1
    <3>3. QED
      BY <3>1, <3>2
  <2>3. QED
    BY <2>1, <2>2
<1>7. ListInv(r, m)'
  BY <1>5, <1>6 DEF ListInv
<1>8. QED
  BY <1>1, <1>2, <1>7

\* Pushing a block on the list.
LEMMA ListPush ==
  ASSUME NEW n \in Nat, NEW s \in [1 .. n -> Blocks], ListInv(s, n),
         NEW c \in Blocks, ~(refs[c] = 0 /\ ~Freed(c)),
         tab' = c, next' = next, next[c] = tab,
         \A b \in Blocks : (refs'[b] = 0 /\ ~Freed(b)') <=> ((refs[b] = 0 /\ ~Freed(b)) \/ b = c)
  PROVE  \E m \in Nat : \E r \in [1 .. m -> Blocks] : ListInv(r, m)'
<1> DEFINE m == n + 1
           r == [j \in 1 .. m |-> IF j = 1 THEN c ELSE s[j - 1]]
<1>1. m \in Nat /\ (\A j \in 1 .. m : j # 1 => j - 1 \in 1 .. n) /\ 1 \in 1 .. m
  OBVIOUS
<1>2. r \in [1 .. m -> Blocks] /\ \A j \in 1 .. m : r[j] = IF j = 1 THEN c ELSE s[j - 1]
  BY <1>1
<1>3. \A j, k \in 1 .. n : s[j] = s[k] => j = k
  BY DEF ListInv, IsList
<1>4. \A j \in 1 .. n : next[s[j]] = IF j = n THEN NULL ELSE s[j + 1]
  BY DEF ListInv, IsList
<1>5. \A j \in 1 .. n : s[j] # c
  BY DEF ListInv
<1>6. tab = IF n = 0 THEN NULL ELSE s[1]
  BY DEF ListInv, IsList
<1> HIDE DEF r
<1>7. IsList(r, m)'
  <2>1. \A j, k \in 1 .. m : r[j] = r[k] => j = k
    <3>1. TAKE j, k \in 1 .. m
    <3>2. CASE j = 1 \/ k = 1
      BY <1>1, <1>2, <1>5, <3>2
    <3>3. CASE j # 1 /\ k # 1
      <4>1. r[j] = s[j - 1] /\ r[k] = s[k - 1] /\ j - 1 \in 1 .. n /\ k - 1 \in 1 .. n
        BY <1>1, <1>2, <3>3
      <4>2. s[j - 1] = s[k - 1] => j - 1 = k - 1
        BY <1>3, <4>1, Zenon
      <4>3. j - 1 = k - 1 => j = k
        OBVIOUS
      <4>4. QED
        BY <4>1, <4>2, <4>3
    <3>4. QED
      BY <3>2, <3>3
  <2>2. tab' = IF m = 0 THEN NULL ELSE r[1]
    BY <1>1, <1>2
  <2>3. \A j \in 1 .. m : next[r[j]] = IF j = m THEN NULL ELSE r[j + 1]
    <3>1. TAKE j \in 1 .. m
    <3>2. CASE j = 1
      <4>1. r[1] = c
        BY <1>1, <1>2
      <4>2. n # 0 => r[2] = s[1]
        BY <1>2
      <4>3. QED
        BY <1>6, <3>2, <4>1, <4>2
    <3>3. CASE j # 1
      <4>1. r[j] = s[j - 1] /\ j - 1 \in 1 .. n
        BY <1>1, <1>2, <3>3
      <4>2. next[r[j]] = IF j - 1 = n THEN NULL ELSE s[(j - 1) + 1]
        BY <1>4, <4>1
      <4>3. j # m => j + 1 \in 1 .. m /\ r[j + 1] = s[(j + 1) - 1]
        BY <1>2
      <4>4. QED
        BY <4>2, <4>3
    <3>4. QED
      BY <3>2, <3>3
  <2>4. QED
    BY <2>1, <2>2, <2>3 DEF IsList
<1>8. ASSUME NEW b \in Blocks
      PROVE  (refs'[b] = 0 /\ ~Freed(b)') <=> \E j \in 1 .. m : r[j] = b
  <2>1. (refs[b] = 0 /\ ~Freed(b)) <=> \E j \in 1 .. n : s[j] = b
    BY DEF ListInv
  <2>2. ((\E j \in 1 .. n : s[j] = b) \/ b = c) <=> \E j \in 1 .. m : r[j] = b
    <3>1. ASSUME NEW j \in 1 .. n, s[j] = b PROVE \E k \in 1 .. m : r[k] = b
      <4>1. j + 1 \in 1 .. m /\ j + 1 # 1 /\ (j + 1) - 1 = j
        OBVIOUS
      <4>2. QED
        BY <1>2, <3>1, <4>1
    <3>2. ASSUME NEW j \in 1 .. m, r[j] = b PROVE (\E k \in 1 .. n : s[k] = b) \/ b = c
      BY <1>1, <1>2, <3>2
    <3>3. b = c => \E k \in 1 .. m : r[k] = b
      BY <1>1, <1>2
    <3>4. QED
      BY <3>1, <3>2, <3>3
  <2>3. QED
    BY <2>1, <2>2
<1>9. ListInv(r, m)'
  BY <1>7, <1>8 DEF ListInv
<1>10. QED
  BY <1>1, <1>2, <1>9

\* PoolInv is inductive when the operations are protected.
LEMMA PoolInvStep ==
  ASSUME PROT, TypeOK, PoolInv, [Next]_vars
  PROVE  PoolInv'
<1> USE MempAssumption
<1> DEFINE Listed == \E n \in Nat : \E s \in [1 .. n -> Blocks] : ListInv(s, n)
<1>0. PICK n \in Nat : \E s \in [1 .. n -> Blocks] : ListInv(s, n)
  BY DEF PoolInv
<1>1. PICK s \in [1 .. n -> Blocks] : ListInv(s, n)
  BY <1>0
<1>2. Exclusive /\ LockInv /\ LocalInv
  BY DEF PoolInv
<1>3. \A j \in 1 .. n : s[j] \in Blocks /\ refs[s[j]] = 0
  BY <1>1 DEF ListInv
<1>4. Listed'
  <2>1. ASSUME NEW t \in Threads, MallocHead(t) \/ MallocNext(t) PROVE Listed'
    <3>1. UNCHANGED <<tab, next, refs>> /\ \A b \in Blocks : Freed(b)' <=> Freed(b)
      BY <2>1 DEF MallocHead, MallocNext, Freed, TypeOK
    <3>2. QED
      BY <1>1, <3>1, ListSame
  <2>2. ASSUME NEW t \in Threads, MallocStore(t) PROVE Listed'
    <3>1. \A u \in Threads : pc[u] # "link" /\ pc'[u] # "link"
      BY <1>2, <2>2 DEF MallocStore, Runs, LockInv, TypeOK
    <3>2. \A b \in Blocks : ~Freed(b) /\ ~Freed(b)'
      BY <3>1 DEF Freed
    <3>3. tab # NULL /\ memp[t] = tab /\ nxt[t] = next[tab] /\ tab \in Blocks
      BY <1>2, <2>2 DEF MallocStore, LocalInv, TypeOK
    <3>4. n # 0 /\ tab = s[1]
      BY <1>1, <3>3 DEF ListInv, IsList
    <3>5. tab' = next[s[1]] /\ next' = next
      BY <2>2, <3>3, <3>4 DEF MallocStore
    <3>6. \A b \in Blocks : refs'[b] = 0 <=> refs[b] = 0 /\ b # s[1]
      BY <2>2, <3>3, <3>4 DEF MallocStore, TypeOK
    <3>7. QED
      BY <1>1, <3>2, <3>4, <3>5, <3>6, ListPop
  <2>3. ASSUME NEW t \in Threads, FreeStore(t) PROVE Listed'
    <3> DEFINE c == memp[t]
    <3>1. c \in Blocks /\ refs[c] = 0 /\ next[c] = tab /\ Freed(c)
      BY <1>2, <2>3 DEF FreeStore, LocalInv, Freed
    <3>2. \A u \in Threads \ {t} : pc[u] = "idle"
      BY <1>2, <2>3 DEF FreeStore, Runs, LockInv
    <3>3. \A u \in Threads : pc'[u] # "link"
      BY <2>3, <3>2 DEF FreeStore, TypeOK
    <3>4. \A b \in Blocks : ~Freed(b)' /\ (Freed(b) => b = c)
      BY <3>2, <3>3 DEF Freed
    <3>5. tab' = c /\ next' = next /\ refs' = refs
      BY <2>3 DEF FreeStore
    <3>6. \A b \in Blocks : (refs'[b] = 0 /\ ~Freed(b)') <=> ((refs[b] = 0 /\ ~Freed(b)) \/ b = c)
      BY <3>1, <3>4, <3>5
    <3> HIDE DEF c
    <3>7. QED
      BY <1>1, <3>1, <3>5, <3>6, ListPush
  <2>4. ASSUME NEW t \in Threads, NEW b \in Blocks, FreeLink(t, b) PROVE Listed'
    <3>1. \A u \in Threads : pc[u] = "idle"
      BY <1>2, <2>4 DEF FreeLink, Runs, LockInv
    <3>2. \A c \in Blocks : ~Freed(c) /\ (Freed(c)' <=> c = b)
      BY <2>4, <3>1 DEF FreeLink, Freed, TypeOK
    <3>3. refs[b] > 0 /\ \A c \in Blocks : c # b => refs'[c] = refs[c] /\ next'[c] = next[c]
      BY <2>4 DEF FreeLink, Link, TypeOK
    <3>4. \A c \in Blocks : (refs'[c] = 0 /\ ~Freed(c)') <=> (refs[c] = 0 /\ ~Freed(c))
      BY <3>2, <3>3
    <3>5. tab' = tab /\ \A j \in 1 .. n : next'[s[j]] = next[s[j]]
      BY <1>3, <2>4, <3>3 DEF FreeLink
    <3>6. QED
      BY <1>1, <3>4, <3>5, ListSame
  <2>5. ASSUME NEW t \in Threads, NEW b \in Blocks, NEW v \in Blocks \cup {NULL}, Write(t, b, v)
        PROVE  Listed'
    <3>1. refs[b] > 0 /\ \A c \in Blocks : c # b => next'[c] = next[c]
      BY <2>5 DEF Write, TypeOK
    <3>2. tab' = tab /\ \A j \in 1 .. n : next'[s[j]] = next[s[j]]
      BY <1>3, <2>5, <3>1 DEF Write
    <3>3. UNCHANGED <<refs, pc, memp>>
      BY <2>5 DEF Write
    <3>4. QED
      BY <1>1, <3>2, <3>3, ListSame DEF Freed
  <2>6. CASE UNCHANGED vars
    BY <1>1, <2>6, ListSame DEF vars, Freed
  <2>7. QED
    BY <2>1, <2>2, <2>3, <2>4, <2>5, <2>6 DEF Next
<1>5. \E m \in 0 .. NumBlocks : \E r \in [1 .. m -> Blocks] : ListInv(r, m)'
  <2>0. PICK m \in Nat : \E r \in [1 .. m -> Blocks] : ListInv(r, m)'
    BY <1>4
  <2>1. PICK r \in [1 .. m -> Blocks] : ListInv(r, m)'
    BY <2>0
  <2>2. m <= NumBlocks
    BY <2>1, ListBound DEF ListInv, IsList
  <2>3. QED
    BY <2>1, <2>2
<1>6. QED
  BY <1>5, LocalStep DEF PoolInv

\* Initially the list holds all the blocks, from the last to the first.
LEMMA PoolInvInit == Init => TypeOK /\ PoolInv
<1> SUFFICES ASSUME Init PROVE TypeOK /\ PoolInv
  OBVIOUS
<1> USE MempAssumption DEF Init, Blocks, NULL
<1>1. TypeOK
  BY DEF TypeOK
<1>2. Exclusive /\ LockInv /\ LocalInv
  BY DEF Exclusive, LockInv, LocalInv
<1> DEFINE s == [j \in 1 .. NumBlocks |-> NumBlocks + 1 - j]
<1>3. s \in [1 .. NumBlocks -> Blocks]
  OBVIOUS
<1>4. IsList(s, NumBlocks)
  <2>1. \A j \in 1 .. NumBlocks : s[j] = NumBlocks + 1 - j
    OBVIOUS
  <2>2. \A j \in 1 .. NumBlocks : next[s[j]] = NumBlocks - j
    BY <1>3, <2>1
  <2> HIDE DEF s
  <2>3. \A j, k \in 1 .. NumBlocks : s[j] = s[k] => j = k
    BY <2>1
  <2>4. tab = IF NumBlocks = 0 THEN NULL ELSE s[1]
    BY <2>1
  <2>5. \A j \in 1 .. NumBlocks : next[s[j]] = IF j = NumBlocks THEN NULL ELSE s[j + 1]
    <3>1. TAKE j \in 1 .. NumBlocks
    <3>2. j # NumBlocks => j + 1 \in 1 .. NumBlocks /\ NumBlocks + 1 - (j + 1) = NumBlocks - j
      OBVIOUS
    <3>3. next[s[j]] = NumBlocks - j
      BY <2>2
    <3>4. CASE j = NumBlocks
      BY <3>3, <3>4
    <3>5. CASE j # NumBlocks
      <4>1. s[j + 1] = NumBlocks - j
        BY <2>1, <3>2, <3>5
      <4>2. QED
        BY <3>3, <3>5, <4>1
    <3>6. QED
      BY <3>4, <3>5
  <2>6. QED
    BY <2>3, <2>4, <2>5 DEF IsList
<1>5. \A b \in Blocks : ~Freed(b) /\ \E j \in 1 .. NumBlocks : s[j] = b
  <2>1. TAKE b \in Blocks
  <2>2. NumBlocks + 1 - b \in 1 .. NumBlocks /\ s[NumBlocks + 1 - b] = b
    OBVIOUS
  <2>3. QED
    BY <2>2 DEF Freed
<1>6. ListInv(s, NumBlocks)
  BY <1>4, <1>5 DEF ListInv
<1> HIDE DEF s, Init, Blocks
<1>7. \E n \in 0 .. NumBlocks : \E r \in [1 .. n -> Blocks] : ListInv(r, n)
  <2>1. NumBlocks \in 0 .. NumBlocks
    OBVIOUS
  <2>2. QED
    BY <1>3, <1>6, <2>1
<1>8. QED
  BY <1>1, <1>2, <1>7 DEF PoolInv

\* With SYS_LIGHTWEIGHT_PROT no block has two holders and the free list holds
\* exactly the blocks nobody has, whatever the threads and their priorities.
THEOREM ProtectedPool == PROT => (Spec => [](Exclusive /\ PoolIntact))
<1> SUFFICES ASSUME PROT PROVE Spec => [](Exclusive /\ PoolIntact)
  OBVIOUS
<1>1. TypeOK /\ PoolInv /\ [Next]_vars => TypeOK' /\ PoolInv'
  BY TypeStep, PoolInvStep
<1>2. PoolInv => Exclusive /\ PoolIntact
  <2> SUFFICES ASSUME PoolInv PROVE PoolIntact
    BY DEF PoolInv
  <2>1. AtRest => \A b \in Blocks : ~Freed(b)
    BY DEF AtRest, Freed
  <2>2. QED
    BY <2>1 DEF PoolInv, PoolIntact, ListInv
<1>3. QED
  BY <1>1, <1>2, PoolInvInit, PTL DEF Spec

\* The links, the head and what the threads have read are blocks of the pool or
\* NULL, also without protection.
THEOREM MempTypeCorrect == Spec => []TypeOK
BY PoolInvInit, TypeStep, PTL DEF Spec

\* With SYS_LIGHTWEIGHT_PROT no block is handed out while somebody has it.
THEOREM OneHolder == PROT => (Spec => []Exclusive)
<1>1. Exclusive /\ PoolIntact => Exclusive
  OBVIOUS
<1> QED BY <1>1, ProtectedPool, PTL

-----------------------------------------------------------------------------
(* The timers of the tcpip thread. *)

\* A non-empty set of numbers has a least element.
LEMMA LeastNat ==
  ASSUME NEW T \in SUBSET Nat, T # {}
  PROVE  \E x \in T : \A y \in T : x <= y
<1>1. \E x \in T : \A y \in T : ~(<<y, x>> \in OpToRel(<, Nat))
  BY NatLessThanWellFounded, WFMin, Zenon
<1>2. \A x, y \in Nat : y < x => <<y, x>> \in OpToRel(<, Nat)
  BY Zenon DEF OpToRel
<1>3. \E x \in T : \A y \in T : ~(y < x)
  <2>1. PICK x \in T : \A y \in T : ~(<<y, x>> \in OpToRel(<, Nat))
    BY <1>1, Zenon
  <2>2. x \in Nat /\ \A y \in T : y \in Nat
    OBVIOUS
  <2>3. \A y \in T : ~(y < x)
    BY <1>2, <2>1, <2>2, Zenon
  <2>4. QED
    BY <2>3
<1>4. QED
  BY <1>3

\* Induction up to n: a set that has 0, and with each number below n the next
\* one, has all of them.
LEMMA Climb ==
  ASSUME NEW n \in Nat, NEW T, 0 \in T, \A k \in 0 .. n - 1 : k \in T => k + 1 \in T
  PROVE  \A k \in 0 .. n : k \in T
<1> DEFINE U == {k \in 0 .. n : k \notin T}
<1> SUFFICES ASSUME U # {} PROVE FALSE
  OBVIOUS
<1>1. U \in SUBSET Nat
  OBVIOUS
<1>2. PICK x \in U : \A y \in U : x <= y
  BY <1>1, LeastNat, Zenon
<1>3. x \in 0 .. n /\ x \notin T /\ x # 0
  BY <1>2
<1>4. x - 1 \in 0 .. n - 1 /\ x - 1 \notin U
  BY <1>2, <1>3
<1>5. x - 1 \in T
  BY <1>3, <1>4
<1> QED BY <1>3, <1>4, <1>5

\* An entry of the list.
Entries == [h : Timers, time : Nat]

\* What a list is made of.
LEMMA EntriesAre ==
  ASSUME NEW l \in Seq(Entries)
  PROVE  /\ Len(l) \in Nat /\ DOMAIN l = 1 .. Len(l)
         /\ \A i \in 1 .. Len(l) :
              l[i] \in Entries /\ l[i].time \in Nat /\ l[i].h \in Timers
<1>1. Len(l) \in Nat /\ DOMAIN l = 1 .. Len(l) /\ \A i \in 1 .. Len(l) : l[i] \in Entries
  OBVIOUS
<1>2. \A e \in Entries : e.time \in Nat /\ e.h \in Timers
  BY DEF Entries
<1> QED BY <1>1, <1>2

\* The recursion by which the loop of sys_timeout goes on has a solution.
LEMMA RestExists ==
  ASSUME NEW l \in Seq(Entries), NEW x \in Int
  PROVE  \E f \in [0 .. Len(l) -> Int] :
           f = [i \in 0 .. Len(l) |-> IF i = 0 THEN x ELSE f[i - 1] - l[i].time]
<1> DEFINE G(f, k) == \A i \in 0 .. k : f[i] = IF i = 0 THEN x ELSE f[i - 1] - l[i].time
           T == {k \in 0 .. Len(l) : \E f \in [0 .. k -> Int] : G(f, k)}
<1>0. Len(l) \in Nat /\ \A i \in 1 .. Len(l) : l[i].time \in Nat
  BY EntriesAre
<1>1. 0 \in T
  <2> DEFINE z == [i \in 0 .. 0 |-> x]
  <2>1. z \in [0 .. 0 -> Int] /\ G(z, 0)
    OBVIOUS
  <2>2. 0 \in 0 .. Len(l)
    BY <1>0
  <2> HIDE DEF z, G
  <2> QED BY <2>1, <2>2
<1>2. ASSUME NEW k \in 0 .. Len(l) - 1, k \in T PROVE k + 1 \in T
  <2>1. PICK f \in [0 .. k -> Int] : G(f, k)
    BY <1>2
  <2> DEFINE g == [i \in 0 .. k + 1 |-> IF i = k + 1 THEN f[k] - l[k + 1].time ELSE f[i]]
  <2>2. l[k + 1].time \in Nat /\ f[k] \in Int
    BY <1>0
  <2>3. g \in [0 .. k + 1 -> Int]
    BY <2>2
  <2>4. G(g, k + 1)
    <3> SUFFICES ASSUME NEW i \in 0 .. k + 1
                 PROVE  g[i] = IF i = 0 THEN x ELSE g[i - 1] - l[i].time
      OBVIOUS
    <3>1. CASE i = k + 1
      BY <3>1
    <3>2. CASE i # k + 1
      <4>1. i \in 0 .. k /\ f[i] = IF i = 0 THEN x ELSE f[i - 1] - l[i].time
        BY <2>1, <3>2
      <4>2. g[i] = f[i] /\ (i # 0 => g[i - 1] = f[i - 1])
        BY <4>1
      <4> QED BY <4>1, <4>2
    <3> QED BY <3>1, <3>2
  <2> HIDE DEF g, G
  <2>5. k + 1 \in 0 .. Len(l)
    BY <1>0
  <2> QED BY <2>3, <2>4, <2>5
<1>3. Len(l) \in T
  <2> HIDE DEF T
  <2>1. \A k \in 0 .. Len(l) : k \in T
    BY <1>0, <1>1, <1>2, Climb
  <2> QED BY <1>0, <2>1
<1>4. PICK f \in [0 .. Len(l) -> Int] : G(f, Len(l))
  BY <1>3
<1>5. f = [i \in 0 .. Len(l) |-> IF i = 0 THEN x ELSE f[i - 1] - l[i].time]
  BY <1>4
<1> QED BY <1>5

\* Rest follows its recursion.
LEMMA RestIs ==
  ASSUME NEW l \in Seq(Entries), NEW x \in Int
  PROVE  /\ Rest(l, x)[0] = x
         /\ \A i \in 1 .. Len(l) : Rest(l, x)[i] = Rest(l, x)[i - 1] - l[i].time
<1> DEFINE E(f) == f = [i \in 0 .. Len(l) |-> IF i = 0 THEN x ELSE f[i - 1] - l[i].time]
           w == Rest(l, x)
<1>1. \E f : E(f)
  <2>1. PICK f \in [0 .. Len(l) -> Int] : E(f)
    BY RestExists
  <2> HIDE DEF E
  <2> QED BY <2>1
<1>2. w = CHOOSE f : E(f)
  BY DEF Rest
<1>3. E(w)
  <2> HIDE DEF E, w
  <2> QED BY <1>1, <1>2
<1> HIDE DEF w
<1>4. w[0] = x /\ \A i \in 1 .. Len(l) : w[i] = w[i - 1] - l[i].time
  <2>1. Len(l) \in Nat
    OBVIOUS
  <2>2. w = [i \in 0 .. Len(l) |-> IF i = 0 THEN x ELSE w[i - 1] - l[i].time]
    BY <1>3
  <2>3. \A i \in 0 .. Len(l) : w[i] = IF i = 0 THEN x ELSE w[i - 1] - l[i].time
    BY <2>2
  <2> QED BY <2>1, <2>3
<1> QED BY <1>4 DEF w

\* What is left of a time does not grow along the list.
LEMMA RestFalls ==
  ASSUME NEW l \in Seq(Entries), NEW x \in Int
  PROVE  \A i \in 0 .. Len(l) :
           /\ Rest(l, x)[i] \in Int /\ Rest(l, x)[i] <= x
           /\ i # 0 => Rest(l, x)[i] <= Rest(l, x)[1]
<1> DEFINE w == Rest(l, x)
           T == {i \in 0 .. Len(l) : w[i] \in Int /\ w[i] <= x /\ (i # 0 => w[i] <= w[1])}
<1>0. Len(l) \in Nat /\ \A i \in 1 .. Len(l) : l[i].time \in Nat
  BY EntriesAre
<1>1. w[0] = x /\ \A i \in 1 .. Len(l) : w[i] = w[i - 1] - l[i].time
  BY RestIs
<1> HIDE DEF w
<1>2. 0 \in T
  BY <1>0, <1>1
<1>3. ASSUME NEW i \in 0 .. Len(l) - 1, i \in T PROVE i + 1 \in T
  <2>1. i + 1 \in 1 .. Len(l) /\ (i + 1) - 1 = i /\ l[i + 1].time \in Nat /\ w[i] \in Int
    BY <1>0, <1>3
  <2>2. w[i + 1] = w[i] - l[i + 1].time
    BY <1>1, <2>1
  <2>3. w[i] <= x /\ (i # 0 => w[i] <= w[1])
    BY <1>3
  <2>4. CASE i = 0
    BY <2>1, <2>2, <2>3, <2>4
  <2>5. CASE i # 0
    <3>1. w[1] \in Int
      <4>1. 1 \in 1 .. Len(l) /\ 1 - 1 = 0
        BY <1>0, <2>1
      <4>2. w[1] = w[0] - l[1].time
        BY <1>1, <4>1
      <4> QED BY <1>0, <1>1, <4>1, <4>2
    <3> QED BY <2>1, <2>2, <2>3, <2>5, <3>1
  <2> QED BY <2>4, <2>5
<1>4. \A i \in 0 .. Len(l) : i \in T
  <2> HIDE DEF T
  <2> QED BY <1>0, <1>2, <1>3, Climb
<1> QED BY <1>4 DEF w

\* The loop of sys_timeout ends at an entry, and up to there what is left of the
\* time is not less than the times of the entries.
LEMMA LoopEnds ==
  ASSUME NEW l \in Seq(Entries), l # <<>>, NEW x \in Int, l[1].time <= x
  PROVE  LET rest == Rest(l, x)
             n == Before(l, rest)
         IN  /\ n \in 1 .. Len(l)
             /\ n = Len(l) \/ l[n + 1].time > rest[n]
             /\ rest[n] >= 0
             /\ \A i \in 1 .. n : l[i].time <= x
<1> DEFINE w == Rest(l, x)
           Ends(i) == i = Len(l) \/ l[i + 1].time > w[i]
           T == {i \in 1 .. Len(l) : Ends(i)}
           n == Before(l, w)
<1>0. Len(l) \in Nat /\ Len(l) >= 1 /\ \A i \in 1 .. Len(l) : l[i].time \in Nat
  <2>1. Len(l) \in Nat /\ Len(l) # 0
    OBVIOUS
  <2> QED BY <2>1, EntriesAre
<1>1. w[0] = x /\ \A i \in 1 .. Len(l) : w[i] = w[i - 1] - l[i].time
  BY RestIs
<1>2. \A i \in 0 .. Len(l) : w[i] \in Int /\ w[i] <= x
  BY RestFalls
<1> HIDE DEF w
<1>3. PICK b \in T : \A y \in T : b <= y
  <2>1. Len(l) \in T /\ T \in SUBSET Nat
    BY <1>0
  <2> HIDE DEF T
  <2> QED BY <2>1, LeastNat
<1>4. \E i \in 1 .. Len(l) : Ends(i) /\ \A j \in 1 .. i - 1 : l[j + 1].time <= w[j]
  <2>1. b \in 1 .. Len(l) /\ Ends(b)
    BY <1>3
  <2>2. ASSUME NEW j \in 1 .. b - 1 PROVE l[j + 1].time <= w[j]
    <3>1. j \in 1 .. Len(l) /\ j < b /\ j + 1 \in 1 .. Len(l)
      BY <1>0, <2>1
    <3>2. j \notin T
      BY <1>3, <3>1
    <3>3. ~(l[j + 1].time > w[j]) /\ l[j + 1].time \in Nat /\ w[j] \in Int
      BY <1>0, <1>2, <3>1, <3>2
    <3> QED BY <3>3
  <2> QED BY <2>1, <2>2
<1>5. n \in 1 .. Len(l) /\ Ends(n) /\ \A j \in 1 .. n - 1 : l[j + 1].time <= w[j]
  BY <1>4 DEF Before
<1> HIDE DEF n
<1>6. ASSUME NEW i \in 1 .. n PROVE l[i].time <= w[i - 1]
  <2>1. CASE i = 1
    BY <1>1, <2>1
  <2>2. CASE i # 1
    <3>1. i - 1 \in 1 .. n - 1 /\ (i - 1) + 1 = i
      BY <1>0, <1>5, <2>2
    <3> QED BY <1>5, <3>1
  <2> QED BY <2>1, <2>2
<1>7. w[n] >= 0
  <2>1. w[n] = w[n - 1] - l[n].time /\ n - 1 \in 0 .. Len(l) /\ n \in 1 .. n
    BY <1>0, <1>1, <1>5
  <2>2. l[n].time <= w[n - 1] /\ l[n].time \in Nat /\ w[n - 1] \in Int
    BY <1>0, <1>2, <1>5, <1>6, <2>1
  <2>3. \A a \in Int, t \in Nat : t <= a => a - t >= 0
    OBVIOUS
  <2>4. w[n - 1] - l[n].time >= 0
    BY <2>2, <2>3
  <2> QED BY <2>1, <2>4
<1>8. ASSUME NEW i \in 1 .. n PROVE l[i].time <= x
  <2>1. i \in 1 .. Len(l) /\ i - 1 \in 0 .. Len(l)
    BY <1>0, <1>5
  <2>2. l[i].time <= w[i - 1] /\ w[i - 1] <= x /\ w[i - 1] \in Int /\ l[i].time \in Nat
    BY <1>0, <1>2, <1>6, <2>1
  <2> QED BY <2>2
<1> QED BY <1>5, <1>7, <1>8 DEF n, w

\* m is l with h behind its first n entries.
Extends(m, l, n, h, time, less) ==
  /\ m \in Seq(Entries) /\ Len(m) = Len(l) + 1 /\ DOMAIN m = 1 .. Len(l) + 1
  /\ \A i \in 1 .. n : m[i] = l[i]
  /\ m[n + 1].h = h /\ m[n + 1].time = time
  /\ \A i \in n + 1 .. Len(l) : m[i + 1].h = l[i].h
  /\ n < Len(l) => m[n + 2].time = l[n + 1].time - less
  /\ \A i \in n + 2 .. Len(l) : m[i + 1].time = l[i].time

\* What an insertion does, entry by entry.
LEMMA InsertedIs ==
  ASSUME NEW l \in Seq(Entries), NEW n \in 0 .. Len(l), NEW h \in Timers,
         NEW time \in Nat, NEW less \in Nat, n < Len(l) => less <= l[n + 1].time
  PROVE  Extends(Inserted(l, n, h, time, less), l, n, h, time, less)
<1> DEFINE E(i) == IF i <= n THEN l[i]
                   ELSE IF i = n + 1 THEN [h |-> h, time |-> time]
                   ELSE IF i = n + 2 THEN [h |-> l[i - 1].h, time |-> l[i - 1].time - less]
                   ELSE l[i - 1]
           m == Inserted(l, n, h, time, less)
<1>0. /\ Len(l) \in Nat /\ n \in Nat /\ n <= Len(l)
      /\ \A i \in 1 .. Len(l) : l[i] \in Entries /\ l[i].time \in Nat /\ l[i].h \in Timers
  BY EntriesAre
<1>1. m = [i \in 1 .. Len(l) + 1 |-> E(i)]
  BY DEF Inserted
<1> HIDE DEF m
<1>2. ASSUME NEW i \in 1 .. n PROVE i \in 1 .. Len(l) + 1 /\ E(i) = l[i] /\ E(i) \in Entries
  BY <1>0
<1>3. n + 1 \in 1 .. Len(l) + 1 /\ E(n + 1) = [h |-> h, time |-> time] /\ E(n + 1) \in Entries
  <2>1. n + 1 \in 1 .. Len(l) + 1 /\ ~(n + 1 <= n)
    BY <1>0
  <2>2. [h |-> h, time |-> time] \in Entries
    BY DEF Entries
  <2> QED BY <2>1, <2>2
<1>4. n < Len(l) =>
        /\ n + 2 \in 1 .. Len(l) + 1
        /\ E(n + 2) = [h |-> l[n + 1].h, time |-> l[n + 1].time - less] /\ E(n + 2) \in Entries
  <2> SUFFICES ASSUME n < Len(l)
               PROVE /\ n + 2 \in 1 .. Len(l) + 1
                     /\ E(n + 2) = [h |-> l[n + 1].h, time |-> l[n + 1].time - less]
                     /\ E(n + 2) \in Entries
    OBVIOUS
  <2>1. n + 2 \in 1 .. Len(l) + 1 /\ ~(n + 2 <= n) /\ n + 2 # n + 1 /\ (n + 2) - 1 = n + 1
        /\ n + 1 \in 1 .. Len(l)
    BY <1>0
  <2>2. l[n + 1].h \in Timers /\ l[n + 1].time - less \in Nat
    BY <1>0, <2>1
  <2>3. [h |-> l[n + 1].h, time |-> l[n + 1].time - less] \in Entries
    BY <2>2 DEF Entries
  <2> QED BY <2>1, <2>3
<1>5. ASSUME NEW i \in n + 2 .. Len(l)
      PROVE  i + 1 \in 1 .. Len(l) + 1 /\ E(i + 1) = l[i] /\ E(i + 1) \in Entries
  <2>1. i + 1 \in 1 .. Len(l) + 1 /\ ~(i + 1 <= n) /\ i + 1 # n + 1 /\ i + 1 # n + 2
        /\ (i + 1) - 1 = i /\ i \in 1 .. Len(l)
    BY <1>0
  <2> QED BY <1>0, <2>1
<1>6. ASSUME NEW i \in 1 .. Len(l) + 1 PROVE E(i) \in Entries
  <2>1. i \in 1 .. n \/ i = n + 1 \/ (i = n + 2 /\ n < Len(l)) \/ (i - 1 \in n + 2 .. Len(l) /\ (i - 1) + 1 = i)
    BY <1>0
  <2> HIDE DEF E
  <2> QED BY <1>2, <1>3, <1>4, <1>5, <2>1
<1> HIDE DEF E
<1>7. m \in Seq(Entries) /\ Len(m) = Len(l) + 1 /\ DOMAIN m = 1 .. Len(l) + 1
  BY <1>0, <1>1, <1>6
<1>8. \A i \in 1 .. n : m[i] = l[i]
  BY <1>1, <1>2
<1>9. m[n + 1].h = h /\ m[n + 1].time = time
  BY <1>1, <1>3
<1>10. n < Len(l) => m[n + 2].h = l[n + 1].h /\ m[n + 2].time = l[n + 1].time - less
  BY <1>1, <1>4
<1>11. \A i \in n + 2 .. Len(l) : m[i + 1] = l[i]
  BY <1>1, <1>5
<1>12. ASSUME NEW i \in n + 1 .. Len(l) PROVE m[i + 1].h = l[i].h
  <2>1. CASE i = n + 1
    <3>1. n < Len(l) /\ i + 1 = n + 2
      BY <1>0, <2>1
    <3> QED BY <1>10, <2>1, <3>1
  <2>2. CASE i # n + 1
    <3>1. i \in n + 2 .. Len(l)
      BY <1>0, <2>2
    <3> QED BY <1>11, <3>1
  <2> QED BY <2>1, <2>2
<1>13. Extends(m, l, n, h, time, less)
  BY <1>7, <1>8, <1>9, <1>10, <1>11, <1>12 DEF Extends
<1> QED BY <1>13 DEF m

\* The timers of a list; a list that has none twice; the times up to k; the
\* times added up.
TimersOf(l) == {l[i].h : i \in DOMAIN l}
Distinct(l) == \A i, j \in DOMAIN l : l[i].h = l[j].h => i = j
Gaps(l, k, x) == \A i, j \in DOMAIN l : i <= j /\ l[j].h = k => l[i].time <= x
Sums(l, f) == \A i \in 1 .. Len(l) - 1 : f[l[i + 1].h] = f[l[i].h] + l[i + 1].time

\* An insertion adds the timer to those of the list.
LEMMA InsertedTimers ==
  ASSUME NEW l \in Seq(Entries), NEW n \in 0 .. Len(l), NEW h \in Timers,
         NEW time, NEW less, NEW m, Extends(m, l, n, h, time, less)
  PROVE  /\ TimersOf(m) = TimersOf(l) \cup {h}
         /\ Distinct(l) /\ h \notin TimersOf(l) => Distinct(m)
<1> DEFINE Old(i) == IF i <= n THEN i ELSE i - 1
<1>0. Len(l) \in Nat /\ n \in Nat /\ n <= Len(l) /\ DOMAIN l = 1 .. Len(l)
  BY EntriesAre
<1>1. /\ m \in Seq(Entries) /\ Len(m) = Len(l) + 1
      /\ \A i \in 1 .. n : m[i] = l[i]
      /\ m[n + 1].h = h
      /\ \A i \in n + 1 .. Len(l) : m[i + 1].h = l[i].h
  BY DEF Extends
<1>2. DOMAIN m = 1 .. Len(l) + 1
  BY DEF Extends
<1>3. ASSUME NEW i \in DOMAIN m, i # n + 1
      PROVE  Old(i) \in DOMAIN l /\ m[i].h = l[Old(i)].h
  <2>1. CASE i <= n
    <3>1. i \in 1 .. n /\ Old(i) = i /\ i \in 1 .. Len(l)
      BY <1>0, <1>2, <2>1
    <3> QED BY <1>0, <1>1, <3>1
  <2>2. CASE ~(i <= n)
    <3>1. i - 1 \in n + 1 .. Len(l) /\ Old(i) = i - 1 /\ i - 1 \in 1 .. Len(l) /\ (i - 1) + 1 = i
      BY <1>0, <1>2, <1>3, <2>2
    <3> QED BY <1>0, <1>1, <3>1
  <2> QED BY <2>1, <2>2
<1>4. ASSUME NEW i \in DOMAIN l PROVE \E j \in DOMAIN m : m[j].h = l[i].h
  <2>1. CASE i <= n
    <3>1. i \in 1 .. n /\ i \in DOMAIN m
      BY <1>0, <1>2, <2>1
    <3> QED BY <1>1, <3>1
  <2>2. CASE ~(i <= n)
    <3>1. i \in n + 1 .. Len(l) /\ i + 1 \in DOMAIN m
      BY <1>0, <1>2, <2>2
    <3> QED BY <1>1, <3>1
  <2> QED BY <2>1, <2>2
<1>5. n + 1 \in DOMAIN m
  BY <1>0, <1>2
<1>6. TimersOf(m) = TimersOf(l) \cup {h}
  <2>1. ASSUME NEW e \in TimersOf(m) PROVE e \in TimersOf(l) \cup {h}
    <3>1. PICK i \in DOMAIN m : e = m[i].h
      BY <2>1 DEF TimersOf
    <3>2. CASE i = n + 1
      BY <1>1, <3>1, <3>2
    <3>3. CASE i # n + 1
      BY <1>3, <3>1, <3>3 DEF TimersOf
    <3> QED BY <3>2, <3>3
  <2>2. ASSUME NEW e \in TimersOf(l) PROVE e \in TimersOf(m)
    <3>1. PICK i \in DOMAIN l : e = l[i].h
      BY <2>2 DEF TimersOf
    <3> QED BY <1>4, <3>1 DEF TimersOf
  <2>3. h \in TimersOf(m)
    BY <1>1, <1>5 DEF TimersOf
  <2> QED BY <2>1, <2>2, <2>3
<1>7. ASSUME Distinct(l), h \notin TimersOf(l) PROVE Distinct(m)
  <2> SUFFICES ASSUME NEW i \in DOMAIN m, NEW j \in DOMAIN m, m[i].h = m[j].h
               PROVE  i = j
    BY DEF Distinct
  <2>1. ASSUME NEW e \in DOMAIN m, e # n + 1 PROVE m[e].h # h
    BY <1>3, <1>7, <2>1 DEF TimersOf
  <2>2. CASE i = n + 1 \/ j = n + 1
    BY <1>1, <2>1, <2>2
  <2>3. CASE i # n + 1 /\ j # n + 1
    <3>1. Old(i) \in DOMAIN l /\ Old(j) \in DOMAIN l /\ l[Old(i)].h = l[Old(j)].h
      BY <1>3, <2>3
    <3>2. Old(i) = Old(j)
      BY <1>7, <3>1 DEF Distinct
    <3> QED BY <1>0, <1>2, <2>3, <3>2
  <2> QED BY <2>2, <2>3
<1> QED BY <1>6, <1>7

\* An insertion keeps short the times up to k.
LEMMA InsertedGaps ==
  ASSUME NEW l \in Seq(Entries), NEW n \in 0 .. Len(l), NEW h \in Timers,
         NEW time \in Nat, NEW less \in Nat, NEW m, Extends(m, l, n, h, time, less),
         n < Len(l) => less <= l[n + 1].time, NEW k, NEW x \in Nat,
         \/ /\ h = k /\ k \notin TimersOf(l)
            /\ \A i \in 1 .. n : l[i].time <= x
            /\ time <= x
         \/ /\ h # k /\ Gaps(l, k, x)
            /\ n < Len(l) => time <= l[n + 1].time
  PROVE  Gaps(m, k, x)
<1>0. /\ Len(l) \in Nat /\ n \in Nat /\ n <= Len(l) /\ DOMAIN l = 1 .. Len(l)
      /\ \A i \in 1 .. Len(l) : l[i].time \in Nat
  BY EntriesAre
<1>1. /\ m \in Seq(Entries) /\ Len(m) = Len(l) + 1
      /\ \A i \in 1 .. n : m[i] = l[i]
      /\ m[n + 1].h = h /\ m[n + 1].time = time
      /\ \A i \in n + 1 .. Len(l) : m[i + 1].h = l[i].h
      /\ n < Len(l) => m[n + 2].time = l[n + 1].time - less
      /\ \A i \in n + 2 .. Len(l) : m[i + 1].time = l[i].time
  BY DEF Extends
<1>2. DOMAIN m = 1 .. Len(l) + 1
  BY DEF Extends
<1> SUFFICES ASSUME NEW i \in DOMAIN m, NEW j \in DOMAIN m, i <= j, m[j].h = k
             PROVE  m[i].time <= x
  BY DEF Gaps
<1>3. CASE h = k /\ k \notin TimersOf(l) /\ (\A e \in 1 .. n : l[e].time <= x) /\ time <= x
  <2>1. j = n + 1
    <3>1. CASE j <= n
      <4>1. j \in 1 .. n /\ j \in DOMAIN l
        BY <1>0, <1>2, <3>1
      <4>2. m[j] = l[j]
        BY <1>1, <4>1
      <4>3. l[j].h = k
        BY <4>2
      <4> QED BY <1>3, <4>1, <4>3 DEF TimersOf
    <3>2. CASE j > n + 1
      <4>1. j - 1 \in n + 1 .. Len(l) /\ j - 1 \in DOMAIN l /\ (j - 1) + 1 = j
        BY <1>0, <1>2, <3>2
      <4>2. l[j - 1].h = k
        BY <1>1, <4>1
      <4> QED BY <1>3, <4>1, <4>2 DEF TimersOf
    <3> QED BY <1>0, <1>2, <3>1, <3>2
  <2>2. i = n + 1 \/ i \in 1 .. n
    BY <1>0, <1>2, <2>1
  <2> QED BY <1>1, <1>3, <2>2
<1>4. CASE h # k /\ Gaps(l, k, x) /\ (n < Len(l) => time <= l[n + 1].time)
  <2>1. j # n + 1
    BY <1>1, <1>4
  <2>2. CASE j <= n
    <3>1. j \in 1 .. n /\ i \in 1 .. n /\ j \in DOMAIN l /\ i \in DOMAIN l
      BY <1>0, <1>2, <2>2
    <3> QED BY <1>1, <1>4, <3>1 DEF Gaps
  <2>3. CASE j > n + 1
    <3>1. /\ j - 1 \in n + 1 .. Len(l) /\ j - 1 \in DOMAIN l /\ (j - 1) + 1 = j
          /\ n < Len(l) /\ n + 1 \in DOMAIN l /\ n + 1 <= j - 1
      BY <1>0, <1>2, <2>3
    <3>2. l[j - 1].h = k
      BY <1>1, <3>1
    <3>3. \A e \in DOMAIN l : e <= j - 1 => l[e].time <= x
      BY <1>4, <3>1, <3>2 DEF Gaps
    <3>4. l[n + 1].time <= x /\ l[n + 1].time \in Nat
      BY <1>0, <3>1, <3>3
    <3>5. CASE i <= n
      <4>1. i \in 1 .. n /\ i \in DOMAIN l /\ i <= j - 1
        BY <1>0, <1>2, <2>3, <3>5
      <4> QED BY <1>1, <3>3, <4>1
    <3>6. CASE i = n + 1
      BY <1>1, <1>4, <3>1, <3>4, <3>6, SMTT(20)
    <3>7. CASE i = n + 2
      <4>1. m[i].time = l[n + 1].time - less
        BY <1>1, <3>1, <3>7
      <4>2. \A a \in Nat : a <= x => a - less <= x
        OBVIOUS
      <4> QED BY <3>4, <4>1, <4>2
    <3>8. CASE i > n + 2
      <4>1. i - 1 \in n + 2 .. Len(l) /\ i - 1 \in DOMAIN l /\ i - 1 <= j - 1 /\ (i - 1) + 1 = i
        BY <1>0, <1>2, <3>8, SMTT(20)
      <4> QED BY <1>1, <3>3, <4>1
    <3> QED BY <1>0, <1>2, <3>5, <3>6, <3>7, <3>8
  <2> QED BY <1>0, <1>2, <2>1, <2>2, <2>3
<1> QED BY <1>3, <1>4

\* After an insertion the times still add up.
LEMMA InsertedSums ==
  ASSUME NEW l \in Seq(Entries), l # <<>>, NEW n \in 0 .. Len(l), NEW h \in Timers,
         NEW time \in Nat, NEW less \in Nat, NEW m, Extends(m, l, n, h, time, less),
         n < Len(l) => less <= l[n + 1].time,
         NEW f \in [Timers -> Int], Sums(l, f),
         n > 0 => f[h] = f[l[n].h] + time /\ less = time,
         n = 0 => f[l[1].h] = f[h] + (l[1].time - less)
  PROVE  Sums(m, f)
<1>0. /\ Len(l) \in Nat /\ Len(l) > 0 /\ n \in Nat /\ n <= Len(l) /\ DOMAIN l = 1 .. Len(l)
      /\ \A i \in 1 .. Len(l) : l[i].time \in Nat /\ l[i].h \in Timers
  <2>1. Len(l) \in Nat /\ Len(l) # 0
    OBVIOUS
  <2> QED BY <2>1, EntriesAre
<1>1. /\ m \in Seq(Entries) /\ Len(m) = Len(l) + 1
      /\ \A i \in 1 .. n : m[i] = l[i]
      /\ m[n + 1].h = h /\ m[n + 1].time = time
      /\ \A i \in n + 1 .. Len(l) : m[i + 1].h = l[i].h
      /\ n < Len(l) => m[n + 2].time = l[n + 1].time - less
      /\ \A i \in n + 2 .. Len(l) : m[i + 1].time = l[i].time
  BY DEF Extends
<1> SUFFICES ASSUME NEW i \in 1 .. Len(l)
             PROVE  f[m[i + 1].h] = f[m[i].h] + m[i + 1].time
  BY <1>0, <1>1 DEF Sums
<1>2. \A j \in 1 .. Len(l) : f[l[j].h] \in Int
  BY <1>0
<1>3. CASE i < n
  <2>1. i \in 1 .. n /\ i + 1 \in 1 .. n /\ i \in 1 .. Len(l) - 1
    BY <1>0, <1>3
  <2> QED BY <1>1, <2>1 DEF Sums
<1>4. CASE i = n
  <2>1. n > 0 /\ i \in 1 .. n
    BY <1>0, <1>4
  <2> QED BY <1>1, <1>4, <2>1
<1>5. CASE i = n + 1
  <2>1. n < Len(l) /\ n + 1 \in n + 1 .. Len(l) /\ n + 1 \in 1 .. Len(l) /\ i + 1 = n + 2
        /\ (n + 1) + 1 = n + 2
    BY <1>0, <1>5
  <2>2. m[i].h = h /\ m[i + 1].h = l[n + 1].h /\ m[i + 1].time = l[n + 1].time - less
    BY <1>1, <1>5, <2>1
  <2>3. CASE n = 0
    BY <2>1, <2>2, <2>3
  <2>4. CASE n > 0
    <3>1. n \in 1 .. Len(l) - 1
      BY <1>0, <2>1, <2>4
    <3>2. f[l[n + 1].h] = f[l[n].h] + l[n + 1].time
      BY <3>1 DEF Sums
    <3>3. f[l[n].h] \in Int /\ l[n + 1].time \in Nat /\ f[h] = f[l[n].h] + time /\ less = time
      BY <1>0, <1>2, <2>1, <2>4, <3>1
    <3>4. PICK a \in Int : a = f[l[n].h]
      BY <3>3
    <3>5. PICK b \in Nat : b = l[n + 1].time
      BY <3>3
    <3>6. a + b = (a + time) + (b - time)
      OBVIOUS
    <3>7. f[m[i + 1].h] = a + b /\ f[m[i].h] = a + time /\ m[i + 1].time = b - time
      BY <2>2, <3>2, <3>3, <3>4, <3>5
    <3> QED BY <3>6, <3>7
  <2> QED BY <1>0, <2>3, <2>4
<1>6. CASE i > n + 1
  <2>1. /\ i - 1 \in n + 1 .. Len(l) /\ i \in n + 2 .. Len(l) /\ i \in n + 1 .. Len(l)
        /\ (i - 1) + 1 = i /\ i - 1 \in 1 .. Len(l) - 1
    BY ONLY <1>0, <1>6, i \in 1 .. Len(l)
  <2>2. m[i].h = l[i - 1].h /\ m[i + 1].h = l[i].h /\ m[i + 1].time = l[i].time
    BY <1>1, <2>1
  <2>3. f[l[i].h] = f[l[i - 1].h] + l[i].time
    BY <2>1 DEF Sums
  <2> QED BY <2>2, <2>3
<1> QED BY <1>0, <1>3, <1>4, <1>5, <1>6

\* Where the times add up to f, the loop of sys_timeout finds how much later
\* than each entry the new timer expires.
LEMMA RestSums ==
  ASSUME NEW l \in Seq(Entries), l # <<>>, NEW since \in Nat, NEW msecs \in Nat,
         NEW f \in [Timers -> Int], Sums(l, f), f[l[1].h] = l[1].time - since
  PROVE  \A i \in 1 .. Len(l) : Rest(l, msecs + since)[i] = msecs - f[l[i].h]
<1> DEFINE w == Rest(l, msecs + since)
           T == {i \in 0 .. Len(l) - 1 : w[i + 1] = msecs - f[l[i + 1].h]}
<1>0. /\ Len(l) \in Nat /\ Len(l) > 0
      /\ \A i \in 1 .. Len(l) : l[i].time \in Nat /\ l[i].h \in Timers /\ f[l[i].h] \in Int
  <2>1. Len(l) \in Nat /\ Len(l) # 0
    OBVIOUS
  <2> QED BY <2>1, EntriesAre
<1>1. w[0] = msecs + since /\ \A i \in 1 .. Len(l) : w[i] = w[i - 1] - l[i].time
  BY RestIs
<1> HIDE DEF w
<1>2. 0 \in T
  <2>1. 1 \in 1 .. Len(l) /\ 0 \in 0 .. Len(l) - 1
    BY <1>0
  <2>2. w[1] = w[0] - l[1].time
    BY <1>1, <2>1
  <2>3. \A a \in Int : (msecs + since) - a = msecs - (a - since)
    OBVIOUS
  <2>4. w[1] = msecs - f[l[1].h]
    <3>1. l[1].time \in Int
      BY <1>0, <2>1
    <3>2. (msecs + since) - l[1].time = msecs - (l[1].time - since)
      BY <2>3, <3>1
    <3> QED BY <1>1, <2>2, <3>2
  <2> QED BY <2>1, <2>4
<1>3. ASSUME NEW i \in 0 .. (Len(l) - 1) - 1, i \in T PROVE i + 1 \in T
  <2>1. /\ i + 1 \in 1 .. Len(l) - 1 /\ i + 1 \in 0 .. Len(l) - 1 /\ i + 1 \in 1 .. Len(l)
        /\ (i + 1) + 1 \in 1 .. Len(l) /\ ((i + 1) + 1) - 1 = i + 1
    BY <1>0
  <2>2. w[(i + 1) + 1] = w[i + 1] - l[(i + 1) + 1].time
    BY <1>1, <2>1
  <2>3. f[l[(i + 1) + 1].h] = f[l[i + 1].h] + l[(i + 1) + 1].time
    BY <2>1 DEF Sums
  <2>4. w[i + 1] = msecs - f[l[i + 1].h]
    BY <1>3
  <2>5. f[l[i + 1].h] \in Int /\ l[(i + 1) + 1].time \in Nat
    BY <1>0, <2>1
  <2> QED BY <2>1, <2>2, <2>3, <2>4, <2>5
<1>4. \A i \in 0 .. Len(l) - 1 : i \in T
  <2> HIDE DEF T
  <2>1. Len(l) - 1 \in Nat
    BY <1>0
  <2> QED BY <1>2, <1>3, <2>1, Climb
<1>5. ASSUME NEW i \in 1 .. Len(l) PROVE w[i] = msecs - f[l[i].h]
  <2>1. i - 1 \in 0 .. Len(l) - 1 /\ (i - 1) + 1 = i
    BY <1>0
  <2> QED BY <1>4, <2>1
<1> QED BY <1>5 DEF w

\* Where sys_timeout puts a timer, and which times it writes.
Puts(l, since, msecs, h, n, time, less) ==
  /\ Extends(Enqueued(l, since, msecs, h), l, n, h, time, less)
  /\ n < Len(l) => less <= l[n + 1].time
  /\ time <= msecs + since
  /\ n = 0 => l[1].time > msecs /\ time = msecs + since /\ less = msecs
  /\ n > 0 => l[1].time <= msecs /\ less = time
  /\ \A i \in 1 .. n : l[i].time <= msecs + since
  /\ n > 0 /\ since <= l[1].time => time = Rest(l, msecs + since)[n]

\* sys_timeout inserts one entry, whose time is not greater than what is asked
\* for and which it takes from the next entry. It goes in front of the list only
\* when the first entry's time is greater than what is asked for.
LEMMA EnqueuedIs ==
  ASSUME NEW l \in Seq(Entries), l # <<>>, NEW since \in Nat, NEW msecs \in Nat,
         NEW h \in Timers
  PROVE  \E n \in 0 .. Len(l), time, less \in Nat : Puts(l, since, msecs, h, n, time, less)
<1>0. /\ Len(l) \in Nat /\ Len(l) > 0 /\ 1 \in 1 .. Len(l)
      /\ \A i \in 1 .. Len(l) : l[i].time \in Nat /\ l[i].h \in Timers
  <2>1. Len(l) \in Nat /\ Len(l) # 0
    OBVIOUS
  <2> QED BY <2>1, EntriesAre
<1>1. CASE l[1].time > msecs
  <2>1. Enqueued(l, since, msecs, h) = Inserted(l, 0, h, msecs + since, msecs)
    BY <1>1 DEF Enqueued, EnqueuedWhenFirst
  <2>2. 0 \in 0 .. Len(l) /\ msecs + since \in Nat /\ 0 + 1 = 1 /\ msecs <= l[1].time
    BY <1>0, <1>1
  <2>3. Extends(Inserted(l, 0, h, msecs + since, msecs), l, 0, h, msecs + since, msecs)
    BY <2>2, InsertedIs
  <2>4. Puts(l, since, msecs, h, 0, msecs + since, msecs)
    BY <1>1, <2>1, <2>2, <2>3 DEF Puts
  <2> QED BY <2>2, <2>4
<1>2. CASE ~(l[1].time > msecs)
  <2> DEFINE x == msecs + since
             w == Rest(l, x)
             n == Before(l, w)
             time == IF n = Len(l) /\ w[n] > msecs THEN msecs + l[1].time ELSE w[n]
  <2>1. Enqueued(l, since, msecs, h) = Inserted(l, n, h, time, time)
    BY <1>2 DEF Enqueued, EnqueuedBehind
  <2>2. l[1].time \in Nat /\ l[1].time <= msecs /\ x \in Nat /\ x \in Int /\ l[1].time <= x
    BY <1>0, <1>2
  <2>3. /\ n \in 1 .. Len(l)
        /\ n = Len(l) \/ l[n + 1].time > w[n]
        /\ w[n] >= 0
        /\ \A i \in 1 .. n : l[i].time <= x
    BY <2>2, LoopEnds
  <2>4. \A i \in 0 .. Len(l) : w[i] \in Int /\ w[i] <= x /\ (i # 0 => w[i] <= w[1])
    BY <2>2, RestFalls
  <2>5. w[1] = x - l[1].time
    <3>1. w[0] = x /\ \A i \in 1 .. Len(l) : w[i] = w[i - 1] - l[i].time
      BY <2>2, RestIs
    <3>2. 1 - 1 = 0
      OBVIOUS
    <3> HIDE DEF w, x
    <3> QED BY <1>0, <3>1, <3>2
  <2> HIDE DEF w, n
  <2>6. n \in 0 .. Len(l) /\ n # 0 /\ n > 0 /\ w[n] \in Nat /\ w[n] <= x /\ w[n] <= x - l[1].time
    BY <1>0, <2>3, <2>4, <2>5
  <2>7. time \in Nat /\ time <= x /\ (since <= l[1].time => time = w[n])
    <3> HIDE DEF x
    <3>1. CASE n = Len(l) /\ w[n] > msecs
      <4>1. time = msecs + l[1].time
        BY <3>1
      <4>2. l[1].time < since
        BY <2>2, <2>6, <3>1 DEF x
      <4> QED BY <2>2, <4>1, <4>2 DEF x
    <3>2. CASE ~(n = Len(l) /\ w[n] > msecs)
      BY <2>6, <3>2
    <3> QED BY <3>1, <3>2
  <2>8. n < Len(l) => time <= l[n + 1].time
    <3> SUFFICES ASSUME n < Len(l) PROVE time <= l[n + 1].time
      OBVIOUS
    <3>1. n # Len(l) /\ n + 1 \in 1 .. Len(l)
      BY <1>0, <2>6
    <3>2. time = w[n] /\ l[n + 1].time > w[n] /\ l[n + 1].time \in Nat
      BY <1>0, <2>3, <3>1
    <3> QED BY <2>6, <3>2
  <2> HIDE DEF time
  <2>9. Extends(Inserted(l, n, h, time, time), l, n, h, time, time)
    BY <2>6, <2>7, <2>8, InsertedIs
  <2>10. Puts(l, since, msecs, h, n, time, time)
    BY <2>1, <2>2, <2>3, <2>6, <2>7, <2>8, <2>9 DEF Puts, w
  <2> QED BY <2>6, <2>7, <2>10
<1> QED BY <1>1, <1>2

\* The first entry of an empty list.
LEMMA EnqueuedAlone ==
  ASSUME NEW since, NEW msecs \in Nat, NEW h \in Timers
  PROVE  Extends(Enqueued(<<>>, since, msecs, h), <<>>, 0, h, msecs, 0)
<1>1. <<>> \in Seq(Entries) /\ Len(<<>>) = 0 /\ 0 \in 0 .. 0
  OBVIOUS
<1>2. Enqueued(<<>>, since, msecs, h) = Inserted(<<>>, 0, h, msecs, 0)
  BY DEF Enqueued
<1>3. 0 \in 0 .. Len(<<>>) /\ ~(0 < Len(<<>>)) /\ 0 \in Nat
  BY <1>1
<1>4. Extends(Inserted(<<>>, 0, h, msecs, 0), <<>>, 0, h, msecs, 0)
  BY <1>1, <1>3, InsertedIs
<1> QED BY <1>2, <1>4

\* m is a list with h besides the timers of l.
Adds(m, l, h) ==
  /\ m \in Seq(Entries) /\ Len(m) = Len(l) + 1
  /\ TimersOf(m) = TimersOf(l) \cup {h}
  /\ Distinct(l) /\ h \notin TimersOf(l) => Distinct(m)

\* sys_timeout adds the timer to the list.
LEMMA EnqueuedTimers ==
  ASSUME NEW l \in Seq(Entries), l # <<>>, NEW since \in Nat, NEW msecs \in Nat,
         NEW h \in Timers
  PROVE  Adds(Enqueued(l, since, msecs, h), l, h)
<1>1. PICK n \in 0 .. Len(l), time \in Nat, less \in Nat :
        Puts(l, since, msecs, h, n, time, less)
  BY EnqueuedIs
<1> DEFINE m == Enqueued(l, since, msecs, h)
<1>2. Extends(m, l, n, h, time, less)
  BY <1>1 DEF Puts
<1> HIDE DEF m
<1>3. TimersOf(m) = TimersOf(l) \cup {h} /\ (Distinct(l) /\ h \notin TimersOf(l) => Distinct(m))
  BY <1>2, InsertedTimers
<1>4. m \in Seq(Entries) /\ Len(m) = Len(l) + 1
  BY <1>2 DEF Extends
<1> QED BY <1>3, <1>4 DEF Adds, m

\* m begins with the first entry of l, or with h where that entry is later.
Begins(m, l, since, msecs, h) ==
  IF l[1].time > msecs THEN m[1].h = h /\ m[1].time = msecs + since ELSE m[1] = l[1]

\* The first entry stays, unless its time is greater than what is asked for.
LEMMA EnqueuedFirst ==
  ASSUME NEW l \in Seq(Entries), l # <<>>, NEW since \in Nat, NEW msecs \in Nat,
         NEW h \in Timers
  PROVE  Begins(Enqueued(l, since, msecs, h), l, since, msecs, h)
<1>1. PICK n \in 0 .. Len(l), time \in Nat, less \in Nat :
        Puts(l, since, msecs, h, n, time, less)
  BY EnqueuedIs
<1> DEFINE m == Enqueued(l, since, msecs, h)
<1>2. /\ Extends(m, l, n, h, time, less)
      /\ n = 0 => l[1].time > msecs /\ time = msecs + since
      /\ n > 0 => l[1].time <= msecs
  BY <1>1 DEF Puts
<1> HIDE DEF m
<1>3. (\A i \in 1 .. n : m[i] = l[i]) /\ m[n + 1].h = h /\ m[n + 1].time = time
  BY <1>2 DEF Extends
<1>4. Len(l) \in Nat /\ Len(l) # 0
  OBVIOUS
<1>5. l[1].time \in Nat
  BY <1>4, EntriesAre
<1>6. CASE n = 0
  BY <1>2, <1>3, <1>6 DEF Begins, m
<1>7. CASE n # 0
  <2>1. n > 0 /\ 1 \in 1 .. n
    BY <1>4, <1>7
  <2>2. ~(l[1].time > msecs) /\ m[1] = l[1]
    BY <1>2, <1>3, <1>5, <2>1
  <2> QED BY <2>2 DEF Begins, m
<1> QED BY <1>6, <1>7

\* The entry behind the first one of l stays behind it in m, or h comes between.
Follows(m, l, h) ==
  Len(l) > 1 => m[2].h = l[2].h \/ (m[2].h = h /\ m[3].h = l[2].h)

\* Behind the first entry sys_timeout puts nothing but the timer.
LEMMA EnqueuedSecond ==
  ASSUME NEW l \in Seq(Entries), l # <<>>, NEW since \in Nat, NEW msecs \in Nat,
         NEW h \in Timers, ~(l[1].time > msecs)
  PROVE  Follows(Enqueued(l, since, msecs, h), l, h)
<1>1. PICK n \in 0 .. Len(l), time \in Nat, less \in Nat :
        Puts(l, since, msecs, h, n, time, less)
  BY EnqueuedIs
<1> DEFINE m == Enqueued(l, since, msecs, h)
<1>2. Extends(m, l, n, h, time, less) /\ n # 0
  BY <1>1 DEF Puts
<1> HIDE DEF m
<1>3. /\ \A i \in 1 .. n : m[i] = l[i]
      /\ m[n + 1].h = h
      /\ \A i \in n + 1 .. Len(l) : m[i + 1].h = l[i].h
  BY <1>2 DEF Extends
<1>4. Len(l) \in Nat /\ n \in Nat /\ n >= 1
  BY <1>2
<1>5. ASSUME Len(l) > 1 PROVE m[2].h = l[2].h \/ (m[2].h = h /\ m[3].h = l[2].h)
  <2>1. CASE n = 1
    <3>1. 2 \in n + 1 .. Len(l) /\ n + 1 = 2 /\ 2 + 1 = 3
      BY <1>4, <1>5, <2>1
    <3> QED BY <1>3, <3>1
  <2>2. CASE n # 1
    <3>1. 2 \in 1 .. n
      BY <1>4, <2>2
    <3> QED BY <1>3, <3>1
  <2> QED BY <2>1, <2>2
<1> QED BY <1>5 DEF Follows, m

\* It keeps short the times up to k.
LEMMA EnqueuedGaps ==
  ASSUME NEW l \in Seq(Entries), l # <<>>, NEW since \in Nat, NEW msecs \in Nat,
         NEW h \in Timers, NEW k, NEW x \in Nat,
         \/ h = k /\ k \notin TimersOf(l) /\ msecs + since <= x
         \/ h # k /\ Gaps(l, k, x) /\ (l[1].time > msecs => since = 0)
  PROVE  Gaps(Enqueued(l, since, msecs, h), k, x)
<1>0. /\ Len(l) \in Nat /\ Len(l) > 0
      /\ \A i \in 1 .. Len(l) : l[i].time \in Nat /\ l[i].h \in Timers
  <2>1. Len(l) \in Nat /\ Len(l) # 0
    OBVIOUS
  <2> QED BY <2>1, EntriesAre
<1>1. PICK n \in 0 .. Len(l), time \in Nat, less \in Nat :
        Puts(l, since, msecs, h, n, time, less)
  BY EnqueuedIs
<1> DEFINE m == Enqueued(l, since, msecs, h)
<1>2. /\ Extends(m, l, n, h, time, less)
      /\ n < Len(l) => less <= l[n + 1].time
      /\ time <= msecs + since
      /\ n = 0 => l[1].time > msecs /\ time = msecs + since
      /\ n > 0 => less = time
      /\ \A i \in 1 .. n : l[i].time <= msecs + since
  BY <1>1 DEF Puts
<1> HIDE DEF m
<1>3. CASE h = k /\ k \notin TimersOf(l) /\ msecs + since <= x
  <2>1. time <= x
    BY <1>2, <1>3
  <2>2. ASSUME NEW i \in 1 .. n PROVE l[i].time <= x
    <3>1. l[i].time \in Nat /\ l[i].time <= msecs + since
      BY <1>0, <1>2
    <3> QED BY <1>3, <3>1
  <2>3. Gaps(m, k, x)
    BY <1>2, <1>3, <2>1, <2>2, InsertedGaps
  <2> QED BY <2>3 DEF m
<1>4. CASE h # k /\ Gaps(l, k, x) /\ (l[1].time > msecs => since = 0)
  <2>1. n < Len(l) => time <= l[n + 1].time
    <3>1. CASE n = 0
      <4>1. since = 0 /\ time = msecs + since /\ l[1].time > msecs
        BY <1>2, <1>4, <3>1
      <4>2. time = msecs /\ l[1].time \in Nat
        BY <1>0, <4>1
      <4> QED BY <3>1, <4>1, <4>2
    <3>2. CASE n # 0
      BY <1>0, <1>2, <3>2
    <3> QED BY <3>1, <3>2
  <2>2. Gaps(m, k, x)
    BY <1>2, <1>4, <2>1, InsertedGaps
  <2> QED BY <2>2 DEF m
<1> QED BY <1>3, <1>4

\* The times of l add up to f, the first one to first.
Due(l, f, first) == f[l[1].h] = first /\ Sums(l, f)

\* And the times still add up to when each timer expires.
LEMMA EnqueuedSums ==
  ASSUME NEW l \in Seq(Entries), l # <<>>, NEW since \in Nat, NEW msecs \in Nat,
         NEW h \in Timers, since <= l[1].time, l[1].time > msecs => since = 0,
         NEW f \in [Timers -> Int], Sums(l, f), f[l[1].h] = l[1].time - since, f[h] = msecs
  PROVE  Due(Enqueued(l, since, msecs, h), f, Enqueued(l, since, msecs, h)[1].time - since)
<1>0. /\ Len(l) \in Nat /\ Len(l) > 0 /\ 1 \in 1 .. Len(l)
      /\ \A i \in 1 .. Len(l) : l[i].time \in Nat /\ l[i].h \in Timers /\ f[l[i].h] \in Int
  <2>1. Len(l) \in Nat /\ Len(l) # 0
    OBVIOUS
  <2> QED BY <2>1, EntriesAre
<1>1. PICK n \in 0 .. Len(l), time \in Nat, less \in Nat :
        Puts(l, since, msecs, h, n, time, less)
  BY EnqueuedIs
<1> DEFINE m == Enqueued(l, since, msecs, h)
<1>2. /\ Extends(m, l, n, h, time, less)
      /\ n < Len(l) => less <= l[n + 1].time
      /\ n = 0 => l[1].time > msecs /\ less = msecs
      /\ n > 0 => less = time /\ time = Rest(l, msecs + since)[n]
  BY <1>1 DEF Puts
<1>3. n > 0 => f[h] = f[l[n].h] + time /\ less = time
  <2> SUFFICES ASSUME n > 0 PROVE f[h] = f[l[n].h] + time /\ less = time
    OBVIOUS
  <2>1. n \in 1 .. Len(l) /\ f[l[n].h] \in Int
    BY <1>0
  <2>2. \A i \in 1 .. Len(l) : Rest(l, msecs + since)[i] = msecs - f[l[i].h]
    BY RestSums
  <2>3. time = msecs - f[l[n].h]
    BY <1>2, <2>1, <2>2
  <2>4. \A a \in Int : msecs = a + (msecs - a)
    OBVIOUS
  <2>5. msecs = f[l[n].h] + time
    BY <2>1, <2>3, <2>4
  <2> QED BY <1>2, <2>5
<1>4. n = 0 => f[l[1].h] = f[h] + (l[1].time - less)
  <2> SUFFICES ASSUME n = 0 PROVE f[l[1].h] = f[h] + (l[1].time - less)
    OBVIOUS
  <2>1. less = msecs /\ since = 0 /\ l[1].time \in Int
    BY <1>0, <1>2
  <2>2. \A a \in Int : a - 0 = msecs + (a - msecs)
    OBVIOUS
  <2>3. l[1].time - 0 = msecs + (l[1].time - msecs)
    BY <2>1, <2>2
  <2> QED BY <2>1, <2>3
<1> HIDE DEF m
<1>5. Sums(m, f)
  BY <1>2, <1>3, <1>4, InsertedSums
<1>6. f[m[1].h] = m[1].time - since
  <2>1. Begins(m, l, since, msecs, h)
    BY EnqueuedFirst DEF m
  <2>2. CASE l[1].time > msecs
    BY <2>1, <2>2 DEF Begins
  <2>3. CASE ~(l[1].time > msecs)
    BY <2>1, <2>3 DEF Begins
  <2> QED BY <2>2, <2>3
<1> QED BY <1>5, <1>6 DEF Due, m

\* The timers and their intervals, as the assumptions on the constants give them.
LEMMA TimersAre ==
  /\ Len(Cyclic) \in Nat /\ Len(Cyclic) >= 2 /\ DOMAIN Cyclic = 1 .. Len(Cyclic)
  /\ \A n \in 1 .. Len(Cyclic) : Cyclic[n] \in Cyclics
  /\ Cyclics \subseteq Timers /\ Tcp \in Timers /\ Tcp \notin Cyclics
  /\ \A h \in Timers : Interval[h] \in Nat /\ Interval[h] # 0
  /\ Interval \in [Timers -> Int]
<1>1. Len(Cyclic) \in Nat /\ Len(Cyclic) >= 2 /\ DOMAIN Cyclic = 1 .. Len(Cyclic)
      /\ \A n \in 1 .. Len(Cyclic) : Cyclic[n] \in Cyclics
  BY TimeoutsAssumption
<1>2. Cyclics \subseteq Timers /\ Tcp \in Timers
  BY DEF Timers
<1>3. Interval \in [Timers -> Nat \ {0}] /\ Tcp \notin Cyclics
  BY TimeoutsAssumption
<1>4. (\A h \in Timers : Interval[h] \in Nat /\ Interval[h] # 0) /\ Interval \in [Timers -> Int]
  BY <1>3
<1> QED BY <1>1, <1>2, <1>3, <1>4

\* The calls of sys_timeout in sys_timeouts_init follow one another.
LEMMA InitListIs ==
  /\ InitList[0] = <<>>
  /\ \A n \in 1 .. Len(Cyclic) :
       InitList[n] = Enqueued(InitList[n - 1], 0, Interval[Cyclic[n]], Cyclic[n])
<1> DEFINE D(e, n) == Enqueued(e, 0, Interval[Cyclic[n]], Cyclic[n])
           E(f) == f = [n \in 0 .. Len(Cyclic) |-> IF n = 0 THEN <<>> ELSE D(f[n - 1], n)]
           G(f, k) == \A i \in 0 .. k : f[i] = IF i = 0 THEN <<>> ELSE D(f[i - 1], i)
           T == {k \in 0 .. Len(Cyclic) : \E f : G(f, k)}
           w == InitList
<1>0. Len(Cyclic) \in Nat
  BY TimersAre
<1>1. w = CHOOSE f : E(f)
  BY DEF InitList
<1> HIDE DEF D
<1>2. 0 \in T
  <2> DEFINE z == [i \in 0 .. 0 |-> <<>>]
  <2>1. G(z, 0)
    OBVIOUS
  <2>2. 0 \in 0 .. Len(Cyclic)
    BY <1>0
  <2> HIDE DEF z, G
  <2> QED BY <2>1, <2>2
<1>3. ASSUME NEW k \in 0 .. Len(Cyclic) - 1, k \in T PROVE k + 1 \in T
  <2>1. PICK f : G(f, k)
    BY <1>3
  <2> DEFINE g == [i \in 0 .. k + 1 |-> IF i = k + 1 THEN D(f[k], k + 1) ELSE f[i]]
  <2>2. k \in Nat
    BY <1>0
  <2>3. G(g, k + 1)
    <3> SUFFICES ASSUME NEW i \in 0 .. k + 1
                 PROVE  g[i] = IF i = 0 THEN <<>> ELSE D(g[i - 1], i)
      OBVIOUS
    <3>1. CASE i = k + 1
      <4>1. g[i] = D(f[k], k + 1) /\ g[i - 1] = f[k] /\ i # 0
        BY <2>2, <3>1
      <4> QED BY <3>1, <4>1
    <3>2. CASE i # k + 1
      <4>1. i \in 0 .. k /\ f[i] = IF i = 0 THEN <<>> ELSE D(f[i - 1], i)
        BY <2>1, <2>2, <3>2
      <4>2. g[i] = f[i] /\ (i # 0 => g[i - 1] = f[i - 1])
        BY <2>2, <4>1
      <4> QED BY <4>1, <4>2
    <3> QED BY <3>1, <3>2
  <2> HIDE DEF g, G
  <2>4. k + 1 \in 0 .. Len(Cyclic)
    BY <1>0
  <2> QED BY <2>3, <2>4
<1>4. Len(Cyclic) \in T
  <2> HIDE DEF T
  <2>1. \A k \in 0 .. Len(Cyclic) : k \in T
    BY <1>0, <1>2, <1>3, Climb
  <2> QED BY <1>0, <2>1
<1>5. \E f : E(f)
  <2>1. PICK f : G(f, Len(Cyclic))
    BY <1>4
  <2> DEFINE g == [i \in 0 .. Len(Cyclic) |-> f[i]]
  <2>2. ASSUME NEW i \in 0 .. Len(Cyclic) PROVE g[i] = IF i = 0 THEN <<>> ELSE D(g[i - 1], i)
    <3>1. f[i] = IF i = 0 THEN <<>> ELSE D(f[i - 1], i)
      BY <2>1
    <3>2. g[i] = f[i] /\ (i # 0 => g[i - 1] = f[i - 1])
      BY <1>0
    <3> QED BY <3>1, <3>2
  <2>3. E(g)
    <3>1. g = [i \in 0 .. Len(Cyclic) |-> g[i]]
      OBVIOUS
    <3> HIDE DEF g
    <3> QED BY <2>2, <3>1
  <2> HIDE DEF E, g
  <2> QED BY <2>3
<1>6. E(w)
  <2> HIDE DEF E, w
  <2> QED BY <1>1, <1>5
<1> HIDE DEF w
<1>7. \A n \in 0 .. Len(Cyclic) : w[n] = IF n = 0 THEN <<>> ELSE D(w[n - 1], n)
  BY <1>6
<1>8. w[0] = <<>> /\ \A n \in 1 .. Len(Cyclic) : w[n] = D(w[n - 1], n)
  BY <1>0, <1>7
<1> QED BY <1>8 DEF w, D

\* A list as sys_timeouts_init leaves it after n calls: it has the first n
\* timers, none twice, in an order in which the times add up to the intervals.
Begun(l, n, k) ==
  /\ l \in Seq(Entries) /\ Len(l) = n
  /\ TimersOf(l) = {Cyclic[i] : i \in 1 .. n}
  /\ Distinct(l) /\ Gaps(l, k, Interval[k])
  /\ n > 0 => Sums(l, Interval) /\ Interval[l[1].h] = l[1].time - 0

\* The first call.
LEMMA BegunFirst ==
  ASSUME NEW k \in Cyclics
  PROVE  Begun(Enqueued(<<>>, 0, Interval[Cyclic[1]], Cyclic[1]), 1, k)
<1> DEFINE h == Cyclic[1]
           m == Enqueued(<<>>, 0, Interval[h], h)
<1>1. h \in Timers /\ Interval[h] \in Nat /\ Interval[k] \in Nat
  BY TimersAre
<1>2. Extends(m, <<>>, 0, h, Interval[h], 0)
  BY <1>1, EnqueuedAlone
<1> HIDE DEF m, h
<1>3. <<>> \in Seq(Entries) /\ Len(<<>>) = 0 /\ 0 \in 0 .. 0 /\ DOMAIN <<>> = {}
  OBVIOUS
<1>4. TimersOf(<<>>) = {} /\ Distinct(<<>>) /\ Gaps(<<>>, k, Interval[k])
  BY <1>3 DEF TimersOf, Distinct, Gaps
<1>5. TimersOf(m) = TimersOf(<<>>) \cup {h} /\ (Distinct(<<>>) /\ h \notin TimersOf(<<>>) => Distinct(m))
  <2> DEFINE e == <<>>
  <2>1. e \in Seq(Entries) /\ 0 \in 0 .. Len(e) /\ Extends(m, e, 0, h, Interval[h], 0)
    BY <1>2, <1>3
  <2> HIDE DEF e
  <2>2. TimersOf(m) = TimersOf(e) \cup {h} /\ (Distinct(e) /\ h \notin TimersOf(e) => Distinct(m))
    BY <1>1, <2>1, InsertedTimers
  <2> QED BY <2>2 DEF e
<1>6. m \in Seq(Entries) /\ Len(m) = 1 /\ m[1].h = h /\ m[1].time = Interval[h]
  BY <1>2, <1>3 DEF Extends
<1>7. Gaps(m, k, Interval[k])
  <2>1. DOMAIN m = 1 .. 1
    BY <1>6
  <2>2. ASSUME NEW i \in DOMAIN m, NEW j \in DOMAIN m, i <= j /\ m[j].h = k
        PROVE  m[i].time <= Interval[k]
    <3>1. i = 1 /\ j = 1
      BY <2>1
    <3> QED BY <1>1, <1>6, <2>2, <3>1
  <2> QED BY <2>2 DEF Gaps
<1>8. TimersOf(m) = {Cyclic[i] : i \in 1 .. 1}
  BY <1>4, <1>5 DEF h
<1>9. Sums(m, Interval)
  BY <1>6 DEF Sums
<1>10. Interval[m[1].h] = m[1].time - 0
  BY <1>1, <1>6
<1>11. Begun(m, 1, k)
  BY <1>4, <1>5, <1>6, <1>7, <1>8, <1>9, <1>10 DEF Begun
<1> QED BY <1>11 DEF m, h

\* Each further call.
LEMMA BegunNext ==
  ASSUME NEW k \in Cyclics, NEW n \in 1 .. Len(Cyclic) - 1, NEW l, Begun(l, n, k)
  PROVE  Begun(Enqueued(l, 0, Interval[Cyclic[n + 1]], Cyclic[n + 1]), n + 1, k)
<1> DEFINE h == Cyclic[n + 1]
           x == Interval[h]
           m == Enqueued(l, 0, x, h)
<1>0. n \in Nat /\ n > 0 /\ n + 1 \in 1 .. Len(Cyclic)
  BY TimersAre
<1>1. h \in Timers /\ x \in Nat /\ Interval[k] \in Nat
  BY <1>0, TimersAre
<1>2. /\ l \in Seq(Entries) /\ Len(l) = n /\ TimersOf(l) = {Cyclic[i] : i \in 1 .. n}
      /\ Distinct(l) /\ Gaps(l, k, Interval[k])
      /\ Sums(l, Interval) /\ Interval[l[1].h] = l[1].time - 0
  BY <1>0 DEF Begun
<1>3. l # <<>> /\ 0 \in Nat
  BY <1>0, <1>2
<1>4. h \notin TimersOf(l)
  <2>1. ASSUME NEW i \in 1 .. n PROVE Cyclic[i] # Cyclic[n + 1]
    <3>1. i \in DOMAIN Cyclic /\ n + 1 \in DOMAIN Cyclic /\ i # n + 1
      BY <1>0, TimersAre
    <3> QED BY <3>1, TimeoutsAssumption
  <2> QED BY <1>2, <2>1
<1>5. l[1].time \in Nat /\ 0 <= l[1].time
  <2>1. 1 \in 1 .. Len(l)
    BY <1>0, <1>2
  <2>2. l[1].time \in Nat
    BY <1>2, <2>1, EntriesAre
  <2> QED BY <2>2
<1>6. Interval \in [Timers -> Int]
  BY TimersAre
<1>7. Interval[h] = x
  OBVIOUS
<1> HIDE DEF h, x
<1>8. m \in Seq(Entries) /\ Len(m) = Len(l) + 1 /\ TimersOf(m) = TimersOf(l) \cup {h} /\ Distinct(m)
  <2>1. Adds(m, l, h)
    BY <1>1, <1>2, <1>3, EnqueuedTimers
  <2> QED BY <1>2, <1>4, <2>1 DEF Adds
<1>9. Gaps(m, k, Interval[k])
  <2>1. CASE h = k
    <3>1. k \notin TimersOf(l) /\ x + 0 <= Interval[k]
      BY <1>1, <1>4, <1>7, <2>1
    <3> QED BY <1>1, <1>2, <1>3, <2>1, <3>1, EnqueuedGaps
  <2>2. CASE h # k
    BY <1>1, <1>2, <1>3, <2>2, EnqueuedGaps
  <2> QED BY <2>1, <2>2
<1>10. Sums(m, Interval) /\ Interval[m[1].h] = m[1].time - 0
  <2>1. Due(m, Interval, m[1].time - 0)
    BY <1>1, <1>2, <1>3, <1>5, <1>6, <1>7, EnqueuedSums
  <2> QED BY <2>1 DEF Due
<1> HIDE DEF m
<1>11. TimersOf(l) \cup {h} = {Cyclic[i] : i \in 1 .. n + 1}
  <2>1. \A i \in 1 .. n + 1 : i \in 1 .. n \/ i = n + 1
    BY <1>0
  <2>2. (\A i \in 1 .. n : i \in 1 .. n + 1) /\ n + 1 \in 1 .. n + 1
    BY <1>0
  <2> QED BY <1>2, <2>1, <2>2 DEF h
<1>12. Begun(m, n + 1, k)
  BY <1>2, <1>8, <1>9, <1>10, <1>11 DEF Begun
<1> QED BY <1>12 DEF m, x, h

\* sys_timeouts_init arms every cyclic timer for its interval.
LEMMA InitListBegun ==
  ASSUME NEW k \in Cyclics
  PROVE  Begun(InitList[Len(Cyclic)], Len(Cyclic), k)
<1> DEFINE T == {n \in 0 .. Len(Cyclic) - 1 : Begun(InitList[n + 1], n + 1, k)}
<1>0. Len(Cyclic) \in Nat /\ Len(Cyclic) >= 2
  BY TimersAre
<1>1. 0 \in T
  <2>1. 1 \in 1 .. Len(Cyclic) /\ 1 - 1 = 0 /\ 0 + 1 = 1 /\ 0 \in 0 .. Len(Cyclic) - 1
    BY <1>0
  <2>2. InitList[1] = Enqueued(<<>>, 0, Interval[Cyclic[1]], Cyclic[1])
    BY <2>1, InitListIs
  <2>3. Begun(InitList[1], 1, k)
    BY <2>2, BegunFirst
  <2> QED BY <2>1, <2>3
<1>2. ASSUME NEW n \in 0 .. (Len(Cyclic) - 1) - 1, n \in T PROVE n + 1 \in T
  <2>1. /\ n + 1 \in 1 .. Len(Cyclic) - 1 /\ n + 1 \in 0 .. Len(Cyclic) - 1
        /\ (n + 1) + 1 \in 1 .. Len(Cyclic) /\ ((n + 1) + 1) - 1 = n + 1
    BY <1>0
  <2>2. Begun(InitList[n + 1], n + 1, k)
    BY <1>2
  <2>3. InitList[(n + 1) + 1]
          = Enqueued(InitList[n + 1], 0, Interval[Cyclic[(n + 1) + 1]], Cyclic[(n + 1) + 1])
    BY <2>1, InitListIs
  <2>4. Begun(InitList[(n + 1) + 1], (n + 1) + 1, k)
    BY <2>1, <2>2, <2>3, BegunNext
  <2> QED BY <2>1, <2>4
<1>3. \A n \in 0 .. Len(Cyclic) - 1 : n \in T
  <2> HIDE DEF T
  <2>1. Len(Cyclic) - 1 \in Nat
    BY <1>0
  <2> QED BY <1>1, <1>2, <2>1, Climb
<1>4. Len(Cyclic) - 1 \in 0 .. Len(Cyclic) - 1 /\ (Len(Cyclic) - 1) + 1 = Len(Cyclic)
  BY <1>0
<1> QED BY <1>3, <1>4

\* The pool has an entry for a timer that is not armed.
LEMMA Room ==
  ASSUME NEW l \in Seq(Entries), Distinct(l), NEW h \in Timers, h \notin TimersOf(l)
  PROVE  Len(l) # PoolSize
<1> DEFINE I(e) == IF e = Tcp THEN Len(Cyclic) + 1
                   ELSE CHOOSE n \in 1 .. Len(Cyclic) : Cyclic[n] = e
           E(i) == IF i = Len(l) + 1 THEN h ELSE l[i].h
           S == 1 .. Len(l) + 1
           T == 1 .. Len(Cyclic) + 1
           g == [i \in S |-> I(E(i))]
<1>0. /\ Len(Cyclic) \in Nat /\ DOMAIN Cyclic = 1 .. Len(Cyclic) /\ PoolSize \in Nat
      /\ Len(Cyclic) < PoolSize
  BY TimersAre, TimeoutsAssumption
<1>1. /\ Len(l) \in Nat /\ DOMAIN l = 1 .. Len(l)
      /\ \A i \in 1 .. Len(l) : l[i].h \in Timers
  BY EntriesAre
<1>2. ASSUME NEW e \in Timers, e # Tcp PROVE I(e) \in 1 .. Len(Cyclic) /\ Cyclic[I(e)] = e
  <2>1. \E n \in 1 .. Len(Cyclic) : Cyclic[n] = e
    BY <1>0, <1>2 DEF Timers, Cyclics
  <2> QED BY <1>2, <2>1
<1>3. I(Tcp) = Len(Cyclic) + 1
  OBVIOUS
<1> HIDE DEF I
<1>4. ASSUME NEW e \in Timers PROVE I(e) \in T
  BY <1>0, <1>2, <1>3
<1>5. ASSUME NEW e \in Timers, NEW d \in Timers, I(e) = I(d) PROVE e = d
  <2>1. Len(Cyclic) + 1 \notin 1 .. Len(Cyclic)
    BY <1>0
  <2> QED BY <1>2, <1>3, <1>5, <2>1
<1>6. ASSUME NEW i \in S PROVE E(i) \in Timers
  BY <1>1
<1>7. ASSUME NEW i \in S, NEW j \in S, E(i) = E(j) PROVE i = j
  <2>1. \A e \in S : e # Len(l) + 1 => e \in DOMAIN l /\ E(e) = l[e].h /\ E(e) # h
    BY <1>1 DEF TimersOf
  <2>2. E(Len(l) + 1) = h
    OBVIOUS
  <2> HIDE DEF E, S
  <2>3. CASE i = Len(l) + 1 \/ j = Len(l) + 1
    BY <1>7, <2>1, <2>2, <2>3
  <2>4. CASE i # Len(l) + 1 /\ j # Len(l) + 1
    BY <1>7, <2>1, <2>4 DEF Distinct
  <2> QED BY <2>3, <2>4
<1> HIDE DEF E
<1>8. g \in [S -> T] /\ \A i, j \in S : g[i] = g[j] => i = j
  BY <1>4, <1>5, <1>6, <1>7
<1> HIDE DEF g
<1>9. /\ IsFiniteSet(S) /\ IsFiniteSet(T)
      /\ Cardinality(S) = Len(l) + 1 /\ Cardinality(T) = Len(Cyclic) + 1
  BY <1>0, <1>1, FS_Interval
<1> HIDE DEF S, T
<1>10. ~(Cardinality(T) < Cardinality(S))
  BY <1>8, <1>9, FS_PigeonHole
<1>11. ~(Len(Cyclic) + 1 < Len(l) + 1)
  BY <1>9, <1>10
<1>12. Len(l) \in Nat
  BY <1>1
<1> QED BY <1>0, <1>11, <1>12

\* Also if the entry of the TCP timer has been lost.
LEMMA RoomBesidesLost ==
  ASSUME NEW l \in Seq(Entries), Distinct(l), NEW h \in Timers, h \notin TimersOf(l),
         h # Tcp, Tcp \notin TimersOf(l)
  PROVE  Len(l) + 1 # PoolSize
<1> DEFINE e == [h |-> Tcp, time |-> 0]
           m == Append(l, e)
<1>1. e \in Entries /\ e.h = Tcp
  BY TimersAre DEF Entries
<1> HIDE DEF e
<1>2. Len(l) \in Nat /\ DOMAIN l = 1 .. Len(l)
  OBVIOUS
<1>3. m \in Seq(Entries) /\ Len(m) = Len(l) + 1 /\ DOMAIN m = 1 .. Len(l) + 1
  BY <1>1
<1>4. m[Len(l) + 1] = e /\ \A i \in 1 .. Len(l) : m[i] = l[i]
  BY <1>1
<1> HIDE DEF m
<1>5. ASSUME NEW i \in DOMAIN m
      PROVE  \/ i \in DOMAIN l /\ m[i].h = l[i].h /\ m[i].h # Tcp /\ m[i].h # h
             \/ i = Len(l) + 1 /\ m[i].h = Tcp
  <2>1. i \in 1 .. Len(l) \/ i = Len(l) + 1
    BY <1>2, <1>3
  <2> QED BY <1>1, <1>2, <1>4, <2>1 DEF TimersOf
<1>6. Distinct(m)
  <2> SUFFICES ASSUME NEW i \in DOMAIN m, NEW j \in DOMAIN m, m[i].h = m[j].h PROVE i = j
    BY DEF Distinct
  <2> QED BY <1>5 DEF Distinct
<1>7. h \notin TimersOf(m)
  BY <1>5 DEF TimersOf
<1>8. Len(m) # PoolSize
  BY <1>3, <1>6, <1>7, Room
<1> QED BY <1>3, <1>8

\* m is l with h armed besides; the times up to k are still short, and where k is
\* in l the first entry stays.
Arms(m, l, k, x, h) ==
  /\ m \in Seq(Entries) /\ Len(m) = Len(l) + 1 /\ Distinct(m)
  /\ TimersOf(m) = TimersOf(l) \cup {h}
  /\ Gaps(m, k, x)
  /\ k \in TimersOf(l) => m[1] = l[1] /\ Follows(m, l, h)

\* Arming a timer keeps a list sound.
LEMMA EnqueuedArms ==
  ASSUME NEW k \in Cyclics, NEW lag \in Nat, Frequent(k, lag),
         NEW l \in Seq(Entries), l # <<>>, Distinct(l), Gaps(l, k, Interval[k] + 2 * lag),
         NEW since \in Nat, NEW h \in Timers, h \notin TimersOf(l), h = k => since <= 2 * lag
  PROVE  Arms(Enqueued(l, since, Interval[h], h), l, k, Interval[k] + 2 * lag, h)
<1> DEFINE x == Interval[k] + 2 * lag
           m == Enqueued(l, since, Interval[h], h)
<1>0. k \in Timers /\ Interval[h] \in Nat /\ Interval[k] \in Nat /\ x \in Nat
  <2>1. k \in Timers /\ Interval[h] \in Nat /\ Interval[k] \in Nat
    BY TimersAre
  <2> QED BY <2>1
<1>1. /\ Len(l) \in Nat /\ Len(l) > 0 /\ 1 \in DOMAIN l /\ DOMAIN l = 1 .. Len(l)
      /\ l[1].time \in Nat
  <2>1. Len(l) \in Nat /\ Len(l) # 0
    OBVIOUS
  <2> QED BY <2>1, EntriesAre
<1>2. Adds(m, l, h)
  BY <1>0, EnqueuedTimers
<1>3. Begins(m, l, since, Interval[h], h)
  BY <1>0, EnqueuedFirst
<1>4. k \in TimersOf(l) => h # k /\ ~(l[1].time > Interval[h])
  <2> SUFFICES ASSUME k \in TimersOf(l) PROVE h # k /\ ~(l[1].time > Interval[h])
    OBVIOUS
  <2>1. PICK j \in DOMAIN l : l[j].h = k
    BY DEF TimersOf
  <2>2. 1 <= j
    BY <1>1
  <2>3. l[1].time <= x
    BY <1>1, <2>1, <2>2 DEF Gaps
  <2>4. h # k
    OBVIOUS
  <2>5. x <= Interval[h]
    BY <2>4 DEF Frequent
  <2> QED BY <1>0, <1>1, <2>3, <2>4, <2>5
<1>5. Gaps(m, k, x)
  <2>1. CASE h = k
    <3>1. Interval[h] + since <= x
      <4>1. since <= 2 * lag
        BY <2>1
      <4> QED BY <1>0, <2>1, <4>1
    <3> HIDE DEF x
    <3> QED BY <1>0, <2>1, <3>1, EnqueuedGaps
  <2>2. CASE h # k /\ k \in TimersOf(l)
    <3>1. l[1].time > Interval[h] => since = 0
      BY <1>4, <2>2
    <3> HIDE DEF x
    <3> QED BY <1>0, <2>2, <3>1, EnqueuedGaps DEF x
  <2>3. CASE h # k /\ k \notin TimersOf(l)
    <3>1. k \notin TimersOf(m)
      BY <1>2, <2>3 DEF Adds
    <3> HIDE DEF m, x
    <3> QED BY <3>1 DEF Gaps, TimersOf
  <2> QED BY <2>1, <2>2, <2>3
<1>8. k \in TimersOf(l) => Follows(m, l, h)
  BY <1>0, <1>4, EnqueuedSecond
<1> HIDE DEF m, x
<1>6. k \in TimersOf(l) => m[1] = l[1] /\ Follows(m, l, h)
  BY <1>3, <1>4, <1>8 DEF Begins
<1>7. Arms(m, l, k, x, h)
  BY <1>2, <1>5, <1>6 DEF Adds, Arms
<1> QED BY <1>7 DEF m, x

\* Arming a timer keeps what is left for the others, and adds its interval.
LEMMA EnqueuedDue ==
  ASSUME NEW k \in Cyclics, NEW lag \in Nat, Frequent(k, lag),
         NEW l \in Seq(Entries), l # <<>>, Gaps(l, k, Interval[k] + 2 * lag),
         NEW since \in Nat, NEW h \in Timers, h \notin TimersOf(l),
         since <= l[1].time, k \in TimersOf(l) \/ since = 0,
         NEW f \in [Timers -> Int], Due(l, f, l[1].time - since)
  PROVE  /\ [f EXCEPT ![h] = Interval[h]] \in [Timers -> Int]
         /\ Due(Enqueued(l, since, Interval[h], h), [f EXCEPT ![h] = Interval[h]],
                Enqueued(l, since, Interval[h], h)[1].time - since)
<1> DEFINE x == Interval[k] + 2 * lag
           g == [f EXCEPT ![h] = Interval[h]]
           m == Enqueued(l, since, Interval[h], h)
<1>0. k \in Timers /\ Interval[h] \in Nat /\ Interval[k] \in Nat /\ x \in Nat
  <2>1. k \in Timers /\ Interval[h] \in Nat /\ Interval[k] \in Nat
    BY TimersAre
  <2> QED BY <2>1
<1>1. /\ Len(l) \in Nat /\ Len(l) > 0 /\ 1 \in DOMAIN l /\ DOMAIN l = 1 .. Len(l)
      /\ \A i \in 1 .. Len(l) : l[i].time \in Nat /\ l[i].h \in Timers
  <2>1. Len(l) \in Nat /\ Len(l) # 0
    OBVIOUS
  <2> QED BY <2>1, EntriesAre
<1>2. l[1].time > Interval[h] => since = 0
  <2> SUFFICES ASSUME k \in TimersOf(l) PROVE ~(l[1].time > Interval[h])
    OBVIOUS
  <2>1. PICK j \in DOMAIN l : l[j].h = k
    BY DEF TimersOf
  <2>2. 1 <= j
    BY <1>1
  <2>3. l[1].time <= x
    BY <1>1, <2>1, <2>2 DEF Gaps
  <2>4. h # k
    OBVIOUS
  <2>5. x <= Interval[h]
    BY <2>4 DEF Frequent
  <2>6. l[1].time \in Nat
    BY <1>1
  <2> QED BY <1>0, <2>3, <2>5, <2>6
<1>3. g \in [Timers -> Int] /\ g[h] = Interval[h]
  BY <1>0
<1>4. \A i \in 1 .. Len(l) : g[l[i].h] = f[l[i].h]
  <2>1. \A i \in 1 .. Len(l) : l[i].h # h
    BY <1>1 DEF TimersOf
  <2> QED BY <1>1, <2>1
<1> HIDE DEF g, m
<1>5. Sums(l, g) /\ g[l[1].h] = l[1].time - since
  <2>1. Sums(l, f) /\ f[l[1].h] = l[1].time - since
    BY DEF Due
  <2>2. g[l[1].h] = f[l[1].h]
    BY <1>1, <1>4
  <2>3. ASSUME NEW i \in 1 .. Len(l) - 1 PROVE g[l[i + 1].h] = g[l[i].h] + l[i + 1].time
    <3>1. i \in 1 .. Len(l) /\ i + 1 \in 1 .. Len(l)
      BY <1>1
    <3>2. f[l[i + 1].h] = f[l[i].h] + l[i + 1].time
      BY <2>1 DEF Sums
    <3> QED BY <1>4, <3>1, <3>2
  <2> QED BY <2>1, <2>2, <2>3 DEF Sums
<1>6. Due(m, g, m[1].time - since)
  BY <1>0, <1>2, <1>3, <1>5, EnqueuedSums DEF m
<1> QED BY <1>3, <1>6 DEF g, m

\* Times that are short for one lag are so for a greater one.
LEMMA GapsWiden ==
  ASSUME NEW l \in Seq(Entries), NEW k \in Cyclics, NEW lag \in Nat, NEW late \in Nat,
         lag <= late, Gaps(l, k, Interval[k] + 2 * lag)
  PROVE  Gaps(l, k, Interval[k] + 2 * late)
<1>1. \A i \in DOMAIN l : l[i].time \in Nat
  BY EntriesAre
<1>2. Interval[k] \in Nat
  BY TimersAre
<1>3. \A t \in Nat : t <= Interval[k] + 2 * lag => t <= Interval[k] + 2 * late
  BY <1>2
<1> QED BY <1>1, <1>3 DEF Gaps

\* The invariant's parts that hold where k is frequent.
Sound(k) == TimerTypes /\ ArmedInv /\ GapInv(k) /\ LateInv /\ LeftInv

FirstTime == IF Unlinking THEN 0 ELSE list[1].time

\* A thread that is disturbed stays so, and may be later.
LEMMA LagGrows ==
  ASSUME NEW k \in Cyclics, disturbed \in BOOLEAN, disturbed' \in BOOLEAN,
         disturbed = TRUE => disturbed' = TRUE
  PROVE  /\ Lag \in Nat /\ Lag' \in Nat /\ Lag <= Lag'
         /\ Frequent(k, Lag') => Frequent(k, Lag)
         /\ disturbed' = disturbed => Lag' = Lag
<1>1. Lag \in Nat /\ Lag' \in Nat /\ Lag <= Lag' /\ (disturbed' = disturbed => Lag' = Lag)
  <2>1. MaxBusy \in Nat
    BY TimeoutsAssumption
  <2>2. CASE disturbed = TRUE
    BY <2>1, <2>2 DEF Lag
  <2>3. CASE disturbed = FALSE /\ disturbed' = TRUE
    <3>1. Lag = 0 /\ Lag' = MaxBusy
      BY <2>3 DEF Lag
    <3>2. disturbed' # disturbed
      BY <2>3
    <3> QED BY <2>1, <3>1, <3>2
  <2>4. CASE disturbed = FALSE /\ disturbed' = FALSE
    BY <2>1, <2>4 DEF Lag
  <2> QED BY <2>2, <2>3, <2>4, Zenon
<1>2. ASSUME NEW a \in Nat, NEW b \in Nat, a <= b, Frequent(k, b) PROVE Frequent(k, a)
  <2>1. ASSUME NEW h \in Timers \ {k} PROVE Interval[k] + 2 * a <= Interval[h]
    <3>1. Interval[k] \in Nat /\ Interval[h] \in Nat
      BY TimersAre
    <3>2. Interval[k] + 2 * b <= Interval[h]
      BY <1>2 DEF Frequent
    <3> QED BY <1>2, <3>1, <3>2
  <2> QED BY <2>1 DEF Frequent
<1> HIDE DEF Lag
<1> QED BY <1>1, <1>2

\* There are two cyclic timers.
LEMMA TwoCyclics ==
  \E a, b \in Cyclics : a # b
<1>1. 1 \in DOMAIN Cyclic /\ 2 \in DOMAIN Cyclic
  BY TimersAre
<1>2. Cyclic[1] \in Cyclics /\ Cyclic[2] \in Cyclics /\ Cyclic[1] # Cyclic[2]
  BY <1>1, TimeoutsAssumption DEF Cyclics
<1> QED BY <1>2

\* They are never both taken off the list,
LEMMA NeverEmpty ==
  ASSUME NEW l, NEW a, NEW b, b = {} \/ \E r : b = {r}, Cyclics \subseteq a, TimersOf(l) = a \ b
  PROVE  l # <<>>
<1>1. TimersOf(l) # {}
  BY TwoCyclics
<1>2. DOMAIN <<>> = {}
  OBVIOUS
<1> QED BY <1>1, <1>2 DEF TimersOf

\* and while both are on it, an entry follows the first.
LEMMA TwoEntries ==
  ASSUME NEW l \in Seq(Entries), Cyclics \subseteq TimersOf(l)
  PROVE  Len(l) > 1
<1>1. PICK a \in Cyclics, b \in Cyclics : a # b
  BY TwoCyclics
<1>2. PICK i \in DOMAIN l : l[i].h = a
  BY DEF TimersOf
<1>3. PICK j \in DOMAIN l : l[j].h = b
  BY DEF TimersOf
<1>4. i \in 1 .. Len(l) /\ j \in 1 .. Len(l) /\ i # j /\ Len(l) \in Nat
  BY <1>1, <1>2, <1>3
<1> QED BY <1>4

\* The cyclic timers are never lost.
LEMMA KeptHas == Cyclics \subseteq Kept /\ Kept \subseteq Wanted
BY DEF Kept, Wanted

\* What the invariant says of the list.
LEMMA SoundList ==
  ASSUME NEW k \in Cyclics, Sound(k)
  PROVE  /\ list \in Seq(Entries) /\ list # <<>> /\ Len(list) \in Nat /\ Len(list) >= 1
         /\ 1 \in DOMAIN list /\ list[1].time \in Nat /\ list[1].h \in TimersOf(list)
         /\ Distinct(list) /\ Gaps(list, k, Interval[k] + 2 * Lag)
         /\ TimersOf(list) = Kept \ Off /\ Counted
         /\ k \in TimersOf(list) \/ phase = "handler"
         /\ disturbed = FALSE => Due(list, left, FirstTime - elapsed)
<1>1. list \in Seq(Entries)
  BY DEF Sound, TimerTypes, Entries
<1>2. /\ Distinct(list) /\ Gaps(list, k, Interval[k] + 2 * Lag) /\ TimersOf(list) = Kept \ Off
      /\ Counted
  BY DEF Sound, ArmedInv, EachArmedOnce, GapInv, Distinct, Gaps, TimersOf, Armed
<1>3. list # <<>>
  <2>1. Off = {} \/ \E r : Off = {r}
    BY DEF Off
  <2> HIDE DEF Off
  <2> QED BY <1>2, <2>1, NeverEmpty, KeptHas
<1>4. Len(list) \in Nat /\ Len(list) >= 1 /\ 1 \in DOMAIN list /\ list[1].time \in Nat
  <2>1. Len(list) \in Nat /\ Len(list) # 0
    BY <1>1, <1>3
  <2>2. 1 \in DOMAIN list /\ 1 \in 1 .. Len(list)
    BY <1>1, <2>1
  <2> QED BY <1>1, <2>1, <2>2, EntriesAre
<1>5. list[1].h \in TimersOf(list)
  BY <1>4 DEF TimersOf
<1>6. k \in TimersOf(list) \/ phase = "handler"
  BY <1>2, KeptHas DEF Off
<1>7. disturbed = FALSE => Due(list, left, FirstTime - elapsed)
  BY DEF Sound, LeftInv, Due, Sums, FirstTime
<1> QED BY <1>1, <1>2, <1>3, <1>4, <1>5, <1>6, <1>7

\* And what to show of it after a step.
LEMMA SoundAgain ==
  ASSUME NEW k \in Cyclics, TimerTypes', LateInv',
         Distinct(list'), Gaps(list', k, Interval[k] + 2 * Lag'),
         TimersOf(list') = Kept' \ Off', Counted', FollowerInv',
         pcbs' => tcpActive',
         phase' = "handler" => running' \in Kept',
         disturbed' = FALSE => Due(list', left', FirstTime' - elapsed')
  PROVE  Sound(k)'
<1>1. list' \in Seq(Entries)
  BY DEF TimerTypes, Entries
<1>2. \A i \in DOMAIN list' : list'[i].time >= 0
  <2>1. DOMAIN list' = 1 .. Len(list') /\ \A i \in 1 .. Len(list') : list'[i].time \in Nat
    BY <1>1, EntriesAre
  <2> QED BY <2>1
<1>3. EachArmedOnce'
  BY <1>2 DEF EachArmedOnce, Armed, TimersOf, Distinct
<1>4. ArmedInv'
  BY <1>3 DEF ArmedInv
<1>5. GapInv(k)'
  BY DEF GapInv, Gaps
<1>6. LeftInv'
  BY DEF LeftInv, Due, Sums, FirstTime
<1> QED BY <1>4, <1>5, <1>6 DEF Sound

\* A step that leaves the list alone and calls no handler.
LEMMA ListStays ==
  ASSUME NEW k \in Cyclics, disturbed \in BOOLEAN, Sound(k),
         list' = list, used' = used, tcpActive' = tcpActive, left' = left,
         disturbed' = disturbed, overtaken' = overtaken, pcbs' = pcbs,
         phase # "handler", phase' # "handler", TimerTypes', LateInv', FollowerInv',
         disturbed = FALSE => FirstTime' - elapsed' = FirstTime - elapsed
  PROVE  Sound(k)'
<1>1. /\ Distinct(list) /\ Gaps(list, k, Interval[k] + 2 * Lag) /\ TimersOf(list) = Kept \ Off
      /\ disturbed = FALSE => Due(list, left, FirstTime - elapsed)
      /\ Counted
  BY SoundList
<1>2. Lag' = Lag /\ Off' = {} /\ Off = {} /\ Kept' = Kept /\ Counted'
  BY <1>1 DEF Lag, Off, Kept, Wanted, Counted
<1>3. pcbs' => tcpActive'
  BY DEF Sound, ArmedInv, EachArmedOnce
<1>4. disturbed' = FALSE => Due(list', left', FirstTime' - elapsed')
  BY <1>1
<1> QED BY <1>1, <1>2, <1>3, <1>4, SoundAgain

\* The types of the thread's own numbers.
LEMMA ThreadTypes ==
  ASSUME NEW k \in Cyclics, disturbed \in BOOLEAN, Sound(k)
  PROVE  /\ list[1].time \in Nat /\ Lag \in Nat
         /\ elapsed \in Nat /\ sleep \in Nat /\ diff \in Nat /\ busy \in Nat /\ busy <= Lag
         /\ left \in [Timers -> Int]
<1>1. list[1].time \in Nat
  BY SoundList
<1>2. Lag \in Nat
  BY TimeoutsAssumption DEF Lag
<1> HIDE DEF Lag
<1> QED BY <1>1, <1>2 DEF Sound, TimerTypes

\* sys_timeouts_mbox_fetch keeps the invariant: it sleeps for what is left of the
\* first entry's time, or begins a check.
LEMMA FetchSound ==
  ASSUME NEW k \in Cyclics, disturbed \in BOOLEAN, Sound(k), Fetch
  PROVE  Sound(k)'
<1>0. /\ list' = list /\ tcpActive' = tcpActive /\ left' = left /\ disturbed' = disturbed
      /\ used' = used /\ overtaken' = overtaken
      /\ pcbs' = pcbs /\ elapsed' = elapsed /\ running' = running /\ phase = "fetch"
  BY DEF Fetch
<1>1. Lag' = Lag
  BY <1>0 DEF Lag
<1>2. list # <<>>
  BY SoundList
<1>3. /\ list[1].time \in Nat /\ Lag \in Nat
      /\ elapsed \in Nat /\ sleep \in Nat /\ diff \in Nat /\ busy \in Nat /\ busy <= Lag
      /\ left \in [Timers -> Int]
  BY ThreadTypes
<1>4. elapsed <= list[1].time + Lag
  BY <1>0 DEF Sound, LateInv
<1>5. list \in Seq([h : Timers, time : Nat])
  BY DEF Sound, TimerTypes
<1>6. CASE elapsed >= list[1].time
  <2>1. phase' = "check" /\ diff' = elapsed /\ busy' = 0 /\ sleep' = sleep
    BY <1>2, <1>6 DEF Fetch, BeginCheck
  <2>2. busy' \in 0 .. Lag' /\ elapsed' = diff' + busy'
    BY <1>0, <1>1, <1>3, <2>1
  <2>3. TimerTypes'
    BY <1>0, <1>3, <1>5, <2>1, <2>2 DEF TimerTypes
  <2>4. LateInv'
    BY <1>0, <1>1, <1>4, <2>1 DEF LateInv
  <2>5. FirstTime' - elapsed' = FirstTime - elapsed
    BY <1>0, <2>1 DEF FirstTime, Unlinking
  <2>6. FollowerInv'
    BY <2>1 DEF FollowerInv, Unlinking
  <2> QED BY <1>0, <2>1, <2>3, <2>4, <2>5, <2>6, ListStays
<1>7. CASE ~(elapsed >= list[1].time)
  <2>1. phase' = "wait" /\ diff' = diff /\ busy' = busy /\ sleep' = list[1].time - elapsed
    BY <1>2, <1>7 DEF Fetch, BeginCheck
  <2>2. sleep' \in Nat /\ elapsed + sleep' <= list[1].time
    BY <1>3, <1>7, <2>1
  <2>3. TimerTypes'
    BY <1>0, <1>1, <1>3, <1>5, <2>1, <2>2 DEF TimerTypes
  <2>4. LateInv'
    BY <1>0, <2>1, <2>2 DEF LateInv
  <2>5. FirstTime' - elapsed' = FirstTime - elapsed
    BY <1>0, <2>1 DEF FirstTime, Unlinking
  <2>6. FollowerInv'
    BY <2>1 DEF FollowerInv, Unlinking
  <2> QED BY <1>0, <2>1, <2>3, <2>4, <2>5, <2>6, ListStays
<1> QED BY <1>6, <1>7

\* The end of the sleep keeps it: the first entry is due, and not longer.
LEMMA SleepEndsSound ==
  ASSUME NEW k \in Cyclics, disturbed \in BOOLEAN, Sound(k), SleepEnds
  PROVE  Sound(k)'
<1>0. /\ list' = list /\ tcpActive' = tcpActive /\ left' = left /\ disturbed' = disturbed
      /\ used' = used /\ overtaken' = overtaken
      /\ pcbs' = pcbs /\ elapsed' = elapsed /\ running' = running /\ sleep' = sleep
      /\ phase = "wait" /\ phase' = "check" /\ diff' = elapsed /\ busy' = 0
  BY DEF SleepEnds, BeginCheck
<1>1. Lag' = Lag
  BY <1>0 DEF Lag
<1>2. /\ list[1].time \in Nat /\ Lag \in Nat
      /\ elapsed \in Nat /\ sleep \in Nat /\ left \in [Timers -> Int]
  BY ThreadTypes
<1>3. list \in Seq([h : Timers, time : Nat])
  BY DEF Sound, TimerTypes
<1>4. elapsed + sleep <= list[1].time
  BY <1>0 DEF Sound, LateInv
<1>5. elapsed <= list[1].time + Lag
  BY <1>2, <1>4
<1>6. busy' \in 0 .. Lag' /\ elapsed' = diff' + busy'
  BY <1>0, <1>1, <1>2
<1>7. TimerTypes'
  BY <1>0, <1>2, <1>3, <1>6 DEF TimerTypes
<1>8. LateInv'
  BY <1>0, <1>1, <1>5 DEF LateInv
<1>9. FirstTime' - elapsed' = FirstTime - elapsed
  BY <1>0 DEF FirstTime, Unlinking
<1>10. FollowerInv'
  BY <1>0 DEF FollowerInv, Unlinking
<1> QED BY <1>0, <1>7, <1>8, <1>9, <1>10, ListStays

\* A message keeps it: it comes before the first entry is due.
LEMMA ReceiveSound ==
  ASSUME NEW k \in Cyclics, disturbed \in BOOLEAN, Sound(k), Receive
  PROVE  Sound(k)'
<1>0. /\ list' = list /\ tcpActive' = tcpActive /\ left' = left /\ disturbed' = disturbed
      /\ used' = used /\ overtaken' = overtaken
      /\ pcbs' = pcbs /\ elapsed' = elapsed /\ running' = running /\ sleep' = sleep
      /\ phase = "wait" /\ phase' = "message" /\ diff' = diff /\ busy' = 0
  BY DEF Receive
<1>1. Lag' = Lag
  BY <1>0 DEF Lag
<1>2. /\ list[1].time \in Nat /\ Lag \in Nat
      /\ elapsed \in Nat /\ sleep \in Nat /\ diff \in Nat /\ left \in [Timers -> Int]
  BY ThreadTypes
<1>3. list \in Seq([h : Timers, time : Nat])
  BY DEF Sound, TimerTypes
<1>4. elapsed + sleep <= list[1].time
  BY <1>0 DEF Sound, LateInv
<1>5. elapsed' <= list'[1].time + busy'
  BY <1>0, <1>2, <1>4
<1>6. busy' \in 0 .. Lag'
  BY <1>0, <1>1, <1>2
<1>7. TimerTypes'
  BY <1>0, <1>2, <1>3, <1>6 DEF TimerTypes
<1>8. LateInv'
  BY <1>0, <1>5 DEF LateInv
<1>9. FirstTime' - elapsed' = FirstTime - elapsed
  BY <1>0 DEF FirstTime, Unlinking
<1>10. FollowerInv'
  BY <1>0 DEF FollowerInv, Unlinking
<1> QED BY <1>0, <1>7, <1>8, <1>9, <1>10, ListStays

\* The expiry of the first entry keeps it: what diff and the clock lose is the
\* entry's time.
LEMMA ExpireSound ==
  ASSUME NEW k \in Cyclics, disturbed \in BOOLEAN, Sound(k), Expire
  PROVE  Sound(k)'
<1>0. /\ list' = list /\ tcpActive' = tcpActive /\ left' = left /\ disturbed' = disturbed
      /\ used' = used /\ overtaken' = overtaken
      /\ pcbs' = pcbs /\ running' = list[1].h /\ sleep' = sleep /\ busy' = busy
      /\ phase = "check" /\ phase' = "unlink" /\ list[1].time <= diff
      /\ diff' = diff - list[1].time /\ elapsed' = elapsed - list[1].time
  BY DEF Expire
<1>1. Lag' = Lag
  BY <1>0 DEF Lag
<1>2. /\ list[1].time \in Nat /\ Lag \in Nat
      /\ elapsed \in Nat /\ sleep \in Nat /\ diff \in Nat /\ busy \in Nat
      /\ busy <= Lag /\ left \in [Timers -> Int]
  BY ThreadTypes
<1>3. list \in Seq([h : Timers, time : Nat])
  BY DEF Sound, TimerTypes
<1>4. elapsed = diff + busy
  BY <1>0 DEF Sound, TimerTypes
<1>5. diff <= list[1].time + Lag
  BY <1>0 DEF Sound, LateInv
<1>6. PICK t \in Nat : t = list[1].time
  BY <1>2
<1>7. diff - t \in Nat /\ diff - t <= Lag /\ elapsed - t = (diff - t) + busy /\ elapsed - t \in Nat
  <2>1. t <= diff /\ diff <= t + Lag
    BY <1>0, <1>5, <1>6
  <2> QED BY <1>2, <1>4, <2>1
<1>8. TimerTypes'
  <2>1. diff' \in Nat /\ elapsed' \in Nat /\ elapsed' = diff' + busy' /\ busy' \in 0 .. Lag'
    BY <1>0, <1>1, <1>2, <1>6, <1>7
  <2> QED BY <1>0, <1>2, <1>3, <2>1 DEF TimerTypes
<1>9. LateInv'
  <2>1. diff' <= Lag'
    BY <1>0, <1>1, <1>6, <1>7
  <2> QED BY <1>0, <2>1 DEF LateInv
<1>10. FirstTime' - elapsed' = FirstTime - elapsed
  <2>1. FirstTime' = 0 /\ FirstTime = t /\ elapsed' = elapsed - t
    BY <1>0, <1>6 DEF FirstTime, Unlinking
  <2> QED BY <1>2, <2>1
<1>11. FollowerInv'
  BY <1>0 DEF FollowerInv, Unlinking
<1> QED BY <1>0, <1>8, <1>9, <1>10, <1>11, ListStays

\* The end of a check keeps it: the first entry is not due for what the check saw
\* of the clock.
LEMMA EndCheckSound ==
  ASSUME NEW k \in Cyclics, disturbed \in BOOLEAN, Sound(k), EndCheck
  PROVE  Sound(k)'
<1>0. /\ list' = list /\ tcpActive' = tcpActive /\ left' = left /\ disturbed' = disturbed
      /\ used' = used /\ overtaken' = overtaken
      /\ pcbs' = pcbs /\ elapsed' = elapsed /\ running' = running /\ sleep' = sleep
      /\ diff' = diff /\ busy' = busy /\ phase = "check" /\ phase' = "fetch"
  BY DEF EndCheck
<1>1. Lag' = Lag
  BY <1>0 DEF Lag
<1>2. /\ list[1].time \in Nat /\ Lag \in Nat
      /\ elapsed \in Nat /\ sleep \in Nat /\ diff \in Nat /\ busy \in Nat
      /\ busy <= Lag /\ left \in [Timers -> Int]
  BY ThreadTypes
<1>3. list \in Seq([h : Timers, time : Nat])
  BY DEF Sound, TimerTypes
<1>4. elapsed = diff + busy
  BY <1>0 DEF Sound, TimerTypes
<1>5. list[1].time > diff
  <2>1. list # <<>>
    BY SoundList
  <2> QED BY <2>1 DEF EndCheck
<1>6. elapsed <= list[1].time + Lag
  BY <1>2, <1>4, <1>5
<1>7. TimerTypes'
  <2>1. busy' \in 0 .. Lag'
    BY <1>0, <1>1, <1>2
  <2> QED BY <1>0, <1>2, <1>3, <2>1 DEF TimerTypes
<1>8. LateInv'
  BY <1>0, <1>1, <1>6 DEF LateInv
<1>9. FirstTime' - elapsed' = FirstTime - elapsed
  BY <1>0 DEF FirstTime, Unlinking
<1>10. FollowerInv'
  BY <1>0 DEF FollowerInv, Unlinking
<1> QED BY <1>0, <1>7, <1>8, <1>9, <1>10, ListStays

\* m is l without its first entry.
Shortens(m, l, k, x) ==
  /\ m \in Seq(Entries) /\ Distinct(m)
  /\ TimersOf(m) = TimersOf(l) \ {l[1].h}
  /\ Gaps(l, k, x) => Gaps(m, k, x)

\* A list without its first entry.
LEMMA TailIs ==
  ASSUME NEW l \in Seq(Entries), l # <<>>
  PROVE  /\ SubSeq(l, 2, Len(l)) \in Seq(Entries)
         /\ Len(SubSeq(l, 2, Len(l))) = Len(l) - 1
         /\ DOMAIN SubSeq(l, 2, Len(l)) = 1 .. Len(l) - 1
         /\ \A i \in 1 .. Len(l) - 1 : SubSeq(l, 2, Len(l))[i] = l[i + 1]
<1>1. Len(l) \in Nat /\ Len(l) # 0 /\ Len(l) >= 1
  OBVIOUS
<1>2. \A i \in 2 .. Len(l) : l[i] \in Entries
  BY <1>1
<1>3. SubSeq(l, 2, Len(l)) \in Seq(Entries)
  BY <1>1, <1>2
<1>4. Len(SubSeq(l, 2, Len(l))) = Len(l) - 1
  <2>1. PICK z \in Nat : z = Len(l)
    BY <1>1
  <2>2. Len(SubSeq(l, 2, z)) = IF 2 <= z THEN z - 1 ELSE 0
    <3>1. CASE 2 <= z
      BY <3>1
    <3>2. CASE ~(2 <= z)
      BY <3>2
    <3> QED BY <3>1, <3>2
  <2>3. z >= 1
    BY <1>1, <2>1
  <2>4. Len(SubSeq(l, 2, z)) = z - 1
    <3>1. CASE 2 <= z
      BY <2>2, <3>1
    <3>2. CASE z = 1
      BY <2>2, <3>2
    <3> QED BY <2>3, <3>1, <3>2
  <2> QED BY <2>1, <2>4
<1>5. \A i \in 1 .. Len(l) - 1 : SubSeq(l, 2, Len(l))[i] = l[i + 1]
  <2> TAKE i \in 1 .. Len(l) - 1
  <2>1. (i + 2) - 1 = i + 1 /\ (2 + i) - 1 = i + 1
    BY <1>1
  <2> QED BY <1>1, <2>1
<1>6. DOMAIN SubSeq(l, 2, Len(l)) = 1 .. Len(l) - 1
  BY <1>3, <1>4
<1> QED BY <1>3, <1>4, <1>5, <1>6

\* What unlinking the first entry does.
LEMMA TailShortens ==
  ASSUME NEW l \in Seq(Entries), l # <<>>, Distinct(l), NEW k, NEW x
  PROVE  Shortens(SubSeq(l, 2, Len(l)), l, k, x)
<1> DEFINE m == SubSeq(l, 2, Len(l))
<1>0. Len(l) \in Nat /\ Len(l) >= 1 /\ DOMAIN l = 1 .. Len(l)
  OBVIOUS
<1>1. m \in Seq(Entries) /\ DOMAIN m = 1 .. Len(l) - 1 /\ \A i \in 1 .. Len(l) - 1 : m[i] = l[i + 1]
  BY TailIs
<1> HIDE DEF m
<1>2. ASSUME NEW i \in DOMAIN m PROVE i + 1 \in DOMAIN l /\ i + 1 # 1 /\ m[i] = l[i + 1]
  BY <1>0, <1>1
<1>3. ASSUME NEW i \in DOMAIN l, i # 1 PROVE i - 1 \in DOMAIN m /\ m[i - 1] = l[i]
  <2>1. i - 1 \in 1 .. Len(l) - 1 /\ (i - 1) + 1 = i
    BY <1>0, <1>3
  <2> QED BY <1>1, <2>1
<1>4. 1 \in DOMAIN l
  BY <1>0
<1>5. TimersOf(m) = TimersOf(l) \ {l[1].h}
  <2>1. ASSUME NEW e \in TimersOf(m) PROVE e \in TimersOf(l) \ {l[1].h}
    <3>1. PICK i \in DOMAIN m : e = m[i].h
      BY <2>1 DEF TimersOf
    <3>2. i + 1 \in DOMAIN l /\ i + 1 # 1 /\ e = l[i + 1].h
      BY <1>2, <3>1
    <3>3. l[i + 1].h # l[1].h
      BY <1>4, <3>2 DEF Distinct
    <3> QED BY <3>2, <3>3 DEF TimersOf
  <2>2. ASSUME NEW e \in TimersOf(l), e # l[1].h PROVE e \in TimersOf(m)
    <3>1. PICK i \in DOMAIN l : e = l[i].h
      BY <2>2 DEF TimersOf
    <3>2. i - 1 \in DOMAIN m /\ m[i - 1] = l[i]
      BY <1>3, <2>2, <3>1
    <3> QED BY <3>1, <3>2 DEF TimersOf
  <2> QED BY <2>1, <2>2
<1>6. Distinct(m)
  <2> SUFFICES ASSUME NEW i \in DOMAIN m, NEW j \in DOMAIN m, m[i].h = m[j].h PROVE i = j
    BY DEF Distinct
  <2>1. i + 1 \in DOMAIN l /\ j + 1 \in DOMAIN l /\ l[i + 1].h = l[j + 1].h
    BY <1>2
  <2>2. i + 1 = j + 1
    BY <2>1 DEF Distinct
  <2> QED BY <1>0, <1>1, <2>2
<1>7. ASSUME Gaps(l, k, x) PROVE Gaps(m, k, x)
  <2> SUFFICES ASSUME NEW i \in DOMAIN m, NEW j \in DOMAIN m, i <= j, m[j].h = k
               PROVE  m[i].time <= x
    BY DEF Gaps
  <2>1. i + 1 \in DOMAIN l /\ j + 1 \in DOMAIN l /\ m[i] = l[i + 1] /\ l[j + 1].h = k
    BY <1>2
  <2>2. i + 1 <= j + 1
    BY <1>0, <1>1
  <2> QED BY <1>7, <2>1, <2>2 DEF Gaps
<1>8. Shortens(m, l, k, x)
  BY <1>1, <1>5, <1>6, <1>7 DEF Shortens
<1> QED BY <1>8 DEF m

\* What is left for the second entry counts from the first.
LEMMA TailDue ==
  ASSUME NEW l \in Seq(Entries), l # <<>>, SubSeq(l, 2, Len(l)) # <<>>,
         NEW f \in [Timers -> Int], NEW since \in Nat, Due(l, f, 0 - since)
  PROVE  Due(SubSeq(l, 2, Len(l)), f, SubSeq(l, 2, Len(l))[1].time - since)
<1> DEFINE m == SubSeq(l, 2, Len(l))
<1>0. /\ Len(l) \in Nat /\ \A i \in 1 .. Len(l) : l[i].time \in Nat /\ l[i].h \in Timers
  BY EntriesAre
<1>1. m \in Seq(Entries) /\ Len(m) = Len(l) - 1 /\ \A i \in 1 .. Len(l) - 1 : m[i] = l[i + 1]
  BY TailIs
<1>2. m # <<>>
  OBVIOUS
<1> HIDE DEF m
<1>3. Len(m) # 0 /\ Len(m) \in Nat
  BY <1>1, <1>2
<1>4. 1 \in 1 .. Len(l) - 1 /\ 1 + 1 = 2 /\ 2 \in 1 .. Len(l)
  BY <1>0, <1>1, <1>3
<1>5. f[l[1].h] = 0 - since /\ Sums(l, f)
  BY DEF Due
<1>6. f[m[1].h] = m[1].time - since
  <2>1. m[1] = l[2]
    BY <1>1, <1>4
  <2>2. f[l[2].h] = f[l[1].h] + l[2].time
    BY <1>4, <1>5 DEF Sums
  <2>3. PICK t \in Nat : t = l[2].time
    BY <1>0, <1>4
  <2>4. (0 - since) + t = t - since
    OBVIOUS
  <2> QED BY <1>5, <2>1, <2>2, <2>3, <2>4
<1>7. Sums(m, f)
  <2> SUFFICES ASSUME NEW i \in 1 .. Len(m) - 1
               PROVE  f[m[i + 1].h] = f[m[i].h] + m[i + 1].time
    BY DEF Sums
  <2>1. i \in 1 .. Len(l) - 1 /\ i + 1 \in 1 .. Len(l) - 1
    BY <1>0, <1>1
  <2>2. m[i] = l[i + 1] /\ m[i + 1] = l[(i + 1) + 1]
    BY <1>1, <2>1
  <2>3. f[l[(i + 1) + 1].h] = f[l[i + 1].h] + l[(i + 1) + 1].time
    BY <1>5, <2>1 DEF Sums
  <2> QED BY <2>2, <2>3
<1> QED BY <1>6, <1>7 DEF Due, m

\* Two entries taken off one after the other are the first two.
LEMMA TailOfTail ==
  ASSUME NEW l \in Seq(Entries), Len(l) > 2
  PROVE  SubSeq(l, 3, Len(l)) = SubSeq(SubSeq(l, 2, Len(l)), 2, Len(SubSeq(l, 2, Len(l))))
<1> DEFINE m == SubSeq(l, 2, Len(l))
           n == SubSeq(m, 2, Len(m))
           o == SubSeq(l, 3, Len(l))
<1>0. Len(l) \in Nat /\ l # <<>> /\ \A i \in 3 .. Len(l) : l[i] \in Entries
  <2>1. Len(l) \in Nat /\ l # <<>>
    OBVIOUS
  <2> QED BY <2>1, EntriesAre
<1>1. m \in Seq(Entries) /\ Len(m) = Len(l) - 1 /\ \A i \in 1 .. Len(l) - 1 : m[i] = l[i + 1]
  BY <1>0, TailIs
<1> HIDE DEF m
<1>2. m # <<>>
  <2>1. Len(m) # 0
    BY <1>0, <1>1
  <2> QED BY <2>1
<1>3. n \in Seq(Entries) /\ Len(n) = Len(m) - 1 /\ \A i \in 1 .. Len(m) - 1 : n[i] = m[i + 1]
  BY <1>1, <1>2, TailIs
<1>4. /\ o \in Seq(Entries) /\ Len(o) = (IF 3 <= Len(l) THEN Len(l) - 3 + 1 ELSE 0)
      /\ \A i \in 1 .. Len(l) - 3 + 1 : o[i] = l[3 + i - 1]
  BY <1>0, SubSeqProperties
<1> HIDE DEF n, o
<1>5. Len(o) = Len(l) - 2 /\ Len(n) = Len(l) - 2
  BY <1>0, <1>1, <1>3, <1>4
<1>6. ASSUME NEW i \in 1 .. Len(o) PROVE o[i] = n[i]
  <2>1. /\ i \in 1 .. Len(l) - 3 + 1 /\ i \in 1 .. Len(m) - 1 /\ i + 1 \in 1 .. Len(l) - 1
        /\ 3 + i - 1 = i + 2 /\ (i + 1) + 1 = i + 2
    BY <1>0, <1>1, <1>5
  <2>2. o[i] = l[i + 2]
    BY <1>4, <2>1
  <2>3. n[i] = l[i + 2]
    BY <1>1, <1>3, <2>1
  <2> QED BY <2>2, <2>3
<1>7. o = n
  BY <1>3, <1>4, <1>5, <1>6, SeqEqual
<1> QED BY <1>7 DEF m, n, o

\* The load keeps the invariant: an entry follows the one that has expired.
LEMMA LoadNextSound ==
  ASSUME NEW k \in Cyclics, disturbed \in BOOLEAN, Sound(k), LoadNext
  PROVE  Sound(k)'
<1>0. /\ list' = list /\ tcpActive' = tcpActive /\ left' = left /\ disturbed' = disturbed
      /\ used' = used /\ overtaken' = overtaken
      /\ pcbs' = pcbs /\ elapsed' = elapsed /\ running' = running /\ sleep' = sleep
      /\ diff' = diff /\ busy' = busy /\ phase = "unlink" /\ phase' = "store"
  BY DEF LoadNext
<1>1. Lag' = Lag
  BY <1>0 DEF Lag
<1>2. TimerTypes' /\ LateInv'
  <2>1. TimerTypes /\ LateInv
    BY DEF Sound
  <2> QED BY <1>0, <1>1, <2>1 DEF TimerTypes, LateInv
<1>3. FirstTime' - elapsed' = FirstTime - elapsed
  BY <1>0 DEF FirstTime, Unlinking
<1>4. FollowerInv'
  <2>1. list \in Seq(Entries) /\ Distinct(list) /\ 1 \in DOMAIN list /\ TimersOf(list) = Kept \ Off
    BY SoundList
  <2>2. list[1].h = running
    BY <1>0 DEF Sound, ArmedInv, FollowerInv, Unlinking
  <2>3. Len(list) > 1
    <3>1. Off = {}
      BY <1>0 DEF Off
    <3>2. Cyclics \subseteq TimersOf(list)
      BY <2>1, <3>1, KeptHas
    <3> QED BY <2>1, <3>2, TwoEntries
  <2>4. PICK i \in DOMAIN list : /\ list[i].h = running
                                 /\ follower' = IF i = Len(list) THEN None ELSE list[i + 1].h
    BY DEF LoadNext
  <2>5. i = 1
    BY <2>1, <2>2, <2>4 DEF Distinct
  <2>6. Len(list) # 1 /\ 1 + 1 = 2
    BY <2>1, <2>3
  <2>7. list[2].h = follower'
    BY <2>4, <2>5, <2>6
  <2> QED BY <1>0, <2>2, <2>3, <2>7 DEF FollowerInv, Unlinking
<1> QED BY <1>0, <1>2, <1>3, <1>4, ListStays

\* The store keeps the cyclic timers, and the TCP timer unless it came behind the
\* entry after the load.
LEMMA UnlinkTakes ==
  ASSUME NEW k \in Cyclics, Sound(k), Unlink, NEW x, Gaps(list, k, x)
  PROVE  /\ list' \in Seq(Entries) /\ Distinct(list') /\ Gaps(list', k, x)
         /\ TimersOf(list') = Kept' \ {running}
         /\ Counted' /\ running \in Kept'
         /\ disturbed = FALSE => list' = SubSeq(list, 2, Len(list))
<1>0. /\ phase = "store" /\ used' = used - 1 /\ tcpActive' = tcpActive /\ overtaken' = overtaken
      /\ list' = IF follower = None THEN <<>>
                 ELSE LET i == CHOOSE i \in DOMAIN list : list[i].h = follower
                      IN  SubSeq(list, i, Len(list))
  BY DEF Unlink
<1>1. /\ list \in Seq(Entries) /\ list # <<>> /\ 1 \in DOMAIN list /\ Distinct(list)
      /\ list[1].h \in TimersOf(list) /\ TimersOf(list) = Kept \ Off /\ Counted
      /\ Len(list) \in Nat /\ DOMAIN list = 1 .. Len(list)
  BY SoundList, EntriesAre
<1>2. TimersOf(list) = Kept
  BY <1>0, <1>1 DEF Off
<1>3. list[1].h = running
  BY <1>0 DEF Sound, ArmedInv, FollowerInv, Unlinking
<1>4. ASSUME NEW i \in DOMAIN list, list[i].h = follower PROVE list' = SubSeq(list, i, Len(list))
  <2>1. follower # None
    <3>1. list[i].h \in Timers
      BY <1>1, EntriesAre
    <3> QED BY <1>4, <3>1, TimeoutsAssumption
  <2>2. (CHOOSE j \in DOMAIN list : list[j].h = follower) = i
    BY <1>1, <1>4 DEF Distinct
  <2> QED BY <1>0, <2>1, <2>2
<1>5. PICK m : m = SubSeq(list, 2, Len(list))
  OBVIOUS
<1>6. Shortens(m, list, k, x)
  BY <1>1, <1>5, TailShortens
<1>7. Len(m) = Len(list) - 1
  BY <1>1, <1>5, TailIs
<1>10. PICK z \in Nat : z = Len(list)
  BY <1>1
<1>11. /\ used = z \/ (used = z + 1 /\ overtaken /\ tcpActive)
       /\ used' = used - 1 /\ Len(m) = z - 1
  BY <1>0, <1>1, <1>7, <1>10 DEF Counted
<1>8. CASE Len(list) > 1 /\ list[2].h = follower
  <2>1. list' = m
    <3>1. 2 \in DOMAIN list
      BY <1>1, <1>8
    <3> QED BY <1>4, <1>5, <1>8, <3>1
  <2>2. used' = Len(list') <=> used = Len(list)
    <3>1. used - 1 = z - 1 <=> used = z
      BY <1>11
    <3> QED BY <1>10, <1>11, <2>1, <3>1
  <2>3. Kept' = Kept
    BY <1>0, <2>2 DEF Kept, Wanted
  <2>4. Counted'
    <3>1. used = z => used - 1 = z - 1
      OBVIOUS
    <3>2. used = z + 1 => used - 1 = (z - 1) + 1
      OBVIOUS
    <3> QED BY <1>0, <1>11, <2>1, <3>1, <3>2 DEF Counted
  <2> QED BY <1>1, <1>2, <1>3, <1>5, <1>6, <2>1, <2>3, <2>4 DEF Shortens
<1>9. CASE Len(list) > 2 /\ list[3].h = follower /\ list[2].h = Tcp /\ overtaken /\ disturbed
  <2>1. 2 \in DOMAIN list /\ 3 \in DOMAIN list /\ m # <<>> /\ m[1] = list[2]
    <3>1. 2 \in DOMAIN list /\ 3 \in DOMAIN list
      BY <1>1, <1>9
    <3>2. m # <<>>
      <4>1. Len(m) # 0
        BY <1>1, <1>7, <1>9
      <4> QED BY <4>1
    <3>3. 1 \in 1 .. Len(list) - 1 /\ 1 + 1 = 2
      BY <1>1, <1>9
    <3>4. m[1] = list[2]
      BY <1>1, <1>5, <3>3, TailIs
    <3> QED BY <3>1, <3>2, <3>4
  <2>2. list' = SubSeq(m, 2, Len(m))
    <3>1. list' = SubSeq(list, 3, Len(list))
      BY <1>4, <1>9, <2>1
    <3> QED BY <1>1, <1>5, <1>9, <3>1, TailOfTail
  <2>3. m \in Seq(Entries) /\ Distinct(m) /\ Gaps(m, k, x) /\ TimersOf(m) = TimersOf(list) \ {running}
    BY <1>3, <1>6 DEF Shortens
  <2>4. Shortens(list', m, k, x)
    BY <2>1, <2>2, <2>3, TailShortens
  <2>5. Len(list') = Len(m) - 1
    BY <2>1, <2>2, <2>3, TailIs
  <2>6. Tcp \in Kept
    <3>1. list[2].h \in TimersOf(list)
      BY <2>1 DEF TimersOf
    <3> QED BY <1>2, <1>9, <3>1
  <2>7. used = Len(list) /\ tcpActive /\ Kept = Cyclics \cup {Tcp}
    BY <2>6, TimersAre DEF Kept, Wanted
  <2>8. used' = Len(list') + 1
    <3>1. used' = z - 1 /\ Len(list') = (z - 1) - 1
      BY <1>10, <1>11, <2>5, <2>7
    <3>2. z - 1 = ((z - 1) - 1) + 1
      OBVIOUS
    <3> QED BY <3>1, <3>2
  <2>9. Len(list') \in Nat
    BY <2>4 DEF Shortens
  <2>10. Kept' = Cyclics
    BY <2>8, <2>9 DEF Kept
  <2>11. running # Tcp
    <3>1. 1 # 2
      OBVIOUS
    <3> QED BY <1>1, <1>3, <1>9, <2>1, <3>1 DEF Distinct
  <2>12. running \in Cyclics
    BY <1>1, <1>2, <1>3, <2>7, <2>11
  <2>13. TimersOf(list') = Cyclics \ {running}
    <3>1. TimersOf(list') = TimersOf(m) \ {Tcp}
      BY <1>9, <2>1, <2>4 DEF Shortens
    <3> QED BY <1>2, <2>3, <2>7, <3>1, TimersAre
  <2>14. Counted'
    BY <1>0, <1>9, <2>7, <2>8 DEF Counted
  <2>15. disturbed # FALSE
    BY <1>9
  <2> QED BY <2>3, <2>4, <2>10, <2>12, <2>13, <2>14, <2>15 DEF Shortens
<1> QED BY <1>0, <1>8, <1>9 DEF Sound, ArmedInv, FollowerInv

\* Unlinking keeps the invariant: the entry that goes is the first, and the next
\* one counts from its expiry.
LEMMA UnlinkSound ==
  ASSUME NEW k \in Cyclics, disturbed \in BOOLEAN, Sound(k), Unlink
  PROVE  Sound(k)'
<1>0. /\ elapsed' = elapsed /\ tcpActive' = tcpActive /\ left' = left /\ disturbed' = disturbed
      /\ pcbs' = pcbs /\ running' = running /\ sleep' = sleep /\ busy' = busy
      /\ diff' = diff /\ phase = "store" /\ phase' = "handler"
  BY DEF Unlink
<1>1. Lag' = Lag /\ Off' = {running} /\ FirstTime = 0
  BY <1>0 DEF Lag, Off, FirstTime, Unlinking
<1>2. /\ list \in Seq(Entries) /\ list # <<>>
      /\ Gaps(list, k, Interval[k] + 2 * Lag)
      /\ disturbed = FALSE => Due(list, left, FirstTime - elapsed)
  BY SoundList
<1>3. /\ list' \in Seq(Entries) /\ Distinct(list') /\ Gaps(list', k, Interval[k] + 2 * Lag)
      /\ TimersOf(list') = Kept' \ {running}
      /\ Counted' /\ running \in Kept'
      /\ disturbed = FALSE => list' = SubSeq(list, 2, Len(list))
  BY <1>2, UnlinkTakes
<1>4. list' # <<>>
  <2>1. Cyclics \subseteq Kept'
    BY DEF Kept, Wanted
  <2> QED BY <1>3, <2>1, NeverEmpty
<1>8. /\ Lag \in Nat /\ elapsed \in Nat /\ sleep \in Nat /\ diff \in Nat /\ busy \in Nat
      /\ busy <= Lag /\ left \in [Timers -> Int]
  BY ThreadTypes
<1>9. elapsed = diff + busy /\ diff <= Lag
  BY <1>0 DEF Sound, TimerTypes, LateInv
<1>10. TimerTypes'
  <2>1. busy' \in 0 .. Lag'
    BY <1>0, <1>1, <1>8
  <2>2. list' \in Seq([h : Timers, time : Nat])
    BY <1>3 DEF Entries
  <2> QED BY <1>0, <1>8, <1>9, <2>1, <2>2 DEF TimerTypes
<1>11. LateInv'
  BY <1>0, <1>1, <1>9 DEF LateInv
<1>12. disturbed' = FALSE => Due(list', left', FirstTime' - elapsed')
  <2> SUFFICES ASSUME disturbed = FALSE PROVE Due(list', left', FirstTime' - elapsed')
    BY <1>0
  <2>1. Due(list, left, 0 - elapsed)
    BY <1>1, <1>2
  <2>2. Due(list', left, list'[1].time - elapsed)
    BY <1>2, <1>3, <1>4, <1>8, <2>1, TailDue
  <2>3. FirstTime' = list'[1].time
    BY <1>0 DEF FirstTime, Unlinking
  <2> QED BY <1>0, <2>2, <2>3
<1>13. FollowerInv'
  BY <1>0 DEF FollowerInv, Unlinking
<1>14. pcbs' => tcpActive'
  BY <1>0 DEF Sound, ArmedInv, EachArmedOnce
<1>15. TimersOf(list') = Kept' \ Off'
  BY <1>1, <1>3
<1> QED BY <1>0, <1>1, <1>3, <1>10, <1>11, <1>12, <1>13, <1>14, <1>15, SoundAgain

\* As long as nothing disturbs the thread, the first entry is not overdue, and no
\* time has passed since its expiry when a handler is called.
LEMMA Punctual ==
  ASSUME NEW k \in Cyclics, disturbed = FALSE, Sound(k), ~Unlinking
  PROVE  elapsed <= list[1].time /\ (k \in TimersOf(list) \/ elapsed = 0)
<1>1. Lag = 0
  BY DEF Lag
<1>2. /\ list[1].time \in Nat /\ elapsed \in Nat /\ sleep \in Nat /\ diff \in Nat
      /\ busy \in Nat /\ busy <= Lag
  BY ThreadTypes
<1>3. busy = 0
  BY <1>1, <1>2
<1>4. phase \in {"fetch", "wait", "message", "check", "unlink", "store", "handler"}
      /\ (phase \in {"check", "unlink", "store", "handler"} => elapsed = diff + busy)
  BY DEF Sound, TimerTypes
<1>5. k \in TimersOf(list) \/ phase = "handler"
  BY SoundList
<1>6. CASE phase = "fetch"
  <2>1. elapsed <= list[1].time + Lag
    BY <1>6 DEF Sound, LateInv
  <2> QED BY <1>1, <1>2, <1>5, <1>6, <2>1
<1>7. CASE phase = "wait"
  <2>1. elapsed + sleep <= list[1].time
    BY <1>7 DEF Sound, LateInv
  <2> QED BY <1>2, <1>5, <1>7, <2>1
<1>8. CASE phase = "message"
  <2>1. elapsed <= list[1].time + busy
    BY <1>8 DEF Sound, LateInv
  <2> QED BY <1>2, <1>3, <1>5, <1>8, <2>1
<1>9. CASE phase = "check"
  <2>1. diff <= list[1].time + Lag
    BY <1>9 DEF Sound, LateInv
  <2>2. elapsed = diff + busy
    BY <1>4, <1>9
  <2> QED BY <1>1, <1>2, <1>3, <1>5, <1>9, <2>1, <2>2
<1>10. CASE phase = "handler"
  <2>1. diff <= Lag
    BY <1>10 DEF Sound, LateInv
  <2>2. elapsed = diff + busy
    BY <1>4, <1>10
  <2> QED BY <1>1, <1>2, <1>3, <2>1, <2>2
<1> QED BY <1>4, <1>6, <1>7, <1>8, <1>9, <1>10 DEF Unlinking

\* sys_timeout finds an entry of the pool and a list that is not empty.
LEMMA SysTimeoutIs ==
  ASSUME NEW k \in Cyclics, Sound(k), NEW h \in Timers, h \notin TimersOf(list), sys_timeout(h),
         used = Len(list) \/ h # Tcp
  PROVE  /\ list' = Enqueued(list, elapsed, Interval[h], h)
         /\ used' = used + 1
         /\ elapsed' = elapsed
         /\ left' = [left EXCEPT ![h] = Interval[h]]
<1>1. list \in Seq(Entries) /\ list # <<>> /\ Distinct(list) /\ TimersOf(list) = Kept \ Off /\ Counted
  BY SoundList
<1>2. used # PoolSize
  <2>1. CASE used = Len(list)
    BY <1>1, <2>1, Room
  <2>2. CASE used # Len(list)
    <3>1. used = Len(list) + 1 /\ h # Tcp
      BY <1>1, <2>2 DEF Counted
    <3>2. Tcp \notin TimersOf(list)
      BY <1>1, <2>2, TimersAre DEF Kept
    <3> QED BY <1>1, <3>1, <3>2, RoomBesidesLost
  <2> QED BY <2>1, <2>2
<1> QED BY <1>1, <1>2 DEF sys_timeout

\* What sys_timeout makes of the list and of what is left, with the lag it may
\* have after the step.
LEMMA SysTimeoutArms ==
  ASSUME NEW k \in Cyclics, Sound(k), disturbed \in BOOLEAN, disturbed' \in BOOLEAN,
         disturbed = TRUE => disturbed' = TRUE, Frequent(k, Lag'),
         NEW h \in Timers, h \notin TimersOf(list), h = k => elapsed <= 2 * Lag',
         used = Len(list) \/ h # Tcp, sys_timeout(h)
  PROVE  /\ Arms(list', list, k, Interval[k] + 2 * Lag', h)
         /\ elapsed' = elapsed /\ used' = used + 1
         /\ left' \in [Timers -> Int]
         /\ disturbed = FALSE /\ ~Unlinking => Due(list', left', list'[1].time - elapsed)
<1>1. /\ list' = Enqueued(list, elapsed, Interval[h], h) /\ elapsed' = elapsed /\ used' = used + 1
      /\ left' = [left EXCEPT ![h] = Interval[h]]
  BY SysTimeoutIs
<1>2. /\ list \in Seq(Entries) /\ list # <<>> /\ Distinct(list)
      /\ Gaps(list, k, Interval[k] + 2 * Lag)
      /\ disturbed = FALSE => Due(list, left, FirstTime - elapsed)
  BY SoundList
<1>3. elapsed \in Nat /\ left \in [Timers -> Int]
  BY ThreadTypes
<1>4. Lag \in Nat /\ Lag' \in Nat /\ Lag <= Lag' /\ Frequent(k, Lag)
  BY LagGrows
<1>5. PICK late \in Nat : late = Lag'
  BY <1>4
<1>6. Gaps(list, k, Interval[k] + 2 * late)
  BY <1>2, <1>4, <1>5, GapsWiden
<1>7. Frequent(k, late) /\ (h = k => elapsed <= 2 * late)
  BY <1>5
<1>8. Arms(Enqueued(list, elapsed, Interval[h], h), list, k, Interval[k] + 2 * late, h)
  BY <1>2, <1>3, <1>6, <1>7, EnqueuedArms
<1>9. left' \in [Timers -> Int]
  <2>1. Interval[h] \in Int
    BY TimersAre
  <2> QED BY <1>1, <1>3, <2>1
<1>10. ASSUME disturbed = FALSE, ~Unlinking PROVE Due(list', left', list'[1].time - elapsed)
  <2>1. elapsed <= list[1].time /\ (k \in TimersOf(list) \/ elapsed = 0)
    BY <1>10, Punctual
  <2>2. Due(list, left, list[1].time - elapsed)
    BY <1>2, <1>10 DEF FirstTime, Unlinking
  <2>3. Due(Enqueued(list, elapsed, Interval[h], h), [left EXCEPT ![h] = Interval[h]],
            Enqueued(list, elapsed, Interval[h], h)[1].time - elapsed)
    BY <1>2, <1>3, <1>6, <1>7, <2>1, <2>2, EnqueuedDue
  <2> QED BY <1>1, <2>3
<1> QED BY <1>1, <1>5, <1>8, <1>9, <1>10

\* A handler that arms its timer again keeps the invariant.
LEMMA HandlerArms ==
  ASSUME NEW k \in Cyclics, disturbed \in BOOLEAN, Sound(k), Frequent(k, Lag),
         phase = "handler", phase' = "check", running \in Timers, sys_timeout(running),
         sleep' = sleep, diff' = diff, running' = running, tcpActive' = tcpActive,
         busy' = busy, disturbed' = disturbed, overtaken' = overtaken, pcbs' => tcpActive'
  PROVE  Sound(k)'
<1>1. /\ Lag' = Lag /\ Off' = {} /\ Off = {running}
      /\ FirstTime' = list'[1].time
  BY DEF Lag, Off, FirstTime, Unlinking
<1>2. TimersOf(list) = Kept \ Off /\ list # <<>> /\ Counted /\ Len(list) \in Nat
  BY SoundList
<1>3. /\ running \notin TimersOf(list) /\ running \in Kept
      /\ used = Len(list) \/ running # Tcp
  <2>1. running \notin TimersOf(list) /\ running \in Kept
    BY <1>1, <1>2 DEF Sound, ArmedInv
  <2> QED BY <2>1, TimersAre DEF Kept
<1>4. /\ Lag \in Nat /\ elapsed \in Nat /\ sleep \in Nat /\ diff \in Nat /\ busy \in Nat
      /\ busy <= Lag
  BY ThreadTypes
<1>5. elapsed = diff + busy /\ diff <= Lag
  BY DEF Sound, TimerTypes, LateInv
<1>6. elapsed <= 2 * Lag'
  BY <1>1, <1>4, <1>5
<1>7. /\ Arms(list', list, k, Interval[k] + 2 * Lag', running) /\ elapsed' = elapsed
      /\ used' = used + 1
      /\ left' \in [Timers -> Int]
      /\ disturbed = FALSE => Due(list', left', list'[1].time - elapsed)
  BY <1>1, <1>3, <1>6, SysTimeoutArms DEF Unlinking
<1>8. /\ list' \in Seq(Entries) /\ Distinct(list') /\ TimersOf(list') = TimersOf(list) \cup {running}
      /\ Gaps(list', k, Interval[k] + 2 * Lag') /\ Len(list') = Len(list) + 1
  BY <1>7 DEF Arms
<1>13. used' = Len(list') <=> used = Len(list)
  BY <1>2, <1>7, <1>8 DEF Counted
<1>14. Kept' = Kept
  BY <1>13 DEF Kept, Wanted
<1>15. Counted'
  BY <1>2, <1>7, <1>8 DEF Counted
<1>16. FollowerInv'
  BY DEF FollowerInv, Unlinking
<1>9. TimersOf(list') = Kept' \ Off'
  BY <1>1, <1>2, <1>3, <1>8, <1>14
<1>10. TimerTypes'
  <2>1. busy' \in 0 .. Lag'
    BY <1>1, <1>4
  <2>2. list' \in Seq([h : Timers, time : Nat])
    BY <1>8 DEF Entries
  <2> QED BY <1>4, <1>5, <1>7, <2>1, <2>2 DEF TimerTypes
<1>11. LateInv'
  <2>1. list'[1].time \in Nat
    <3>1. list' # <<>>
      BY <1>1, <1>9, <1>14, NeverEmpty, KeptHas
    <3>2. Len(list') \in Nat /\ Len(list') # 0
      BY <1>8, <3>1
    <3>3. 1 \in 1 .. Len(list')
      BY <3>2
    <3> QED BY <1>8, <3>3, EntriesAre
  <2>2. diff' <= list'[1].time + Lag'
    BY <1>1, <1>4, <1>5, <2>1
  <2> QED BY <2>2 DEF LateInv
<1>12. disturbed' = FALSE => Due(list', left', FirstTime' - elapsed')
  BY <1>1, <1>7
<1> QED BY <1>8, <1>9, <1>10, <1>11, <1>12, <1>15, <1>16, SoundAgain

\* The handler of a cyclic timer keeps the invariant: it arms that timer again.
LEMMA CyclicTimerSound ==
  ASSUME NEW k \in Cyclics, disturbed \in BOOLEAN, Sound(k), Frequent(k, Lag), cyclic_timer
  PROVE  Sound(k)'
<1>1. /\ phase = "handler" /\ phase' = "check" /\ sys_timeout(running)
      /\ sleep' = sleep /\ diff' = diff /\ running' = running /\ tcpActive' = tcpActive
      /\ busy' = busy /\ disturbed' = disturbed /\ overtaken' = overtaken
  BY DEF cyclic_timer
<1>2. running \in Timers
  BY <1>1, KeptHas DEF Sound, ArmedInv, Wanted, Timers
<1>3. pcbs' => tcpActive'
  <2>1. pcbs' = pcbs \/ pcbs' = FALSE
    BY DEF cyclic_timer
  <2>2. pcbs => tcpActive
    BY DEF Sound, ArmedInv, EachArmedOnce
  <2> QED BY <1>1, <2>1, <2>2, Zenon
<1> QED BY <1>1, <1>2, <1>3, HandlerArms

\* The handler of the TCP timer keeps it, which without connections does not arm
\* the timer and clears tcpip_tcp_timer_active.
LEMMA TcpTimerSound ==
  ASSUME NEW k \in Cyclics, disturbed \in BOOLEAN, Sound(k), Frequent(k, Lag), tcpip_tcp_timer
  PROVE  Sound(k)'
<1>1. /\ phase = "handler" /\ phase' = "check" /\ running = Tcp
      /\ sleep' = sleep /\ diff' = diff /\ running' = running
      /\ busy' = busy /\ disturbed' = disturbed /\ overtaken' = overtaken
  BY DEF tcpip_tcp_timer
<1>2. pcbs' => tcpActive
  <2>1. pcbs' = pcbs \/ pcbs' = FALSE
    BY DEF tcpip_tcp_timer
  <2>2. pcbs => tcpActive
    BY DEF Sound, ArmedInv, EachArmedOnce
  <2> QED BY <2>1, <2>2, Zenon
<1>3. CASE pcbs'
  <2>1. sys_timeout(running) /\ tcpActive' = tcpActive
    BY <1>1, <1>3 DEF tcpip_tcp_timer
  <2>2. running \in Timers
    BY <1>1, TimersAre
  <2>3. pcbs' => tcpActive'
    BY <1>2, <2>1, Zenon
  <2> QED BY <1>1, <2>1, <2>2, <2>3, HandlerArms
<1>4. CASE ~pcbs'
  <2>1. tcpActive' = FALSE /\ list' = list /\ used' = used /\ elapsed' = elapsed /\ left' = left
    BY <1>4 DEF tcpip_tcp_timer
  <2>2. /\ list \in Seq(Entries) /\ Distinct(list) /\ Gaps(list, k, Interval[k] + 2 * Lag)
        /\ TimersOf(list) = Kept \ Off /\ list[1].time \in Nat
        /\ disturbed = FALSE => Due(list, left, FirstTime - elapsed)
    BY SoundList
  <2>3. Lag' = Lag /\ Off' = {} /\ Off = {Tcp} /\ FirstTime' = FirstTime
    BY <1>1, <2>1 DEF Lag, Off, FirstTime, Unlinking
  <2>10. used = Len(list)
    <3>1. Tcp \in Kept
      BY <1>1 DEF Sound, ArmedInv
    <3> QED BY <3>1, TimersAre DEF Kept
  <2>4. TimersOf(list') = Kept' \ Off' /\ Counted' /\ FollowerInv'
    <3>1. Kept' = Cyclics
      BY <2>1 DEF Kept, Wanted
    <3>2. Kept \ {Tcp} = Cyclics
      BY TimersAre DEF Kept, Wanted
    <3>3. Counted'
      BY <2>1, <2>10 DEF Counted
    <3>4. FollowerInv'
      BY <1>1 DEF FollowerInv, Unlinking
    <3> QED BY <2>1, <2>2, <2>3, <3>1, <3>2, <3>3, <3>4
  <2>5. /\ Lag \in Nat /\ elapsed \in Nat /\ sleep \in Nat /\ diff \in Nat /\ busy \in Nat
        /\ busy <= Lag /\ left \in [Timers -> Int]
    BY ThreadTypes
  <2>6. elapsed = diff + busy /\ diff <= Lag
    BY <1>1 DEF Sound, TimerTypes, LateInv
  <2>7. TimerTypes'
    <3>1. busy' \in 0 .. Lag'
      BY <1>1, <2>3, <2>5
    <3>2. list' \in Seq([h : Timers, time : Nat])
      BY <2>1, <2>2 DEF Entries
    <3> QED BY <1>1, <2>1, <2>5, <2>6, <3>1, <3>2 DEF TimerTypes
  <2>8. LateInv'
    <3>1. diff' <= list'[1].time + Lag'
      BY <1>1, <2>1, <2>2, <2>3, <2>5, <2>6
    <3> QED BY <1>1, <3>1 DEF LateInv
  <2>9. disturbed' = FALSE => Due(list', left', FirstTime' - elapsed')
    BY <1>1, <2>1, <2>2, <2>3
  <2> QED BY <1>1, <1>4, <2>1, <2>2, <2>3, <2>4, <2>7, <2>8, <2>9, SoundAgain
<1> QED BY <1>3, <1>4

\* tcp_timer_needed arms the TCP timer unless it is armed already.
LEMMA TimerNeeded ==
  ASSUME NEW k \in Cyclics, Sound(k), disturbed \in BOOLEAN, disturbed' \in BOOLEAN,
         disturbed = TRUE => disturbed' = TRUE, overtaken => overtaken',
         Frequent(k, Lag'), tcp_timer_needed
  PROVE  /\ list' \in Seq(Entries) /\ Distinct(list')
         /\ Gaps(list', k, Interval[k] + 2 * Lag')
         /\ TimersOf(list') = Kept' \ Off /\ Counted'
         /\ elapsed' = elapsed /\ left' \in [Timers -> Int]
         /\ tcpActive'
         /\ Kept \subseteq Kept'
         /\ k \in TimersOf(list) => list'[1] = list[1]
         /\ list' = list \/ /\ ~tcpActive /\ Len(list') = Len(list) + 1
                            /\ k \in TimersOf(list) => Follows(list', list, Tcp)
         /\ disturbed = FALSE /\ ~Unlinking => Due(list', left', list'[1].time - elapsed)
<1>1. /\ list \in Seq(Entries) /\ Distinct(list) /\ Gaps(list, k, Interval[k] + 2 * Lag)
      /\ TimersOf(list) = Kept \ Off /\ Counted /\ Len(list) \in Nat
      /\ disturbed = FALSE => Due(list, left, FirstTime - elapsed)
  BY SoundList
<1>2. Lag \in Nat /\ Lag' \in Nat /\ Lag <= Lag'
  BY LagGrows
<1>3. CASE tcpActive
  <2>1. /\ tcpActive' = tcpActive /\ list' = list /\ used' = used /\ elapsed' = elapsed
        /\ left' = left
    BY <1>3 DEF tcp_timer_needed
  <2>2. Kept' = Kept
    BY <2>1 DEF Kept, Wanted
  <2>3. Gaps(list, k, Interval[k] + 2 * Lag')
    BY <1>1, <1>2, GapsWiden
  <2>4. left' \in [Timers -> Int]
    BY <2>1, ThreadTypes
  <2>5. disturbed = FALSE /\ ~Unlinking => Due(list', left', list'[1].time - elapsed)
    BY <1>1, <2>1 DEF FirstTime
  <2>6. Counted'
    BY <1>1, <2>1 DEF Counted
  <2> QED BY <1>1, <1>3, <2>1, <2>2, <2>3, <2>4, <2>5, <2>6
<1>4. CASE ~tcpActive
  <2>1. tcpActive' = TRUE /\ sys_timeout(Tcp)
    BY <1>4 DEF tcp_timer_needed
  <2>2. used = Len(list) /\ Kept = Cyclics /\ Tcp \in Timers /\ Tcp # k
    BY <1>1, <1>4, TimersAre DEF Counted, Kept, Wanted
  <2>3. Tcp \notin TimersOf(list)
    BY <1>1, <2>2, TimersAre
  <2>4. /\ Arms(list', list, k, Interval[k] + 2 * Lag', Tcp) /\ elapsed' = elapsed
        /\ left' \in [Timers -> Int] /\ used' = used + 1
        /\ disturbed = FALSE /\ ~Unlinking => Due(list', left', list'[1].time - elapsed)
    BY <2>1, <2>2, <2>3, SysTimeoutArms
  <2>5. /\ list' \in Seq(Entries) /\ Distinct(list') /\ Gaps(list', k, Interval[k] + 2 * Lag')
        /\ TimersOf(list') = TimersOf(list) \cup {Tcp} /\ Len(list') = Len(list) + 1
        /\ k \in TimersOf(list) => list'[1] = list[1] /\ Follows(list', list, Tcp)
    BY <2>4 DEF Arms
  <2>6. Tcp \notin Off
    <3>1. Off = {} \/ (phase = "handler" /\ Off = {running})
      BY DEF Off
    <3>2. phase = "handler" => running \in Kept
      BY DEF Sound, ArmedInv
    <3> QED BY <2>2, <3>1, <3>2, TimersAre
  <2>7. used' = Len(list')
    BY <2>2, <2>4, <2>5
  <2>8. Kept' = Cyclics \cup {Tcp} /\ Counted'
    BY <2>1, <2>7 DEF Kept, Wanted, Counted
  <2>9. TimersOf(list') = Kept' \ Off
    BY <1>1, <2>2, <2>5, <2>6, <2>8
  <2> QED BY <1>4, <2>1, <2>2, <2>4, <2>5, <2>8, <2>9
<1> QED BY <1>3, <1>4

\* A message that registers a connection or removes the last one keeps it.
LEMMA MessageSound ==
  ASSUME NEW k \in Cyclics, disturbed \in BOOLEAN, Sound(k), Frequent(k, Lag), Message
  PROVE  Sound(k)'
<1>1. /\ phase = "message" /\ phase' = "fetch" /\ sleep' = sleep /\ diff' = diff
      /\ running' = running /\ busy' = busy /\ disturbed' = disturbed /\ overtaken' = overtaken
  BY DEF Message
<1>2. Lag' = Lag /\ Off' = {} /\ Off = {} /\ FirstTime' = list'[1].time
  BY <1>1 DEF Lag, Off, FirstTime, Unlinking
<1>3. k \in TimersOf(list)
  BY <1>1, SoundList
<1>4. /\ list[1].time \in Nat /\ Lag \in Nat /\ elapsed \in Nat /\ sleep \in Nat
      /\ diff \in Nat /\ busy \in Nat /\ busy <= Lag
  BY ThreadTypes
<1>5. elapsed <= list[1].time + Lag
  <2>1. elapsed <= list[1].time + busy
    BY <1>1 DEF Sound, LateInv
  <2> QED BY <1>4, <2>1
<1>6. pcbs => tcpActive
  BY DEF Sound, ArmedInv, EachArmedOnce
<1>7. /\ list' \in Seq(Entries) /\ Distinct(list') /\ Gaps(list', k, Interval[k] + 2 * Lag')
      /\ TimersOf(list') = Kept' \ Off /\ Counted' /\ elapsed' = elapsed /\ left' \in [Timers -> Int]
      /\ list'[1] = list[1]
      /\ disturbed = FALSE => Due(list', left', list'[1].time - elapsed)
      /\ pcbs' => tcpActive'
  <2>1. CASE tcp_timer_needed
    <3>1. ~Unlinking
      BY <1>1 DEF Unlinking
    <3>2. overtaken => overtaken'
      BY <1>1
    <3>3. Frequent(k, Lag')
      BY <1>2
    <3> QED BY <1>1, <1>2, <1>3, <2>1, <3>1, <3>2, <3>3, TimerNeeded
  <2>2. CASE pcbs' \in {pcbs, FALSE} /\ UNCHANGED <<tcpActive, list, used, elapsed, left>>
    <3>1. tcpActive' = tcpActive /\ list' = list /\ used' = used /\ elapsed' = elapsed /\ left' = left
      BY <2>2
    <3>2. pcbs' => tcpActive'
      <4>1. pcbs' = pcbs \/ pcbs' = FALSE
        BY <2>2
      <4> QED BY <1>6, <3>1, <4>1, Zenon
    <3>3. Kept' = Kept
      BY <3>1 DEF Kept, Wanted
    <3>4. /\ list \in Seq(Entries) /\ Distinct(list) /\ Gaps(list, k, Interval[k] + 2 * Lag)
          /\ TimersOf(list) = Kept \ Off /\ Counted
          /\ disturbed = FALSE => Due(list, left, FirstTime - elapsed)
      BY SoundList
    <3>5. FirstTime = list[1].time
      BY <1>1 DEF FirstTime, Unlinking
    <3>7. Counted'
      BY <1>1, <3>1, <3>4 DEF Counted
    <3>6. left \in [Timers -> Int]
      BY ThreadTypes
    <3> QED BY <1>2, <3>1, <3>2, <3>3, <3>4, <3>5, <3>6, <3>7
  <2> QED BY <2>1, <2>2 DEF Message
<1>8. TimerTypes'
  <2>1. busy' \in 0 .. Lag'
    BY <1>1, <1>2, <1>4
  <2>2. list' \in Seq([h : Timers, time : Nat])
    BY <1>7 DEF Entries
  <2> QED BY <1>1, <1>4, <1>7, <2>1, <2>2 DEF TimerTypes
<1>9. LateInv'
  BY <1>1, <1>2, <1>5, <1>7 DEF LateInv
<1>10. disturbed' = FALSE => Due(list', left', FirstTime' - elapsed')
  BY <1>1, <1>2, <1>7
<1>11. FollowerInv'
  BY <1>1 DEF FollowerInv, Unlinking
<1> QED BY <1>1, <1>2, <1>7, <1>8, <1>9, <1>10, <1>11, SoundAgain

\* An application thread that connects keeps it, wherever the tcpip thread is:
\* between LoadNext and Unlink it may put the TCP timer where it will be lost.
LEMMA AppConnectSound ==
  ASSUME NEW k \in Cyclics, disturbed \in BOOLEAN, Sound(k), Frequent(k, Lag'), AppConnect
  PROVE  Sound(k)'
<1>1. /\ tcp_timer_needed /\ phase' = phase /\ sleep' = sleep /\ diff' = diff
      /\ running' = running /\ busy' = busy
  BY DEF AppConnect
<1>2. disturbed' \in BOOLEAN /\ (disturbed = TRUE => disturbed' = TRUE)
      /\ (disturbed' = FALSE => disturbed = FALSE /\ ~Unlinking)
  BY Zenon DEF AppConnect
<1>13. /\ overtaken => overtaken'
       /\ phase = "store" /\ ~tcpActive => overtaken'
       /\ phase = "store" => disturbed'
  BY Zenon DEF AppConnect, Unlinking
<1>3. Off' = Off /\ (~Unlinking => FirstTime' = list'[1].time)
  BY <1>1 DEF Off, FirstTime, Unlinking
<1>4. /\ list' \in Seq(Entries) /\ Distinct(list') /\ Gaps(list', k, Interval[k] + 2 * Lag')
      /\ TimersOf(list') = Kept' \ Off' /\ Counted' /\ elapsed' = elapsed /\ left' \in [Timers -> Int]
      /\ tcpActive' /\ Kept \subseteq Kept'
      /\ k \in TimersOf(list) => list'[1] = list[1]
      /\ list' = list \/ /\ ~tcpActive /\ Len(list') = Len(list) + 1
                         /\ k \in TimersOf(list) => Follows(list', list, Tcp)
      /\ disturbed = FALSE /\ ~Unlinking => Due(list', left', list'[1].time - elapsed)
  BY <1>1, <1>2, <1>3, <1>13, TimerNeeded
<1>5. k \in TimersOf(list) \/ phase = "handler"
  BY SoundList
<1>6. /\ list[1].time \in Nat /\ Lag \in Nat /\ elapsed \in Nat /\ sleep \in Nat
      /\ diff \in Nat /\ busy \in Nat /\ busy <= Lag
  BY ThreadTypes
<1>7. Lag \in Nat /\ Lag' \in Nat /\ Lag <= Lag'
  BY <1>2, LagGrows
<1>8. TimerTypes'
  <2>1. busy' \in 0 .. Lag'
    BY <1>1, <1>6, <1>7
  <2>2. list' \in Seq([h : Timers, time : Nat])
    BY <1>4 DEF Entries
  <2>3. phase \in {"fetch", "wait", "message", "check", "unlink", "store", "handler"}
        /\ (phase \in {"check", "unlink", "store", "handler"} => elapsed = diff + busy)
    BY DEF Sound, TimerTypes
  <2> QED BY <1>1, <1>4, <1>6, <2>1, <2>2, <2>3 DEF TimerTypes
<1>9. LateInv'
  <2>1. /\ phase = "fetch" => elapsed <= list[1].time + Lag
        /\ phase = "wait" => elapsed + sleep <= list[1].time
        /\ phase = "message" => elapsed <= list[1].time + busy
        /\ phase = "check" => diff <= list[1].time + Lag
        /\ phase \in {"unlink", "store", "handler"} => diff <= Lag
    BY DEF Sound, LateInv
  <2>2. phase # "handler" => list'[1].time = list[1].time
    BY <1>4, <1>5
  <2>3. PICK late \in Nat : late = Lag'
    BY <1>7
  <2>4. Lag <= late
    BY <1>7, <2>3
  <2>5. phase = "fetch" => elapsed <= list[1].time + late
    BY <1>6, <2>1, <2>4
  <2>6. phase = "check" => diff <= list[1].time + late
    BY <1>6, <2>1, <2>4
  <2>7. phase \in {"unlink", "store", "handler"} => diff <= late
    BY <1>6, <2>1, <2>4
  <2> QED BY <1>1, <1>4, <2>1, <2>2, <2>3, <2>5, <2>6, <2>7 DEF LateInv
<1>10. disturbed' = FALSE => Due(list', left', FirstTime' - elapsed')
  BY <1>2, <1>3, <1>4
<1>11. FollowerInv'
  <2>1. Unlinking => list[1].h = running
    BY DEF Sound, ArmedInv, FollowerInv
  <2>2. Unlinking' => list'[1].h = running'
    BY <1>1, <1>4, <1>5, <2>1 DEF Unlinking
  <2>3. ASSUME phase = "store"
        PROVE  \/ Len(list') > 1 /\ list'[2].h = follower
               \/ /\ Len(list') > 2 /\ list'[3].h = follower /\ list'[2].h = Tcp
                  /\ overtaken' /\ disturbed'
    <3>1. \/ Len(list) > 1 /\ list[2].h = follower
          \/ /\ Len(list) > 2 /\ list[3].h = follower /\ list[2].h = Tcp
             /\ overtaken
      BY <2>3 DEF Sound, ArmedInv, FollowerInv
    <3>2. k \in TimersOf(list) /\ disturbed' /\ Len(list) \in Nat
      BY <1>5, <1>13, <2>3, SoundList
    <3>3. CASE list' = list
      BY <1>13, <3>1, <3>2, <3>3
    <3>4. CASE list' # list
      <4>1. ~tcpActive /\ Len(list') = Len(list) + 1 /\ Follows(list', list, Tcp)
        BY <1>4, <3>2, <3>4
      <4>2. overtaken'
        BY <1>13, <2>3, <4>1
      <4>3. Tcp \notin TimersOf(list)
        <5>1. Tcp \notin Kept
          BY <4>1, TimersAre DEF Kept, Wanted
        <5> QED BY <5>1, SoundList
      <4>4. ~(Len(list) > 2 /\ list[2].h = Tcp)
        <5> SUFFICES ASSUME Len(list) > 2 PROVE list[2].h # Tcp
          OBVIOUS
        <5>1. 2 \in DOMAIN list
          BY <3>2, SoundList
        <5> QED BY <4>3, <5>1 DEF TimersOf
      <4>5. Len(list) > 1 /\ list[2].h = follower
        BY <3>1, <4>4
      <4>6. Len(list') > 2
        BY <3>2, <4>1, <4>5
      <4>7. list'[2].h = follower \/ (list'[2].h = Tcp /\ list'[3].h = follower)
        BY <4>1, <4>5 DEF Follows
      <4>8. Len(list') > 1
        BY <3>2, <4>1, <4>5
      <4> QED BY <3>2, <4>2, <4>6, <4>7, <4>8
    <3> QED BY <3>3, <3>4
  <2>4. follower' = follower
    BY DEF AppConnect
  <2> QED BY <1>1, <2>2, <2>3, <2>4 DEF FollowerInv
<1>12. phase' = "handler" => running' \in Kept'
  <2>1. phase = "handler" => running \in Kept
    BY DEF Sound, ArmedInv
  <2> QED BY <1>1, <1>4, <2>1
<1> QED BY <1>4, <1>8, <1>9, <1>10, <1>11, <1>12, SoundAgain

\* The close of the last connection keeps it.
LEMMA AppCloseSound ==
  ASSUME NEW k \in Cyclics, disturbed \in BOOLEAN, Sound(k), AppClose
  PROVE  Sound(k)'
<1>1. /\ list' = list /\ elapsed' = elapsed /\ phase' = phase /\ sleep' = sleep
      /\ diff' = diff /\ running' = running /\ tcpActive' = tcpActive /\ busy' = busy
      /\ left' = left /\ disturbed' = disturbed /\ pcbs' = FALSE /\ used' = used
      /\ follower' = follower /\ overtaken' = overtaken
  BY DEF AppClose
<1>2. TimerTypes' /\ GapInv(k)' /\ LateInv' /\ LeftInv'
  BY <1>1 DEF Sound, TimerTypes, GapInv, LateInv, LeftInv, Lag, Unlinking
<1>3. FollowerInv'
  BY <1>1 DEF Sound, ArmedInv, FollowerInv, Unlinking
<1>4. Counted' /\ Kept' = Kept /\ Off' = Off /\ Armed' = Armed
  BY <1>1 DEF Sound, ArmedInv, EachArmedOnce, Counted, Kept, Wanted, Off, Armed
<1>5. EachArmedOnce'
  BY <1>1, <1>4 DEF Sound, ArmedInv, EachArmedOnce
<1>6. ArmedInv'
  BY <1>1, <1>3, <1>4, <1>5 DEF Sound, ArmedInv
<1> QED BY <1>2, <1>6 DEF Sound

\* A step that changes nothing keeps the invariant.
LEMMA StutterSound ==
  ASSUME NEW k \in Cyclics, Sound(k), UNCHANGED timerVars
  PROVE  Sound(k)'
<1>1. /\ list' = list /\ elapsed' = elapsed /\ phase' = phase /\ sleep' = sleep
      /\ diff' = diff /\ running' = running /\ tcpActive' = tcpActive /\ busy' = busy
      /\ left' = left /\ disturbed' = disturbed /\ pcbs' = pcbs /\ used' = used
      /\ follower' = follower /\ overtaken' = overtaken
  BY DEF timerVars
<1>2. TimerTypes' /\ GapInv(k)' /\ LateInv' /\ LeftInv'
  BY <1>1 DEF Sound, TimerTypes, GapInv, LateInv, LeftInv, Lag, Unlinking
<1>3. FollowerInv'
  BY <1>1 DEF Sound, ArmedInv, FollowerInv, Unlinking
<1>4. Counted' /\ Kept' = Kept /\ Off' = Off /\ Armed' = Armed
  BY <1>1 DEF Sound, ArmedInv, EachArmedOnce, Counted, Kept, Wanted, Off, Armed
<1>5. EachArmedOnce'
  BY <1>1, <1>4 DEF Sound, ArmedInv, EachArmedOnce
<1>6. ArmedInv'
  BY <1>1, <1>3, <1>4, <1>5 DEF Sound, ArmedInv
<1> QED BY <1>2, <1>6 DEF Sound

\* A tick takes one from what is left for every timer of the list.
LEMMA TickDue ==
  ASSUME NEW l \in Seq(Entries), l # <<>>, NEW f \in [Timers -> Int], NEW g \in [Timers -> Int],
         \A h \in TimersOf(l) : g[h] = f[h] - 1, NEW since \in Nat, Due(l, f, l[1].time - since)
  PROVE  Due(l, g, l[1].time - (since + 1))
<1>0. /\ Len(l) \in Nat /\ Len(l) >= 1 /\ DOMAIN l = 1 .. Len(l)
      /\ \A i \in 1 .. Len(l) : l[i].time \in Nat /\ l[i].h \in Timers
  <2>1. Len(l) \in Nat /\ Len(l) # 0
    OBVIOUS
  <2>2. /\ DOMAIN l = 1 .. Len(l)
        /\ \A i \in 1 .. Len(l) : l[i].time \in Nat /\ l[i].h \in Timers
    BY EntriesAre
  <2> QED BY <2>1, <2>2
<1>1. f[l[1].h] = l[1].time - since /\ Sums(l, f)
  BY DEF Due
<1>2. \A i \in 1 .. Len(l) : g[l[i].h] = f[l[i].h] - 1 /\ f[l[i].h] \in Int
  BY <1>0 DEF TimersOf
<1>3. g[l[1].h] = l[1].time - (since + 1)
  <2>1. 1 \in 1 .. Len(l)
    BY <1>0
  <2>2. PICK t \in Nat : t = l[1].time
    BY <1>0, <2>1
  <2>3. (t - since) - 1 = t - (since + 1)
    OBVIOUS
  <2> QED BY <1>1, <1>2, <2>1, <2>2, <2>3
<1>4. ASSUME NEW i \in 1 .. Len(l) - 1 PROVE g[l[i + 1].h] = g[l[i].h] + l[i + 1].time
  <2>1. i \in 1 .. Len(l) /\ i + 1 \in 1 .. Len(l)
    BY <1>0
  <2>2. f[l[i + 1].h] = f[l[i].h] + l[i + 1].time
    BY <1>1 DEF Sums
  <2>3. PICK t \in Nat : t = l[i + 1].time
    BY <1>0, <2>1
  <2>4. PICK a \in Int : a = f[l[i].h]
    BY <1>2, <2>1
  <2>5. g[l[i].h] = a - 1 /\ g[l[i + 1].h] = (a + t) - 1
    BY <1>2, <2>1, <2>2, <2>3, <2>4
  <2>6. (a + t) - 1 = (a - 1) + t
    OBVIOUS
  <2> QED BY <2>3, <2>5, <2>6
<1> QED BY <1>3, <1>4 DEF Due, Sums

\* The passing of time keeps the invariant, while the thread sleeps or while
\* something keeps it.
LEMMA TickSound ==
  ASSUME NEW k \in Cyclics, disturbed \in BOOLEAN, Sound(k), Tick
  PROVE  Sound(k)'
<1>1. /\ list' = list /\ phase' = phase /\ diff' = diff /\ running' = running
      /\ tcpActive' = tcpActive /\ pcbs' = pcbs /\ used' = used /\ follower' = follower
      /\ overtaken' = overtaken
      /\ left' = [h \in Timers |->
                   IF h \in Armed /\ ~disturbed THEN left[h] - 1 ELSE left[h]]
  BY DEF Tick
<1>2. disturbed' \in BOOLEAN /\ (disturbed = TRUE => disturbed' = TRUE)
  BY Zenon DEF Tick
<1>3. Lag \in Nat /\ Lag' \in Nat /\ Lag <= Lag' /\ (disturbed' = disturbed => Lag' = Lag)
  BY <1>2, LagGrows
<1>4. /\ list \in Seq(Entries) /\ list # <<>> /\ Distinct(list)
      /\ Gaps(list, k, Interval[k] + 2 * Lag) /\ TimersOf(list) = Kept \ Off /\ Counted
      /\ disturbed = FALSE => Due(list, left, FirstTime - elapsed)
  BY SoundList
<1>5. Off' = Off /\ Kept' = Kept /\ Counted' /\ elapsed' = elapsed + 1
  BY <1>1, <1>4 DEF Off, Kept, Wanted, Counted, Tick
<1>6. /\ list[1].time \in Nat /\ elapsed \in Nat /\ sleep \in Nat
      /\ diff \in Nat /\ busy \in Nat /\ busy <= Lag /\ left \in [Timers -> Int]
  BY ThreadTypes
<1>7. left' \in [Timers -> Int]
  <2>1. \A h \in Timers : left[h] \in Int /\ left[h] - 1 \in Int
    BY <1>6
  <2> QED BY <1>1, <2>1
<1>8. Gaps(list', k, Interval[k] + 2 * Lag')
  <2>1. Gaps(list, k, Interval[k] + 2 * Lag')
    BY <1>3, <1>4, GapsWiden
  <2> QED BY <1>1, <2>1
<1>9. list' \in Seq([h : Timers, time : Nat])
  BY <1>1, <1>4 DEF Entries
<1>10. phase \in {"fetch", "wait", "message", "check", "unlink", "store", "handler"}
       /\ (phase \in {"check", "unlink", "store", "handler"} => elapsed = diff + busy)
  BY DEF Sound, TimerTypes
<1>11. /\ pcbs' => tcpActive'
       /\ phase' = "handler" => running' \in Kept'
  BY <1>1, <1>5 DEF Sound, ArmedInv, EachArmedOnce
<1>14. FollowerInv'
  <2>1. disturbed => disturbed'
    BY Zenon DEF Tick
  <2>2. FollowerInv
    BY DEF Sound, ArmedInv
  <2> QED BY <1>1, <2>1, <2>2 DEF FollowerInv, Unlinking
<1>12. CASE phase = "wait"
  <2>1. sleep > 0 /\ sleep' = sleep - 1 /\ busy' = busy
    BY <1>4, <1>12 DEF Tick
  <2>2. disturbed' = disturbed
    BY <1>12, Zenon DEF Tick
  <2>3. TimerTypes'
    <3>1. sleep' \in Nat /\ elapsed' \in Nat /\ busy' \in 0 .. Lag'
      BY <1>3, <1>5, <1>6, <2>1, <2>2
    <3> QED BY <1>1, <1>6, <1>7, <1>9, <1>12, <3>1 DEF TimerTypes
  <2>4. LateInv'
    <3>1. elapsed + sleep <= list[1].time
      BY <1>12 DEF Sound, LateInv
    <3>2. (elapsed + 1) + (sleep - 1) <= list[1].time
      BY <1>6, <3>1
    <3>3. elapsed' + sleep' <= list'[1].time
      BY <1>1, <1>5, <2>1, <3>2
    <3> QED BY <1>1, <1>12, <3>3 DEF LateInv
  <2>5. disturbed' = FALSE => Due(list', left', FirstTime' - elapsed')
    <3> SUFFICES ASSUME disturbed = FALSE PROVE Due(list', left', FirstTime' - elapsed')
      BY <2>2
    <3>1. FirstTime = list[1].time /\ FirstTime' = list[1].time
      BY <1>1, <1>12 DEF FirstTime, Unlinking
    <3>2. \A h \in TimersOf(list) : h \in Timers
      BY <1>4, EntriesAre DEF TimersOf
    <3>3. Armed = TimersOf(list)
      BY DEF Armed, TimersOf
    <3>4. \A h \in TimersOf(list) : left'[h] = left[h] - 1
      BY <1>1, <3>2, <3>3
    <3>5. Due(list, left, list[1].time - elapsed)
      BY <1>4, <3>1
    <3>6. PICK g \in [Timers -> Int] : g = left'
      BY <1>7
    <3>7. \A h \in TimersOf(list) : g[h] = left[h] - 1
      BY <3>4, <3>6
    <3>8. Due(list, g, list[1].time - (elapsed + 1))
      BY <1>4, <1>6, <3>5, <3>7, TickDue
    <3> QED BY <1>1, <1>5, <3>1, <3>6, <3>8
  <2> QED BY <1>1, <1>4, <1>5, <1>8, <1>11, <1>14, <2>3, <2>4, <2>5, SoundAgain
<1>13. CASE phase # "wait"
  <2>1. busy' = busy + 1 /\ busy < MaxBusy /\ sleep' = sleep
        /\ phase \in {"message", "check", "unlink", "store", "handler"}
    BY <1>13 DEF Tick
  <2>2. disturbed' = TRUE
    BY <1>13, Zenon DEF Tick
  <2>3. Lag' = MaxBusy /\ MaxBusy \in Nat
    BY <2>2, TimeoutsAssumption DEF Lag
  <2>4. TimerTypes'
    <3>1. elapsed' \in Nat /\ busy' \in 0 .. Lag'
      BY <1>5, <1>6, <2>1, <2>3
    <3>2. phase \in {"check", "unlink", "store", "handler"} => elapsed + 1 = diff + (busy + 1)
      BY <1>6, <1>10
    <3> QED BY <1>1, <1>5, <1>6, <1>7, <1>9, <2>1, <3>1, <3>2 DEF TimerTypes
  <2>5. LateInv'
    <3>1. /\ phase = "message" => elapsed <= list[1].time + busy
          /\ phase = "check" => diff <= list[1].time + Lag
          /\ phase \in {"unlink", "store", "handler"} => diff <= Lag
      BY DEF Sound, LateInv
    <3>2. phase = "message" => elapsed + 1 <= list[1].time + (busy + 1)
      BY <1>6, <3>1
    <3>3. Lag <= MaxBusy
      BY <1>3, <2>3
    <3>4. phase = "check" => diff <= list[1].time + MaxBusy
      BY <1>3, <1>6, <2>3, <3>1, <3>3
    <3>5. phase \in {"unlink", "store", "handler"} => diff <= MaxBusy
      BY <1>3, <1>6, <2>3, <3>1, <3>3
    <3> QED BY <1>1, <1>5, <2>1, <2>3, <3>2, <3>4, <3>5 DEF LateInv
  <2> QED BY <1>1, <1>4, <1>5, <1>8, <1>11, <1>14, <2>2, <2>4, <2>5, SoundAgain
<1> QED BY <1>12, <1>13

\* sys_timeouts_init establishes the invariant.
LEMMA TimerInvInit ==
  ASSUME NEW k \in Cyclics, TimerInit
  PROVE  TimerInv(k)
<1>0. /\ list = InitList[Len(Cyclic)] /\ elapsed = 0 /\ phase = "fetch" /\ sleep = 0 /\ diff = 0
      /\ used = Len(Cyclic) /\ tcpActive = FALSE /\ pcbs = FALSE /\ busy = 0 /\ left = Interval /\ disturbed = FALSE
  BY DEF TimerInit
<1>1. Begun(list, Len(Cyclic), k)
  BY <1>0, InitListBegun
<1>2. Len(Cyclic) \in Nat /\ Len(Cyclic) > 0 /\ DOMAIN Cyclic = 1 .. Len(Cyclic)
  BY TimersAre
<1>3. /\ list \in Seq(Entries) /\ Len(list) = Len(Cyclic)
      /\ TimersOf(list) = {Cyclic[i] : i \in 1 .. Len(Cyclic)}
      /\ Distinct(list) /\ Gaps(list, k, Interval[k])
      /\ Sums(list, Interval) /\ Interval[list[1].h] = list[1].time - 0
  BY <1>1, <1>2 DEF Begun
<1>4. /\ DOMAIN list = 1 .. Len(list) /\ 1 \in 1 .. Len(list)
      /\ \A i \in 1 .. Len(list) : list[i].time \in Nat
  BY <1>2, <1>3, EntriesAre
<1>5. Lag = 0 /\ Interval[k] + 2 * Lag = Interval[k]
  <2>1. Lag = 0
    BY <1>0 DEF Lag
  <2>2. Interval[k] \in Nat
    BY TimersAre
  <2> QED BY <2>1, <2>2
<1>6. TimerTypes
  <2>1. list \in Seq([h : Timers, time : Nat])
    BY <1>3 DEF Entries
  <2>2. left \in [Timers -> Int]
    BY <1>0, TimersAre
  <2>3. busy \in 0 .. Lag
    BY <1>0, <1>5
  <2> QED BY <1>0, <2>1, <2>2, <2>3 DEF TimerTypes
<1>7. ArmedInv
  <2>1. Armed = TimersOf(list)
    BY DEF Armed, TimersOf
  <2>2. TimersOf(list) = Cyclics /\ Kept = Cyclics /\ Counted /\ Off = {} /\ FollowerInv
    BY <1>0, <1>2, <1>3 DEF Cyclics, Kept, Wanted, Counted, Off, FollowerInv, Unlinking
  <2>3. \A i \in DOMAIN list : list[i].time >= 0
    BY <1>4
  <2>4. \A i, j \in DOMAIN list : list[i].h = list[j].h => i = j
    BY <1>3 DEF Distinct
  <2>5. EachArmedOnce
    BY <1>0, <2>1, <2>2, <2>3, <2>4 DEF EachArmedOnce
  <2> QED BY <1>0, <2>2, <2>5 DEF ArmedInv
<1>8. GapInv(k)
  BY <1>3, <1>5 DEF Gaps, GapInv
<1>9. LateInv
  <2>1. elapsed <= list[1].time + Lag
    <3>1. list[1].time \in Nat
      BY <1>4
    <3> QED BY <1>0, <1>5, <3>1
  <2> QED BY <1>0, <2>1 DEF LateInv
<1>10. LeftInv
  BY <1>0, <1>3 DEF LeftInv, Sums, Unlinking
<1> QED BY <1>0, <1>6, <1>7, <1>8, <1>9, <1>10 DEF TimerInv

\* Every step keeps it, where k is frequent enough for the lag after the step.
LEMMA TimerInvNext ==
  ASSUME NEW k \in Cyclics, TimerInv(k), [TimerNext]_timerVars
  PROVE  TimerInv(k)'
<1>1. disturbed \in BOOLEAN
  BY DEF TimerInv
<1>2. disturbed' \in BOOLEAN /\ (disturbed = TRUE => disturbed' = TRUE)
  <2>1. CASE AppConnect
    BY <2>1, Zenon DEF AppConnect
  <2>2. CASE Tick
    BY <2>2, Zenon DEF Tick
  <2>3. CASE disturbed' = disturbed
    BY <1>1, <2>3
  <2>4. AppConnect \/ Tick \/ disturbed' = disturbed
    BY DEF TimerNext, Thread, timerVars, Fetch, SleepEnds, Receive, Message, Expire, LoadNext,
           Unlink, EndCheck, cyclic_timer, tcpip_tcp_timer, AppClose
  <2> QED BY <2>1, <2>2, <2>3, <2>4
<1> SUFFICES ASSUME Frequent(k, Lag') PROVE Sound(k)'
  BY <1>2 DEF TimerInv, Sound
<1>3. Frequent(k, Lag)
  BY <1>1, <1>2, LagGrows
<1>4. Sound(k)
  BY <1>3 DEF TimerInv, Sound
<1>5. CASE Fetch
  BY <1>1, <1>4, <1>5, FetchSound
<1>6. CASE SleepEnds
  BY <1>1, <1>4, <1>6, SleepEndsSound
<1>7. CASE Receive
  BY <1>1, <1>4, <1>7, ReceiveSound
<1>8. CASE Message
  BY <1>1, <1>3, <1>4, <1>8, MessageSound
<1>9. CASE Expire
  BY <1>1, <1>4, <1>9, ExpireSound
<1>18. CASE LoadNext
  BY <1>1, <1>4, <1>18, LoadNextSound
<1>10. CASE Unlink
  BY <1>1, <1>4, <1>10, UnlinkSound
<1>11. CASE EndCheck
  BY <1>1, <1>4, <1>11, EndCheckSound
<1>12. CASE cyclic_timer
  BY <1>1, <1>3, <1>4, <1>12, CyclicTimerSound
<1>13. CASE tcpip_tcp_timer
  BY <1>1, <1>3, <1>4, <1>13, TcpTimerSound
<1>14. CASE AppConnect
  BY <1>1, <1>4, <1>14, AppConnectSound
<1>15. CASE AppClose
  BY <1>1, <1>4, <1>15, AppCloseSound
<1>16. CASE Tick
  BY <1>1, <1>4, <1>16, TickSound
<1>17. CASE UNCHANGED timerVars
  BY <1>4, <1>17, StutterSound
<1> QED BY <1>5, <1>6, <1>7, <1>8, <1>9, <1>10, <1>11, <1>12, <1>13, <1>14, <1>15, <1>16, <1>17, <1>18
        DEF TimerNext, Thread

\* The invariant of the list holds, for every timer k, as long as k is frequent
\* for what has disturbed the thread so far.
THEOREM TimerInvHolds ==
  ASSUME NEW k \in Cyclics
  PROVE  TimerSpec => []TimerInv(k)
<1>1. TimerInit => TimerInv(k)
  BY TimerInvInit
<1>2. TimerInv(k) /\ [TimerNext]_timerVars => TimerInv(k)'
  BY TimerInvNext
<1> QED BY <1>1, <1>2, PTL DEF TimerSpec

\* Where one cyclic timer is more frequent than every other by twice the time for
\* which a message or a check may keep the thread, sys_timeout and
\* sys_check_timeouts lose no cyclic timer, arm none twice and let no time go below
\* 0, wherever connects interrupt them; the TCP timer is lost only to a connect
\* between the load and the store that unlink an entry.
THEOREM EachArmedOnceHolds ==
  ASSUME NEW k \in Cyclics, Frequent(k, MaxBusy)
  PROVE  TimerSpec => []EachArmedOnce
<1>1. TimerInv(k) => EachArmedOnce
  <2> SUFFICES ASSUME TimerInv(k) PROVE EachArmedOnce
    OBVIOUS
  <2>1. disturbed \in BOOLEAN
    BY DEF TimerInv
  <2>2. Lag \in Nat /\ Lag <= MaxBusy
    BY TimeoutsAssumption DEF Lag
  <2>3. Frequent(k, Lag)
    <3>1. ASSUME NEW h \in Timers \ {k} PROVE Interval[k] + 2 * Lag <= Interval[h]
      <4>1. Interval[k] + 2 * MaxBusy <= Interval[h]
        BY DEF Frequent
      <4>2. Interval[k] \in Nat /\ Interval[h] \in Nat /\ MaxBusy \in Nat
        BY TimersAre, TimeoutsAssumption
      <4> HIDE DEF Lag
      <4> QED BY <2>2, <4>1, <4>2
    <3> QED BY <3>1 DEF Frequent
  <2> QED BY <2>3 DEF TimerInv, ArmedInv
<1>2. TimerSpec => []TimerInv(k)
  BY TimerInvHolds
<1> QED BY <1>1, <1>2, PTL

\* Undisturbed, what the invariant says of a list in order.
LEMMA SoundUndisturbed ==
  ASSUME NEW k \in Cyclics, Frequent(k, 0), TimerInv(k), ~disturbed
  PROVE  Sound(k) /\ disturbed = FALSE
<1>1. disturbed = FALSE
  BY Zenon DEF TimerInv
<1>2. Lag = 0
  BY <1>1 DEF Lag
<1>3. Frequent(k, Lag)
  BY <1>2
<1> QED BY <1>1, <1>3 DEF TimerInv, Sound

\* Where a cyclic timer is as frequent as every other, no handler runs before the
\* interval has passed that sys_timeout was given.
THEOREM NeverEarlyHolds ==
  ASSUME NEW k \in Cyclics, Frequent(k, 0)
  PROVE  TimerSpec => NeverEarly
<1>1. TimerInv(k) => [Expire /\ ~disturbed => left[list[1].h] <= 0]_timerVars
  <2> SUFFICES ASSUME TimerInv(k), Expire, ~disturbed PROVE left[list[1].h] <= 0
    OBVIOUS
  <2>1. Sound(k) /\ disturbed = FALSE
    BY SoundUndisturbed
  <2>2. disturbed \in BOOLEAN
    BY <2>1
  <2>3. phase = "check" /\ list[1].time <= diff
    BY DEF Expire
  <2>4. Due(list, left, FirstTime - elapsed)
    BY <2>1, SoundList
  <2>5. left[list[1].h] = list[1].time - elapsed
    BY <2>3, <2>4 DEF Due, FirstTime, Unlinking
  <2>6. list[1].time \in Nat /\ elapsed \in Nat /\ diff \in Nat /\ busy \in Nat
    BY <2>1, <2>2, ThreadTypes
  <2>7. elapsed = diff + busy
    BY <2>1, <2>3 DEF Sound, TimerTypes
  <2>8. list[1].time - elapsed <= 0
    BY <2>3, <2>6, <2>7
  <2> QED BY <2>5, <2>8
<1>2. TimerSpec => []TimerInv(k)
  BY TimerInvHolds
<1> QED BY <1>1, <1>2, PTL DEF NeverEarly

\* What is left for a timer does not fall along the list.
LEMMA DueLater ==
  ASSUME NEW l \in Seq(Entries), l # <<>>, NEW f \in [Timers -> Int], NEW first \in Int,
         Due(l, f, first), first > 0
  PROVE  \A h \in TimersOf(l) : f[h] > 0
<1> DEFINE T == {i \in 0 .. Len(l) - 1 : f[l[i + 1].h] > 0}
<1>0. /\ Len(l) \in Nat /\ Len(l) - 1 \in Nat /\ DOMAIN l = 1 .. Len(l)
      /\ \A i \in 1 .. Len(l) : l[i].time \in Nat /\ l[i].h \in Timers /\ f[l[i].h] \in Int
  <2>1. Len(l) \in Nat /\ Len(l) # 0
    OBVIOUS
  <2> QED BY <2>1, EntriesAre
<1>1. 0 \in T
  <2>1. f[l[1].h] > 0 /\ 0 \in 0 .. Len(l) - 1 /\ 0 + 1 = 1
    BY <1>0 DEF Due
  <2> QED BY <2>1
<1>2. ASSUME NEW i \in 0 .. (Len(l) - 1) - 1, i \in T PROVE i + 1 \in T
  <2>1. /\ i + 1 \in 1 .. Len(l) - 1 /\ i + 1 \in 0 .. Len(l) - 1 /\ i + 1 \in 1 .. Len(l)
        /\ (i + 1) + 1 \in 1 .. Len(l)
    BY <1>0
  <2>2. f[l[(i + 1) + 1].h] = f[l[i + 1].h] + l[(i + 1) + 1].time
    BY <2>1 DEF Due, Sums
  <2>3. PICK a \in Int : a = f[l[i + 1].h]
    BY <1>0, <2>1
  <2>4. PICK t \in Nat : t = l[(i + 1) + 1].time
    BY <1>0, <2>1
  <2>5. a > 0
    BY <1>2, <2>3
  <2>6. a + t > 0
    BY <2>5
  <2> QED BY <2>1, <2>2, <2>3, <2>4, <2>6
<1>3. \A i \in 0 .. Len(l) - 1 : i \in T
  <2> HIDE DEF T
  <2> QED BY <1>0, <1>1, <1>2, Climb
<1>4. ASSUME NEW h \in TimersOf(l) PROVE f[h] > 0
  <2>1. PICK i \in DOMAIN l : h = l[i].h
    BY DEF TimersOf
  <2>2. i - 1 \in 0 .. Len(l) - 1 /\ (i - 1) + 1 = i
    BY <1>0
  <2> QED BY <1>3, <2>1, <2>2
<1> QED BY <1>4

\* Nor is one late: when sys_check_timeouts returns, every timer whose interval
\* has passed has run.
THEOREM ExpiredHaveRunHolds ==
  ASSUME NEW k \in Cyclics, Frequent(k, 0)
  PROVE  TimerSpec => ExpiredHaveRun
<1>1. TimerInv(k) => [EndCheck /\ ~disturbed => \A h \in Armed : left[h] > 0]_timerVars
  <2> SUFFICES ASSUME TimerInv(k), EndCheck, ~disturbed PROVE \A h \in Armed : left[h] > 0
    OBVIOUS
  <2>1. Sound(k) /\ disturbed = FALSE
    BY SoundUndisturbed
  <2>2. disturbed \in BOOLEAN
    BY <2>1
  <2>3. list \in Seq(Entries) /\ list # <<>> /\ Due(list, left, FirstTime - elapsed)
    BY <2>1, SoundList
  <2>4. phase = "check" /\ list[1].time > diff
    BY <2>3 DEF EndCheck
  <2>5. /\ list[1].time \in Nat /\ elapsed \in Nat /\ diff \in Nat /\ busy \in Nat
        /\ busy <= Lag /\ left \in [Timers -> Int]
    BY <2>1, <2>2, ThreadTypes
  <2>6. elapsed = diff + busy /\ Lag = 0
    BY <2>1, <2>4 DEF Sound, TimerTypes, Lag
  <2>7. list[1].time - elapsed \in Int /\ list[1].time - elapsed > 0
    BY <2>4, <2>5, <2>6
  <2>8. Due(list, left, list[1].time - elapsed)
    BY <2>3, <2>4 DEF FirstTime, Unlinking
  <2>9. \A h \in TimersOf(list) : left[h] > 0
    BY <2>3, <2>5, <2>7, <2>8, DueLater
  <2> QED BY <2>9 DEF Armed, TimersOf
<1>2. TimerSpec => []TimerInv(k)
  BY TimerInvHolds
<1> QED BY <1>1, <1>2, PTL DEF ExpiredHaveRun
=============================================================================
