------------------------------ MODULE MemoryPool ------------------------------
(***************************************************************************)
(* FixedMemoryPool: a semaphore that counts blocks, a part of the buffer   *)
(* that has never been handed out and the list of blocks that have been    *)
(* released. Threads get and release blocks; an interrupt handler may get  *)
(* one with get_isr.                                                       *)
(*                                                                         *)
(* One CPU runs the ready thread of highest priority. A running thread is  *)
(* taken over only by one of a smaller Prio; a thread that is woken queues *)
(* behind the ready ones of its priority.                                  *)
(***************************************************************************)
EXTENDS Naturals, Sequences, FiniteSets

CONSTANTS
  Threads,
  Prio,       \* priority of each thread, 1 the highest
  NumBlocks,  \* block_count
  NoBlock,    \* a thread is not releasing a block
  MayIsr,     \* interrupt handlers use get_isr
  MaxSem      \* bound: count up to which get_isr signals

Blocks == 1 .. NumBlocks

ASSUME PoolAssumption ==
  /\ IsFiniteSet(Threads)
  /\ Prio \in [Threads -> Nat]
  /\ NumBlocks \in Nat
  /\ NoBlock \notin Blocks
  /\ MayIsr \in BOOLEAN
  /\ MaxSem \in Nat

VARIABLES
  sem,        \* the count of m_sem
  waiters,    \* the threads that wait for it, first come first
  allocated,  \* blocks below m_allocated_buffer_size
  free,       \* the list at m_free_list
  held,       \* the blocks each thread has
  isr,        \* the blocks interrupt handlers have
  pc,         \* where each thread is in get or release
  block,      \* the block it is releasing
  fault       \* who has taken the head of an empty list: no one, a thread, a handler

poolVars == <<allocated, free, held, isr, fault>>
vars == <<sem, waiters, poolVars, pc, block>>

\* FixedMemoryPool::create.
Init ==
  /\ sem = NumBlocks
  /\ waiters = <<>>
  /\ allocated = 0
  /\ free = <<>>
  /\ held = [t \in Threads |-> {}]
  /\ isr = {}
  /\ pc = [t \in Threads |-> "idle"]
  /\ block = [t \in Threads |-> NoBlock]
  /\ fault = "no"

\* A thread in the middle of get or release keeps the CPU from those of its own
\* priority and of lower ones; one that has only been woken, from lower ones.
Runs(t) ==
  /\ fault = "no"
  /\ \A u \in Threads \ {t} :
       /\ pc[u] \in {"take", "link"} => Prio[t] < Prio[u]
       /\ pc[u] = "woken" => Prio[t] <= Prio[u]

\* sig_sem and isig_sem: the first waiting thread is woken, or the count goes up.
\* The threads the caller p leaves where they are have their place in p.
Signal(p) ==
  \/ /\ waiters = <<>>
     /\ sem' = sem + 1
     /\ pc' = p
     /\ UNCHANGED waiters
  \/ /\ waiters # <<>>
     /\ pc' = [p EXCEPT ![Head(waiters)] = "woken"]
     /\ waiters' = Tail(waiters)
     /\ UNCHANGED sem

----------------------------------------------------------------------------
(* FixedMemoryPool::get *)

\* m_sem.wait: the count goes down, or the thread waits.
GetWait(t) ==
  /\ Runs(t)
  /\ pc[t] = "idle"
  /\ \/ /\ sem > 0
        /\ sem' = sem - 1
        /\ pc' = [pc EXCEPT ![t] = "take"]
        /\ UNCHANGED waiters
     \/ /\ sem = 0
        /\ pc' = [pc EXCEPT ![t] = "wait"]
        /\ waiters' = Append(waiters, t)
        /\ UNCHANGED sem
  /\ UNCHANGED <<poolVars, block>>

\* The sequence s without its k-th element.
Without(s, k) == [j \in 1 .. Len(s) - 1 |-> IF j < k THEN s[j] ELSE s[j + 1]]

\* The time it was to wait is over.
GetTimeout(t) ==
  /\ pc[t] = "wait"
  /\ pc' = [pc EXCEPT ![t] = "idle"]
  /\ \E k \in 1 .. Len(waiters) : waiters[k] = t /\ waiters' = Without(waiters, k)
  /\ UNCHANGED <<sem, poolVars, block>>

\* With the CPU locked a block is taken: one never handed out while there are
\* any, then the head of the free list. b is the block; an empty list is a
\* fault, after which nothing more is said.
\* defect: m_allocated_buffer_size does not move
TakeUncounted(b) ==
  \/ /\ allocated # NumBlocks
     /\ b = allocated + 1
     /\ UNCHANGED <<allocated, free>>
  \/ /\ allocated = NumBlocks
     /\ free # <<>>
     /\ b = Head(free)
     /\ free' = Tail(free)
     /\ UNCHANGED allocated
Take(b) ==
  \/ /\ allocated # NumBlocks
     /\ b = allocated + 1
     /\ allocated' = b
     /\ UNCHANGED free
  \/ /\ allocated = NumBlocks
     /\ free # <<>>
     /\ b = Head(free)
     /\ free' = Tail(free)
     /\ UNCHANGED allocated
Empty == allocated = NumBlocks /\ free = <<>>

GetTake(t) ==
  /\ Runs(t)
  /\ pc[t] \in {"take", "woken"}
  /\ \/ /\ Empty
        /\ fault' = "thread"
        /\ UNCHANGED <<allocated, free, held>>
     \/ /\ ~Empty
        /\ \E b \in Blocks : Take(b) /\ held' = [held EXCEPT ![t] = @ \cup {b}]
        /\ UNCHANGED fault
  /\ pc' = [pc EXCEPT ![t] = "idle"]
  /\ UNCHANGED <<sem, waiters, isr, block>>

\* get_isr does not wait but signals the semaphore, and takes a block.
GetIsr ==
  /\ MayIsr /\ fault = "no"
  /\ sem < MaxSem
  /\ Signal(pc)
  /\ \/ /\ Empty
        /\ fault' = "isr"
        /\ UNCHANGED <<allocated, free, isr>>
     \/ /\ ~Empty
        /\ \E b \in Blocks : Take(b) /\ isr' = isr \cup {b}
        /\ UNCHANGED fault
  /\ UNCHANGED <<held, block>>

----------------------------------------------------------------------------
(* FixedMemoryPool::release *)

\* The semaphore is signalled first, ...
ReleaseSignal(t, b) ==
  /\ Runs(t)
  /\ pc[t] = "idle"
  /\ b \in held[t]
  /\ held' = [held EXCEPT ![t] = @ \ {b}]
  /\ block' = [block EXCEPT ![t] = b]
  /\ Signal([pc EXCEPT ![t] = "link"])
  /\ UNCHANGED <<allocated, free, isr, fault>>

\* ... then the block becomes the head of the list.
LinkNothing(b) == UNCHANGED free  \* defect: the block is not linked
Link(b) == free' = <<b>> \o free

ReleaseLink(t) ==
  /\ Runs(t)
  /\ pc[t] = "link"
  /\ Link(block[t])
  /\ block' = [block EXCEPT ![t] = NoBlock]
  /\ pc' = [pc EXCEPT ![t] = "idle"]
  /\ UNCHANGED <<sem, waiters, allocated, held, isr, fault>>

----------------------------------------------------------------------------
Next ==
  \/ GetIsr
  \/ \E t \in Threads :
       \/ GetWait(t) \/ GetTimeout(t) \/ GetTake(t) \/ ReleaseLink(t)
       \/ \E b \in Blocks : ReleaseSignal(t, b)

Spec == Init /\ [][Next]_vars

----------------------------------------------------------------------------
(* Properties. *)

\* The values of every variable.
TypeOK ==
  /\ sem \in Nat
  /\ waiters \in Seq(Threads)
  /\ allocated \in 0 .. NumBlocks
  /\ free \in Seq(Blocks)
  /\ held \in [Threads -> SUBSET Blocks]
  /\ isr \in SUBSET Blocks
  /\ pc \in [Threads -> {"idle", "wait", "woken", "take", "link"}]
  /\ block \in [Threads -> Blocks \cup {NoBlock}]
  /\ fault \in {"no", "thread", "isr"}

\* Where a block can be.
InList(b) == \E j \in 1 .. Len(free) : free[j] = b

\* get hands no block to two threads, and none that is also on the list or on
\* its way there, whichever thread takes over which between the semaphore and
\* the list.
OneHolder ==
  /\ \A t, u \in Threads : t # u => held[t] \cap held[u] = {}
  /\ \A t \in Threads : \A b \in held[t] :
       b <= allocated /\ ~InList(b) /\ b \notin isr /\ \A u \in Threads : block[u] # b
  /\ \A j, k \in 1 .. Len(free) : free[j] = free[k] => j = k

\* The threads that the semaphore has let through and that have not taken a
\* block yet, and those that have signalled and not linked theirs.
Takers == {t \in Threads : pc[t] \in {"woken", "take"}}
Linkers == {t \in Threads : pc[t] = "link"}

\* The semaphore counts the blocks that are there or about to be, less those
\* that threads are about to take. A block taken by get_isr is counted twice
\* too much: the semaphore went up where it should have gone down.
Accounting ==
  fault = "no" =>
    sem + Cardinality(Takers) =
      ((NumBlocks - allocated) + Len(free)) + Cardinality(Linkers) + 2 * Cardinality(isr)

\* Until get_isr has been used, get takes the head of an empty list only in the
\* window of a release, between the signal and the link, in a thread of higher
\* priority than the releasing one.
FaultOnlyInWindow ==
  fault = "thread" =>
    isr # {} \/ \E t, u \in Threads : pc[t] = "link" /\ Prio[u] < Prio[t]

\* When all threads have the same priority and none of the blocks goes to an
\* interrupt handler, the semaphore keeps the list from being taken empty.
SamePriority == \A t, u \in Threads : Prio[t] = Prio[u]
SafeAmongEquals == SamePriority /\ ~MayIsr => fault = "no"

----------------------------------------------------------------------------
(* Inductive invariants, from which the proofs derive the properties. *)

\* A thread waits while it is in the queue, once.
WaitInv ==
  /\ \A j \in 1 .. Len(waiters) : pc[waiters[j]] = "wait"
  /\ \A j, k \in 1 .. Len(waiters) : waiters[j] = waiters[k] => j = k

\* A block that is being released or is with an interrupt handler is nowhere
\* else.
PlaceInv ==
  /\ \A t \in Threads : pc[t] = "link" <=> block[t] # NoBlock
  /\ \A t, u \in Threads : t # u /\ block[t] # NoBlock => block[t] # block[u]
  /\ \A t \in Threads : block[t] # NoBlock =>
       block[t] <= allocated /\ ~InList(block[t]) /\ block[t] \notin isr
  /\ \A b \in isr : b <= allocated /\ ~InList(b)
  /\ \A j \in 1 .. Len(free) : free[j] <= allocated

\* Only get_isr hands blocks to interrupt handlers.
IsrInv == isr # {} => MayIsr
=============================================================================
