-------------------------------- MODULE Memp --------------------------------
(***************************************************************************)
(* A fixed-size pool of lwIP (memp.c) as this port configures it: its free *)
(* list, and the threads that allocate and free blocks of it. SYS_ARCH_    *)
(* PROTECT around the list operations is loc_cpu when the port enables     *)
(* SYS_LIGHTWEIGHT_PROT (PROT) and nothing otherwise.                      *)
(*                                                                         *)
(* One CPU runs the ready thread of highest priority: a thread is taken    *)
(* over in the middle of an operation only by one of a smaller Prio.       *)
(***************************************************************************)
EXTENDS Naturals

CONSTANTS
  NumBlocks,  \* desc->num
  Threads,
  Allocators, \* the threads that allocate from this pool; all of them free
  Prio,       \* priority of each thread, 1 the highest
  NoThread,   \* nobody has locked the CPU
  PROT        \* SYS_LIGHTWEIGHT_PROT

ASSUME MempAssumption ==
  /\ NumBlocks \in Nat
  /\ Allocators \subseteq Threads
  /\ Prio \in [Threads -> Nat]
  /\ NoThread \notin Threads
  /\ PROT \in BOOLEAN

VARIABLES
  tab,   \* *desc->tab, the head of the free list
  next,  \* memp->next of every block
  refs,  \* how many callers of memp_malloc hold each block
  pc,    \* where each thread is in do_memp_malloc_pool or do_memp_free_pool
  memp,  \* its local memp
  nxt,   \* the value of memp->next it has read
  lock   \* the thread that has locked the CPU, or NoThread

vars == <<tab, next, refs, pc, memp, nxt, lock>>

Blocks == 1 .. NumBlocks
NULL == 0

\* memp_init_pool pushes the blocks from the first to the last.
Init ==
  /\ tab = NumBlocks
  /\ next = [b \in Blocks |-> b - 1]
  /\ refs = [b \in Blocks |-> 0]
  /\ pc = [t \in Threads |-> "idle"]
  /\ memp = [t \in Threads |-> NULL]
  /\ nxt = [t \in Threads |-> NULL]
  /\ lock = NoThread

\* The kernel lets t run.
Runs(t) ==
  /\ lock \in {NoThread, t}
  /\ \A u \in Threads \ {t} : pc[u] # "idle" => Prio[t] < Prio[u]

\* SYS_ARCH_PROTECT, which does not nest, and SYS_ARCH_UNPROTECT.
ProtectNothing(t) == UNCHANGED lock  \* defect: the region is not protected
Protect(t) == lock' = IF PROT THEN t ELSE lock
Unprotect == lock' = NoThread

-----------------------------------------------------------------------------
(* do_memp_malloc_pool *)

\* memp = *desc->tab; an empty list is the end of it.
MallocHead(t) ==
  /\ t \in Allocators
  /\ Runs(t)
  /\ pc[t] = "idle"
  /\ tab # NULL
  /\ Protect(t)
  /\ memp' = [memp EXCEPT ![t] = tab]
  /\ pc' = [pc EXCEPT ![t] = "next"]
  /\ UNCHANGED <<tab, next, refs, nxt>>

\* *desc->tab = memp->next, read and write.
MallocNext(t) ==
  /\ Runs(t)
  /\ pc[t] = "next"
  /\ nxt' = [nxt EXCEPT ![t] = next[memp[t]]]
  /\ pc' = [pc EXCEPT ![t] = "store"]
  /\ UNCHANGED <<tab, next, refs, memp, lock>>

MallocStore(t) ==
  /\ Runs(t)
  /\ pc[t] = "store"
  /\ tab' = nxt[t]
  /\ refs' = [refs EXCEPT ![memp[t]] = @ + 1]
  /\ pc' = [pc EXCEPT ![t] = "idle"]
  /\ Unprotect
  /\ UNCHANGED <<next, memp, nxt>>

\* The memory of a block belongs to its holder, memp->next included: MEMP_SIZE
\* is 0, so the link is where a pbuf has its own next, which pbuf_alloc clears
\* and then points at the following pbuf of the chain.
Write(t, b, v) ==
  /\ Runs(t)
  /\ pc[t] = "idle"
  /\ refs[b] > 0
  /\ v \in {NULL} \cup {c \in Blocks \ {b} : refs[c] > 0}
  /\ next' = [next EXCEPT ![b] = v]
  /\ UNCHANGED <<tab, refs, pc, memp, nxt, lock>>

(* do_memp_free_pool *)

\* memp->next = *desc->tab.
LinkNothing(b) == next' = [next EXCEPT ![b] = NULL]  \* defect: the list is cut
Link(b) == next' = [next EXCEPT ![b] = tab]

FreeLink(t, b) ==
  /\ Runs(t)
  /\ pc[t] = "idle"
  /\ refs[b] > 0
  /\ refs' = [refs EXCEPT ![b] = @ - 1]
  /\ Protect(t)
  /\ Link(b)
  /\ memp' = [memp EXCEPT ![t] = b]
  /\ pc' = [pc EXCEPT ![t] = "link"]
  /\ UNCHANGED <<tab, nxt>>

\* *desc->tab = memp.
FreeStore(t) ==
  /\ Runs(t)
  /\ pc[t] = "link"
  /\ tab' = memp[t]
  /\ pc' = [pc EXCEPT ![t] = "idle"]
  /\ Unprotect
  /\ UNCHANGED <<next, refs, memp, nxt>>

-----------------------------------------------------------------------------
Next ==
  \E t \in Threads :
    \/ MallocHead(t) \/ MallocNext(t) \/ MallocStore(t) \/ FreeStore(t)
    \/ \E b \in Blocks : FreeLink(t, b)
    \/ \E b \in Blocks, v \in Blocks \cup {NULL} : Write(t, b, v)

Spec == Init /\ [][Next]_vars

-----------------------------------------------------------------------------
(* Properties. *)

\* The values of every variable.
TypeOK ==
  /\ tab \in Blocks \cup {NULL}
  /\ next \in [Blocks -> Blocks \cup {NULL}]
  /\ refs \in [Blocks -> Nat]
  /\ pc \in [Threads -> {"idle", "next", "store", "link"}]
  /\ memp \in [Threads -> Blocks \cup {NULL}]
  /\ nxt \in [Threads -> Blocks \cup {NULL}]
  /\ lock \in Threads \cup {NoThread}
  /\ \A t \in Threads : pc[t] # "idle" => memp[t] # NULL

\* No thread is in the middle of an operation.
AtRest == \A t \in Threads : pc[t] = "idle"

\* s, a function on 1 .. n, is the free list: what one meets walking from tab.
IsList(s, n) ==
  /\ \A j, k \in 1 .. n : s[j] = s[k] => j = k
  /\ tab = IF n = 0 THEN NULL ELSE s[1]
  /\ \A j \in 1 .. n : next[s[j]] = IF j = n THEN NULL ELSE s[j + 1]

\* memp_malloc never hands a block to two callers, whichever thread took over
\* which in the middle of the list operations.
Exclusive == \A b \in Blocks : refs[b] <= 1

\* Between operations the free list holds exactly the blocks nobody has: none
\* is lost to the pool and none is both free and in use.
PoolIntact ==
  AtRest => \E n \in 0 .. NumBlocks : \E s \in [1 .. n -> Blocks] :
              /\ IsList(s, n)
              /\ \A b \in Blocks : refs[b] = 0 <=> \E j \in 1 .. n : s[j] = b

\* "Check that memp-lists don't form a circle" (memp_sanity, asserted at the
\* end of do_memp_free_pool).
MempSanity ==
  AtRest => \E n \in 0 .. NumBlocks : \E s \in [1 .. n -> Blocks] : IsList(s, n)

-----------------------------------------------------------------------------
(* The inductive invariant of a protected pool. *)

\* Only the thread that has locked the CPU is in the middle of an operation.
LockInv == \A t \in Threads : pc[t] # "idle" => lock = t

\* What that thread has read is still so.
LocalInv ==
  \A t \in Threads :
    /\ pc[t] \in {"next", "store"} => tab # NULL /\ memp[t] = tab
    /\ pc[t] = "store" => nxt[t] = next[tab]
    /\ pc[t] = "link" =>
         memp[t] \in Blocks /\ refs[memp[t]] = 0 /\ next[memp[t]] = tab

\* The block on its way back to the list.
Freed(b) == \E t \in Threads : pc[t] = "link" /\ memp[t] = b

\* The list holds the blocks that are neither held nor on their way back.
ListInv(s, n) ==
  /\ IsList(s, n)
  /\ \A b \in Blocks : (refs[b] = 0 /\ ~Freed(b)) <=> \E j \in 1 .. n : s[j] = b

PoolInv ==
  /\ Exclusive /\ LockInv /\ LocalInv
  /\ \E n \in 0 .. NumBlocks : \E s \in [1 .. n -> Blocks] : ListInv(s, n)
=============================================================================
