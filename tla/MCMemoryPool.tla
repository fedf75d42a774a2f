---------------------------- MODULE MCMemoryPool ----------------------------
(* The instance of the memory pool for model checking. *)
EXTENDS MemoryPool

\* One thread above the others, which are of one priority.
Highest == CHOOSE t \in Threads : TRUE
MixedPrio == [t \in Threads |-> IF t = Highest THEN 1 ELSE 3]
=============================================================================
