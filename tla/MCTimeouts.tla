------------------------------ MODULE MCTimeouts ------------------------------
(* Instances of the timers for model checking, in units of 50 ms. *)
EXTENDS Timeouts

MCCyclic == <<"dhcp_fine", "igmp">>
MCInterval == [h \in Timers |-> CASE h = "igmp" -> 2 [] h = "tcp" -> 5 [] h = "dhcp_fine" -> 10]

\* The hypothesis under which the proofs extend the run to other intervals.
ASSUME SomeFrequent == \E k \in Cyclics : Frequent(k, MaxBusy)
=============================================================================
