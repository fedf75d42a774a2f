------------------------------- MODULE MCPage -------------------------------
(***************************************************************************)
(* What Httpd::run makes its page of, checked one beside the other: the    *)
(* date of the clock, the texts of its numbers, and the body they are      *)
(* written to. They share no state, so that calls of to_string and parse   *)
(* are made, and responses begun, on the first day only, and the days go   *)
(* on while neither has been.                                              *)
(***************************************************************************)
EXTENDS Calendar, NumberText, ChunkBuffer

MCInit == DateInit /\ NoCall /\ Init

FirstDay == day = 0 /\ sec = 0

MCNext ==
  \/ FirstDay /\ Init /\ TextNext /\ UNCHANGED <<dateVars, vars>>
  \/ FirstDay /\ step = "idle" /\ Next /\ UNCHANGED <<dateVars, textVars>>
  \/ step = "idle" /\ Init /\ DateNext /\ UNCHANGED <<textVars, vars>>

MCSpec == MCInit /\ [][MCNext]_<<dateVars, textVars, vars>>
=============================================================================
