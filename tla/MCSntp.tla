------------------------------- MODULE MCSntp -------------------------------
(* Constants of Sntp for TLC.                                              *)
EXTENDS Sntp

\* The clock may be behind or ahead.
MCSkews == {-4, 3}
=============================================================================
