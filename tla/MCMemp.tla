------------------------------- MODULE MCMemp -------------------------------
(* Instances of the lwIP pool for model checking. *)
EXTENDS Memp, TLC

CONSTANTS rx, app, tcpip

\* The priorities of the ethernetif_input task, the application and tcpip.
FirmwarePrio == (rx :> 1) @@ (app :> 2) @@ (tcpip :> 3)
=============================================================================
