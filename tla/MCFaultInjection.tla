------------------------- MODULE MCFaultInjection -------------------------
(***************************************************************************)
(* Instances of FaultInjection for TLC: the four pods of the experiment,   *)
(* or three; the numbers are in the cfg files.                             *)
(***************************************************************************)
EXTENDS FaultInjection

=============================================================================
