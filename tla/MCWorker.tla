----------------------------- MODULE MCWorker -----------------------------
(***************************************************************************)
(* Instances of Worker for TLC.  Three requests and one blocking thread:   *)
(* one request can hold the thread after it was dropped while another      *)
(* waits for it and a third updates the metrics.                           *)
(***************************************************************************)
EXTENDS Worker, TLC

CONSTANTS r1, r2, r3

=============================================================================
