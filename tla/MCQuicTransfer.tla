--------------------------- MODULE MCQuicTransfer ---------------------------
(***************************************************************************)
(* The instance of QuicTransfer for TLC: a file longer than either queue,  *)
(* so that both overflow; its numbers are in the cfg file.                 *)
(***************************************************************************)
EXTENDS QuicTransfer

=============================================================================
