--------------------------- MODULE MCTcpTransfer ---------------------------
(***************************************************************************)
(* The instance of TcpTransfer for TLC; its numbers are in the cfg file.   *)
(***************************************************************************)
EXTENDS TcpTransfer

=============================================================================
