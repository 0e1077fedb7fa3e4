--------------------------- MODULE MCUdpTransfer ---------------------------
(***************************************************************************)
(* The instance of UdpTransfer for TLC: three runs of the client, so that  *)
(* what one leaves behind can pass a second one to reach the third, and a  *)
(* buffer shorter than a file.                                             *)
(***************************************************************************)
EXTENDS UdpTransfer, TLC

CONSTANTS c1, c2, c3
MCBlocks == c1 :> 2 @@ c2 :> 3 @@ c3 :> 1

=============================================================================
