------------------------- MODULE MCUdpStopAndWait -------------------------
(***************************************************************************)
(* Instances of UdpStopAndWait for TLC.  Two clients share the server, the *)
(* first with a file of two chunks and the second with one of one chunk:   *)
(* enough for an ack of the previous block to be stale, for one client to  *)
(* end while the other still sends, and for their statistics to mix.       *)
(***************************************************************************)
EXTENDS UdpStopAndWait, TLC

CONSTANTS c1, c2

MCBlocks == c1 :> 2 @@ c2 :> 1

\* Every fault; every fault but an early timer; and a network that only loses.
MCEnvironments == {FaultKinds, FaultKinds \ {"late"}, {"loss"}}

=============================================================================
