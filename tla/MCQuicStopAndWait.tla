------------------------- MODULE MCQuicStopAndWait -------------------------
(***************************************************************************)
(* Instances of QuicStopAndWait for TLC: numbers only, given in the cfg    *)
(* files.  Two blocks are enough for an ack to be stale, three for its     *)
(* duplicates to travel from block to block.                               *)
(***************************************************************************)
EXTENDS QuicStopAndWait

=============================================================================
