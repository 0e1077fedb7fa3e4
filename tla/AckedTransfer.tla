--------------------------- MODULE AckedTransfer ---------------------------
(***************************************************************************)
(* What a stop-and-wait transfer promises, whatever carries it: a sender   *)
(* moves to the next block only once the receiver has the current one, it  *)
(* reports success only when every block is confirmed, and the receiver is *)
(* never more than one block ahead of what the sender knows.  Both         *)
(* UdpStopAndWait and QuicStopAndWait implement this specification.        *)
(***************************************************************************)
EXTENDS Naturals

CONSTANTS Clients,  \* the transfers
          Blocks    \* Blocks[c], in Nat: the number of blocks of c's file

VARIABLES delivered,  \* delivered[c]: the blocks of c the receiver has seen
          confirmed,  \* confirmed[c]: how many blocks c knows to be received
          outcome     \* what c returned: "running" while it has not

vars == <<delivered, confirmed, outcome>>

Init == /\ delivered = [c \in Clients |-> {}]
        /\ confirmed = [c \in Clients |-> 0]
        /\ outcome = [c \in Clients |-> "running"]

\* The receiver sees the block c is working on for the first time.  It may do
\* so after c has given up: the datagram was under way.
Deliver(c) == /\ confirmed[c] < Blocks[c]
              /\ confirmed[c] \notin delivered[c]
              /\ delivered' = [delivered EXCEPT ![c] = @ \cup {confirmed[c]}]
              /\ UNCHANGED <<confirmed, outcome>>

Confirm(c) == /\ outcome[c] = "running"
              /\ confirmed[c] \in delivered[c]
              /\ confirmed' = [confirmed EXCEPT ![c] = @ + 1]
              /\ UNCHANGED <<delivered, outcome>>

Succeed(c) == /\ outcome[c] = "running"
              /\ confirmed[c] = Blocks[c]
              /\ outcome' = [outcome EXCEPT ![c] = "ok"]
              /\ UNCHANGED <<delivered, confirmed>>

Fail(c) == /\ outcome[c] = "running"
           /\ outcome' = [outcome EXCEPT ![c] = "failed"]
           /\ UNCHANGED <<delivered, confirmed>>

Next == \E c \in Clients : Deliver(c) \/ Confirm(c) \/ Succeed(c) \/ Fail(c)

Spec == Init /\ [][Next]_vars

=============================================================================
