-------------------------- MODULE QuicStopAndWait --------------------------
(***************************************************************************)
(* One connection of the "quic-stop-and-wait" transport of tema1: the      *)
(* client of tema1/client/src/transport/quic_stop_and_wait.rs and the task *)
(* that tema1/server/src/transport/quic_stop_and_wait.rs spawns for it.    *)
(* Connections share nothing, so one stands for all.                       *)
(*                                                                         *)
(* The payloads and acks are QUIC datagrams: lost, late or out of order,   *)
(* never duplicated.  As in UdpStopAndWait the attempt of a transmission   *)
(* is not on the wire and only tells the copies of one block apart.  Here  *)
(* an ack of another block is skipped, at the price of an attempt, where   *)
(* the UDP client gives up.                                                *)
(***************************************************************************)
EXTENDS Naturals, FiniteSets

CONSTANTS NumBlocks,    \* the chunks of the file
          MaxAttempts,  \* iterations of the retry loop, 5 in the code
          Faults        \* what the environment may do

\* "loss": a datagram, or the frame that closes the connection, vanishes.
\* "late": the 100 ms timer fires though the answer is under way.
\* "conn": a call on the connection returns an error, on either side.
FaultKinds == {"loss", "late", "conn"}

ASSUME BlocksAssumption == NumBlocks \in Nat
ASSUME AttemptsAssumption == MaxAttempts \in Nat \ {0}
ASSUME FaultsAssumption == Faults \subseteq FaultKinds

VARIABLES
  pc,         \* where the client is, or what it returned
  seq,        \* the block it sends
  attempt,    \* the loop variable of send_and_wait_for_ack
  sent,       \* the client's stats.packets_sent
  payloads,   \* payload datagrams under way
  acks,       \* acks under way
  ending,     \* the empty payload is under way
  closing,    \* the frame that closes the connection is under way
  at,         \* where the server's task is, or what it returned
  holding,    \* the payload it has in hand, as a set
  stats,      \* its stats.packets_received
  delivered,  \* history: the blocks it has read
  timeouts    \* history: how many timers fired

clientVars  == <<pc, seq, attempt, sent, timeouts>>
netVars     == <<payloads, acks, ending, closing>>
serverVars  == <<at, holding, stats, delivered>>
vars == <<clientVars, netVars, serverVars>>

Transmissions == [seq : 0..(NumBlocks - 1), attempt : 0..(MaxAttempts - 1)]

Running == {"send", "wait"}
Failed  == {"timedOut", "aborted", "panicked"}
Ended   == {"done", "error"}

Init ==
  /\ pc = "send" /\ seq = 0 /\ attempt = 0 /\ sent = 0 /\ timeouts = 0
  /\ payloads = {} /\ acks = {} /\ ending = FALSE /\ closing = FALSE
  /\ at = "read" /\ holding = {} /\ stats = 0 /\ delivered = {}

-----------------------------------------------------------------------------
\* Slips: each is one of the definitions below with a plausible mistake in it.
\* No specification uses them; a property of the runs fails with any of them.

\* The attempts are counted over the transfer, not for each block.
AckedKeepsAttempt ==
  /\ pc = "wait" /\ \E d \in acks : d.seq = seq /\ acks' = acks \ {d}
  /\ seq' = seq + 1 /\ pc' = "send"
  /\ UNCHANGED <<attempt, sent, timeouts, payloads, ending, closing, serverVars>>

\* The skipped ack stays in the queue.
SkipStaleLeaves ==
  /\ pc = "wait" /\ attempt + 1 # MaxAttempts
  /\ \E d \in acks : d.seq # seq
  /\ attempt' = attempt + 1 /\ pc' = "send"
  /\ UNCHANGED <<seq, sent, timeouts, netVars, serverVars>>

\* The last timeout returns Ok.
GiveUpOk ==
  /\ pc = "wait" /\ attempt + 1 = MaxAttempts
  /\ pc' = "ok" /\ closing' = TRUE /\ timeouts' = timeouts + 1
  /\ UNCHANGED <<seq, attempt, sent, payloads, acks, ending, serverVars>>

\* The server continues right after the ack; it has no idle timeout.
SendAckOnly ==
  /\ at = "ack" /\ acks' = acks \cup holding /\ holding' = {} /\ at' = "read"
  /\ UNCHANGED <<clientVars, payloads, ending, closing, stats, delivered>>
NoIdleTimeout == FALSE /\ UNCHANGED vars

-----------------------------------------------------------------------------
\* The client.

LastAttempt == attempt + 1 = MaxAttempts
Accepts(d) == d.seq = seq

Send ==
  /\ pc = "send" /\ seq < NumBlocks
  /\ payloads' = payloads \cup {[seq |-> seq, attempt |-> attempt]}
  /\ sent' = sent + 1
  /\ pc' = "wait"
  /\ UNCHANGED <<seq, attempt, timeouts, acks, ending, closing, serverVars>>

Acked ==
  /\ pc = "wait"
  /\ \E d \in acks : Accepts(d) /\ acks' = acks \ {d}
  /\ seq' = seq + 1 /\ attempt' = 0
  /\ pc' = "send"
  /\ UNCHANGED <<sent, timeouts, payloads, ending, closing, serverVars>>

\* An ack of an earlier block: the match falls through to the next iteration,
\* which sends the block again.
SkipStale ==
  /\ pc = "wait" /\ ~LastAttempt
  /\ \E d \in acks : ~Accepts(d) /\ acks' = acks \ {d}
  /\ attempt' = attempt + 1
  /\ pc' = "send"
  /\ UNCHANGED <<seq, sent, timeouts, payloads, ending, closing, serverVars>>

\* The client returns or dies: its connection handle is dropped, which closes
\* the connection.
Leaves(how) == pc' = how /\ closing' = TRUE

\* The same in the last iteration: the loop ends and unreachable!() panics.
Panic ==
  /\ pc = "wait" /\ LastAttempt
  /\ \E d \in acks : ~Accepts(d) /\ acks' = acks \ {d}
  /\ Leaves("panicked")
  /\ UNCHANGED <<seq, attempt, sent, timeouts, payloads, ending, serverVars>>

Answering == \/ payloads # {} /\ at \notin Ended
             \/ at = "ack"
             \/ acks # {}
TimerFires == /\ pc = "wait" /\ ("late" \in Faults \/ ~Answering)
              /\ timeouts' = timeouts + 1

Retry ==
  /\ TimerFires /\ ~LastAttempt
  /\ attempt' = attempt + 1
  /\ pc' = "send"
  /\ UNCHANGED <<seq, sent, netVars, serverVars>>

GiveUp ==
  /\ TimerFires /\ LastAttempt
  /\ Leaves("timedOut")
  /\ UNCHANGED <<seq, attempt, sent, payloads, acks, ending, serverVars>>

\* After the last block: the empty payload, then 100 ms of sleep.
SendEnd ==
  /\ pc = "send" /\ seq = NumBlocks
  /\ ending' = TRUE
  /\ pc' = "sleep"
  /\ UNCHANGED <<seq, attempt, sent, timeouts, payloads, acks, closing, serverVars>>

Close ==
  /\ pc = "sleep"
  /\ Leaves("ok")
  /\ UNCHANGED <<seq, attempt, sent, timeouts, payloads, acks, ending, serverVars>>

\* send_datagram or read_datagram returns a connection error: a fault, or the
\* server's task has ended and dropped its handle.
Abort ==
  /\ "conn" \in Faults \/ at \in Ended
  /\ pc \in Running
  /\ Leaves("aborted")
  /\ UNCHANGED <<seq, attempt, sent, timeouts, payloads, acks, ending, serverVars>>

ClientStep == \/ Send \/ Acked \/ SkipStale \/ Panic \/ Retry \/ GiveUp
              \/ SendEnd \/ Close

-----------------------------------------------------------------------------
\* The server's task.

Receive ==
  /\ at = "read"
  /\ \E d \in payloads : /\ payloads' = payloads \ {d}
                         /\ holding' = {d}
                         /\ delivered' = delivered \cup {d.seq}
  /\ at' = "ack"
  /\ UNCHANGED <<clientVars, acks, ending, closing, stats>>

SendAck ==
  /\ at = "ack"
  /\ acks' = acks \cup holding
  /\ at' = "count"
  /\ UNCHANGED <<clientVars, payloads, ending, closing, holding, stats, delivered>>

Count ==
  /\ at = "count"
  /\ stats' = stats + 1 /\ holding' = {}
  /\ at' = "read"
  /\ UNCHANGED <<clientVars, netVars, delivered>>

\* The empty payload, or ApplicationClosed: Ok(stats), which is printed.
ReceiveEnd ==
  /\ at = "read" /\ ending
  /\ ending' = FALSE
  /\ at' = "done"
  /\ UNCHANGED <<clientVars, payloads, acks, closing, holding, stats, delivered>>

SeeClose ==
  /\ at = "read" /\ closing
  /\ closing' = FALSE
  /\ at' = "done"
  /\ UNCHANGED <<clientVars, payloads, acks, ending, holding, stats, delivered>>

\* Any other connection error, the idle timeout of 60 s among them: Err(e),
\* and the statistics are dropped.
IdleTimeout ==
  /\ at = "read" /\ pc \notin Running \cup {"sleep"}
  /\ payloads = {} /\ ~ending /\ ~closing
  /\ at' = "error"
  /\ UNCHANGED <<clientVars, netVars, holding, stats, delivered>>

ConnectionError ==
  /\ "conn" \in Faults /\ at \in {"read", "ack"}
  /\ at' = "error"
  /\ UNCHANGED <<clientVars, netVars, holding, stats, delivered>>

ServerStep == \/ Receive \/ SendAck \/ Count \/ ReceiveEnd \/ SeeClose
              \/ IdleTimeout

-----------------------------------------------------------------------------
\* The network loses any datagram, and the closing frame of a client that has
\* exited before its endpoint could send it.
Lose ==
  /\ "loss" \in Faults
  /\ \/ /\ \E d \in payloads : payloads' = payloads \ {d}
        /\ UNCHANGED <<acks, ending, closing>>
     \/ /\ \E d \in acks : acks' = acks \ {d}
        /\ UNCHANGED <<payloads, ending, closing>>
     \/ ending /\ ending' = FALSE /\ UNCHANGED <<payloads, acks, closing>>
     \/ closing /\ closing' = FALSE /\ UNCHANGED <<payloads, acks, ending>>
  /\ UNCHANGED <<clientVars, serverVars>>

Next == ClientStep \/ Abort \/ ServerStep \/ ConnectionError \/ Lose

Spec == Init /\ [][Next]_vars

\* Both tasks are polled whenever a datagram or a timer is ready.
FairSpec == Spec /\ WF_vars(ClientStep) /\ WF_vars(ServerStep)

-----------------------------------------------------------------------------
(***************************************************************************)
(* Correctness.                                                            *)
(***************************************************************************)

\* Every variable has its type.
TypeOK ==
  /\ pc \in Running \cup {"sleep", "ok"} \cup Failed
  /\ seq \in 0..NumBlocks /\ attempt \in 0..(MaxAttempts - 1)
  /\ sent \in Nat /\ timeouts \in Nat
  /\ payloads \subseteq Transmissions /\ acks \subseteq Transmissions
  /\ ending \in BOOLEAN /\ closing \in BOOLEAN
  /\ at \in {"read", "ack", "count"} \cup Ended
  /\ holding \subseteq Transmissions /\ stats \in Nat
  /\ delivered \subseteq 0..(NumBlocks - 1)

\* Every variable has its type.  The report of a transfer that succeeded covers the
\* whole file, unless the task ended with an error; it never counts more than the
\* client sent.
ReportCoversFile == /\ TypeOK
                    /\ stats <= sent
                    /\ pc = "ok" /\ at = "done" => stats >= NumBlocks

\* A skipped ack makes the client send its block once more, and that copy is
\* acknowledged in turn: duplicates do not die out.  They do not multiply
\* either: there are never more of them than timers that fired.
Outstanding == Cardinality(payloads \cup acks \cup
                           (IF at = "ack" THEN holding ELSE {}))
DuplicatesBounded ==
  Outstanding <= timeouts + (IF pc \in {"send", "sleep", "ok"} THEN 0 ELSE 1)

\* "unreachable!()": the code holds that the loop returns on its last attempt.
LoopReturns == pc # "panicked"

\* What does hold: only after as many timeouts as a block has attempts can the
\* acks left over exhaust the loop.
PanicNeedsTimeouts == pc = "panicked" => timeouts >= MaxAttempts

\* The client returns and the server's task ends, whatever is lost.
BothEnd == <>(pc \notin Running \cup {"sleep"}) /\ <>(at \in Ended)

\* The transport implements the abstract transfer, with one client.
Outcome == IF pc \in Running \cup {"sleep"} THEN "running"
           ELSE IF pc = "ok" THEN "ok" ELSE "failed"
Conn == "connection"
Abstract == INSTANCE AckedTransfer WITH
              Clients <- {Conn}, Blocks <- [c \in {Conn} |-> NumBlocks],
              delivered <- [c \in {Conn} |-> delivered],
              confirmed <- [c \in {Conn} |-> seq],
              outcome   <- [c \in {Conn} |-> Outcome]
ImplementsAckedTransfer == Abstract!Spec

=============================================================================
