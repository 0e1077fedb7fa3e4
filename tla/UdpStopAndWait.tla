--------------------------- MODULE UdpStopAndWait ---------------------------
(***************************************************************************)
(* The "udp-stop-and-wait" transport of tema1: the clients of              *)
(* tema1/client/src/transport/udp_stop_and_wait.rs, the one server task of *)
(* tema1/server/src/transport/udp_stop_and_wait.rs that serves all of      *)
(* them, and the datagrams between them.                                   *)
(*                                                                         *)
(* A transmission is a record: which client sent it, the sequence number   *)
(* it carries, and which attempt of that block it is.  The attempt is not  *)
(* on the wire and no action reads it: it only tells two transmissions of  *)
(* one block apart, so that the network is a set.  An ack is the           *)
(* transmission it answers.  The network loses, delays and reorders        *)
(* datagrams; it does not duplicate them.                                  *)
(***************************************************************************)
EXTENDS Naturals, FiniteSets

CONSTANTS Clients,      \* client processes, each with a socket of its own
          Blocks,       \* Blocks[c]: the chunks chunk_iter yields for c
          MaxAttempts,  \* iterations of the retry loop, 2 in the code
          Environments, \* sets of faults, see FaultKinds
          MaxLosses     \* bound: payloads and acks the network loses

\* "loss": a datagram vanishes.  "late": the timer of a client fires though the
\* answer is under way.  "io": a socket call of the server returns an error.
\* "abort": a socket call of a client does, or the harness kills the client.
FaultKinds == {"loss", "late", "io", "abort"}

ASSUME BlocksAssumption == Blocks \in [Clients -> Nat]
ASSUME AttemptsAssumption == MaxAttempts \in Nat \ {0}
ASSUME FaultsAssumption == Environments \subseteq SUBSET FaultKinds /\ MaxLosses \in Nat

VARIABLES
  faults,       \* what this environment may do, chosen once
  pc,           \* pc[c]: where client c is, or what it returned
  seq,          \* seq[c]: the block c is sending
  attempt,      \* attempt[c]: the loop variable of send_and_wait_for_ack
  sent,         \* sent[c]: stats.packets_sent of c
  payloads,     \* payload datagrams under way
  acks,         \* acks under way
  ends,         \* the clients whose empty datagram is under way
  losses,       \* payloads and acks lost so far
  at,           \* where the server task is
  holding,      \* the payload the server has in hand, as a set
  stats,        \* stats.packets_received of the server
  transmitted,  \* history: every transmission made
  arrived,      \* history: every transmission recv_from returned
  printed       \* history: the sum of the packets_received printed so far

clientVars  == <<pc, seq, attempt, sent>>
netVars     == <<payloads, acks, ends, losses>>
serverVars  == <<at, holding, stats>>
historyVars == <<transmitted, arrived, printed>>
vars == <<faults, clientVars, netVars, serverVars, historyVars>>

Transmissions == [client : Clients, seq : Nat, attempt : Nat]
Of(c, S) == {d \in S : d.client = c}

Running == {"send", "wait"}
Failed  == {"timedOut", "invalidAck", "aborted"}

Init ==
  /\ faults \in Environments
  /\ pc = [c \in Clients |-> "send"]
  /\ seq = [c \in Clients |-> 0]
  /\ attempt = [c \in Clients |-> 0]
  /\ sent = [c \in Clients |-> 0]
  /\ payloads = {} /\ acks = {} /\ ends = {} /\ losses = 0
  /\ at = "recv" /\ holding = {} /\ stats = 0
  /\ transmitted = {} /\ arrived = {} /\ printed = 0

-----------------------------------------------------------------------------
\* Slips: each is one of the definitions below with a plausible mistake in it.
\* No specification uses them; a property of the runs fails with any of them.

\* attempt == 2 for attempt + 1 == 2, and attempt + 2 == 2.
LastAttemptLate(c)  == attempt[c] = MaxAttempts
LastAttemptEarly(c) == attempt[c] + 2 >= MaxAttempts

\* The packet is counted before the retry loop, not in it.
SendCountsBlocks(c) ==
  /\ pc[c] = "send" /\ seq[c] < Blocks[c] /\ attempt[c] < MaxAttempts
  /\ LET d == [client |-> c, seq |-> seq[c], attempt |-> attempt[c]]
     IN  payloads' = payloads \cup {d} /\ transmitted' = transmitted \cup {d}
  /\ sent' = [sent EXCEPT ![c] = IF attempt[c] = 0 THEN @ + 1 ELSE @]
  /\ pc' = [pc EXCEPT ![c] = "wait"]
  /\ UNCHANGED <<faults, seq, attempt, acks, ends, losses, serverVars, arrived, printed>>

\* The sequence number of the ack is not compared.
AcceptsAny(c, d) == d.client = c

\* recv_from has no timer.
TimerMissing(c) == FALSE /\ pc[c] = "wait"

\* The last timeout returns Ok.
GiveUpOk(c) ==
  /\ pc[c] = "wait" /\ attempt[c] + 1 = MaxAttempts
  /\ pc' = [pc EXCEPT ![c] = "ok"]
  /\ UNCHANGED <<faults, seq, attempt, sent, netVars, serverVars, historyVars>>

\* The server acks the block it expects next, or keeps its statistics.
SendAckNext ==
  /\ at = "ack" /\ at' = "count"
  /\ acks' = acks \cup {[d EXCEPT !.seq = @ + 1] : d \in holding}
  /\ UNCHANGED <<faults, clientVars, payloads, ends, losses, holding, stats, historyVars>>
ReceiveTerminatorKeeps ==
  /\ at = "recv" /\ \E c \in ends : ends' = ends \ {c}
  /\ printed' = printed + stats
  /\ UNCHANGED <<faults, clientVars, payloads, acks, losses, serverVars, transmitted,
                 arrived>>

-----------------------------------------------------------------------------
\* The client.  "send" is the head of the retry loop, or of the loop over the
\* chunks once seq[c] = Blocks[c]; "wait" is recv_from under the timer.

LastAttempt(c) == attempt[c] + 1 = MaxAttempts

\* ack.seq == payload.seq
Accepts(c, d) == d.seq = seq[c]

Send(c) ==
  /\ pc[c] = "send" /\ seq[c] < Blocks[c] /\ attempt[c] < MaxAttempts
  /\ LET d == [client |-> c, seq |-> seq[c], attempt |-> attempt[c]]
     IN  /\ payloads' = payloads \cup {d}
         /\ transmitted' = transmitted \cup {d}
  /\ sent' = [sent EXCEPT ![c] = @ + 1]
  /\ pc' = [pc EXCEPT ![c] = "wait"]
  /\ UNCHANGED <<faults, seq, attempt, acks, ends, losses, serverVars, arrived, printed>>

\* The ack carries the sequence number awaited: on to the next block.
Acked(c) ==
  /\ pc[c] = "wait"
  /\ \E d \in Of(c, acks) : Accepts(c, d) /\ acks' = acks \ {d}
  /\ seq' = [seq EXCEPT ![c] = @ + 1]
  /\ attempt' = [attempt EXCEPT ![c] = 0]
  /\ pc' = [pc EXCEPT ![c] = "send"]
  /\ UNCHANGED <<faults, sent, payloads, ends, losses, serverVars, historyVars>>

\* Any other ack ends the transfer with "Invalid ack sequence".
StaleAck(c) ==
  /\ pc[c] = "wait"
  /\ \E d \in Of(c, acks) : ~Accepts(c, d) /\ acks' = acks \ {d}
  /\ pc' = [pc EXCEPT ![c] = "invalidAck"]
  /\ UNCHANGED <<faults, seq, attempt, sent, payloads, ends, losses, serverVars,
                 historyVars>>

\* An answer to c is still to come: on its way there, at the server, or back.
Answering(c) == \/ at # "stopped" /\ Of(c, payloads) # {}
                \/ at = "ack" /\ Of(c, holding) # {}
                \/ Of(c, acks) # {}

TimerFires(c) == pc[c] = "wait" /\ ("late" \in faults \/ ~Answering(c))

Retry(c) ==
  /\ TimerFires(c) /\ ~LastAttempt(c)
  /\ attempt' = [attempt EXCEPT ![c] = @ + 1]
  /\ pc' = [pc EXCEPT ![c] = "send"]
  /\ UNCHANGED <<faults, seq, sent, netVars, serverVars, historyVars>>

GiveUp(c) ==
  /\ TimerFires(c) /\ LastAttempt(c)
  /\ pc' = [pc EXCEPT ![c] = "timedOut"]
  /\ UNCHANGED <<faults, seq, attempt, sent, netVars, serverVars, historyVars>>

\* After the last block: one empty datagram, not acknowledged, and Ok(stats).
Finish(c) ==
  /\ pc[c] = "send" /\ seq[c] = Blocks[c]
  /\ ends' = ends \cup {c}
  /\ pc' = [pc EXCEPT ![c] = "ok"]
  /\ UNCHANGED <<faults, seq, attempt, sent, payloads, acks, losses, serverVars,
                 historyVars>>

\* send_to or recv_from returned an error, or run_experiments.py killed c.
Abort(c) ==
  /\ "abort" \in faults /\ pc[c] \in Running
  /\ pc' = [pc EXCEPT ![c] = "aborted"]
  /\ UNCHANGED <<faults, seq, attempt, sent, netVars, serverVars, historyVars>>

ClientStep(c) ==
  Send(c) \/ Acked(c) \/ StaleAck(c) \/ Retry(c) \/ GiveUp(c) \/ Finish(c)

-----------------------------------------------------------------------------
\* The server: one task, one Stats for every client.  The ack is out before
\* the payload is counted.

ReceivePayload ==
  /\ at = "recv"
  /\ \E d \in payloads : /\ payloads' = payloads \ {d}
                         /\ holding' = {d}
                         /\ arrived' = arrived \cup {d}
  /\ at' = "ack"
  /\ UNCHANGED <<faults, clientVars, acks, ends, losses, stats, transmitted, printed>>

SendAck ==
  /\ at = "ack"
  /\ acks' = acks \cup holding
  /\ at' = "count"
  /\ UNCHANGED <<faults, clientVars, payloads, ends, losses, holding, stats, historyVars>>

Count ==
  /\ at = "count"
  /\ stats' = stats + 1
  /\ holding' = {}
  /\ at' = "recv"
  /\ UNCHANGED <<faults, clientVars, netVars, historyVars>>

\* An empty datagram, from whichever client: print the statistics and reset.
ReceiveTerminator ==
  /\ at = "recv"
  /\ \E c \in ends : ends' = ends \ {c}
  /\ printed' = printed + stats
  /\ stats' = 0
  /\ UNCHANGED <<faults, clientVars, payloads, acks, losses, at, holding, transmitted,
                 arrived>>

\* recv_from or send_to failed: the task returns its error, which the join of
\* the server's main discards.  Nothing starts the task again.
ServerStops ==
  /\ "io" \in faults /\ at \in {"recv", "ack"}
  /\ at' = "stopped"
  /\ UNCHANGED <<faults, clientVars, netVars, holding, stats, historyVars>>

ServerStep == ReceivePayload \/ SendAck \/ Count \/ ReceiveTerminator

-----------------------------------------------------------------------------
\* The network.

CanLose == "loss" \in faults /\ losses < MaxLosses

LosePayload ==
  /\ CanLose
  /\ \E d \in payloads : payloads' = payloads \ {d}
  /\ losses' = losses + 1
  /\ UNCHANGED <<faults, clientVars, acks, ends, serverVars, historyVars>>

LoseAck ==
  /\ CanLose
  /\ \E d \in acks : acks' = acks \ {d}
  /\ losses' = losses + 1
  /\ UNCHANGED <<faults, clientVars, payloads, ends, serverVars, historyVars>>

LoseTerminator ==
  /\ "loss" \in faults
  /\ \E c \in ends : ends' = ends \ {c}
  /\ UNCHANGED <<faults, clientVars, payloads, acks, losses, serverVars, historyVars>>

Network == LosePayload \/ LoseAck \/ LoseTerminator

Next == \/ \E c \in Clients : ClientStep(c) \/ Abort(c)
        \/ ServerStep \/ ServerStops
        \/ Network

Spec == Init /\ [][Next]_vars

\* The runtime polls a client whose socket or timer is ready, and the server
\* task while datagrams are queued: each is scheduled again and again.
Fairness == (\A c \in Clients : WF_vars(ClientStep(c))) /\ WF_vars(ServerStep)
FairSpec == Spec /\ Fairness

-----------------------------------------------------------------------------
(***************************************************************************)
(* Correctness.                                                            *)
(***************************************************************************)

\* Every variable has its type; a retry loop is never entered a time too many.
TypeOK ==
  /\ faults \in Environments
  /\ pc \in [Clients -> Running \cup {"ok"} \cup Failed]
  /\ seq \in [Clients -> Nat]
  /\ attempt \in [Clients -> 0..(MaxAttempts - 1)]
  /\ sent \in [Clients -> Nat]
  /\ payloads \subseteq Transmissions /\ acks \subseteq Transmissions
  /\ ends \subseteq Clients /\ losses \in 0..MaxLosses
  /\ at \in {"recv", "ack", "count", "stopped"}
  /\ holding \subseteq Transmissions /\ stats \in Nat
  /\ transmitted \subseteq Transmissions /\ arrived \subseteq Transmissions
  /\ printed \in Nat

HasBlock(c, s) == \E d \in arrived : d.client = c /\ d.seq = s

\* A client that returns Ok has had every block of its file received: no
\* combination of retries, stale acks and losses lets it skip one.
OkMeansDelivered ==
  \A c \in Clients : pc[c] = "ok" => \A s \in 0..(Blocks[c] - 1) : HasBlock(c, s)

\* The window is one block: nothing beyond the block being sent is on the
\* wire or at the server, and the server has every block before it.
WindowOfOne ==
  /\ \A d \in payloads \cup acks \cup arrived : d.seq <= seq[d.client]
  /\ \A c \in Clients : \A s \in 0..(seq[c] - 1) : HasBlock(c, s)

\* What the server has printed and holds in its counter is exactly what it has
\* received, but for the payload in hand: the counter it shares between
\* clients moves packets from one report to another and never loses one.
StatsAccounted == printed + stats = Cardinality(arrived \ holding)

\* Every transmission a client counted in packets_sent is under way, received
\* once, or lost; the two programs' statistics differ by exactly these.
LostPayloads == transmitted \ (payloads \cup arrived)
SentCounts == UNION {{c} \X (1..sent[c]) : c \in Clients}
DatagramsConserved ==
  Cardinality(SentCounts) = printed + stats + Cardinality(holding)
                       + Cardinality(payloads) + Cardinality(LostPayloads)

\* "retry loop always returns on final attempt": the unreachable! after the
\* loop is indeed not reached, and no block is sent more than MaxAttempts times.
LoopReturns ==
  \A c \in Clients :
    /\ pc[c] = "send" => attempt[c] < MaxAttempts
    /\ Cardinality({d \in Of(c, transmitted) : d.seq = seq[c]}) <= MaxAttempts

\* Every client returns, whatever is lost, late or broken, even a dead server.
EveryTransferEnds == \A c \in Clients : <>(pc[c] \notin Running)

\* While no timer fires early, a client never meets an ack it does not await:
\* the error for an invalid ack sequence needs an answer later than the timer.
NoStaleAck == "late" \notin faults => \A c \in Clients : pc[c] # "invalidAck"

\* With timely answers, fewer losses than attempts and no other fault, every transfer
\* succeeds.
EveryTransferSucceeds ==
  faults \subseteq {"loss"} /\ MaxLosses < MaxAttempts =>
    \A c \in Clients : <>(pc[c] = "ok")

\* The transport implements the abstract transfer.
Outcome(c) == IF pc[c] \in Running THEN "running"
              ELSE IF pc[c] = "ok" THEN "ok" ELSE "failed"
Delivered(c) == {d.seq : d \in Of(c, arrived)}
Abstract == INSTANCE AckedTransfer WITH
              delivered <- [c \in Clients |-> Delivered(c)],
              confirmed <- seq,
              outcome   <- [c \in Clients |-> Outcome(c)]
ImplementsAckedTransfer == Abstract!Spec

-----------------------------------------------------------------------------
\* The inductive invariant behind the theorems of UdpStopAndWaitProofs.

\* Where a transmission can be, and that the one about to be made is new.
TransmissionsInv ==
  /\ payloads \cup arrived \subseteq transmitted
  /\ payloads \cap arrived = {}
  /\ acks \cup holding \subseteq arrived
  /\ \A d \in transmitted :
       LET c == d.client
       IN  /\ d.seq < Blocks[c] /\ d.seq <= seq[c]
           /\ d.attempt < MaxAttempts
           /\ d.seq = seq[c] => /\ d.attempt <= attempt[c]
                                /\ pc[c] = "send" => d.attempt < attempt[c]

\* The server has one payload in hand from recv_from to the count.
HoldingInv ==
  /\ at = "recv" => holding = {}
  /\ at \in {"ack", "count"} => \E d \in arrived : holding = {d}
  /\ at = "ack" => holding \cap acks = {}

\* The server has every block before the one a client sends, and a client
\* that returned Ok has sent them all.
PrefixInv ==
  \A c \in Clients : /\ seq[c] <= Blocks[c]
                     /\ \A s \in 0..(seq[c] - 1) : HasBlock(c, s)
                     /\ pc[c] = "ok" => seq[c] = Blocks[c]

CountInv == IsFiniteSet(arrived) /\ StatsAccounted

\* Without early timers, all that is still to be answered is the transmission
\* the client waits on.
Unanswered(c) == Of(c, acks) \cup (IF at # "stopped" THEN Of(c, payloads) ELSE {})
                             \cup (IF at = "ack" THEN Of(c, holding) ELSE {})
TimelyInv ==
  "late" \notin faults =>
    \A c \in Clients :
      /\ pc[c] # "invalidAck"
      /\ pc[c] \in Running => \A d \in Unanswered(c) :
           pc[c] = "wait" /\ d.seq = seq[c] /\ d.attempt = attempt[c]

\* Inductive: every conjunct is needed by the step lemmas.
IInv == TypeOK /\ TransmissionsInv /\ HoldingInv /\ PrefixInv /\ CountInv /\ TimelyInv

=============================================================================
