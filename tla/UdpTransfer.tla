---------------------------- MODULE UdpTransfer ----------------------------
(***************************************************************************)
(* The "udp" transport of tema1 as run_experiments.py drives it: clients   *)
(* that send their chunks and one empty datagram and return, and one       *)
(* server task that counts what reaches it and prints the count, whoever   *)
(* it is from, at an empty datagram.                                       *)
(*                                                                         *)
(* All runs over the loopback interface: datagrams keep their order, and   *)
(* are lost only where the server's receive buffer is full, without an     *)
(* error to the sender.  An empty datagram needs room like any other.      *)
(***************************************************************************)
EXTENDS Naturals, Sequences, FiniteSets, Functions

CONSTANTS Clients,     \* the runs of the client program
          Blocks,      \* Blocks[c]: the chunks of the file c sends
          BufferLimit, \* datagrams the server's receive buffer holds
          Faults       \* subset of {"abort", "io"}

ASSUME BlocksAssumption == Blocks \in [Clients -> Nat]
ASSUME BufferAssumption == BufferLimit \in Nat \ {0} /\ Faults \subseteq {"abort", "io"}

VARIABLES
  harness,   \* TRUE: the clients are run one at a time, by run_experiments.py
  pc,        \* pc[c]: "idle", "send", or what c returned
  sent,      \* sent[c]: its stats.packets_sent
  buffer,    \* datagrams the server has still to receive
  stopped,   \* the server's task has returned an error
  stats,     \* its stats.packets_received
  dropped,   \* history, dropped[c]: payloads of c that found the buffer full
  endLost,   \* history: the clients whose empty datagram did
  share,     \* history, share[c]: the part of stats that is from c
  report     \* history, report[c]: shares at the empty datagram of c

clientVars == <<pc, sent>>
serverVars == <<stopped, stats>>
vars == <<harness, clientVars, buffer, serverVars, dropped, endLost, share, report>>

NoShare == [c \in Clients |-> 0]
None == [c \in {} |-> 0]

Init ==
  /\ harness \in BOOLEAN
  /\ pc = [c \in Clients |-> "idle"] /\ sent = NoShare
  /\ buffer = <<>> /\ stopped = FALSE /\ stats = 0
  /\ dropped = NoShare /\ endLost = {} /\ share = NoShare
  /\ report = [c \in Clients |-> None]

-----------------------------------------------------------------------------
\* Slips: clients run without waiting for one another; a client that returns without
\* its empty datagram; a counter that outlives its report.
StartsAtOnce(c) == pc[c] = "idle"
FinishNoEnd(c) ==
  /\ pc[c] = "send" /\ sent[c] = Blocks[c]
  /\ pc' = [pc EXCEPT ![c] = "ok"]
  /\ UNCHANGED <<harness, sent, buffer, serverVars, dropped, endLost, share, report>>
PrintKeeps == stats' = stats /\ share' = share

-----------------------------------------------------------------------------
Fits == Len(buffer) < BufferLimit

\* run_experiment waits for a client to exit before the next is started.
MayStart(c) == pc[c] = "idle" /\ (harness => \A d \in Clients : pc[d] # "send")

Start(c) ==
  /\ MayStart(c)
  /\ pc' = [pc EXCEPT ![c] = "send"]
  /\ UNCHANGED <<harness, sent, buffer, serverVars, dropped, endLost, share, report>>

\* send_to succeeds whether or not the datagram finds room.
Send(c) ==
  /\ pc[c] = "send" /\ sent[c] < Blocks[c]
  /\ IF Fits THEN /\ buffer' = Append(buffer, [client |-> c, end |-> FALSE])
                  /\ UNCHANGED dropped
             ELSE /\ dropped' = [dropped EXCEPT ![c] = @ + 1]
                  /\ UNCHANGED buffer
  /\ sent' = [sent EXCEPT ![c] = @ + 1]
  /\ UNCHANGED <<harness, pc, serverVars, endLost, share, report>>

Finish(c) ==
  /\ pc[c] = "send" /\ sent[c] = Blocks[c]
  /\ IF Fits THEN /\ buffer' = Append(buffer, [client |-> c, end |-> TRUE])
                  /\ UNCHANGED endLost
             ELSE /\ endLost' = endLost \cup {c}
                  /\ UNCHANGED buffer
  /\ pc' = [pc EXCEPT ![c] = "ok"]
  /\ UNCHANGED <<harness, sent, serverVars, dropped, share, report>>

\* send_to fails, as it does for a block too large for a datagram, or the
\* harness kills the client after 300 s.
Abort(c) ==
  /\ "abort" \in Faults /\ pc[c] = "send"
  /\ pc' = [pc EXCEPT ![c] = "aborted"]
  /\ UNCHANGED <<harness, sent, buffer, serverVars, dropped, endLost, share, report>>

ClientStep(c) == Start(c) \/ Send(c) \/ Finish(c)

-----------------------------------------------------------------------------
Count(c) ==
  /\ stats' = stats + 1
  /\ share' = [share EXCEPT ![c] = @ + 1]

PrintAndReset == stats' = 0 /\ share' = NoShare

ReceivePayload ==
  /\ ~stopped /\ buffer # <<>> /\ ~Head(buffer).end
  /\ Count(Head(buffer).client)
  /\ buffer' = Tail(buffer)
  /\ UNCHANGED <<harness, clientVars, stopped, dropped, endLost, report>>

ReceiveEnd ==
  /\ ~stopped /\ buffer # <<>> /\ Head(buffer).end
  /\ report' = [report EXCEPT ![Head(buffer).client] = share]
  /\ PrintAndReset
  /\ buffer' = Tail(buffer)
  /\ UNCHANGED <<harness, clientVars, stopped, dropped, endLost>>

ServerStops ==
  /\ "io" \in Faults /\ ~stopped
  /\ stopped' = TRUE
  /\ UNCHANGED <<harness, clientVars, buffer, stats, dropped, endLost, share, report>>

ServerStep == ReceivePayload \/ ReceiveEnd

Next == \/ \E c \in Clients : ClientStep(c) \/ Abort(c)
        \/ ServerStep \/ ServerStops
Spec == Init /\ [][Next]_vars
\* The server task is polled while its socket has datagrams.
FairSpec == Spec /\ WF_vars(ServerStep) /\ \A c \in Clients : WF_vars(ClientStep(c))

-----------------------------------------------------------------------------
\* Every variable has its type; a client sends no more than its chunks, and the
\* buffer keeps to its limit.
TypeOK ==
  /\ pc \in [Clients -> {"idle", "send", "ok", "aborted"}]
  /\ \A c \in Clients : sent[c] \in 0..Blocks[c]
  /\ buffer \in Seq([client : Clients, end : BOOLEAN]) /\ Len(buffer) <= BufferLimit
  /\ stopped \in BOOLEAN /\ stats \in Nat
  /\ dropped \in [Clients -> Nat] /\ endLost \subseteq Clients
  /\ share \in [Clients -> Nat]
  /\ \A c \in Clients : report[c] = None \/ report[c] \in [Clients -> Nat]

Reported(c) == report[c] # None
Total(f) == FoldFunction(LAMBDA x, y : x + y, 0, f)

\* Every variable has its type, and every chunk a client counts as sent is in the
\* buffer, dropped, in the server's counter or in exactly one printed report.
Conserved ==
  TypeOK /\
  Total(sent) = Total(dropped) + stats
                + Total([c \in Clients |-> Total(report[c])])
                + Cardinality({i \in 1..Len(buffer) : ~buffer[i].end})

\* Run one at a time, a client whose empty datagram arrives is reported with all of its
\* chunks that were not dropped, and its report counts another client's chunks only if
\* that client left without an empty datagram reaching the server.
HarnessReport ==
  harness => \A c \in Clients : Reported(c) =>
    /\ report[c][c] = sent[c] - dropped[c]
    /\ \A d \in Clients \ {c} : report[c][d] > 0 => pc[d] = "aborted" \/ d \in endLost

\* A report is printed for every client that returns Ok, unless its empty
\* datagram finds the buffer full or the server's task has ended.
OkIsReported ==
  \A c \in Clients : (pc[c] = "ok" /\ c \notin endLost) ~> (Reported(c) \/ stopped)

=============================================================================
