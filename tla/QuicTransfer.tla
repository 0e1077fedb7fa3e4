---------------------------- MODULE QuicTransfer ----------------------------
(***************************************************************************)
(* One connection of the "quic" transport of tema1: the client of          *)
(* tema1/client/src/transport/quic.rs and the task that                    *)
(* tema1/server/src/transport/quic.rs spawns for it.  Nothing is           *)
(* acknowledged and nothing is repeated.                                   *)
(*                                                                         *)
(* A datagram is its sequence number; the empty payload that ends a file   *)
(* has the one after the last chunk.  On its way it is in the queue of the *)
(* client's connection, which paces what it sends, then in flight, where   *)
(* it may be lost or overtaken, then in the buffer of the server's         *)
(* connection.  Both queues make room by dropping their oldest.  Closing a *)
(* connection drops what is queued, and so does dropping its last handle,  *)
(* when a program returns early.                                           *)
(***************************************************************************)
EXTENDS Naturals, Sequences, FiniteSets, SequencesExt

CONSTANTS NumBlocks,  \* the chunks of the file
          SendLimit,  \* datagrams the client's connection queues
          ReadLimit,  \* datagrams the server's connection buffers
          Faults      \* what the environment may do

\* "loss": a datagram, or the frame that closes the connection, vanishes.
\* "size": a chunk is more than a datagram of this path may hold.
\* "conn": the connection breaks, for both sides.
FaultKinds == {"loss", "size", "conn"}

ASSUME QuicTransferAssumption ==
  /\ NumBlocks \in Nat /\ SendLimit \in Nat \ {0} /\ ReadLimit \in Nat \ {0}
  /\ Faults \subseteq FaultKinds

VARIABLES
  pc,      \* where the client is, or what it returned
  seq,     \* the datagram it sends next
  queue,   \* datagrams its connection has still to send
  flight,  \* datagrams under way
  close,   \* the closing frame: "none", "sent", "lost" or "arrived"
  buffer,  \* datagrams the server's connection has received
  at,      \* where the server's task is, or what it returned
  stats,   \* its stats.packets_received
  lost,    \* history: datagrams lost or dropped, on either side
  broken   \* the connection is broken

clientVars == <<pc, seq>>
netVars    == <<queue, flight, close, buffer, lost>>
serverVars == <<at, stats>>
vars == <<clientVars, netVars, serverVars, broken>>

End == NumBlocks

Init ==
  /\ pc = "send" /\ seq = 0
  /\ queue = <<>> /\ flight = {} /\ close = "none" /\ buffer = <<>> /\ lost = {}
  /\ at = "read" /\ stats = 0
  /\ broken = FALSE

-----------------------------------------------------------------------------
\* Slips: the empty payload is counted before it is recognised; a close by the client
\* is an error like any other; the server has no idle timeout.
ReadEndCounts ==
  /\ at = "read" /\ buffer # <<>> /\ Head(buffer) = End
  /\ buffer' = Tail(buffer) /\ at' = "done" /\ stats' = stats + 1
  /\ UNCHANGED <<clientVars, queue, flight, close, lost, broken>>
SeeCloseFails ==
  /\ at = "read" /\ buffer = <<>> /\ close = "arrived"
  /\ at' = "failed"
  /\ UNCHANGED <<clientVars, netVars, stats, broken>>
NoIdleTimeout == FALSE /\ UNCHANGED vars

-----------------------------------------------------------------------------
\* A queue of at most limit datagrams takes one more.
Overflow(q, limit) == IF Len(q) < limit THEN {} ELSE {Head(q)}
Push(q, limit, d) == Append(IF Len(q) < limit THEN q ELSE Tail(q), d)

\* send_datagram succeeds whether there is room or not.
SendDatagram ==
  /\ queue' = Push(queue, SendLimit, seq)
  /\ lost' = lost \cup Overflow(queue, SendLimit)
  /\ seq' = seq + 1

Send ==
  /\ pc = "send" /\ seq < NumBlocks /\ ~broken
  /\ SendDatagram
  /\ UNCHANGED <<pc, flight, close, buffer, serverVars, broken>>

SendEnd ==
  /\ pc = "send" /\ seq = End /\ ~broken
  /\ SendDatagram
  /\ pc' = "sleep"
  /\ UNCHANGED <<flight, close, buffer, serverVars, broken>>

\* The connection is closed, if it is not broken, and what it had queued is dropped.
Leaves(how) ==
  /\ pc' = how
  /\ close' = IF broken THEN close ELSE "sent"
  /\ lost' = lost \cup ToSet(queue) /\ queue' = <<>>

\* After 100 ms, whatever has been sent by then.
Close ==
  /\ pc = "sleep"
  /\ Leaves("ok")
  /\ UNCHANGED <<seq, flight, buffer, serverVars, broken>>

\* send_datagram fails: the chunk is too large, or the connection is broken.
SendFails ==
  /\ pc = "send"
  /\ Leaves("failed")
  /\ UNCHANGED <<seq, flight, buffer, serverVars, broken>>
ChunkTooLarge == "size" \in Faults /\ seq < NumBlocks /\ ~broken /\ SendFails
ConnectionLost == broken /\ SendFails

ClientStep == Send \/ SendEnd \/ Close \/ ConnectionLost

-----------------------------------------------------------------------------
\* The network and the two connections.
Transmit ==
  /\ queue # <<>> /\ ~broken
  /\ flight' = flight \cup {Head(queue)} /\ queue' = Tail(queue)
  /\ UNCHANGED <<clientVars, close, buffer, lost, serverVars, broken>>

\* A connection takes datagrams until it has seen the closing frame.
Open == at = "read" /\ close # "arrived" /\ ~broken
Arrive ==
  /\ Open
  /\ \E d \in flight : /\ flight' = flight \ {d}
                       /\ buffer' = Push(buffer, ReadLimit, d)
  /\ lost' = lost \cup Overflow(buffer, ReadLimit)
  /\ UNCHANGED <<clientVars, queue, close, serverVars, broken>>

CloseArrives ==
  /\ Open /\ close = "sent"
  /\ close' = "arrived"
  /\ UNCHANGED <<clientVars, queue, flight, buffer, lost, serverVars, broken>>

Lose ==
  /\ "loss" \in Faults
  /\ \/ \E d \in flight : flight' = flight \ {d} /\ lost' = lost \cup {d} /\ close' = close
     \/ close = "sent" /\ close' = "lost" /\ UNCHANGED <<flight, lost>>
  /\ UNCHANGED <<clientVars, queue, buffer, serverVars, broken>>

Break ==
  /\ "conn" \in Faults /\ ~broken
  /\ broken' = TRUE
  /\ UNCHANGED <<clientVars, netVars, serverVars>>

-----------------------------------------------------------------------------
\* The server's task.  read_datagram returns what is buffered before any error.
Read ==
  /\ at = "read" /\ buffer # <<>> /\ Head(buffer) # End
  /\ buffer' = Tail(buffer) /\ stats' = stats + 1
  /\ UNCHANGED <<clientVars, queue, flight, close, lost, at, broken>>

\* Ok(stats), which is printed: on the empty payload, and when the client has closed
\* the connection, even because it failed.
ReadEnd ==
  /\ at = "read" /\ buffer # <<>> /\ Head(buffer) = End
  /\ buffer' = Tail(buffer) /\ at' = "done"
  /\ UNCHANGED <<clientVars, queue, flight, close, lost, stats, broken>>

SeeClose ==
  /\ at = "read" /\ buffer = <<>> /\ close = "arrived"
  /\ at' = "done"
  /\ UNCHANGED <<clientVars, netVars, stats, broken>>

\* Any other connection error, which drops the statistics: the connection is broken, or
\* nothing comes from a client that is gone until the idle timeout.
SeeError == at' = "failed" /\ UNCHANGED <<clientVars, netVars, stats, broken>>
ConnectionError ==
  /\ at = "read" /\ buffer = <<>> /\ broken /\ close # "arrived"
  /\ SeeError
IdleTimeout ==
  /\ at = "read" /\ buffer = <<>> /\ flight = {} /\ close = "lost" /\ ~broken
  /\ SeeError

ServerStep == Read \/ ReadEnd \/ SeeClose \/ ConnectionError \/ IdleTimeout

Next == ClientStep \/ ChunkTooLarge \/ ServerStep
        \/ Transmit \/ Arrive \/ CloseArrives \/ Lose \/ Break
Spec == Init /\ [][Next]_vars

\* Both tasks are polled when a call of theirs is ready, and what is under way is lost
\* or arrives; when a datagram leaves the queue is up to congestion control.
FairSpec ==
  Spec /\ WF_vars(ClientStep) /\ WF_vars(ServerStep) /\ WF_vars(Arrive) /\ WF_vars(CloseArrives)

-----------------------------------------------------------------------------
\* Datagrams that neither the server has read nor anything has dropped.
Unread == ToSet(queue) \cup flight \cup ToSet(buffer)
Chunks(datagrams) == datagrams \ {End}

\* Every variable has its type.
TypeOK ==
  /\ pc \in {"send", "sleep", "ok", "failed"} /\ seq \in 0..(NumBlocks + 1)
  /\ queue \in Seq(0..End) /\ Len(queue) <= SendLimit /\ flight \subseteq 0..End
  /\ close \in {"none", "sent", "lost", "arrived"}
  /\ buffer \in Seq(0..End) /\ Len(buffer) <= ReadLimit
  /\ at \in {"read", "done", "failed"} /\ stats \in Nat
  /\ lost \subseteq 0..End /\ broken \in BOOLEAN

\* The report is short of the file by exactly the chunks that were lost or dropped and
\* those still to be read; it is so even where nothing was lost, if the empty payload
\* or the close overtook chunks.  No chunk is counted twice, and none both counted and lost.
ShortByLostAndOvertaken ==
  /\ TypeOK
  /\ lost \cap Unread = {}
  /\ stats + Cardinality(Chunks(lost \cup Unread))
       = IF seq > NumBlocks THEN NumBlocks ELSE seq

\* On a connection that does not break, the server prints a report for every client,
\* unless both the empty payload and the closing frame fail to reach it.
SilentOnlyIfBothLost ==
  at = "failed" /\ ~broken => close = "lost" /\ (End \in lost \/ pc = "failed")

\* Both ends return, whatever is lost.
BothEnd == <>(pc \in {"ok", "failed"}) /\ <>(at # "read")

=============================================================================
