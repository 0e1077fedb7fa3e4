------------------------ MODULE QuicStopAndWaitProofs ------------------------
(***************************************************************************)
(* Theorems about QuicStopAndWait, for every file, every number of         *)
(* attempts and any faults: type correctness, what a report covers, the    *)
(* bound on duplicates, how many timeouts a panic takes, and the           *)
(* refinement of AckedTransfer.                                            *)
(***************************************************************************)
EXTENDS QuicStopAndWait, FiniteSetTheorems, TLAPS

USE BlocksAssumption, AttemptsAssumption, FaultsAssumption

\* One case per action: what the proof of a step is split into.
LEMMA NextCases ==
  ASSUME [Next]_vars
  PROVE  \/ Send \/ Acked \/ SkipStale \/ Panic \/ Retry \/ GiveUp
         \/ SendEnd \/ Close \/ Abort
         \/ Receive \/ SendAck \/ Count \/ ReceiveEnd \/ SeeClose \/ IdleTimeout
         \/ ConnectionError \/ Lose \/ UNCHANGED vars
BY DEF Next, ClientStep, ServerStep

-----------------------------------------------------------------------------
\* Every variable has its type at first.
LEMMA TypeInit == Init => TypeOK
<1> SUFFICES ASSUME Init PROVE TypeOK
  OBVIOUS
<1>1. 0 \in 0..NumBlocks /\ 0 \in 0..(MaxAttempts - 1)
  OBVIOUS
<1>2. QED
  BY <1>1 DEF Init, TypeOK, Running

\* No step takes a variable out of its type: in particular a block is sent only
\* while it is one of the file, and no attempt is beyond the last.
LEMMA TypeStep == TypeOK /\ [Next]_vars => TypeOK'
<1> SUFFICES ASSUME TypeOK, [Next]_vars PROVE TypeOK'
  OBVIOUS
<1> USE DEF TypeOK, Running, Failed, Ended
<1>1. CASE Send
  <2>1. [seq |-> seq, attempt |-> attempt] \in Transmissions
    BY <1>1 DEF Send, Transmissions
  <2>2. QED
    BY <1>1, <2>1 DEF Send, serverVars
<1>2. CASE Acked
  <2>1. PICK d \in acks : d.seq = seq
    BY <1>2 DEF Acked, Accepts
  <2>2. seq + 1 \in 0..NumBlocks
    BY <2>1 DEF Transmissions
  <2>3. QED
    BY <1>2, <2>2 DEF Acked, serverVars
<1>3. CASE SkipStale
  <2>1. attempt + 1 \in 0..(MaxAttempts - 1)
    BY <1>3 DEF SkipStale, LastAttempt
  <2>2. acks' \subseteq acks
    BY <1>3 DEF SkipStale
  <2>3. QED
    BY <1>3, <2>1, <2>2 DEF SkipStale, serverVars
<1>4. CASE Panic \/ GiveUp
  <2>1. acks' \subseteq acks /\ timeouts' \in Nat
    BY <1>4 DEF Panic, GiveUp, TimerFires
  <2>2. QED
    BY <1>4, <2>1 DEF Panic, GiveUp, Leaves, serverVars
<1>5. CASE Retry
  BY <1>5 DEF Retry, TimerFires, LastAttempt, netVars, serverVars
<1>6. CASE SendEnd \/ Close \/ Abort
  BY <1>6 DEF SendEnd, Close, Abort, Leaves, serverVars
<1>7. CASE Receive
  <2>1. PICK d \in payloads : /\ payloads' = payloads \ {d} /\ holding' = {d}
                              /\ delivered' = delivered \cup {d.seq}
    BY <1>7 DEF Receive
  <2>2. d.seq \in 0..(NumBlocks - 1)
    BY DEF Transmissions
  <2>3. QED
    BY <1>7, <2>1, <2>2 DEF Receive, clientVars
<1>8. CASE SendAck
  BY <1>8 DEF SendAck, clientVars
<1>12. CASE Count
  BY <1>12 DEF Count, clientVars, netVars
<1>9. CASE ReceiveEnd \/ SeeClose \/ IdleTimeout \/ ConnectionError
  BY <1>9 DEF ReceiveEnd, SeeClose, IdleTimeout, ConnectionError, clientVars, netVars
<1>10. CASE Lose
  BY <1>10 DEF Lose, clientVars, serverVars
<1>11. CASE UNCHANGED vars
  BY <1>11 DEF vars, clientVars, netVars, serverVars
<1>13. QED
  BY <1>1, <1>2, <1>3, <1>4, <1>5, <1>6, <1>7, <1>8, <1>9, <1>10, <1>11, <1>12, NextCases

-----------------------------------------------------------------------------
\* What the properties rest on, in one conjunct each.

\* A transmission is in one place, and one about to be made is new: the next attempt of
\* its block, or the first of a block not sent before.
FreshInv ==
  /\ payloads \cap acks = {} /\ payloads \cap holding = {}
  /\ at = "ack" => acks \cap holding = {}
  /\ \A d \in payloads \cup acks \cup holding :
       /\ d.seq <= seq
       /\ d.seq = seq => d.attempt <= attempt /\ (pc = "send" => d.attempt < attempt)

\* The server has one payload in hand from its read to its count.
HoldingInv ==
  /\ at \in {"read", "done"} => holding = {}
  /\ at \in {"ack", "count"} => \E d \in Transmissions : holding = {d}

\* The server has read every block before the one being sent, and what it acknowledges;
\* a client past its loop has sent the last block.
PrefixInv ==
  /\ 0..(seq - 1) \subseteq delivered
  /\ \A d \in acks \cup holding : d.seq \in delivered
  /\ pc \in {"sleep", "ok"} => seq = NumBlocks

\* The account of the statistics: a payload sent is counted at most once, and a block read
\* is counted or in hand.
CountInv ==
  /\ IsFiniteSet(payloads) /\ IsFiniteSet(acks) /\ IsFiniteSet(holding)
  /\ IsFiniteSet(delivered)
  /\ stats + Cardinality(payloads) + Cardinality(holding) <= sent
  /\ Cardinality(delivered) <= stats + Cardinality(holding)

\* While the client runs, every answer it may still skip and every attempt it has spent on
\* this block was paid for by a timeout.
Pending == payloads \cup acks \cup (IF at = "ack" THEN holding ELSE {})
Stale == {d \in Pending : d.seq # seq}
StaleInv ==
  /\ DuplicatesBounded
  /\ pc \in Running => Cardinality(Stale) + attempt <= timeouts
  /\ PanicNeedsTimeouts

IInv == TypeOK /\ FreshInv /\ HoldingInv /\ PrefixInv /\ CountInv /\ StaleInv

-----------------------------------------------------------------------------
\* Nothing has been sent, read or counted at first.
LEMMA FreshInit == Init => FreshInv
BY DEF Init, FreshInv

\* A datagram sent is new; receiving, acknowledging and losing only move or remove it.
LEMMA FreshStep ==
  TypeOK /\ FreshInv /\ HoldingInv /\ [Next]_vars => FreshInv'
<1> SUFFICES ASSUME TypeOK, FreshInv, HoldingInv, [Next]_vars PROVE FreshInv'
  OBVIOUS
<1> USE DEF FreshInv
<1>0. /\ seq \in Nat /\ attempt \in Nat
      /\ \A d \in payloads \cup acks \cup holding : d.seq \in Nat /\ d.attempt \in Nat
  BY DEF TypeOK, Transmissions
<1>1. CASE Send
  <2> DEFINE n == [seq |-> seq, attempt |-> attempt]
  <2>1. /\ payloads' = payloads \cup {n} /\ pc = "send" /\ pc' = "wait"
        /\ UNCHANGED <<seq, attempt, acks, at, holding>>
    BY <1>1 DEF Send, serverVars
  <2>2. n \notin payloads \cup acks \cup holding
    BY <2>1, <1>0
  <2>3. n.seq = seq /\ n.attempt = attempt
    OBVIOUS
  <2>4. QED
    BY <2>1, <2>2, <2>3, <1>0
<1>2. CASE Acked
  <2>1. /\ acks' \subseteq acks /\ seq' = seq + 1
        /\ UNCHANGED <<payloads, at, holding>>
    BY <1>2 DEF Acked, serverVars
  <2>2. QED
    BY <2>1, <1>0
<1>3. CASE SkipStale \/ Retry
  <2>1. /\ acks' \subseteq acks /\ pc = "wait" /\ attempt' = attempt + 1
        /\ UNCHANGED <<seq, payloads, at, holding>>
    BY <1>3 DEF SkipStale, Retry, TimerFires, netVars, serverVars
  <2>2. QED
    BY <2>1, <1>0
<1>4. CASE Panic \/ GiveUp \/ SendEnd \/ Close \/ Abort
  <2>1. /\ acks' \subseteq acks /\ pc' # "send"
        /\ UNCHANGED <<seq, attempt, payloads, at, holding>>
    BY <1>4 DEF Panic, GiveUp, SendEnd, Close, Abort, Leaves, serverVars
  <2>2. QED
    BY <2>1, <1>0
<1>5. CASE Receive
  <2>1. PICK d \in payloads : payloads' = payloads \ {d} /\ holding' = {d}
    BY <1>5 DEF Receive
  <2>2. UNCHANGED <<pc, seq, attempt, acks>> /\ at' = "ack"
    BY <1>5 DEF Receive, clientVars
  <2>3. QED
    BY <2>1, <2>2
<1>6. CASE SendAck
  <2>1. /\ acks' = acks \cup holding /\ at' = "count"
        /\ UNCHANGED <<pc, seq, attempt, payloads, holding>>
    BY <1>6 DEF SendAck, clientVars
  <2>2. QED
    BY <2>1
<1>7. CASE Count
  <2>1. /\ holding' = {} /\ at' = "read"
        /\ UNCHANGED <<pc, seq, attempt, payloads, acks>>
    BY <1>7 DEF Count, clientVars, netVars
  <2>2. QED
    BY <2>1
<1>8. CASE ReceiveEnd \/ SeeClose \/ IdleTimeout \/ ConnectionError
  <2>1. /\ at' # "ack"
        /\ UNCHANGED <<pc, seq, attempt, payloads, acks, holding>>
    BY <1>8 DEF ReceiveEnd, SeeClose, IdleTimeout, ConnectionError, clientVars, netVars
  <2>2. QED
    BY <2>1
<1>9. CASE Lose
  <2>1. /\ payloads' \subseteq payloads /\ acks' \subseteq acks
        /\ UNCHANGED <<pc, seq, attempt, at, holding>>
    BY <1>9 DEF Lose, clientVars, serverVars
  <2>2. QED
    BY <2>1
<1>10. CASE UNCHANGED vars
  BY <1>10 DEF vars, clientVars, netVars, serverVars
<1>11. QED
  BY <1>1, <1>2, <1>3, <1>4, <1>5, <1>6, <1>7, <1>8, <1>9, <1>10, NextCases

-----------------------------------------------------------------------------
\* The server has nothing in hand at first.
LEMMA HoldingInit == Init => HoldingInv
BY DEF Init, HoldingInv

\* A payload is taken in hand by Receive and let go by Count.
LEMMA HoldingStep == TypeOK /\ HoldingInv /\ [Next]_vars => HoldingInv'
<1> SUFFICES ASSUME TypeOK, HoldingInv, [Next]_vars PROVE HoldingInv'
  OBVIOUS
<1> USE DEF HoldingInv
<1>1. CASE Receive
  BY <1>1 DEF Receive, TypeOK
<1>2. CASE SendAck \/ Count
  BY <1>2 DEF SendAck, Count
<1>3. CASE ReceiveEnd \/ SeeClose
  BY <1>3 DEF ReceiveEnd, SeeClose
<1>4. CASE IdleTimeout \/ ConnectionError
  BY <1>4 DEF IdleTimeout, ConnectionError
<1>5. CASE Send \/ Acked \/ SkipStale \/ Panic \/ Retry \/ GiveUp \/ SendEnd \/ Close \/ Abort
  BY <1>5 DEF Send, Acked, SkipStale, Panic, Retry, GiveUp, SendEnd, Close, Abort, serverVars
<1>6. CASE Lose \/ UNCHANGED vars
  BY <1>6 DEF Lose, vars, serverVars
<1>7. QED
  BY <1>1, <1>2, <1>3, <1>4, <1>5, <1>6, NextCases

-----------------------------------------------------------------------------
\* There are no earlier blocks at first.
LEMMA PrefixInit == Init => PrefixInv
BY DEF Init, PrefixInv

\* A client moves on only with an ack of its block, and the server has read what it acks.
LEMMA PrefixStep == TypeOK /\ PrefixInv /\ [Next]_vars => PrefixInv'
<1> SUFFICES ASSUME TypeOK, PrefixInv, [Next]_vars PROVE PrefixInv'
  OBVIOUS
<1> USE DEF PrefixInv
<1>1. CASE Acked
  <2>1. PICK d \in acks : d.seq = seq /\ acks' = acks \ {d}
    BY <1>1 DEF Acked, Accepts
  <2>2. /\ seq' = seq + 1 /\ pc' = "send" /\ UNCHANGED <<holding, delivered>>
    BY <1>1 DEF Acked, serverVars
  <2>3. seq \in delivered /\ seq \in Nat
    BY <2>1 DEF TypeOK
  <2>4. 0..(seq' - 1) \subseteq delivered'
    BY <2>2, <2>3
  <2>5. QED
    BY <2>1, <2>2, <2>4
<1>2. CASE Send \/ SkipStale \/ Panic \/ Retry \/ GiveUp \/ Abort
  <2>1. /\ acks' \subseteq acks /\ pc' \notin {"sleep", "ok"}
        /\ UNCHANGED <<seq, holding, delivered>>
    BY <1>2 DEF Send, SkipStale, Panic, Retry, GiveUp, TimerFires, Abort, Leaves, netVars,
                serverVars
  <2>2. QED
    BY <2>1
<1>3. CASE SendEnd \/ Close
  <2>1. seq = NumBlocks /\ UNCHANGED <<seq, acks, holding, delivered>>
    BY <1>3 DEF SendEnd, Close, serverVars
  <2>2. QED
    BY <2>1
<1>4. CASE Receive
  <2>1. PICK d \in payloads : holding' = {d} /\ delivered' = delivered \cup {d.seq}
    BY <1>4 DEF Receive
  <2>2. UNCHANGED <<pc, seq, acks>>
    BY <1>4 DEF Receive, clientVars
  <2>3. QED
    BY <2>1, <2>2
<1>5. CASE SendAck \/ Count
  <2>1. /\ acks' \cup holding' \subseteq acks \cup holding
        /\ UNCHANGED <<pc, seq, delivered>>
    BY <1>5 DEF SendAck, Count, clientVars, netVars
  <2>2. QED
    BY <2>1
<1>6. CASE \/ ReceiveEnd \/ SeeClose \/ IdleTimeout \/ ConnectionError
           \/ Lose \/ UNCHANGED vars
  <2>1. acks' \subseteq acks /\ UNCHANGED <<pc, seq, holding, delivered>>
    BY <1>6 DEF ReceiveEnd, SeeClose, IdleTimeout, ConnectionError, Lose, vars,
                clientVars, netVars, serverVars
  <2>2. QED
    BY <2>1
<1>7. QED
  BY <1>1, <1>2, <1>3, <1>4, <1>5, <1>6, NextCases

-----------------------------------------------------------------------------
\* A finite set that gains or loses an element; a part of a finite set.
LEMMA CardAdd ==
  ASSUME NEW S, IsFiniteSet(S), NEW x
  PROVE  /\ IsFiniteSet(S \cup {x}) /\ Cardinality(S) \in Nat
         /\ Cardinality(S \cup {x}) \in Nat /\ Cardinality(S \cup {x}) <= Cardinality(S) + 1
BY FS_AddElement, FS_CardinalityType

\* The element was there: one less is left.
LEMMA CardRemove ==
  ASSUME NEW S, IsFiniteSet(S), NEW x \in S
  PROVE  /\ IsFiniteSet(S \ {x}) /\ Cardinality(S) \in Nat
         /\ Cardinality(S \ {x}) \in Nat /\ Cardinality(S \ {x}) + 1 = Cardinality(S)
<1>1. IsFiniteSet(S \ {x}) /\ Cardinality(S \ {x}) = Cardinality(S) - 1
  BY FS_RemoveElement
<1>2. Cardinality(S) \in Nat /\ Cardinality(S \ {x}) \in Nat
  BY <1>1, FS_CardinalityType
<1>3. QED
  BY <1>1, <1>2

\* A part is no larger.
LEMMA CardSubset ==
  ASSUME NEW S, IsFiniteSet(S), NEW T, T \subseteq S
  PROVE  /\ IsFiniteSet(T) /\ Cardinality(T) \in Nat
         /\ Cardinality(S) \in Nat /\ Cardinality(T) <= Cardinality(S)
BY FS_Subset, FS_CardinalityType

\* Nothing is sent or counted at first.
LEMMA CountInit == Init => CountInv
BY FS_EmptySet DEF Init, CountInv

\* A payload moves from the wire to the server's hand and from there into the count.
LEMMA CountStep == TypeOK /\ HoldingInv /\ CountInv /\ [Next]_vars => CountInv'
<1> SUFFICES ASSUME TypeOK, HoldingInv, CountInv, [Next]_vars PROVE CountInv'
  OBVIOUS
<1> USE DEF CountInv
<1>0. /\ stats \in Nat /\ sent \in Nat
      /\ Cardinality(payloads) \in Nat /\ Cardinality(holding) \in Nat
      /\ Cardinality(delivered) \in Nat
  BY FS_CardinalityType DEF TypeOK
<1>1. CASE Send
  <2>1. PICK n : payloads' = payloads \cup {n}
    BY <1>1 DEF Send
  <2>2. sent' = sent + 1 /\ UNCHANGED <<acks, holding, stats, delivered>>
    BY <1>1 DEF Send, serverVars
  <2>3. /\ IsFiniteSet(payloads') /\ Cardinality(payloads') \in Nat
        /\ Cardinality(payloads') <= Cardinality(payloads) + 1
    BY <2>1, CardAdd
  <2>4. QED
    BY <2>2, <2>3, <1>0
<1>2. CASE Receive
  <2>1. PICK d \in payloads : /\ payloads' = payloads \ {d} /\ holding' = {d}
                              /\ delivered' = delivered \cup {d.seq}
    BY <1>2 DEF Receive
  <2>2. UNCHANGED <<sent, acks, stats>> /\ holding = {}
    BY <1>2 DEF Receive, clientVars, HoldingInv
  <2>3. /\ IsFiniteSet(payloads') /\ Cardinality(payloads') \in Nat
        /\ Cardinality(payloads') + 1 = Cardinality(payloads)
    BY <2>1, CardRemove
  <2>4. IsFiniteSet(holding') /\ Cardinality(holding') = 1 /\ Cardinality(holding) = 0
    BY <2>1, <2>2, FS_Singleton, FS_EmptySet
  <2>5. /\ IsFiniteSet(delivered') /\ Cardinality(delivered') \in Nat
        /\ Cardinality(delivered') <= Cardinality(delivered) + 1
    BY <2>1, CardAdd
  <2>6. QED
    BY <2>2, <2>3, <2>4, <2>5, <1>0
<1>3. CASE Count
  <2>1. /\ stats' = stats + 1 /\ holding' = {}
        /\ UNCHANGED <<sent, payloads, acks, delivered>>
    BY <1>3 DEF Count, clientVars, netVars
  <2>2. Cardinality(holding) = 1
    BY <1>3, FS_Singleton DEF Count, HoldingInv
  <2>3. IsFiniteSet(holding') /\ Cardinality(holding') = 0
    BY <2>1, FS_EmptySet
  <2>4. QED
    BY <2>1, <2>2, <2>3, <1>0
<1>4. CASE SendAck
  <2>1. acks' = acks \cup holding /\ UNCHANGED <<sent, payloads, holding, stats, delivered>>
    BY <1>4 DEF SendAck, clientVars
  <2>2. IsFiniteSet(acks')
    BY <2>1, FS_Union
  <2>3. QED
    BY <2>1, <2>2
<1>5. ASSUME payloads' \subseteq payloads, acks' \subseteq acks,
             UNCHANGED <<sent, holding, stats, delivered>>
      PROVE  CountInv'
  <2>1. IsFiniteSet(acks')
    BY <1>5, FS_Subset
  <2>2. /\ IsFiniteSet(payloads') /\ Cardinality(payloads') \in Nat
        /\ Cardinality(payloads') <= Cardinality(payloads)
    BY <1>5, CardSubset
  <2>3. QED
    BY <1>5, <2>1, <2>2, <1>0
<1>6. CASE Acked \/ SkipStale \/ Panic \/ Retry \/ GiveUp \/ SendEnd \/ Close \/ Abort
  BY <1>5, <1>6 DEF Acked, SkipStale, Panic, Retry, GiveUp, TimerFires, SendEnd, Close, Abort,
                    netVars, serverVars
<1>7. CASE \/ ReceiveEnd \/ SeeClose \/ IdleTimeout \/ ConnectionError
           \/ Lose \/ UNCHANGED vars
  BY <1>5, <1>7 DEF ReceiveEnd, SeeClose, IdleTimeout, ConnectionError, Lose, vars,
                    clientVars, netVars, serverVars
<1>8. QED
  BY <1>1, <1>2, <1>3, <1>4, <1>6, <1>7, NextCases

-----------------------------------------------------------------------------
\* Nothing is pending at first.
LEMMA StaleInit == Init => StaleInv
<1> SUFFICES ASSUME Init PROVE StaleInv
  OBVIOUS
<1>1. /\ payloads \cup acks \cup (IF at = "ack" THEN holding ELSE {}) = {}
      /\ Pending = {} /\ Stale = {}
  BY DEF Init, Pending, Stale
<1>2. Outstanding = 0 /\ Cardinality(Stale) = 0
  BY <1>1, FS_EmptySet DEF Outstanding
<1>3. QED
  BY <1>2 DEF Init, StaleInv, DuplicatesBounded, PanicNeedsTimeouts

\* Of the datagrams that are pending, only Send makes one, which answers no earlier block;
\* Acked and SkipStale consume one, and a timer pays for the attempt that follows it.
LEMMA StaleStep ==
  TypeOK /\ FreshInv /\ CountInv /\ StaleInv /\ [Next]_vars => StaleInv'
<1> SUFFICES ASSUME TypeOK, FreshInv, CountInv, StaleInv, [Next]_vars PROVE StaleInv'
  OBVIOUS
<1> USE DEF StaleInv, DuplicatesBounded, PanicNeedsTimeouts, Running
<1>0. /\ IsFiniteSet(Pending) /\ IsFiniteSet(Stale) /\ Stale \subseteq Pending
      /\ Cardinality(Pending) \in Nat /\ Cardinality(Stale) \in Nat
      /\ Outstanding = Cardinality(Pending) /\ Outstanding' = Cardinality(Pending)'
      /\ timeouts \in Nat /\ attempt \in Nat /\ seq \in Nat
  <2>1. IsFiniteSet(Pending)
    <3>1. IsFiniteSet(IF at = "ack" THEN holding ELSE {})
      BY FS_EmptySet DEF CountInv
    <3>2. QED
      BY <3>1, FS_Union DEF CountInv, Pending
  <2>2. Stale \subseteq Pending
    BY DEF Stale
  <2>3. Outstanding = Cardinality(Pending) /\ Outstanding' = Cardinality(Pending)'
    BY DEF Outstanding, Pending
  <2>4. QED
    BY <2>1, <2>2, <2>3, CardSubset DEF TypeOK
<1>1. CASE Send
  <2> DEFINE n == [seq |-> seq, attempt |-> attempt]
  <2>1. /\ payloads' = payloads \cup {n} /\ pc = "send" /\ pc' = "wait"
        /\ UNCHANGED <<seq, attempt, timeouts, acks, at, holding>>
    BY <1>1 DEF Send, serverVars
  <2>2. Pending' = Pending \cup {n}
    BY <2>1 DEF Pending
  <2>3. Stale' = Stale
    BY <2>1, <2>2 DEF Stale
  <2>4. Cardinality(Pending') \in Nat /\ Cardinality(Pending') <= Cardinality(Pending) + 1
    BY <2>2, <1>0, CardAdd
  <2>5. QED
    BY <2>1, <2>3, <2>4, <1>0
<1>2. ASSUME NEW d \in acks, acks' = acks \ {d}, UNCHANGED <<payloads, at, holding>>
      PROVE  /\ d \in Pending /\ Pending' = Pending \ {d}
             /\ Cardinality(Pending') \in Nat
             /\ Cardinality(Pending') + 1 = Cardinality(Pending)
  <2>1. d \in Pending
    BY DEF Pending
  <2>2. Pending' = Pending \ {d}
    BY <1>2 DEF Pending, FreshInv
  <2>3. QED
    BY <2>1, <2>2, <1>0, CardRemove
<1>3. CASE Acked
  <2>1. PICK d \in acks : acks' = acks \ {d}
    BY <1>3 DEF Acked
  <2>2. /\ attempt' = 0 /\ pc = "wait" /\ pc' = "send"
        /\ UNCHANGED <<timeouts, payloads, at, holding>>
    BY <1>3 DEF Acked, serverVars
  <2>3. /\ Pending' = Pending \ {d} /\ Cardinality(Pending') \in Nat
        /\ Cardinality(Pending') + 1 = Cardinality(Pending)
    BY <1>2, <2>1, <2>2
  <2>4. Cardinality(Pending') <= timeouts
    BY <2>2, <2>3, <1>0
  <2>5. Cardinality(Stale') \in Nat /\ Cardinality(Stale') <= Cardinality(Pending')
    <3>1. Stale' \subseteq Pending' /\ IsFiniteSet(Pending')
      BY <2>3, <1>0, FS_Subset DEF Stale
    <3>2. QED
      BY <3>1, CardSubset
  <2>6. QED
    BY <2>2, <2>3, <2>4, <2>5, <1>0
<1>4. CASE SkipStale \/ Panic
  <2>1. PICK d \in acks : d.seq # seq /\ acks' = acks \ {d}
    BY <1>4 DEF SkipStale, Panic, Accepts
  <2>2. pc = "wait" /\ UNCHANGED <<seq, timeouts, payloads, at, holding>>
    BY <1>4 DEF SkipStale, Panic, Leaves, serverVars
  <2>3. /\ d \in Pending /\ Pending' = Pending \ {d} /\ Cardinality(Pending') \in Nat
        /\ Cardinality(Pending') + 1 = Cardinality(Pending)
    BY <1>2, <2>1, <2>2
  <2>4. d \in Stale /\ Stale' = Stale \ {d}
    BY <2>1, <2>2, <2>3 DEF Stale
  <2>5. Cardinality(Stale') \in Nat /\ Cardinality(Stale') + 1 = Cardinality(Stale)
    BY <2>4, <1>0, CardRemove
  <2>6. CASE SkipStale
    BY <2>2, <2>3, <2>5, <2>6, <1>0 DEF SkipStale
  <2>7. CASE Panic
    <3>1. attempt + 1 = MaxAttempts /\ pc' = "panicked"
      BY <2>7 DEF Panic, LastAttempt, Leaves
    <3>2. QED
      BY <2>2, <2>3, <2>5, <3>1, <1>0
  <2>8. QED
    BY <1>4, <2>6, <2>7
<1>5. CASE Retry \/ GiveUp
  <2>1. /\ pc = "wait" /\ timeouts' = timeouts + 1
        /\ UNCHANGED <<seq, payloads, acks, at, holding>>
    BY <1>5 DEF Retry, GiveUp, TimerFires, netVars, serverVars
  <2>2. \/ pc' = "send" /\ attempt' = attempt + 1
        \/ pc' = "timedOut"
    BY <1>5 DEF Retry, GiveUp, Leaves
  <2>3. Pending' = Pending /\ Stale' = Stale
    BY <2>1 DEF Pending, Stale
  <2>4. QED
    BY <2>1, <2>2, <2>3, <1>0
<1>6. CASE SendEnd \/ Close \/ Abort
  <2>1. /\ \/ pc = "send" /\ pc' = "sleep"
           \/ pc = "sleep" /\ pc' = "ok"
           \/ pc \in {"send", "wait"} /\ pc' = "aborted"
        /\ UNCHANGED <<seq, attempt, timeouts, payloads, acks, at, holding>>
    BY <1>6 DEF SendEnd, Close, Abort, Leaves, serverVars
  <2>2. Pending' = Pending
    BY <2>1 DEF Pending
  <2>3. QED
    BY <2>1, <2>2, <1>0
<1>7. ASSUME Pending' \subseteq Pending, UNCHANGED <<pc, seq, attempt, timeouts>>
      PROVE  StaleInv'
  <2>1. Stale' \subseteq Stale
    BY <1>7 DEF Stale
  <2>2. /\ Cardinality(Pending') \in Nat /\ Cardinality(Pending') <= Cardinality(Pending)
        /\ Cardinality(Stale') \in Nat /\ Cardinality(Stale') <= Cardinality(Stale)
    BY <1>7, <2>1, <1>0, CardSubset
  <2>3. QED
    BY <1>7, <2>2, <1>0
<1>8. CASE Receive \/ SendAck \/ Count
  <2>1. UNCHANGED <<pc, seq, attempt, timeouts>>
    BY <1>8 DEF Receive, SendAck, Count, clientVars
  <2>2. Pending' \subseteq Pending
    BY <1>8 DEF Receive, SendAck, Count, netVars, Pending
  <2>3. QED
    BY <1>7, <2>1, <2>2
<1>9. CASE \/ ReceiveEnd \/ SeeClose \/ IdleTimeout \/ ConnectionError
           \/ Lose \/ UNCHANGED vars
  <2>1. /\ payloads' \subseteq payloads /\ acks' \subseteq acks /\ holding' = holding
        /\ at' \in {at, "done", "error"}
        /\ UNCHANGED <<pc, seq, attempt, timeouts>>
    BY <1>9 DEF ReceiveEnd, SeeClose, IdleTimeout, ConnectionError, Lose, vars,
                clientVars, netVars, serverVars
  <2>2. Pending' \subseteq Pending
    BY <2>1 DEF Pending
  <2>3. QED
    BY <1>7, <2>1, <2>2
<1>10. QED
  BY <1>1, <1>3, <1>4, <1>5, <1>6, <1>8, <1>9, NextCases

-----------------------------------------------------------------------------
\* Every step keeps every conjunct of the invariant.
LEMMA InvariantHolds == Spec => []IInv
<1>1. Init => IInv
  BY TypeInit, FreshInit, HoldingInit, PrefixInit, CountInit, StaleInit DEF IInv
<1>2. IInv /\ [Next]_vars => IInv'
  BY TypeStep, FreshStep, HoldingStep, PrefixStep, CountStep, StaleStep DEF IInv
<1>3. QED
  BY <1>1, <1>2, PTL DEF Spec

\* Every variable has its type, whatever the file, the attempts and the faults.
THEOREM QuicSawTypeCorrect == Spec => []TypeOK
<1>1. IInv => TypeOK
  BY DEF IInv
<1>2. QED
  BY <1>1, InvariantHolds, PTL

\* If the client returned Ok and the server's task ended well, the report of the server covers
\* every block of the file; and a report never counts more than was sent.
THEOREM ReportCovers == Spec => []ReportCoversFile
<1>1. ASSUME IInv PROVE ReportCoversFile
  <2>1. stats \in Nat /\ sent \in Nat /\ NumBlocks \in Nat
    BY <1>1 DEF IInv, TypeOK
  <2>2. /\ Cardinality(payloads) \in Nat /\ Cardinality(holding) \in Nat
        /\ stats + Cardinality(payloads) + Cardinality(holding) <= sent
    BY <1>1, FS_CardinalityType DEF IInv, CountInv
  <2>3. ASSUME pc = "ok", at = "done" PROVE stats >= NumBlocks
    <3>1. 0..(NumBlocks - 1) \subseteq delivered /\ holding = {}
      BY <1>1, <2>3 DEF IInv, PrefixInv, HoldingInv
    <3>2. /\ Cardinality(0..(NumBlocks - 1)) = NumBlocks
      <4>1. 0 \in Int /\ NumBlocks - 1 \in Int
        OBVIOUS
      <4>2. Cardinality(0..(NumBlocks - 1))
              = IF 0 > NumBlocks - 1 THEN 0 ELSE (NumBlocks - 1) - 0 + 1
        BY <4>1, FS_Interval
      <4>3. QED
        BY <4>2
    <3>3. NumBlocks <= Cardinality(delivered) /\ Cardinality(delivered) \in Nat
      BY <1>1, <3>1, <3>2, CardSubset DEF IInv, CountInv
    <3>4. Cardinality(delivered) <= stats + Cardinality(holding) /\ Cardinality(holding) = 0
      BY <1>1, <3>1, FS_EmptySet DEF IInv, CountInv
    <3>5. QED
      BY <3>3, <3>4, <2>1
  <2>4. QED
    BY <1>1, <2>1, <2>2, <2>3 DEF ReportCoversFile, IInv
<1>2. QED
  BY <1>1, InvariantHolds, PTL

\* Duplicates do not multiply: what is under way was paid for by timeouts, but for one.
THEOREM DuplicatesPaidFor == Spec => []DuplicatesBounded
<1>1. IInv => DuplicatesBounded
  BY DEF IInv, StaleInv
<1>2. QED
  BY <1>1, InvariantHolds, PTL

\* The unreachable! of the QUIC client is reached only after at least MaxAttempts timeouts.
THEOREM PanicTakesTimeouts == Spec => []PanicNeedsTimeouts
<1>1. IInv => PanicNeedsTimeouts
  BY DEF IInv, StaleInv
<1>2. QED
  BY <1>1, InvariantHolds, PTL

-----------------------------------------------------------------------------
\* Without early timers the only thing that can still be answered, or is an answer, is what
\* the client waits for; a server that has ended answers nothing.
Live == (IF at \in Ended THEN {} ELSE payloads) \cup acks \cup (IF at = "ack" THEN holding ELSE {})
TimelyInv ==
  /\ pc # "panicked"
  /\ pc = "send" => Live = {}
  /\ pc = "wait" => \A d, e \in Live : d = e /\ d.seq = seq

\* Nothing is under way at first.
LEMMA TimelyInit == Init => TimelyInv
BY DEF Init, TimelyInv, Live

\* Every step keeps it so, if the timer fires only when nothing is under way.
LEMMA TimelyStep ==
  "late" \notin Faults /\ FreshInv /\ TimelyInv /\ [Next]_vars => TimelyInv'
<1> SUFFICES ASSUME "late" \notin Faults, FreshInv, TimelyInv, [Next]_vars PROVE TimelyInv'
  OBVIOUS
<1> USE DEF TimelyInv
<1>1. CASE Send
  <2> DEFINE n == [seq |-> seq, attempt |-> attempt]
  <2>1. /\ payloads' = payloads \cup {n} /\ pc = "send" /\ pc' = "wait"
        /\ UNCHANGED <<seq, acks, at, holding>>
    BY <1>1 DEF Send, serverVars
  <2>2. Live' \subseteq Live \cup {n} /\ Live = {} /\ n.seq = seq
    BY <2>1 DEF Live
  <2>3. QED
    BY <2>1, <2>2
<1>2. CASE Acked
  <2>1. PICK d \in acks : acks' = acks \ {d}
    BY <1>2 DEF Acked
  <2>2. pc = "wait" /\ pc' = "send" /\ UNCHANGED <<payloads, at, holding>>
    BY <1>2 DEF Acked, serverVars
  <2>3. d \in Live /\ \A e \in Live : e = d
    BY <2>1, <2>2 DEF Live
  <2>4. Live' \subseteq Live \ {d}
    BY <2>1, <2>2 DEF Live, FreshInv
  <2>5. QED
    BY <2>2, <2>3, <2>4
<1>3. CASE SkipStale \/ Panic
  <2>1. PICK d \in acks : d.seq # seq
    BY <1>3 DEF SkipStale, Panic, Accepts
  <2>2. d \in Live /\ pc = "wait"
    BY <1>3 DEF SkipStale, Panic, Live
  <2>3. QED
    BY <2>1, <2>2
<1>4. CASE Retry \/ GiveUp
  <2>1. /\ ~Answering /\ pc' \in {"send", "timedOut"}
        /\ UNCHANGED <<payloads, acks, at, holding>>
    BY <1>4 DEF Retry, GiveUp, TimerFires, Leaves, netVars, serverVars
  <2>2. Live' = {}
    BY <2>1 DEF Answering, Live
  <2>3. QED
    BY <2>1, <2>2
<1>5. CASE SendEnd \/ Close \/ Abort
  BY <1>5 DEF SendEnd, Close, Abort, Leaves
<1>6. ASSUME Live' \subseteq Live, UNCHANGED <<pc, seq>> PROVE TimelyInv'
  BY <1>6
<1>7. CASE Receive \/ SendAck \/ Count
  <2>1. UNCHANGED <<pc, seq>>
    BY <1>7 DEF Receive, SendAck, Count, clientVars
  <2>2. Live' \subseteq Live
    BY <1>7 DEF Receive, SendAck, Count, netVars, Live, Ended
  <2>3. QED
    BY <1>6, <2>1, <2>2
<1>8. CASE \/ ReceiveEnd \/ SeeClose \/ IdleTimeout \/ ConnectionError
           \/ Lose \/ UNCHANGED vars
  <2>1. /\ payloads' \subseteq payloads /\ acks' \subseteq acks /\ holding' = holding
        /\ at' \in {at, "done", "error"}
        /\ UNCHANGED <<pc, seq>>
    BY <1>8 DEF ReceiveEnd, SeeClose, IdleTimeout, ConnectionError, Lose, vars,
                clientVars, netVars, serverVars
  <2>2. Live' \subseteq Live
    BY <2>1 DEF Live, Ended
  <2>3. QED
    BY <1>6, <2>1, <2>2
<1>9. QED
  BY <1>1, <1>2, <1>3, <1>4, <1>5, <1>7, <1>8, NextCases

\* If no timer fires before its answer, the unreachable! is not reached, whatever is lost and
\* whichever connection breaks: late answers are the only cause of the panic.
THEOREM TimelyMeansNoPanic ==
  ASSUME "late" \notin Faults
  PROVE  Spec => []LoopReturns
<1>1. Init => TimelyInv
  BY TimelyInit
<1>2. IInv /\ TimelyInv /\ [Next]_vars => TimelyInv'
  BY TimelyStep DEF IInv
<1>3. TimelyInv => LoopReturns
  BY DEF TimelyInv, LoopReturns
<1>4. QED
  BY <1>1, <1>2, <1>3, InvariantHolds, PTL DEF Spec

-----------------------------------------------------------------------------
\* Nothing is delivered, confirmed or returned at first.
LEMMA RefinesInit == Init => Abstract!Init
BY DEF Init, Abstract!Init, Outcome, Running

\* An ack of the awaited block is a Confirm, the first copy of a block a Deliver, Close a
\* Succeed, any other return a Fail, and every other step a stutter.
LEMMA RefinesStep == IInv /\ [Next]_vars => [Abstract!Next]_(Abstract!vars)
<1> SUFFICES ASSUME IInv, [Next]_vars
             PROVE  Abstract!Next \/ UNCHANGED Abstract!vars
  BY DEF Abstract!vars
<1> USE DEF IInv, Abstract!Next, Abstract!vars, Outcome, Running
<1>1. CASE Send \/ SkipStale \/ Retry \/ SendEnd
  <2>1. Outcome' = Outcome /\ UNCHANGED <<seq, delivered>>
    BY <1>1 DEF Send, SkipStale, Retry, TimerFires, SendEnd, serverVars
  <2>2. QED
    BY <2>1
<1>2. CASE Acked
  <2>1. seq \in delivered
    BY <1>2 DEF Acked, Accepts, PrefixInv
  <2>2. Outcome = "running" /\ Outcome' = "running" /\ seq' = seq + 1 /\ delivered' = delivered
    BY <1>2 DEF Acked, serverVars
  <2>3. Abstract!Confirm(Conn)
    BY <2>1, <2>2 DEF Abstract!Confirm
  <2>4. QED
    BY <2>3
<1>3. CASE Panic \/ GiveUp \/ Abort
  <2>1. Outcome = "running" /\ Outcome' = "failed" /\ UNCHANGED <<seq, delivered>>
    BY <1>3 DEF Panic, GiveUp, TimerFires, Abort, Leaves, serverVars
  <2>2. Abstract!Fail(Conn)
    BY <2>1 DEF Abstract!Fail
  <2>3. QED
    BY <2>2
<1>4. CASE Close
  <2>1. Outcome = "running" /\ Outcome' = "ok" /\ UNCHANGED <<seq, delivered>>
    BY <1>4 DEF Close, Leaves, serverVars
  <2>2. seq = NumBlocks
    BY <1>4 DEF Close, PrefixInv
  <2>3. Abstract!Succeed(Conn)
    BY <2>1, <2>2 DEF Abstract!Succeed
  <2>4. QED
    BY <2>3
<1>5. CASE Receive
  <2>1. PICK d \in payloads : delivered' = delivered \cup {d.seq}
    BY <1>5 DEF Receive
  <2>2. Outcome' = Outcome /\ seq' = seq
    BY <1>5 DEF Receive, clientVars
  <2>3. CASE d.seq \in delivered
    BY <2>1, <2>2, <2>3
  <2>4. CASE d.seq \notin delivered
    <3>1. d.seq \in Nat /\ d.seq < NumBlocks /\ d.seq <= seq /\ seq \in Nat
      BY DEF TypeOK, Transmissions, FreshInv
    <3>2. d.seq = seq
      BY <2>4, <3>1 DEF PrefixInv
    <3>3. Abstract!Deliver(Conn)
      BY <2>1, <2>2, <2>4, <3>1, <3>2 DEF Abstract!Deliver
    <3>4. QED
      BY <3>3
  <2>5. QED
    BY <2>3, <2>4
<1>6. CASE \/ SendAck \/ Count \/ ReceiveEnd \/ SeeClose \/ IdleTimeout \/ ConnectionError
           \/ Lose \/ UNCHANGED vars
  <2>1. Outcome' = Outcome /\ UNCHANGED <<seq, delivered>>
    BY <1>6 DEF SendAck, Count, ReceiveEnd, SeeClose, IdleTimeout, ConnectionError, Lose, vars,
                clientVars, netVars, serverVars
  <2>2. QED
    BY <2>1
<1>7. QED
  BY <1>1, <1>2, <1>3, <1>4, <1>5, <1>6, NextCases

\* The transport implements the abstract transfer: a client moves on only when the server
\* has read its block, and succeeds only when it has read the whole file.
THEOREM QuicSawRefinement == Spec => ImplementsAckedTransfer
<1>1. QED
  BY RefinesInit, RefinesStep, InvariantHolds, PTL
     DEF Spec, ImplementsAckedTransfer, Abstract!Spec

=============================================================================
