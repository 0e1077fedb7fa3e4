------------------------- MODULE QuicTransferProofs -------------------------
(***************************************************************************)
(* Theorems about QuicTransfer, for every file, both queue limits and any  *)
(* faults: type correctness, that a connection that does not break ends    *)
(* without a report only if both signs of its end are lost, and what a     *)
(* report is short by.                                                     *)
(***************************************************************************)
EXTENDS QuicTransfer, FiniteSetTheorems, TLAPS

USE QuicTransferAssumption

\* What a queue holds after a datagram is added.
LEMMA AppendSet ==
  ASSUME NEW S, NEW q \in Seq(S), NEW d \in S
  PROVE  ToSet(Append(q, d)) = ToSet(q) \cup {d}
BY SMTT(60) DEF ToSet

\* Each place of a queue holds one of its datagrams.
LEMMA MemberSet ==
  ASSUME NEW S, NEW q \in Seq(S), NEW i \in 1..Len(q)
  PROVE  q[i] \in ToSet(q)
<1>1. DOMAIN q = 1..Len(q)
  OBVIOUS
<1>2. QED
  BY <1>1 DEF ToSet

\* What a queue holds is its head and what its tail holds.
LEMMA HeadTailSet ==
  ASSUME NEW S, NEW q \in Seq(S), q # <<>>
  PROVE  /\ Head(q) \in S /\ Tail(q) \in Seq(S) /\ Len(Tail(q)) = Len(q) - 1
         /\ ToSet(q) = {Head(q)} \cup ToSet(Tail(q))
<1>1. Head(q) = q[1] /\ Head(q) \in S /\ Tail(q) \in Seq(S) /\ Len(Tail(q)) = Len(q) - 1
  OBVIOUS
<1>2. \A i \in 1..Len(Tail(q)) : Tail(q)[i] = q[i + 1]
  OBVIOUS
<1>3. ASSUME NEW i \in 1..Len(q) PROVE q[i] \in {Head(q)} \cup ToSet(Tail(q))
  <2>1. CASE i = 1
    BY <2>1, <1>1
  <2>2. CASE i # 1
    <3>1. i - 1 \in 1..Len(Tail(q)) /\ Tail(q)[i - 1] = q[i]
      BY <2>2, <1>1, <1>2
    <3>2. QED
      BY <3>1, <1>1, MemberSet
  <2>3. QED
    BY <2>1, <2>2
<1>4. ASSUME NEW i \in 1..Len(Tail(q)) PROVE Tail(q)[i] \in ToSet(q)
  <2>1. i + 1 \in 1..Len(q) /\ Tail(q)[i] = q[i + 1]
    BY <1>1, <1>2
  <2>2. QED
    BY <2>1 DEF ToSet
<1>5. Head(q) \in ToSet(q)
  BY <1>1 DEF ToSet
<1>6. ToSet(q) \subseteq {Head(q)} \cup ToSet(Tail(q))
  BY <1>3 DEF ToSet
<1>7. ToSet(Tail(q)) \subseteq ToSet(q)
  <2>1. DOMAIN Tail(q) = 1..Len(Tail(q))
    BY <1>1
  <2>2. QED
    BY <2>1, <1>4 DEF ToSet
<1>8. QED
  BY <1>1, <1>5, <1>6, <1>7

\* Push keeps a queue within its limit and loses nothing but what overflows.
LEMMA PushSet ==
  ASSUME NEW S, NEW q \in Seq(S), NEW d \in S,
         NEW limit \in Nat \ {0}, Len(q) <= limit
  PROVE  /\ Push(q, limit, d) \in Seq(S) /\ Len(Push(q, limit, d)) <= limit
         /\ Overflow(q, limit) \subseteq S
         /\ ToSet(Push(q, limit, d)) \cup Overflow(q, limit) = ToSet(q) \cup {d}
<1>1. CASE Len(q) < limit
  BY <1>1, AppendSet DEF Push, Overflow
<1>2. CASE ~(Len(q) < limit)
  <2>1. q # <<>> /\ Len(q) = limit
    BY <1>2
  <2>2. /\ Head(q) \in S /\ Tail(q) \in Seq(S) /\ Len(Tail(q)) = Len(q) - 1
        /\ ToSet(q) = {Head(q)} \cup ToSet(Tail(q))
    BY <2>1, HeadTailSet
  <2>3. Push(q, limit, d) = Append(Tail(q), d) /\ Overflow(q, limit) = {Head(q)}
    BY <1>2 DEF Push, Overflow
  <2>4. ToSet(Append(Tail(q), d)) = ToSet(Tail(q)) \cup {d}
    <3>1. Tail(q) \in Seq(S) /\ d \in S
      BY <2>2
    <3>2. QED
      BY <3>1, AppendSet, ZenonT(60)
  <2>5. Append(Tail(q), d) \in Seq(S) /\ Len(Append(Tail(q), d)) = Len(q)
    <3>1. Len(Append(Tail(q), d)) = Len(Tail(q)) + 1 /\ Append(Tail(q), d) \in Seq(S)
      BY <2>2
    <3>2. QED
      BY <3>1, <2>1, <2>2
  <2>6. Push(q, limit, d) \in Seq(S) /\ Len(Push(q, limit, d)) <= limit
    BY <2>1, <2>3, <2>5
  <2>7. ToSet(Push(q, limit, d)) = ToSet(Tail(q)) \cup {d}
    BY <2>3, <2>4
  <2>8. QED
    BY <2>2, <2>3, <2>6, <2>7
<1>3. QED
  BY <1>1, <1>2

\* The last of these alone, for a queue of datagrams.
LEMMA PushUnion ==
  ASSUME NEW q, NEW limit, NEW d, q \in Seq(0..End), d \in 0..End,
         limit \in Nat \ {0}, Len(q) <= limit
  PROVE  ToSet(Push(q, limit, d)) \cup Overflow(q, limit) = ToSet(q) \cup {d}
<1> DEFINE S == 0..End
<1>1. q \in Seq(S) /\ d \in S
  OBVIOUS
<1> HIDE DEF S
<1>2. QED
  BY <1>1, PushSet

-----------------------------------------------------------------------------
\* While the server reads, the empty payload of a client that sent one is somewhere or
\* lost; and a client that has closed its connection has returned and queues nothing.
EndIsSomewhere ==
  /\ pc \in {"sleep", "ok"} => seq = End + 1
  /\ pc = "send" => seq <= End
  /\ close # "none" => pc \in {"ok", "failed"} /\ queue = <<>>
  /\ seq = End + 1 /\ at = "read" => End \in lost \cup Unread

SilentInv == TypeOK /\ EndIsSomewhere /\ SilentOnlyIfBothLost

\* The initial states satisfy the invariant.
LEMMA SilentInit == Init => SilentInv
<1> SUFFICES ASSUME Init PROVE SilentInv
  OBVIOUS
<1>1. TypeOK
  <2>1. <<>> \in Seq(0..End) /\ Len(<<>>) = 0
    OBVIOUS
  <2>2. 0 \in 0..(NumBlocks + 1) /\ 0 \in Nat
    OBVIOUS
  <2>3. pc = "send" /\ seq = 0 /\ close = "none" /\ at = "read" /\ stats = 0
        /\ flight = {} /\ lost = {} /\ broken = FALSE
    BY DEF Init
  <2>4. queue = <<>> /\ buffer = <<>> /\ 0 <= SendLimit /\ 0 <= ReadLimit
    BY DEF Init
  <2>5. QED
    BY <2>1, <2>2, <2>3, <2>4 DEF TypeOK
<1>2. EndIsSomewhere
  BY DEF Init, EndIsSomewhere, End
<1>3. SilentOnlyIfBothLost
  BY DEF Init, SilentOnlyIfBothLost
<1>4. QED
  BY <1>1, <1>2, <1>3 DEF SilentInv

\* A queue that loses its head has the type it had.
LEMMA PopTyped ==
  ASSUME NEW S, NEW q \in Seq(S), q # <<>>, NEW limit \in Nat, Len(q) <= limit
  PROVE  Tail(q) \in Seq(S) /\ Len(Tail(q)) <= limit /\ Head(q) \in S
BY HeadTailSet

\* Every step keeps the types.
LEMMA TypeStep == TypeOK /\ [Next]_vars => TypeOK'
<1> SUFFICES ASSUME TypeOK, [Next]_vars PROVE TypeOK'
  OBVIOUS
<1> USE DEF TypeOK
<1>0. End \in Nat /\ \A q \in Seq(0..End) : ToSet(q) \subseteq 0..End
  BY DEF End, ToSet
<1>1. SUFFICES ASSUME Next PROVE TypeOK'
  BY DEF vars, clientVars, netVars, serverVars
<1>2. ASSUME pc = "send", seq \in 0..End, SendDatagram
      PROVE  /\ queue' \in Seq(0..End) /\ Len(queue') <= SendLimit
             /\ lost' \subseteq 0..End /\ seq' \in 0..(NumBlocks + 1)
  <2>1. /\ Push(queue, SendLimit, seq) \in Seq(0..End)
        /\ Len(Push(queue, SendLimit, seq)) <= SendLimit
        /\ Overflow(queue, SendLimit) \subseteq 0..End
    BY <1>2, PushSet
  <2>2. queue' = Push(queue, SendLimit, seq) /\ seq' = seq + 1
        /\ lost' = lost \cup Overflow(queue, SendLimit)
    BY <1>2 DEF SendDatagram
  <2>3. seq + 1 \in 0..(NumBlocks + 1)
    BY <1>2 DEF End
  <2>4. QED
    BY <2>1, <2>2, <2>3
<1>3. CASE Send
  <2>1. seq \in 0..End
    BY <1>3 DEF Send, End
  <2>2. QED
    BY <2>1, <1>2, <1>3 DEF Send, serverVars
<1>4. CASE SendEnd
  <2>1. seq \in 0..End
    BY <1>4 DEF SendEnd, End
  <2>2. QED
    BY <2>1, <1>2, <1>4 DEF SendEnd, serverVars
<1>5. CASE Close \/ ConnectionLost \/ ChunkTooLarge
  <2>1. ToSet(queue) \subseteq 0..End
    BY <1>0
  <2>2. PICK how \in {"ok", "failed"} : Leaves(how)
    BY <1>5 DEF Close, ConnectionLost, ChunkTooLarge, SendFails
  <2>3. UNCHANGED <<seq, flight, buffer, serverVars, broken>>
    BY <1>5 DEF Close, ConnectionLost, ChunkTooLarge, SendFails
  <2>4. <<>> \in Seq(0..End) /\ Len(<<>>) = 0
    OBVIOUS
  <2>5. /\ pc' = how /\ close' \in {close, "sent"} /\ queue' = <<>>
        /\ lost' = lost \cup ToSet(queue)
    BY <2>2 DEF Leaves
  <2>6. lost' \subseteq 0..End
    BY <2>1, <2>5
  <2>7. queue' \in Seq(0..End) /\ Len(queue') <= SendLimit
    BY <2>4, <2>5
  <2>8. QED
    BY <2>3, <2>5, <2>6, <2>7 DEF serverVars
<1>6. CASE Transmit
  BY <1>6, PopTyped DEF Transmit, clientVars, serverVars
<1>7. CASE Arrive
  <2>1. PICK d \in flight : flight' = flight \ {d} /\ buffer' = Push(buffer, ReadLimit, d)
    BY <1>7 DEF Arrive
  <2>2. /\ Push(buffer, ReadLimit, d) \in Seq(0..End)
        /\ Len(Push(buffer, ReadLimit, d)) <= ReadLimit
        /\ Overflow(buffer, ReadLimit) \subseteq 0..End
    BY PushSet
  <2>3. QED
    BY <2>1, <2>2, <1>7 DEF Arrive, clientVars, serverVars
<1>8. CASE CloseArrives \/ Lose \/ Break
  BY <1>8 DEF CloseArrives, Lose, Break, clientVars, netVars, serverVars
<1>9. CASE Read \/ ReadEnd
  <2>1. buffer # <<>> /\ buffer' = Tail(buffer)
    BY <1>9 DEF Read, ReadEnd
  <2>2. Tail(buffer) \in Seq(0..End) /\ Len(Tail(buffer)) <= ReadLimit
    BY <2>1, PopTyped
  <2>3. buffer' \in Seq(0..End) /\ Len(buffer') <= ReadLimit
    BY <2>1, <2>2
  <2>4. stats' \in Nat /\ at' \in {"read", "done", "failed"}
    BY <1>9 DEF Read, ReadEnd
  <2>5. UNCHANGED <<pc, seq, queue, flight, close, lost, broken>>
    BY <1>9 DEF Read, ReadEnd, clientVars
  <2>6. QED
    BY <2>3, <2>4, <2>5
<1>10. CASE SeeClose \/ ConnectionError \/ IdleTimeout
  BY <1>10 DEF SeeClose, ConnectionError, IdleTimeout, SeeError, clientVars, netVars
<1>11. QED
  BY <1>1, <1>3, <1>4, <1>5, <1>6, <1>7, <1>8, <1>9, <1>10 DEF Next, ClientStep, ServerStep

\* Every step keeps track of the empty payload.
LEMMA EndStep == TypeOK /\ TypeOK' /\ EndIsSomewhere /\ [Next]_vars => EndIsSomewhere'
<1> SUFFICES ASSUME TypeOK, TypeOK', EndIsSomewhere, [Next]_vars PROVE EndIsSomewhere'
  OBVIOUS
<1>a. SUFFICES ASSUME Next PROVE EndIsSomewhere'
  BY DEF vars, clientVars, netVars, serverVars, EndIsSomewhere, Unread
<1>b. /\ queue \in Seq(0..End) /\ Len(queue) <= SendLimit /\ SendLimit \in Nat \ {0}
      /\ buffer \in Seq(0..End) /\ Len(buffer) <= ReadLimit /\ ReadLimit \in Nat \ {0}
      /\ flight \subseteq 0..End /\ End \in Nat /\ seq \in Nat
  BY DEF TypeOK, End
<1>1. CASE Send
  <2>1. seq < End /\ seq' = seq + 1 /\ pc' = pc /\ pc = "send" /\ close' = close
    BY <1>1 DEF Send, SendDatagram, End
  <2>2. close' = "none"
    BY <2>1 DEF EndIsSomewhere, TypeOK
  <2>3. QED
    BY <2>1, <2>2, <1>b DEF EndIsSomewhere
<1>2. CASE SendEnd
  <2>1. seq = End /\ seq' = seq + 1 /\ pc' = "sleep" /\ pc = "send" /\ close' = close
    BY <1>2 DEF SendEnd, SendDatagram
  <2>2. close' = "none"
    BY <2>1 DEF EndIsSomewhere
  <2>3. /\ queue' = Push(queue, SendLimit, End) /\ lost' = lost \cup Overflow(queue, SendLimit)
    BY <1>2, <2>1 DEF SendEnd, SendDatagram
  <2>4. End \in ToSet(queue') \cup lost'
    <3>1. End \in 0..End
      BY <1>b
    <3>2. ToSet(Push(queue, SendLimit, End)) \cup Overflow(queue, SendLimit)
            = ToSet(queue) \cup {End}
      BY <3>1, <1>b, PushUnion, Zenon
    <3>3. QED
      BY <3>2, <2>3
  <2>5. QED
    BY <2>1, <2>2, <2>4, <1>b DEF EndIsSomewhere, Unread
<1>3. CASE Close \/ ConnectionLost \/ ChunkTooLarge
  <2>1. PICK how \in {"ok", "failed"} : Leaves(how) /\ (how = "ok" => pc = "sleep")
    BY <1>3 DEF Close, ConnectionLost, ChunkTooLarge, SendFails
  <2>2. UNCHANGED <<seq, flight, buffer, at>>
    BY <1>3 DEF Close, ConnectionLost, ChunkTooLarge, SendFails, serverVars
  <2>3. pc' = how /\ queue' = <<>> /\ lost' = lost \cup ToSet(queue)
    BY <2>1 DEF Leaves
  <2>4. (seq = End + 1 /\ at = "read") => End \in lost' \cup flight \cup ToSet(buffer)
    BY <2>3 DEF EndIsSomewhere, Unread
  <2>5. QED
    BY <2>1, <2>2, <2>3, <2>4 DEF EndIsSomewhere, Unread
<1>4. CASE Transmit
  <2>1. queue # <<>> /\ queue' = Tail(queue) /\ flight' = flight \cup {Head(queue)}
    BY <1>4 DEF Transmit
  <2>2. UNCHANGED <<pc, seq, close, buffer, lost, at>>
    BY <1>4 DEF Transmit, clientVars, serverVars
  <2>3. ToSet(queue) = {Head(queue)} \cup ToSet(Tail(queue))
    BY <2>1, <1>b, HeadTailSet
  <2>4. Unread' = Unread
    BY <2>1, <2>2, <2>3 DEF Unread
  <2>5. close = "none"
    BY <2>1 DEF EndIsSomewhere
  <2>6. QED
    BY <2>2, <2>4, <2>5 DEF EndIsSomewhere
<1>5. CASE Arrive
  <2>1. PICK d \in flight : flight' = flight \ {d} /\ buffer' = Push(buffer, ReadLimit, d)
    BY <1>5 DEF Arrive
  <2>2. lost' = lost \cup Overflow(buffer, ReadLimit) /\ UNCHANGED <<pc, seq, queue, close, at>>
    BY <1>5 DEF Arrive, clientVars, serverVars
  <2>3. ToSet(Push(buffer, ReadLimit, d)) \cup Overflow(buffer, ReadLimit)
          = ToSet(buffer) \cup {d}
    <3>1. d \in 0..End
      BY <1>b
    <3>2. QED
      BY <3>1, <1>b, PushUnion, Zenon
  <2>4. lost' \cup Unread' = lost \cup Unread
    BY <2>1, <2>2, <2>3 DEF Unread
  <2>5. QED
    BY <2>2, <2>4 DEF EndIsSomewhere
<1>6. CASE CloseArrives \/ Lose \/ Break
  <2>1. /\ UNCHANGED <<pc, seq, queue, buffer, at>>
        /\ close' # "none" => close # "none"
    BY <1>6 DEF CloseArrives, Lose, Break, clientVars, netVars, serverVars
  <2>2. lost' \cup flight' = lost \cup flight
    BY <1>6 DEF CloseArrives, Lose, Break, netVars
  <2>3. lost' \cup Unread' = lost \cup Unread
    BY <2>1, <2>2 DEF Unread
  <2>4. QED
    BY <2>1, <2>3 DEF EndIsSomewhere
<1>7. CASE Read
  <2>1. /\ buffer # <<>> /\ Head(buffer) # End /\ buffer' = Tail(buffer)
        /\ UNCHANGED <<pc, seq, queue, flight, close, lost, at>>
    BY <1>7 DEF Read, clientVars
  <2>2. ToSet(buffer) = {Head(buffer)} \cup ToSet(Tail(buffer))
    BY <2>1, <1>b, HeadTailSet
  <2>3. End \in lost \cup Unread => End \in lost' \cup Unread'
    BY <2>1, <2>2 DEF Unread
  <2>4. QED
    BY <2>1, <2>3 DEF EndIsSomewhere
<1>8. CASE ReadEnd \/ SeeClose \/ ConnectionError \/ IdleTimeout
  <2>1. at' # "read" /\ UNCHANGED <<pc, seq, queue, close>>
    BY <1>8 DEF ReadEnd, SeeClose, ConnectionError, IdleTimeout, SeeError, clientVars, netVars
  <2>2. QED
    BY <2>1 DEF EndIsSomewhere
<1>9. QED
  BY <1>a, <1>1, <1>2, <1>3, <1>4, <1>5, <1>6, <1>7, <1>8 DEF Next, ClientStep, ServerStep

\* A server that fails on a connection that holds has lost both signs of its end.
LEMMA SilentStep ==
  TypeOK /\ EndIsSomewhere /\ SilentOnlyIfBothLost /\ [Next]_vars => SilentOnlyIfBothLost'
<1> SUFFICES ASSUME TypeOK, EndIsSomewhere, SilentOnlyIfBothLost, [Next]_vars,
                    at' = "failed", ~broken'
             PROVE  close' = "lost" /\ (End' \in lost' \/ pc' = "failed")
  BY DEF SilentOnlyIfBothLost
<1> End' = End
  BY DEF End
<1>1. SUFFICES ASSUME Next PROVE close' = "lost" /\ (End \in lost' \/ pc' = "failed")
  BY DEF vars, clientVars, netVars, serverVars, SilentOnlyIfBothLost
<1>2. CASE IdleTimeout
  <2>1. /\ at = "read" /\ buffer = <<>> /\ flight = {} /\ close = "lost"
        /\ UNCHANGED <<pc, close, lost>>
    BY <1>2 DEF IdleTimeout, SeeError, clientVars, netVars
  <2>2. pc \in {"ok", "failed"} /\ queue = <<>>
    BY <2>1 DEF EndIsSomewhere
  <2>3. ToSet(queue) = {} /\ ToSet(buffer) = {}
    BY <2>1, <2>2 DEF ToSet
  <2>4. pc = "ok" => End \in lost
    BY <2>1, <2>3 DEF EndIsSomewhere, Unread
  <2>5. QED
    BY <2>1, <2>2, <2>4
<1>3. CASE ConnectionError
  BY <1>3 DEF ConnectionError, SeeError
<1>4. CASE Read \/ ReadEnd \/ SeeClose
  BY <1>4 DEF Read, ReadEnd, SeeClose
<1>5. CASE Break
  BY <1>5 DEF Break
<1>6. CASE Arrive \/ CloseArrives
  BY <1>6 DEF Arrive, CloseArrives, Open, serverVars
<1>7. CASE Send \/ SendEnd \/ Close \/ ConnectionLost \/ ChunkTooLarge \/ Transmit \/ Lose
  <2>1. at = "failed" /\ ~broken
    BY <1>7 DEF Send, SendEnd, Close, ConnectionLost, ChunkTooLarge, SendFails, Transmit, Lose,
                serverVars
  <2>2. close = "lost" /\ (End \in lost \/ pc = "failed") /\ pc \in {"ok", "failed"} /\ queue = <<>>
    BY <2>1 DEF SilentOnlyIfBothLost, EndIsSomewhere
  <2>3. Lose
    BY <1>7, <2>2 DEF Send, SendEnd, Close, ConnectionLost, ChunkTooLarge, SendFails, Transmit
  <2>4. close' = "lost" /\ lost \subseteq lost' /\ pc' = pc
    BY <2>2, <2>3 DEF Lose, clientVars
  <2>5. QED
    BY <2>2, <2>4
<1>8. QED
  BY <1>1, <1>2, <1>3, <1>4, <1>5, <1>6, <1>7 DEF Next, ClientStep, ServerStep

-----------------------------------------------------------------------------
\* Every step keeps the invariant.
LEMMA SilentNext == SilentInv /\ [Next]_vars => SilentInv'
BY TypeStep, EndStep, SilentStep DEF SilentInv

\* The invariant holds in every reachable state.
LEMMA SilentAlways == Spec => []SilentInv
BY SilentInit, SilentNext, PTL DEF Spec

\* Every variable has its type, whatever the file, the limits and the faults; in
\* particular neither queue ever holds more than its limit.
THEOREM QuicTypeCorrect == Spec => []TypeOK
<1>1. SilentInv => TypeOK
  BY DEF SilentInv
<1>2. QED
  BY <1>1, SilentAlways, PTL

\* On a connection that does not break, the server of "quic" prints a report for every
\* client unless both the empty payload and the closing frame fail to reach it.
THEOREM SilentOnlyThen == Spec => []SilentOnlyIfBothLost
<1>1. SilentInv => SilentOnlyIfBothLost
  BY DEF SilentInv
<1>2. QED
  BY <1>1, SilentAlways, PTL

-----------------------------------------------------------------------------
\* A queue holds no datagram twice.
Once(q) == \A i, j \in 1..Len(q) : q[i] = q[j] => i = j

\* Nothing comes twice where a new datagram is added.
LEMMA OnceAppend ==
  ASSUME NEW S, NEW q \in Seq(S), NEW d \in S, Once(q), d \notin ToSet(q)
  PROVE  Once(Append(q, d))
<1>1. Len(Append(q, d)) = Len(q) + 1 /\ Len(q) \in Nat /\ Append(q, d)[Len(q) + 1] = d
  OBVIOUS
<1>2. \A i \in 1..Len(q) : Append(q, d)[i] = q[i]
  OBVIOUS
<1>3. \A i \in 1..Len(q) : q[i] # d
  BY MemberSet
<1>4. QED
  BY <1>1, <1>2, <1>3 DEF Once

\* Nor when the oldest is taken, and that one is then gone.
LEMMA OnceTail ==
  ASSUME NEW S, NEW q \in Seq(S), q # <<>>, Once(q)
  PROVE  Once(Tail(q)) /\ Head(q) \notin ToSet(Tail(q))
<1>1. /\ Head(q) = q[1] /\ Len(Tail(q)) = Len(q) - 1 /\ Len(q) \in Nat \ {0}
      /\ DOMAIN Tail(q) = 1..Len(q) - 1
  OBVIOUS
<1>2. \A i \in 1..Len(q) - 1 : Tail(q)[i] = q[i + 1]
  OBVIOUS
<1>3. Once(Tail(q))
  <2>1. SUFFICES ASSUME NEW i \in 1..Len(q) - 1, NEW j \in 1..Len(q) - 1,
                        Tail(q)[i] = Tail(q)[j]
                 PROVE  i = j
    BY <1>1 DEF Once
  <2>2. q[i + 1] = q[j + 1] /\ i + 1 \in 1..Len(q) /\ j + 1 \in 1..Len(q)
    BY <2>1, <1>1, <1>2
  <2>3. i + 1 = j + 1
    BY <2>2 DEF Once
  <2>4. QED
    BY <2>3
<1>4. ASSUME Head(q) \in ToSet(Tail(q)) PROVE FALSE
  <2>1. PICK i \in 1..Len(q) - 1 : Tail(q)[i] = q[1]
    BY <1>1, <1>4 DEF ToSet
  <2>2. q[i + 1] = q[1] /\ i + 1 \in 1..Len(q) /\ 1 \in 1..Len(q)
    BY <2>1, <1>1, <1>2
  <2>3. i + 1 = 1
    BY <2>2 DEF Once
  <2>4. QED
    BY <2>1, <2>3
<1>5. QED
  BY <1>3, <1>4

\* What overflows is not in the queue any more.
LEMMA OncePush ==
  ASSUME NEW S, NEW q \in Seq(S), NEW d \in S, NEW limit \in Nat \ {0}, Len(q) <= limit,
         Once(q), d \notin ToSet(q)
  PROVE  /\ Once(Push(q, limit, d))
         /\ ToSet(Push(q, limit, d)) \cap Overflow(q, limit) = {}
         /\ ToSet(Push(q, limit, d)) \cup Overflow(q, limit) = ToSet(q) \cup {d}
<1>1. ToSet(Push(q, limit, d)) \cup Overflow(q, limit) = ToSet(q) \cup {d}
  BY PushSet
<1>2. CASE Len(q) < limit
  BY <1>1, <1>2, OnceAppend DEF Push, Overflow
<1>3. CASE ~(Len(q) < limit)
  <2>1. q # <<>>
    BY <1>3
  <2>2. /\ Head(q) \in S /\ Tail(q) \in Seq(S) /\ ToSet(q) = {Head(q)} \cup ToSet(Tail(q))
        /\ Once(Tail(q)) /\ Head(q) \notin ToSet(Tail(q))
    BY <2>1, HeadTailSet, OnceTail
  <2>3. Push(q, limit, d) = Append(Tail(q), d) /\ Overflow(q, limit) = {Head(q)}
    BY <1>3 DEF Push, Overflow
  <2>4. Once(Append(Tail(q), d)) /\ ToSet(Append(Tail(q), d)) = ToSet(Tail(q)) \cup {d}
    <3>1. d \notin ToSet(Tail(q)) /\ Tail(q) \in Seq(S) /\ Once(Tail(q))
      BY <2>2
    <3>2. Once(Append(Tail(q), d))
      BY <3>1, OnceAppend, Zenon
    <3>3. ToSet(Append(Tail(q), d)) = ToSet(Tail(q)) \cup {d}
      BY <3>1, AppendSet, ZenonT(60)
    <3>4. QED
      BY <3>2, <3>3
  <2>5. QED
    BY <1>1, <2>2, <2>3, <2>4
<1>4. QED
  BY <1>2, <1>3

\* Every datagram that was sent is in one place at most.
Everywhere == lost \cup Unread
Apart ==
  /\ Once(queue) /\ Once(buffer)
  /\ ToSet(queue) \cap flight = {} /\ ToSet(queue) \cap ToSet(buffer) = {}
  /\ flight \cap ToSet(buffer) = {} /\ lost \cap Unread = {}
  /\ \A d \in Everywhere : d < seq

\* What is somewhere is a datagram of the file or its end.
LEMMA EverywhereTyped == TypeOK => Everywhere \subseteq 0..End
<1> SUFFICES ASSUME TypeOK PROVE Everywhere \subseteq 0..End
  OBVIOUS
<1>1. End \in Nat /\ \A q \in Seq(0..End) : ToSet(q) \subseteq 0..End
  BY DEF End, ToSet
<1>2. ToSet(queue) \subseteq 0..End /\ ToSet(buffer) \subseteq 0..End
  BY <1>1 DEF TypeOK
<1>3. QED
  BY <1>2 DEF TypeOK, Everywhere, Unread

\* Where a datagram is sent, it is new; where it is read, it is gone; and no other step
\* adds to what is somewhere or takes from it.
LEMMA ApartStep ==
  ASSUME TypeOK, Apart, [Next]_vars
  PROVE  /\ Apart'
         /\ \/ /\ Send \/ SendEnd
               /\ Everywhere' = Everywhere \cup {seq} /\ seq \notin Everywhere
            \/ /\ Read \/ ReadEnd
               /\ Everywhere' = Everywhere \ {Head(buffer)} /\ Head(buffer) \in Everywhere
            \/ Everywhere' = Everywhere /\ UNCHANGED <<seq, stats>>
<1>a. /\ queue \in Seq(0..End) /\ Len(queue) <= SendLimit /\ SendLimit \in Nat \ {0}
      /\ buffer \in Seq(0..End) /\ Len(buffer) <= ReadLimit /\ ReadLimit \in Nat \ {0}
      /\ flight \subseteq 0..End /\ End \in Nat /\ seq \in Nat /\ lost \subseteq 0..End
  BY DEF TypeOK, End
<1>b. Everywhere = lost \cup ToSet(queue) \cup flight \cup ToSet(buffer)
  BY DEF Everywhere, Unread
<1>c. Everywhere \subseteq Nat
  BY <1>a, EverywhereTyped
<1>d. ToSet(<<>>) = {} /\ Once(<<>>)
  BY DEF ToSet, Once
<1>1. CASE Send \/ SendEnd
  <2>1. /\ queue' = Push(queue, SendLimit, seq) /\ lost' = lost \cup Overflow(queue, SendLimit)
        /\ seq' = seq + 1 /\ UNCHANGED <<flight, buffer>> /\ seq \in 0..End
    BY <1>1, <1>a DEF Send, SendEnd, SendDatagram, End
  <2>2. seq \notin Everywhere
    BY <1>a, <1>c DEF Apart
  <2>3. seq \notin ToSet(queue)
    BY <2>2, <1>b
  <2>4. /\ Once(Push(queue, SendLimit, seq))
        /\ ToSet(Push(queue, SendLimit, seq)) \cap Overflow(queue, SendLimit) = {}
        /\ ToSet(Push(queue, SendLimit, seq)) \cup Overflow(queue, SendLimit)
             = ToSet(queue) \cup {seq}
    BY <1>a, <2>1, <2>3, OncePush, Zenon DEF Apart
  <2>5. /\ Once(queue') /\ ToSet(queue') \cap Overflow(queue, SendLimit) = {}
        /\ ToSet(queue') \cup Overflow(queue, SendLimit) = ToSet(queue) \cup {seq}
    BY <2>1, <2>4
  <2>6. Everywhere' = Everywhere \cup {seq}
    BY <2>1, <2>5 DEF Everywhere, Unread
  <2>7. /\ ToSet(queue') \cap flight' = {} /\ ToSet(queue') \cap ToSet(buffer') = {}
        /\ flight' \cap ToSet(buffer') = {} /\ lost' \cap Unread' = {}
    BY <2>1, <2>2, <2>5 DEF Apart, Unread, Everywhere
  <2>8. \A d \in Everywhere' : d < seq'
    BY <2>1, <2>6, <1>a, <1>c DEF Apart
  <2>9. Apart'
    BY <2>1, <2>5, <2>7, <2>8 DEF Apart
  <2>10. QED
    BY <1>1, <2>2, <2>6, <2>9
<1>2. CASE Close \/ ConnectionLost \/ ChunkTooLarge
  <2>1. /\ queue' = <<>> /\ lost' = lost \cup ToSet(queue)
        /\ UNCHANGED <<seq, flight, buffer, stats>>
    BY <1>2 DEF Close, ConnectionLost, ChunkTooLarge, SendFails, Leaves, serverVars
  <2>2. ToSet(queue') = {} /\ Once(queue')
    BY <2>1, <1>d
  <2>3. Everywhere' = Everywhere
    BY <2>1, <2>2 DEF Everywhere, Unread
  <2>4. QED
    BY <2>1, <2>2, <2>3 DEF Apart, Unread
<1>3. CASE Transmit
  <2>1. /\ queue # <<>> /\ queue' = Tail(queue) /\ flight' = flight \cup {Head(queue)}
        /\ UNCHANGED <<seq, buffer, lost, stats>>
    BY <1>3 DEF Transmit, clientVars, serverVars
  <2>2. ToSet(queue) = {Head(queue)} \cup ToSet(queue')
        /\ Head(queue) \notin ToSet(queue') /\ Once(queue')
    BY <2>1, <1>a, HeadTailSet, OnceTail DEF Apart
  <2>3. Unread' = Unread /\ Everywhere' = Everywhere
    BY <2>1, <2>2 DEF Everywhere, Unread
  <2>4. QED
    BY <2>1, <2>2, <2>3 DEF Apart
<1>4. CASE Arrive
  <2>1. PICK d \in flight : flight' = flight \ {d} /\ buffer' = Push(buffer, ReadLimit, d)
    BY <1>4 DEF Arrive
  <2>2. lost' = lost \cup Overflow(buffer, ReadLimit) /\ UNCHANGED <<seq, queue, stats>>
    BY <1>4 DEF Arrive, clientVars, serverVars
  <2>3. d \in 0..End /\ d \notin ToSet(buffer)
    BY <1>a DEF Apart
  <2>4. /\ Once(Push(buffer, ReadLimit, d))
        /\ ToSet(Push(buffer, ReadLimit, d)) \cap Overflow(buffer, ReadLimit) = {}
        /\ ToSet(Push(buffer, ReadLimit, d)) \cup Overflow(buffer, ReadLimit)
             = ToSet(buffer) \cup {d}
    BY <1>a, <2>3, OncePush, Zenon DEF Apart
  <2>5. /\ Once(buffer') /\ ToSet(buffer') \cap Overflow(buffer, ReadLimit) = {}
        /\ ToSet(buffer') \cup Overflow(buffer, ReadLimit) = ToSet(buffer) \cup {d}
    BY <2>1, <2>4
  <2>6. Everywhere' = Everywhere
    BY <2>1, <2>2, <2>5 DEF Everywhere, Unread
  <2>7. /\ ToSet(queue') \cap flight' = {} /\ ToSet(queue') \cap ToSet(buffer') = {}
        /\ flight' \cap ToSet(buffer') = {} /\ lost' \cap Unread' = {}
    BY <2>1, <2>2, <2>5 DEF Apart, Unread
  <2>8. QED
    BY <2>2, <2>5, <2>6, <2>7 DEF Apart
<1>5. CASE CloseArrives \/ Lose \/ Break
  <2>1. UNCHANGED <<seq, queue, buffer, stats>>
    BY <1>5 DEF CloseArrives, Lose, Break, clientVars, netVars, serverVars
  <2>2. \/ UNCHANGED <<flight, lost>>
        \/ \E d \in flight : flight' = flight \ {d} /\ lost' = lost \cup {d}
    BY <1>5 DEF CloseArrives, Lose, Break, netVars
  <2>3. Everywhere' = Everywhere
    BY <2>1, <2>2 DEF Everywhere, Unread
  <2>4. QED
    BY <2>1, <2>2, <2>3 DEF Apart, Unread
<1>6. CASE Read \/ ReadEnd
  <2>1. /\ buffer # <<>> /\ buffer' = Tail(buffer)
        /\ UNCHANGED <<seq, queue, flight, lost>>
    BY <1>6 DEF Read, ReadEnd, clientVars
  <2>2. ToSet(buffer) = {Head(buffer)} \cup ToSet(buffer')
        /\ Head(buffer) \notin ToSet(buffer') /\ Once(buffer')
    BY <2>1, <1>a, HeadTailSet, OnceTail DEF Apart
  <2>3. Everywhere' = Everywhere \ {Head(buffer)} /\ Head(buffer) \in Everywhere
    BY <2>1, <2>2 DEF Everywhere, Unread, Apart
  <2>4. Apart'
    BY <2>1, <2>2, <2>3 DEF Apart, Unread
  <2>5. QED
    BY <1>6, <2>3, <2>4
<1>7. CASE SeeClose \/ ConnectionError \/ IdleTimeout \/ UNCHANGED vars
  <2>1. UNCHANGED <<seq, queue, flight, buffer, lost, stats>>
    BY <1>7 DEF SeeClose, ConnectionError, IdleTimeout, SeeError, vars, clientVars, netVars,
                serverVars
  <2>2. QED
    BY <2>1 DEF Apart, Everywhere, Unread
<1>8. QED
  BY <1>1, <1>2, <1>3, <1>4, <1>5, <1>6, <1>7 DEF Next, ClientStep, ServerStep

\* What the server counts and what is still somewhere make up what was sent.
Account ==
  stats + Cardinality(Chunks(Everywhere)) = IF seq > NumBlocks THEN NumBlocks ELSE seq

\* A chunk is sent once, stays somewhere, and is counted when it is read.
LEMMA AccountStep ==
  TypeOK /\ Apart /\ Account /\ [Next]_vars => Account'
<1> SUFFICES ASSUME TypeOK, Apart, Account, [Next]_vars PROVE Account'
  OBVIOUS
<1> End' = End
  BY DEF End
<1>1. Everywhere \subseteq 0..End /\ End \in Nat /\ stats \in Nat /\ seq \in Nat /\ End = NumBlocks
  BY EverywhereTyped DEF TypeOK, End
<1>2. IsFiniteSet(Chunks(Everywhere)) /\ Cardinality(Chunks(Everywhere)) \in Nat
  <2>1. IsFiniteSet(0..End)
    BY <1>1, FS_Interval
  <2>2. Chunks(Everywhere) \subseteq 0..End
    BY <1>1 DEF Chunks
  <2>3. QED
    BY <2>1, <2>2, FS_Subset, FS_CardinalityType
<1>3. CASE Everywhere' = Everywhere /\ UNCHANGED <<seq, stats>>
  BY <1>3 DEF Account, Chunks
<1>4. CASE /\ Send \/ SendEnd
           /\ Everywhere' = Everywhere \cup {seq} /\ seq \notin Everywhere
  <2>1. CASE Send
    <3>1. seq < NumBlocks /\ seq' = seq + 1 /\ stats' = stats
      BY <2>1 DEF Send, SendDatagram, serverVars
    <3>2. Chunks(Everywhere') = Chunks(Everywhere) \cup {seq} /\ seq \notin Chunks(Everywhere)
      BY <1>1, <1>4, <3>1 DEF Chunks
    <3>3. Cardinality(Chunks(Everywhere')) = Cardinality(Chunks(Everywhere)) + 1
      BY <1>2, <3>2, FS_AddElement
    <3>4. QED
      BY <1>1, <1>2, <3>1, <3>3 DEF Account, Chunks
  <2>2. CASE SendEnd
    <3>1. seq = End /\ seq' = seq + 1 /\ stats' = stats
      BY <2>2 DEF SendEnd, SendDatagram, serverVars
    <3>2. Chunks(Everywhere') = Chunks(Everywhere)
      BY <1>4, <3>1 DEF Chunks
    <3>3. stats + Cardinality(Chunks(Everywhere)) = NumBlocks
      BY <1>1, <3>1 DEF Account
    <3>4. seq' > NumBlocks /\ Cardinality(Chunks(Everywhere))' = Cardinality(Chunks(Everywhere))
      BY <1>1, <3>1, <3>2 DEF Chunks
    <3>5. QED
      BY <3>1, <3>3, <3>4 DEF Account
  <2>3. QED
    BY <1>4, <2>1, <2>2
<1>5. CASE /\ Read \/ ReadEnd
           /\ Everywhere' = Everywhere \ {Head(buffer)} /\ Head(buffer) \in Everywhere
  <2>1. CASE Read
    <3>1. Head(buffer) # End /\ stats' = stats + 1 /\ seq' = seq
      BY <2>1 DEF Read, clientVars
    <3>2. /\ Chunks(Everywhere') = Chunks(Everywhere) \ {Head(buffer)}
          /\ Head(buffer) \in Chunks(Everywhere)
      BY <1>5, <3>1 DEF Chunks
    <3>3. Cardinality(Chunks(Everywhere')) = Cardinality(Chunks(Everywhere)) - 1
      BY <1>2, <3>2, FS_RemoveElement
    <3>4. QED
      BY <1>1, <1>2, <3>1, <3>3 DEF Account, Chunks
  <2>2. CASE ReadEnd
    <3>1. Head(buffer) = End /\ UNCHANGED <<stats, seq>>
      BY <2>2 DEF ReadEnd, clientVars
    <3>2. Chunks(Everywhere') = Chunks(Everywhere)
      BY <1>5, <3>1 DEF Chunks
    <3>3. QED
      BY <3>1, <3>2 DEF Account, Chunks
  <2>3. QED
    BY <1>5, <2>1, <2>2
<1>6. QED
  BY <1>3, <1>4, <1>5, ApartStep

\* The report of "quic" is short of what was sent by the chunks that were lost and those
\* still to be read, and by no others: for every file, both limits and any faults.
THEOREM ReportShortByLost == Spec => []ShortByLostAndOvertaken
<1>1. Init => Apart /\ Account
  <2>1. SUFFICES ASSUME Init PROVE Apart /\ Account
    OBVIOUS
  <2>2. queue = <<>> /\ buffer = <<>>
    BY <2>1 DEF Init
  <2>3. flight = {} /\ lost = {} /\ seq = 0 /\ stats = 0
    BY <2>1 DEF Init
  <2>4. ToSet(queue) = {} /\ ToSet(buffer) = {} /\ Once(queue) /\ Once(buffer)
    BY <2>2 DEF ToSet, Once
  <2>5. Everywhere = {} /\ Unread = {}
    BY <2>3, <2>4 DEF Everywhere, Unread
  <2>6. Cardinality(Chunks(Everywhere)) = 0
    <3>1. Chunks(Everywhere) = {}
      BY <2>5 DEF Chunks
    <3>2. QED
      BY <3>1, FS_EmptySet
  <2>7. QED
    BY <2>3, <2>4, <2>5, <2>6 DEF Apart, Account
<1>2. TypeOK /\ Apart /\ Account /\ [Next]_vars => Apart' /\ Account'
  BY ApartStep, AccountStep
<1>3. TypeOK /\ Apart /\ Account => ShortByLostAndOvertaken
  BY DEF Apart, Account, Everywhere, ShortByLostAndOvertaken
<1>4. QED
  BY <1>1, <1>2, <1>3, QuicTypeCorrect, PTL DEF Spec

=============================================================================
