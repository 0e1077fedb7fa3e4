------------------------ MODULE UdpStopAndWaitProofs ------------------------
(***************************************************************************)
(* Theorems about UdpStopAndWait, for every set of clients, every file and *)
(* every number of attempts: type correctness, the inductive invariant     *)
(* IInv, the safety properties it implies, the refinement of               *)
(* AckedTransfer, and what the statistics of the two programs differ by.   *)
(***************************************************************************)
EXTENDS UdpStopAndWait, FiniteSetTheorems, FunctionTheorems, TLAPS

USE BlocksAssumption, AttemptsAssumption, FaultsAssumption

\* One case per action: what the proof of a step is split into.
LEMMA NextCases ==
  ASSUME Next
  PROVE  \/ \E c \in Clients : \/ Send(c) \/ Acked(c) \/ StaleAck(c)
                               \/ Retry(c) \/ GiveUp(c) \/ Finish(c) \/ Abort(c)
         \/ ReceivePayload \/ SendAck \/ Count \/ ReceiveTerminator \/ ServerStops
         \/ LosePayload \/ LoseAck \/ LoseTerminator
BY DEF Next, ClientStep, ServerStep, Network

-----------------------------------------------------------------------------
\* Every variable keeps its type; in particular a client is never at the head
\* of the retry loop with all its attempts made.
LEMMA TypeInit == Init => TypeOK
BY DEF Init, TypeOK, Running, Transmissions

\* No action of a client, the server or the network takes a variable out of
\* its type; a retry starts an attempt only if it is not beyond the last.
LEMMA TypeStep == TypeOK /\ [Next]_vars => TypeOK'
<1> SUFFICES ASSUME TypeOK, [Next]_vars PROVE TypeOK'
  OBVIOUS
<1> USE DEF TypeOK, Running, Failed
<1>1. ASSUME NEW c \in Clients, Send(c) PROVE TypeOK'
  <2>1. [client |-> c, seq |-> seq[c], attempt |-> attempt[c]] \in Transmissions
    BY DEF Transmissions
  <2>2. QED
    BY <1>1, <2>1 DEF Send, serverVars
<1>2. ASSUME NEW c \in Clients, Acked(c) PROVE TypeOK'
  BY <1>2 DEF Acked, serverVars, historyVars
<1>3. ASSUME NEW c \in Clients, StaleAck(c) PROVE TypeOK'
  BY <1>3 DEF StaleAck, serverVars, historyVars
<1>4. ASSUME NEW c \in Clients, Retry(c) PROVE TypeOK'
  BY <1>4 DEF Retry, TimerFires, LastAttempt, netVars, serverVars, historyVars
<1>5. ASSUME NEW c \in Clients, GiveUp(c) PROVE TypeOK'
  BY <1>5 DEF GiveUp, netVars, serverVars, historyVars
<1>6. ASSUME NEW c \in Clients, Finish(c) PROVE TypeOK'
  BY <1>6 DEF Finish, serverVars, historyVars
<1>7. ASSUME NEW c \in Clients, Abort(c) PROVE TypeOK'
  BY <1>7 DEF Abort, netVars, serverVars, historyVars
<1>8. CASE ReceivePayload
  BY <1>8 DEF ReceivePayload, clientVars
<1>9. CASE SendAck
  BY <1>9 DEF SendAck, clientVars, historyVars
<1>10. CASE Count
  BY <1>10 DEF Count, clientVars, netVars, historyVars
<1>11. CASE ReceiveTerminator
  BY <1>11 DEF ReceiveTerminator, clientVars
<1>12. CASE ServerStops
  BY <1>12 DEF ServerStops, clientVars, netVars, historyVars
<1>13. CASE LosePayload
  BY <1>13 DEF LosePayload, CanLose, clientVars, serverVars, historyVars
<1>14. CASE LoseAck
  BY <1>14 DEF LoseAck, CanLose, clientVars, serverVars, historyVars
<1>15. CASE LoseTerminator
  BY <1>15 DEF LoseTerminator, clientVars, serverVars, historyVars
<1>16. CASE UNCHANGED vars
  BY <1>16 DEF vars, clientVars, netVars, serverVars, historyVars
<1>17. QED
  BY <1>1, <1>2, <1>3, <1>4, <1>5, <1>6, <1>7, <1>8, <1>9, <1>10, <1>11,
     <1>12, <1>13, <1>14, <1>15, <1>16, NextCases

-----------------------------------------------------------------------------
\* A transmission about to be made is new, whatever was lost or retried: it is
\* the next attempt of the block, or the first of a block never sent before.
LEMMA TransmissionsInit == Init => TransmissionsInv
BY DEF Init, TransmissionsInv

\* Every step keeps transmissions where they can be: a datagram is sent once,
\* received at most once, and acked only after it was received.
LEMMA TransmissionsStep ==
  TypeOK /\ TransmissionsInv /\ HoldingInv /\ [Next]_vars => TransmissionsInv'
<1> SUFFICES ASSUME TypeOK, TransmissionsInv, HoldingInv, [Next]_vars
             PROVE  TransmissionsInv'
  OBVIOUS
<1> USE DEF TypeOK, TransmissionsInv, Running, Failed
<1>1. ASSUME NEW c \in Clients, Send(c) PROVE TransmissionsInv'
  <2> DEFINE d == [client |-> c, seq |-> seq[c], attempt |-> attempt[c]]
  <2>1. d \notin transmitted
    BY <1>1 DEF Send
  <2>2. /\ payloads' = payloads \cup {d} /\ transmitted' = transmitted \cup {d}
        /\ acks' = acks /\ holding' = holding /\ arrived' = arrived
        /\ seq' = seq /\ attempt' = attempt
    BY <1>1 DEF Send, serverVars
  <2>3. (payloads \cup arrived \subseteq transmitted)' /\ (payloads \cap arrived = {})'
    BY <2>1, <2>2
  <2>4. ASSUME NEW e \in transmitted'
        PROVE  /\ e.seq < Blocks[e.client] /\ e.seq <= seq[e.client]
               /\ e.attempt < MaxAttempts
               /\ e.seq = seq[e.client] =>
                    /\ e.attempt <= attempt[e.client]
                    /\ pc'[e.client] = "send" => e.attempt < attempt[e.client]
    <3>1. CASE e = d
      BY <1>1, <3>1 DEF Send
    <3>2. CASE e \in transmitted
      BY <1>1, <3>2 DEF Send, Transmissions
    <3>3. QED
      BY <2>2, <2>4, <3>1, <3>2
  <2>5. QED
    BY <2>2, <2>3, <2>4
<1>2. ASSUME NEW c \in Clients, Acked(c) PROVE TransmissionsInv'
  BY <1>2 DEF Acked, serverVars, historyVars, Transmissions
<1>3. ASSUME NEW c \in Clients, StaleAck(c) PROVE TransmissionsInv'
  BY <1>3 DEF StaleAck, serverVars, historyVars, Transmissions
<1>4. ASSUME NEW c \in Clients, Retry(c) PROVE TransmissionsInv'
  BY <1>4 DEF Retry, netVars, serverVars, historyVars, Transmissions
<1>5. ASSUME NEW c \in Clients, GiveUp(c) PROVE TransmissionsInv'
  BY <1>5 DEF GiveUp, netVars, serverVars, historyVars, Transmissions
<1>6. ASSUME NEW c \in Clients, Finish(c) PROVE TransmissionsInv'
  BY <1>6 DEF Finish, serverVars, historyVars, Transmissions
<1>7. ASSUME NEW c \in Clients, Abort(c) PROVE TransmissionsInv'
  BY <1>7 DEF Abort, netVars, serverVars, historyVars, Transmissions
<1>8. CASE ReceivePayload
  BY <1>8 DEF ReceivePayload, clientVars
<1>9. CASE SendAck
  BY <1>9 DEF SendAck, clientVars, historyVars
<1>10. CASE Count
  BY <1>10 DEF Count, clientVars, netVars, historyVars
<1>11. CASE ReceiveTerminator
  BY <1>11 DEF ReceiveTerminator, clientVars
<1>12. CASE ServerStops
  BY <1>12 DEF ServerStops, clientVars, netVars, historyVars
<1>13. CASE LosePayload
  BY <1>13 DEF LosePayload, clientVars, serverVars, historyVars
<1>14. CASE LoseAck
  BY <1>14 DEF LoseAck, clientVars, serverVars, historyVars
<1>15. CASE LoseTerminator
  BY <1>15 DEF LoseTerminator, clientVars, serverVars, historyVars
<1>16. CASE UNCHANGED vars
  BY <1>16 DEF vars, clientVars, netVars, serverVars, historyVars
<1>17. QED
  BY <1>1, <1>2, <1>3, <1>4, <1>5, <1>6, <1>7, <1>8, <1>9, <1>10, <1>11,
     <1>12, <1>13, <1>14, <1>15, <1>16, NextCases

-----------------------------------------------------------------------------
\* The server task handles one payload at a time, and its ack is not yet out
\* when it sends it.
LEMMA HoldingInit == Init => HoldingInv
BY DEF Init, HoldingInv

\* From recv_from to the count the server has exactly one payload in hand.
LEMMA HoldingStep ==
  TypeOK /\ TransmissionsInv /\ HoldingInv /\ [Next]_vars => HoldingInv'
<1> SUFFICES ASSUME TypeOK, TransmissionsInv, HoldingInv, [Next]_vars
             PROVE  HoldingInv'
  OBVIOUS
<1> USE DEF HoldingInv
<1>1. CASE \E c \in Clients : \/ Send(c) \/ Acked(c) \/ StaleAck(c)
                              \/ Retry(c) \/ GiveUp(c) \/ Finish(c) \/ Abort(c)
  BY <1>1 DEF Send, Acked, StaleAck, Retry, GiveUp, Finish, Abort,
              netVars, serverVars, historyVars
<1>2. CASE ReceivePayload
  BY <1>2 DEF ReceivePayload, TransmissionsInv
<1>3. CASE SendAck
  BY <1>3 DEF SendAck, historyVars
<1>4. CASE Count
  BY <1>4 DEF Count
<1>5. CASE ReceiveTerminator
  BY <1>5 DEF ReceiveTerminator
<1>6. CASE ServerStops
  BY <1>6 DEF ServerStops
<1>7. CASE LosePayload \/ LoseAck \/ LoseTerminator
  BY <1>7 DEF LosePayload, LoseAck, LoseTerminator, serverVars, historyVars
<1>8. CASE UNCHANGED vars
  BY <1>8 DEF vars, netVars, serverVars, historyVars
<1>9. QED
  BY <1>1, <1>2, <1>3, <1>4, <1>5, <1>6, <1>7, <1>8, NextCases

-----------------------------------------------------------------------------
\* A client moves on only with an ack of its block, and an ack is of a
\* transmission that arrived.
LEMMA PrefixInit == Init => PrefixInv
BY DEF Init, PrefixInv

\* The blocks before the one a client sends stay received, whatever happens:
\* only an ack of the current block makes it the next one's turn.
LEMMA PrefixStep ==
  TypeOK /\ TransmissionsInv /\ PrefixInv /\ [Next]_vars => PrefixInv'
<1> SUFFICES ASSUME TypeOK, TransmissionsInv, PrefixInv, [Next]_vars
             PROVE  PrefixInv'
  OBVIOUS
<1> USE DEF TypeOK, PrefixInv, HasBlock, Running, Failed
<1>1. ASSUME NEW c \in Clients, Acked(c) PROVE PrefixInv'
  <2>1. PICK d \in acks : d.client = c /\ d.seq = seq[c]
    BY <1>1 DEF Acked, Of, Accepts
  <2>2. d \in arrived /\ seq[c] < Blocks[c]
    BY <2>1 DEF TransmissionsInv
  <2>3. /\ arrived' = arrived /\ seq' = [seq EXCEPT ![c] = @ + 1]
        /\ pc' = [pc EXCEPT ![c] = "send"]
    BY <1>1 DEF Acked, historyVars
  <2>4. ASSUME NEW e \in Clients PROVE seq'[e] <= Blocks[e]
    BY <2>2, <2>3
  <2>5. ASSUME NEW e \in Clients, NEW s \in 0..(seq'[e] - 1) PROVE HasBlock(e, s)'
    <3>1. CASE e = c /\ s = seq[c]
      BY <2>1, <2>2, <2>3, <3>1
    <3>2. CASE ~(e = c /\ s = seq[c])
      <4>1. s \in 0..(seq[e] - 1)
        BY SMTT(60), <2>3, <3>2
      <4>2. QED
        BY <2>3, <4>1
    <3>3. QED
      BY <3>1, <3>2
  <2>6. QED
    BY <2>3, <2>4, <2>5
<1>2. CASE \E c \in Clients : \/ Send(c) \/ StaleAck(c) \/ Retry(c)
                              \/ GiveUp(c) \/ Finish(c) \/ Abort(c)
  BY <1>2 DEF Send, StaleAck, Retry, GiveUp, Finish, Abort, historyVars
<1>3. CASE ReceivePayload
  BY <1>3 DEF ReceivePayload, clientVars
<1>4. CASE SendAck \/ Count \/ ReceiveTerminator \/ ServerStops
  BY <1>4 DEF SendAck, Count, ReceiveTerminator, ServerStops, clientVars,
              historyVars
<1>5. CASE LosePayload \/ LoseAck \/ LoseTerminator
  BY <1>5 DEF LosePayload, LoseAck, LoseTerminator, clientVars, historyVars
<1>6. CASE UNCHANGED vars
  BY <1>6 DEF vars, clientVars, historyVars
<1>7. QED
  BY <1>1, <1>2, <1>3, <1>4, <1>5, <1>6, NextCases

-----------------------------------------------------------------------------
\* The shared counter and what was printed add up to what arrived.
LEMMA CountInit == Init => CountInv
BY FS_EmptySet DEF Init, CountInv, StatsAccounted

\* Counting, printing and resetting the statistics keep the account exact.
LEMMA CountStep ==
  TypeOK /\ TransmissionsInv /\ HoldingInv /\ CountInv /\ [Next]_vars => CountInv'
<1> SUFFICES ASSUME TypeOK, TransmissionsInv, HoldingInv, CountInv, [Next]_vars
             PROVE  CountInv'
  OBVIOUS
<1> USE DEF CountInv, StatsAccounted
<1>1. CASE ReceivePayload
  <2>1. PICK d \in payloads : holding' = {d} /\ arrived' = arrived \cup {d}
    BY <1>1 DEF ReceivePayload
  <2>2. arrived' \ holding' = arrived \ holding
    BY <1>1, <2>1 DEF ReceivePayload, TransmissionsInv, HoldingInv
  <2>3. IsFiniteSet(arrived')
    BY <2>1, FS_AddElement
  <2>4. QED
    BY <1>1, <2>2, <2>3 DEF ReceivePayload
<1>2. CASE Count
  <2>1. PICK d \in arrived : holding = {d}
    BY <1>2 DEF Count, HoldingInv
  <2>2. /\ Cardinality(arrived \ {d}) = Cardinality(arrived) - 1
        /\ Cardinality(arrived) \in Nat
    BY FS_RemoveElement, FS_CardinalityType
  <2>3. holding' = {} /\ stats' = stats + 1 /\ printed' = printed /\ arrived' = arrived
    BY <1>2 DEF Count, historyVars
  <2>4. arrived' \ holding' = arrived
    BY <2>3
  <2>5. QED
    BY <2>1, <2>2, <2>3, <2>4 DEF TypeOK
<1>3. CASE ReceiveTerminator
  BY <1>3 DEF ReceiveTerminator, TypeOK
<1>4. CASE SendAck \/ ServerStops
  BY <1>4 DEF SendAck, ServerStops, historyVars
<1>5. CASE \E c \in Clients : \/ Send(c) \/ Acked(c) \/ StaleAck(c)
                              \/ Retry(c) \/ GiveUp(c) \/ Finish(c) \/ Abort(c)
  BY <1>5 DEF Send, Acked, StaleAck, Retry, GiveUp, Finish, Abort,
              serverVars, historyVars
<1>6. CASE LosePayload \/ LoseAck \/ LoseTerminator
  BY <1>6 DEF LosePayload, LoseAck, LoseTerminator, serverVars, historyVars
<1>7. CASE UNCHANGED vars
  BY <1>7 DEF vars, serverVars, historyVars
<1>8. QED
  BY <1>1, <1>2, <1>3, <1>4, <1>5, <1>6, <1>7, NextCases

-----------------------------------------------------------------------------
\* When no timer fires before its answer, at most one transmission of a
\* running client is unanswered, and it is the one the client waits on.
LEMMA TimelyInit == Init => TimelyInv
BY DEF Init, TimelyInv, Unanswered, Of, Running

\* No action changes what the environment may do.
LEMMA FaultsStep == [Next]_vars => faults' = faults
<1> SUFFICES ASSUME [Next]_vars PROVE faults' = faults
  OBVIOUS
<1>1. ASSUME NEW c \in Clients,
             \/ Send(c) \/ Acked(c) \/ StaleAck(c) \/ Retry(c) \/ GiveUp(c) \/ Finish(c)
             \/ Abort(c)
      PROVE  faults' = faults
  BY <1>1 DEF Send, Acked, StaleAck, Retry, GiveUp, Finish, Abort
<1>2. ASSUME \/ ReceivePayload \/ SendAck \/ Count \/ ReceiveTerminator \/ ServerStops
             \/ LosePayload \/ LoseAck \/ LoseTerminator
      PROVE  faults' = faults
  BY <1>2 DEF ReceivePayload, SendAck, Count, ReceiveTerminator, ServerStops, LosePayload,
              LoseAck, LoseTerminator
<1>3. QED
  BY <1>1, <1>2, NextCases DEF vars

\* Without early timers a retry finds nothing unanswered, so that no ack is left
\* over for a later block.
LEMMA TimelyStep ==
  /\ TypeOK /\ TransmissionsInv /\ HoldingInv /\ TimelyInv /\ [Next]_vars
  => TimelyInv'
<1> SUFFICES ASSUME TypeOK, TransmissionsInv, HoldingInv, TimelyInv, [Next]_vars,
                    "late" \notin faults
             PROVE  TimelyInv'
  BY FaultsStep DEF TimelyInv
<1> USE DEF TypeOK, TimelyInv, Unanswered, Of, Running, Failed
<1>1. ASSUME NEW c \in Clients, Send(c) PROVE TimelyInv'
  BY <1>1 DEF Send, serverVars
<1>2. ASSUME NEW c \in Clients, Acked(c) PROVE TimelyInv'
  <2>1. PICK d \in acks : d.client = c /\ d.seq = seq[c] /\ acks' = acks \ {d}
    BY <1>2 DEF Acked, Of, Accepts
  <2>2. Unanswered(c)' = {}
    <3>1. ASSUME NEW e \in Unanswered(c) PROVE e = d
      BY <1>2, <2>1, <3>1 DEF Acked, Transmissions
    <3>2. d \notin payloads /\ (at = "ack" => d \notin holding)
      BY <2>1 DEF TransmissionsInv, HoldingInv
    <3>3. QED
      BY <1>2, <2>1, <3>1, <3>2 DEF Acked, serverVars
  <2>3. QED
    BY <1>2, <2>1, <2>2 DEF Acked, serverVars
<1>3. ASSUME NEW c \in Clients, StaleAck(c) PROVE TimelyInv'
  BY <1>3 DEF StaleAck, Accepts
<1>4. ASSUME NEW c \in Clients, Retry(c) PROVE TimelyInv'
  <2>1. Unanswered(c) = {}
    BY <1>4 DEF Retry, TimerFires, Answering
  <2>2. QED
    BY <1>4, <2>1 DEF Retry, netVars, serverVars
<1>5. ASSUME NEW c \in Clients, GiveUp(c) PROVE TimelyInv'
  BY <1>5 DEF GiveUp, netVars, serverVars
<1>6. ASSUME NEW c \in Clients, Finish(c) PROVE TimelyInv'
  BY <1>6 DEF Finish, serverVars
<1>7. ASSUME NEW c \in Clients, Abort(c) PROVE TimelyInv'
  BY <1>7 DEF Abort, netVars, serverVars
<1>8. CASE ReceivePayload
  BY <1>8 DEF ReceivePayload, clientVars
<1>9. CASE SendAck
  BY <1>9 DEF SendAck, clientVars
<1>10. CASE Count \/ ServerStops
  BY <1>10 DEF Count, ServerStops, clientVars, netVars
<1>11. CASE ReceiveTerminator
  BY <1>11 DEF ReceiveTerminator, clientVars
<1>12. CASE LosePayload
  BY <1>12 DEF LosePayload, clientVars, serverVars
<1>13. CASE LoseAck
  BY <1>13 DEF LoseAck, clientVars, serverVars
<1>14. CASE LoseTerminator
  BY <1>14 DEF LoseTerminator, clientVars, serverVars
<1>15. CASE UNCHANGED vars
  BY <1>15 DEF vars, clientVars, netVars, serverVars
<1>16. QED
  BY <1>1, <1>2, <1>3, <1>4, <1>5, <1>6, <1>7, <1>8, <1>9, <1>10, <1>11,
     <1>12, <1>13, <1>14, <1>15, NextCases

-----------------------------------------------------------------------------
\* Every reachable state has its type.
THEOREM TypeCorrect == Spec => []TypeOK
<1>1. QED
  BY TypeInit, TypeStep, PTL DEF Spec

\* The invariant the safety theorems follow from is inductive.
THEOREM Inductive == Spec => []IInv
<1>1. Init => IInv
  BY TypeInit, TransmissionsInit, HoldingInit, PrefixInit, CountInit, TimelyInit
     DEF IInv
<1>2. IInv /\ [Next]_vars => IInv'
  BY TypeStep, TransmissionsStep, HoldingStep, PrefixStep, CountStep, TimelyStep
     DEF IInv
<1>3. QED
  BY <1>1, <1>2, PTL DEF Spec

\* Ok from a client means that the server has every block of its file.
THEOREM Delivery == Spec => []OkMeansDelivered
<1>1. IInv => OkMeansDelivered
  BY DEF IInv, PrefixInv, OkMeansDelivered
<1>2. QED
  BY <1>1, Inductive, PTL

\* No transmission is ahead of the block its client is sending, and the blocks
\* before it are all at the server.
THEOREM Window == Spec => []WindowOfOne
<1>1. IInv => WindowOfOne
  BY DEF IInv, TransmissionsInv, PrefixInv, WindowOfOne
<1>2. QED
  BY <1>1, Inductive, PTL

\* The reports and the shared counter account for every payload received.
THEOREM Accounting == Spec => []StatsAccounted
<1>1. IInv => StatsAccounted
  BY DEF IInv, CountInv
<1>2. QED
  BY <1>1, Inductive, PTL

\* The error for a stale ack needs a timer that fires before the answer.
THEOREM TimelyMeansNoStaleAck == Spec => []NoStaleAck
<1>1. IInv => NoStaleAck
  BY DEF IInv, TimelyInv, NoStaleAck
<1>2. QED
  BY <1>1, Inductive, PTL

-----------------------------------------------------------------------------
\* The attempts of one block are told apart by a number below MaxAttempts, so
\* there are at most MaxAttempts of them.
LEMMA AttemptsBounded ==
  ASSUME TypeOK, TransmissionsInv, NEW c \in Clients
  PROVE  Cardinality({d \in Of(c, transmitted) : d.seq = seq[c]}) <= MaxAttempts
<1> DEFINE S == {d \in Of(c, transmitted) : d.seq = seq[c]}
           T == 0..(MaxAttempts - 1)
           f == [d \in S |-> d.attempt]
<1>1. f \in [S -> T]
  BY DEF TransmissionsInv, TypeOK, Transmissions, Of
<1>2. ASSUME NEW a \in S, NEW b \in S, f[a] = f[b] PROVE a = b
  BY <1>2 DEF TypeOK, Transmissions, Of
<1>3. f \in Injection(S, T)
  BY <1>1, <1>2, Fun_IsInj
<1>4. IsFiniteSet(T) /\ Cardinality(T) = MaxAttempts
  BY FS_Interval
<1>5. QED
  BY <1>3, <1>4, FS_Injection

\* "retry loop always returns on final attempt": the code's unreachable! holds.
THEOREM RetryLoopReturns == Spec => []LoopReturns
<1>1. IInv => LoopReturns
  BY AttemptsBounded DEF IInv, LoopReturns, TypeOK
<1>2. QED
  BY <1>1, Inductive, PTL

-----------------------------------------------------------------------------
\* Nothing is received, confirmed or returned at first.
LEMMA RefinesInit == Init => Abstract!Init
BY DEF Init, Abstract!Init, Delivered, Of, Outcome, Running

\* An ack of the awaited block is a Confirm, the first copy of a block a Deliver,
\* a return a Succeed or a Fail, and everything else, duplicates included, a
\* stutter.
LEMMA RefinesStep == IInv /\ [Next]_vars => [Abstract!Next]_(Abstract!vars)
<1> SUFFICES ASSUME IInv, [Next]_vars
             PROVE  Abstract!Next \/ UNCHANGED Abstract!vars
  BY DEF Abstract!vars
<1> USE DEF IInv, TypeOK, Abstract!Next, Abstract!vars, Running, Failed
<1>1. ASSUME NEW c \in Clients, Send(c) \/ Retry(c)
      PROVE  UNCHANGED Abstract!vars
  BY <1>1 DEF Send, Retry, TimerFires, historyVars, Outcome, Delivered, Of
<1>2. ASSUME NEW c \in Clients, Acked(c) PROVE Abstract!Confirm(c)
  <2>1. PICK d \in arrived : d.client = c /\ d.seq = seq[c]
    BY <1>2 DEF Acked, Of, Accepts, TransmissionsInv
  <2>2. seq[c] \in Delivered(c)
    BY <2>1 DEF Delivered, Of
  <2>3. \A e \in Clients : Outcome(e)' = Outcome(e) /\ Delivered(e)' = Delivered(e)
    BY <1>2 DEF Acked, historyVars, Outcome, Delivered, Of
  <2>4. QED
    BY <1>2, <2>2, <2>3 DEF Acked, Abstract!Confirm, Outcome
<1>3. ASSUME NEW c \in Clients, StaleAck(c) \/ GiveUp(c) \/ Abort(c)
      PROVE  Abstract!Fail(c)
  BY <1>3 DEF StaleAck, GiveUp, TimerFires, Abort, historyVars, Abstract!Fail,
              Outcome, Delivered, Of
<1>4. ASSUME NEW c \in Clients, Finish(c) PROVE Abstract!Succeed(c)
  BY <1>4 DEF Finish, historyVars, Abstract!Succeed, Outcome, Delivered, Of
<1>5. ASSUME ReceivePayload
      PROVE  (\E c \in Clients : Abstract!Deliver(c)) \/ UNCHANGED Abstract!vars
  <2>1. PICK d \in payloads : arrived' = arrived \cup {d}
    BY <1>5 DEF ReceivePayload
  <2>2. /\ d.client \in Clients /\ d.seq \in Nat
        /\ d.seq < Blocks[d.client] /\ d.seq <= seq[d.client]
    BY DEF TransmissionsInv, Transmissions
  <2>3. UNCHANGED clientVars
    BY <1>5 DEF ReceivePayload
  <2>4. \A e \in Clients : Outcome(e)' = Outcome(e)
    BY <2>3 DEF clientVars, Outcome
  <2>5. \A e \in Clients : Delivered(e)' =
          IF e = d.client THEN Delivered(e) \cup {d.seq} ELSE Delivered(e)
    BY <2>1 DEF Delivered, Of
  <2>6. CASE d.seq \in Delivered(d.client)
    BY <2>3, <2>4, <2>5, <2>6 DEF clientVars
  <2>7. CASE d.seq \notin Delivered(d.client)
    <3>1. d.seq = seq[d.client]
      <4>1. ~HasBlock(d.client, d.seq)
        BY <2>7 DEF HasBlock, Delivered, Of
      <4>2. seq[d.client] \in Nat /\ \A s \in 0..(seq[d.client] - 1) : HasBlock(d.client, s)
        BY <2>2 DEF PrefixInv
      <4>3. d.seq \notin 0..(seq[d.client] - 1)
        BY <4>1, <4>2
      <4>4. QED
        BY <2>2, <4>2, <4>3
    <3>2. Abstract!Deliver(d.client)
      BY <2>2, <2>3, <2>4, <2>5, <2>7, <3>1 DEF clientVars, Abstract!Deliver
    <3>3. QED
      BY <2>2, <3>2
  <2>8. QED
    BY <2>6, <2>7
<1>6. ASSUME \/ SendAck \/ Count \/ ReceiveTerminator \/ ServerStops
             \/ LosePayload \/ LoseAck \/ LoseTerminator \/ UNCHANGED vars
      PROVE  UNCHANGED Abstract!vars
  BY <1>6 DEF SendAck, Count, ReceiveTerminator, ServerStops, LosePayload,
              LoseAck, LoseTerminator, vars, clientVars, historyVars, Outcome,
              Delivered, Of
<1>7. QED
  BY <1>1, <1>2, <1>3, <1>4, <1>5, <1>6, NextCases

\* The transport implements the abstract transfer: a client moves on only when
\* the server has its block, and succeeds only when it has the whole file.
THEOREM Refinement == Spec => ImplementsAckedTransfer
<1>1. QED
  BY RefinesInit, RefinesStep, Inductive, PTL
     DEF Spec, ImplementsAckedTransfer, Abstract!Spec

-----------------------------------------------------------------------------
\* The clients' counters, one by one, are as many as the transmissions made.
SentInv ==
  /\ IsFiniteSet(transmitted) /\ IsFiniteSet(SentCounts)
  /\ Cardinality(SentCounts) = Cardinality(transmitted)

\* A client counts a transmission as it makes it, and no two are the same.
LEMMA SentStep ==
  ASSUME IInv, SentInv, [Next]_vars
  PROVE  SentInv'
<1>1. ASSUME NEW c \in Clients, Send(c) PROVE SentInv'
  <2> DEFINE d == [client |-> c, seq |-> seq[c], attempt |-> attempt[c]]
  <2>1. /\ pc[c] = "send" /\ transmitted' = transmitted \cup {d}
        /\ sent' = [sent EXCEPT ![c] = @ + 1]
    BY <1>1 DEF Send
  <2>2. d \notin transmitted
    <3>1. d.client = c /\ d.seq = seq[c] /\ d.attempt = attempt[c] /\ attempt[c] \in Nat
      BY DEF IInv, TypeOK
    <3> HIDE DEF d
    <3>2. d \in transmitted => d.attempt < attempt[c]
      BY <2>1, <3>1 DEF IInv, TransmissionsInv
    <3>3. QED
      BY <3>1, <3>2
  <2> HIDE DEF d
  <2>3. SentCounts' = SentCounts \cup {<<c, sent[c] + 1>>} /\ <<c, sent[c] + 1>> \notin SentCounts
    <3>1. sent \in [Clients -> Nat] /\ sent[c] \in Nat
      BY DEF IInv, TypeOK
    <3>2. /\ 1..sent'[c] = 1..sent[c] \cup {sent[c] + 1} /\ sent[c] + 1 \notin 1..sent[c]
          /\ \A b \in Clients \ {c} : sent'[b] = sent[b]
      BY <2>1, <3>1
    <3>3. ASSUME NEW b \in Clients, NEW n
          PROVE  <<b, n>> \in SentCounts' <=> <<b, n>> \in SentCounts \cup {<<c, sent[c] + 1>>}
      <4>1. /\ <<b, n>> \in SentCounts' <=> n \in 1..sent'[b]
            /\ <<b, n>> \in SentCounts <=> n \in 1..sent[b]
        BY DEF SentCounts
      <4>2. QED
        BY <3>2, <4>1
    <3>4. /\ SentCounts \cup SentCounts' \subseteq Clients \X Nat
          /\ <<c, sent[c] + 1>> \in Clients \X Nat
      BY <2>1, <3>1 DEF SentCounts
    <3>5. <<c, sent[c] + 1>> \notin SentCounts
      BY <3>2 DEF SentCounts
    <3>6. QED
      BY <3>3, <3>4, <3>5
  <2>4. IsFiniteSet(SentCounts') /\ Cardinality(SentCounts') = Cardinality(SentCounts) + 1
    BY <2>3, FS_AddElement, Zenon DEF SentInv
  <2>5. IsFiniteSet(transmitted') /\ Cardinality(transmitted') = Cardinality(transmitted) + 1
    BY <2>1, <2>2, FS_AddElement DEF SentInv
  <2>6. QED
    BY <2>4, <2>5 DEF SentInv
<1>2. ASSUME UNCHANGED <<sent, transmitted>> PROVE SentInv'
  BY <1>2 DEF SentInv, SentCounts
<1>3. ASSUME NEW c \in Clients,
             Acked(c) \/ StaleAck(c) \/ Retry(c) \/ GiveUp(c) \/ Finish(c) \/ Abort(c)
      PROVE  UNCHANGED <<sent, transmitted>>
  BY <1>3 DEF Acked, StaleAck, Retry, GiveUp, Finish, Abort, historyVars
<1>4. ASSUME ReceivePayload \/ SendAck \/ Count \/ ReceiveTerminator \/ ServerStops
      PROVE  UNCHANGED <<sent, transmitted>>
  BY <1>4 DEF ReceivePayload, SendAck, Count, ReceiveTerminator, ServerStops, clientVars,
         historyVars
<1>5. ASSUME LosePayload \/ LoseAck \/ LoseTerminator PROVE UNCHANGED <<sent, transmitted>>
  BY <1>5 DEF LosePayload, LoseAck, LoseTerminator, clientVars, historyVars
<1>6. UNCHANGED vars => UNCHANGED <<sent, transmitted>>
  BY DEF vars, clientVars, historyVars
<1>7. QED
  BY <1>1, <1>2, <1>3, <1>4, <1>5, <1>6, NextCases

\* Two sets that share nothing are together as large as both.
LEMMA DisjointUnion ==
  ASSUME NEW S, NEW T, IsFiniteSet(S), IsFiniteSet(T), S \cap T = {}
  PROVE  IsFiniteSet(S \cup T) /\ Cardinality(S \cup T) = Cardinality(S) + Cardinality(T)
<1>1. /\ IsFiniteSet(S \cup T)
      /\ Cardinality(S \cup T) = Cardinality(S) + Cardinality(T) - Cardinality(S \cap T)
  BY FS_Union
<1>2. Cardinality(S \cap T) = 0 /\ Cardinality(S) \in Nat /\ Cardinality(T) \in Nat
  BY FS_EmptySet, FS_CardinalityType
<1>3. QED
  BY <1>1, <1>2

\* What was transmitted is under way, received or lost, and each only one of these.
LEMMA Conservation ==
  ASSUME IInv, SentInv
  PROVE  DatagramsConserved
<1>1. /\ IsFiniteSet(payloads) /\ IsFiniteSet(arrived) /\ IsFiniteSet(LostPayloads)
      /\ IsFiniteSet(holding)
  BY FS_Subset DEF IInv, TransmissionsInv, SentInv, LostPayloads
<1>2. Cardinality(transmitted) =
        Cardinality(arrived) + Cardinality(payloads) + Cardinality(LostPayloads)
  <2>1. /\ transmitted = (payloads \cup arrived) \cup LostPayloads
        /\ payloads \cap arrived = {} /\ (payloads \cup arrived) \cap LostPayloads = {}
    BY DEF IInv, TransmissionsInv, LostPayloads
  <2>2. /\ IsFiniteSet(payloads \cup arrived)
        /\ Cardinality(payloads \cup arrived) = Cardinality(payloads) + Cardinality(arrived)
    BY <1>1, <2>1, DisjointUnion
  <2>3. Cardinality(transmitted) = Cardinality(payloads \cup arrived) + Cardinality(LostPayloads)
    BY <1>1, <2>1, <2>2, DisjointUnion
  <2>4. QED
    BY <1>1, <2>2, <2>3, FS_CardinalityType
<1>3. Cardinality(arrived) = Cardinality(arrived \ holding) + Cardinality(holding)
  <2>1. arrived = (arrived \ holding) \cup holding /\ (arrived \ holding) \cap holding = {}
    BY DEF IInv, TransmissionsInv
  <2>2. IsFiniteSet(arrived \ holding)
    BY <1>1, FS_Subset
  <2>3. QED
    BY <1>1, <2>1, <2>2, DisjointUnion
<1>4. /\ printed + stats = Cardinality(arrived \ holding)
      /\ Cardinality(SentCounts) = Cardinality(transmitted)
  BY DEF IInv, CountInv, StatsAccounted, SentInv
<1>5. /\ Cardinality(payloads) \in Nat /\ Cardinality(LostPayloads) \in Nat
      /\ Cardinality(holding) \in Nat /\ Cardinality(arrived) \in Nat
  BY <1>1, FS_CardinalityType
<1>6. printed + stats \in Nat
  BY DEF IInv, TypeOK
<1>7. QED
  BY <1>2, <1>3, <1>4, <1>5, <1>6 DEF DatagramsConserved

\* Every transmission the clients counted is in a report or the
\* server's counter, in its hand, under way or lost, exactly once: what the two programs'
\* statistics differ by is what the network did.
THEOREM StatisticsDiffer == Spec => []DatagramsConserved
<1>1. Init => SentInv
  <2>1. Init => SentCounts = {} /\ transmitted = {}
    BY DEF Init, SentCounts
  <2>2. QED
    BY <2>1, FS_EmptySet DEF SentInv
<1>2. IInv /\ SentInv /\ [Next]_vars => SentInv'
  BY SentStep
<1>3. IInv /\ SentInv => DatagramsConserved
  BY Conservation
<1>4. QED
  BY <1>1, <1>2, <1>3, Inductive, PTL DEF Spec

=============================================================================
