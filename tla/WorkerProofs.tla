----------------------------- MODULE WorkerProofs -----------------------------
(***************************************************************************)
(* Theorems about Worker, for any finite set of requests, any pool and any *)
(* faults: type correctness, and what the gauge, the histogram and the     *)
(* counter say of the requests at every moment.                            *)
(***************************************************************************)
EXTENDS Worker, FiniteSetTheorems, TLAPS

USE WorkerAssumption

\* The requests whose handler is in one of the places S are finitely many.
LEMMA InStateFinite ==
  ASSUME NEW S
  PROVE  IsFiniteSet(InState(S)) /\ Cardinality(InState(S)) \in Nat
BY FS_Subset, FS_CardinalityType DEF InState

\* A handler that goes from one place to another enters S, leaves S or does neither, and
\* the others stay where they are.
LEMMA Moves ==
  ASSUME NEW S, NEW r \in Requests, NEW from, NEW to, Goes(r, from, to),
         pc = [q \in Requests |-> pc[q]]
  PROVE  /\ (from \in S <=> to \in S) => InState(S)' = InState(S)
         /\ from \notin S /\ to \in S =>
              Cardinality(InState(S)') = Cardinality(InState(S)) + 1
         /\ from \in S /\ to \notin S =>
              /\ Cardinality(InState(S)) > 0
              /\ Cardinality(InState(S)') = Cardinality(InState(S)) - 1
<1>1. pc[r] = from /\ \A q \in Requests : pc'[q] = IF q = r THEN to ELSE pc[q]
  BY DEF Goes
<1>2. (from \in S <=> to \in S) => InState(S)' = InState(S)
  BY <1>1 DEF InState
<1>3. ASSUME from \notin S, to \in S
      PROVE  Cardinality(InState(S)') = Cardinality(InState(S)) + 1
  <2>1. r \notin InState(S) /\ InState(S)' = InState(S) \cup {r}
    BY <1>1, <1>3 DEF InState
  <2>2. QED
    BY <2>1, InStateFinite, FS_AddElement
<1>4. ASSUME from \in S, to \notin S
      PROVE  /\ Cardinality(InState(S)) > 0
             /\ Cardinality(InState(S)') = Cardinality(InState(S)) - 1
  <2>1. r \in InState(S) /\ InState(S)' = InState(S) \ {r}
    BY <1>1, <1>4 DEF InState
  <2>2. Cardinality(InState(S)') = Cardinality(InState(S)) - 1
    BY ZenonT(60), <2>1, InStateFinite, FS_RemoveElement
  <2>3. Cardinality(InState(S)) # 0
    BY <2>1, InStateFinite, FS_EmptySet
  <2>4. QED
    BY <2>2, <2>3, InStateFinite
<1>5. QED
  BY <1>2, <1>3, <1>4

-----------------------------------------------------------------------------
\* Who is on the gauge, in the histogram and in the counter.
OnGauge == Waiting \cup {"dropped"}

\* The account of the three metrics, on top of the types.
Accounts ==
  /\ active = Cardinality(InState(OnGauge))
  /\ observed = Cardinality(InState({"count", "done"}))
  /\ total = Cardinality(InState({"done"}))

\* Endpoints, places and jobs have their types; the metrics follow from Accounts.
HandlersOK ==
  /\ endpoint \in [Requests -> Endpoints]
  /\ pc \in [Requests -> Waiting \cup Ended \cup {"new", "observe", "count"}]
  /\ job \in [Requests -> {"none", "queued", "spin", "finished"}]

IInv == HandlersOK /\ Accounts

\* Every request is new, and on none of the metrics.
LEMMA InvInit == Init => IInv
<1> SUFFICES ASSUME Init PROVE IInv
  OBVIOUS
<1>1. HandlersOK
  BY DEF Init, HandlersOK
<1>2. InState(OnGauge) = {} /\ InState({"count", "done"}) = {} /\ InState({"done"}) = {}
  BY DEF Init, InState, OnGauge, Waiting
<1>3. QED
  BY <1>1, <1>2, FS_EmptySet DEF Init, IInv, Accounts

\* A step of a handler, of the pool or of the process keeps the types.
LEMMA HandlersStep == HandlersOK /\ [Next]_vars => HandlersOK'
<1> SUFFICES ASSUME HandlersOK, [Next]_vars PROVE HandlersOK'
  OBVIOUS
<1> USE DEF HandlersOK, Waiting, Ended
<1>1. ASSUME NEW r \in Requests, Handler(r) \/ Disconnect(r) \/ Panic(r) PROVE HandlersOK'
  <2>1. \E from \in Waiting \cup {"new", "observe", "count"},
           to \in Waiting \cup Ended \cup {"observe", "count"} : Goes(r, from, to)
    BY <1>1 DEF Handler, ActiveInc, NoWait, Sleep, SpawnBlocking, Resume, Dec, Observe,
                CountDone, Disconnect, Panic
  <2>2. pc' \in [Requests -> Waiting \cup Ended \cup {"new", "observe", "count"}]
    BY <2>1 DEF Goes
  <2>3. endpoint' = endpoint /\ (job' = job \/ job' = [job EXCEPT ![r] = "queued"])
    BY <1>1 DEF Handler, ActiveInc, NoWait, Sleep, SpawnBlocking, Resume, Dec, Observe,
                CountDone, Disconnect, Panic
  <2>4. QED
    BY <2>2, <2>3
<1>2. ASSUME NEW r \in Requests, Pool(r) PROVE HandlersOK'
  BY <1>2 DEF Pool, JobStarts, JobFinishes
<1>3. CASE Restart
  BY <1>3 DEF Restart
<1>4. CASE UNCHANGED vars
  BY <1>4 DEF vars
<1>5. QED
  BY <1>1, <1>2, <1>3, <1>4 DEF Next

\* Each metric is updated in the step in which the request enters or leaves what it counts.
LEMMA AccountsStep == HandlersOK /\ Accounts /\ [Next]_vars => Accounts'
<1> SUFFICES ASSUME HandlersOK, Accounts, [Next]_vars PROVE Accounts'
  OBVIOUS
<1> USE DEF Accounts
<1>0. /\ pc = [q \in Requests |-> pc[q]]
      /\ OnGauge = {"started", "wait", "record", "dropped"}
  BY DEF HandlersOK, OnGauge, Waiting
<1>1. ASSUME NEW r \in Requests, ActiveInc(r) PROVE Accounts'
  <2>1. Goes(r, "new", "started") /\ active' = active + 1 /\ UNCHANGED <<observed, total>>
    BY <1>1 DEF ActiveInc
  <2>2. QED
    BY <2>1, <1>0, Moves
<1>2. ASSUME NEW r \in Requests, NoWait(r) \/ Sleep(r) \/ SpawnBlocking(r) \/ Resume(r)
                                 \/ Disconnect(r) \/ Panic(r)
      PROVE  Accounts'
  <2>1. PICK from \in OnGauge, to \in OnGauge : Goes(r, from, to)
    BY <1>2, <1>0 DEF NoWait, Sleep, SpawnBlocking, Resume, Disconnect, Panic
  <2>2. UNCHANGED <<active, observed, total>>
    BY <1>2 DEF NoWait, Sleep, SpawnBlocking, Resume, Disconnect, Panic, metrics
  <2>3. QED
    BY <2>1, <2>2, <1>0, Moves
<1>3. ASSUME NEW r \in Requests, Dec(r) PROVE Accounts'
  <2>1. Goes(r, "record", "observe") /\ active' = active - 1 /\ UNCHANGED <<observed, total>>
    BY <1>3 DEF Dec
  <2>2. QED
    BY <2>1, <1>0, Moves
<1>4. ASSUME NEW r \in Requests, Observe(r) PROVE Accounts'
  <2>1. Goes(r, "observe", "count") /\ observed' = observed + 1 /\ UNCHANGED <<active, total>>
    BY <1>4 DEF Observe
  <2>2. QED
    BY <2>1, <1>0, Moves
<1>5. ASSUME NEW r \in Requests, CountDone(r) PROVE Accounts'
  <2>1. Goes(r, "count", "done") /\ total' = total + 1 /\ UNCHANGED <<active, observed>>
    BY <1>5 DEF CountDone
  <2>2. QED
    BY <2>1, <1>0, Moves
<1>6. ASSUME UNCHANGED <<pc, metrics>> PROVE Accounts'
  BY <1>6 DEF metrics, InState
<1>7. CASE Restart
  <2>1. active' = 0 /\ observed' = 0 /\ total' = 0
    BY <1>7 DEF Restart
  <2>2. InState(OnGauge)' = {} /\ InState({"count", "done"})' = {} /\ InState({"done"})' = {}
    BY <1>7, <1>0 DEF Restart, InState
  <2>3. QED
    BY <2>1, <2>2, FS_EmptySet
<1>8. ASSUME NEW r \in Requests, Pool(r) PROVE Accounts'
  BY <1>6, <1>8 DEF Pool, JobStarts, JobFinishes
<1>9. CASE UNCHANGED vars
  BY <1>6, <1>9 DEF vars
<1>10. QED
  BY <1>1, <1>2, <1>3, <1>4, <1>5, <1>7, <1>8, <1>9 DEF Next, Handler

-----------------------------------------------------------------------------
\* Every step keeps both conjuncts of the invariant.
LEMMA InvariantHolds == Spec => []IInv
<1>1. IInv /\ [Next]_vars => IInv'
  BY HandlersStep, AccountsStep DEF IInv
<1>2. QED
  BY InvInit, <1>1, PTL DEF Spec

\* The gauge never underflows, and is the requests in flight and those dropped in flight
\* since the process started, for any requests, pool and faults.
THEOREM GaugeKeepsDropped == Spec => []GaugeAccounts
<1>1. ASSUME IInv PROVE GaugeAccounts
  <2>1. active \in Nat /\ observed \in Nat /\ total \in Nat
    BY <1>1, InStateFinite DEF IInv, Accounts
  <2>2. QED
    BY <1>1, <2>1 DEF IInv, Accounts, HandlersOK, OnGauge, GaugeAccounts, TypeOK
<1>2. QED
  BY <1>1, InvariantHolds, PTL

\* The histogram counts a request before the counter does, and neither before it has left
\* the gauge, whatever the threads do.
THEOREM MetricsInOrder == Spec => []DoneAccounts
<1>1. IInv => DoneAccounts
  BY DEF IInv, Accounts, DoneAccounts
<1>2. QED
  BY <1>1, InvariantHolds, PTL

=============================================================================
