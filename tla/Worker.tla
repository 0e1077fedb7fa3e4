------------------------------- MODULE Worker -------------------------------
(***************************************************************************)
(* The HTTP worker of project/worker/src/main.rs: the handlers of /get,    *)
(* /work and /cpu, the metrics they update, and what can end a handler     *)
(* between two of its steps.  The runtime is multi-threaded: the metrics   *)
(* are updated one at a time, and /metrics may read any of them in between *)
(* (handle_metrics and handle_health change nothing and have no action).   *)
(* The metrics are those of one pod, which is one process.                 *)
(***************************************************************************)
EXTENDS Naturals, FiniteSets

CONSTANTS Requests,  \* the requests the pod receives
          PoolSize,  \* threads for blocking tasks, 512 by default in tokio
          Faults     \* subset of {"disconnect", "panic", "restart"}

ASSUME WorkerAssumption == /\ IsFiniteSet(Requests) /\ PoolSize \in Nat \ {0}
                           /\ Faults \subseteq {"disconnect", "panic", "restart"}

Endpoints == {"get", "work", "cpu"}

VARIABLES
  endpoint,  \* endpoint[r]: the handler the router gives r to
  pc,        \* pc[r]: where that handler is
  job,       \* job[r]: the blocking task of a /cpu request
  active,    \* worker_active_requests
  observed,  \* the count of worker_request_duration_seconds
  total      \* worker_requests_total, over its labels

metrics == <<active, observed, total>>
vars == <<endpoint, pc, job, metrics>>

InState(S) == {r \in Requests : pc[r] \in S}
Goes(r, from, to) == pc[r] = from /\ pc' = [pc EXCEPT ![r] = to]

Init ==
  /\ endpoint \in [Requests -> Endpoints]
  /\ pc = [r \in Requests |-> "new"]
  /\ job = [r \in Requests |-> "none"]
  /\ active = 0 /\ observed = 0 /\ total = 0

-----------------------------------------------------------------------------
\* Slips: record_done forgets the gauge, or updates the counter before the
\* histogram; a task does not look at its deadline.
DecForgotten(r) ==
  /\ Goes(r, "record", "observe")
  /\ UNCHANGED <<endpoint, job, metrics>>
ObserveCounts(r) ==
  /\ Goes(r, "observe", "count") /\ total' = total + 1
  /\ UNCHANGED <<endpoint, job, active, observed>>
JobSpinsOn(r) == FALSE /\ job[r] = "spin" /\ UNCHANGED vars

-----------------------------------------------------------------------------
\* The handlers.  Only /work and /cpu wait, and only /work may not have to.

ActiveInc(r) ==
  /\ Goes(r, "new", "started")
  /\ active' = active + 1
  /\ UNCHANGED <<endpoint, job, observed, total>>

\* /get, and /work without a delay, run on to record_done.
NoWait(r) ==
  /\ endpoint[r] \in {"get", "work"} /\ Goes(r, "started", "record")
  /\ UNCHANGED <<endpoint, job, metrics>>

Sleep(r) ==
  /\ endpoint[r] = "work" /\ Goes(r, "started", "wait")
  /\ UNCHANGED <<endpoint, job, metrics>>

SpawnBlocking(r) ==
  /\ endpoint[r] = "cpu" /\ Goes(r, "started", "wait")
  /\ job' = [job EXCEPT ![r] = "queued"]
  /\ UNCHANGED <<endpoint, metrics>>

\* The delay is over, or the blocking task has returned.
Resume(r) ==
  /\ endpoint[r] = "cpu" => job[r] = "finished"
  /\ Goes(r, "wait", "record")
  /\ UNCHANGED <<endpoint, job, metrics>>

\* record_done: three updates that other threads can see one by one.
Dec(r) ==
  /\ Goes(r, "record", "observe")
  /\ active' = active - 1
  /\ UNCHANGED <<endpoint, job, observed, total>>

Observe(r) ==
  /\ Goes(r, "observe", "count")
  /\ observed' = observed + 1
  /\ UNCHANGED <<endpoint, job, active, total>>

CountDone(r) ==
  /\ Goes(r, "count", "done")
  /\ total' = total + 1
  /\ UNCHANGED <<endpoint, job, active, observed>>

Handler(r) == \/ ActiveInc(r) \/ NoWait(r) \/ Sleep(r) \/ SpawnBlocking(r)
              \/ Resume(r) \/ Dec(r) \/ Observe(r) \/ CountDone(r)

-----------------------------------------------------------------------------
\* The blocking pool.  A task runs to its deadline whether or not its handler
\* is still there to read the result.

PoolHasRoom == Cardinality({r \in Requests : job[r] = "spin"}) < PoolSize

JobStarts(r) ==
  /\ job[r] = "queued" /\ PoolHasRoom
  /\ job' = [job EXCEPT ![r] = "spin"]
  /\ UNCHANGED <<endpoint, pc, metrics>>

JobFinishes(r) ==
  /\ job[r] = "spin"
  /\ job' = [job EXCEPT ![r] = "finished"]
  /\ UNCHANGED <<endpoint, pc, metrics>>

Pool(r) == JobStarts(r) \/ JobFinishes(r)

-----------------------------------------------------------------------------
\* The peer closes the connection while the handler waits: the server drops
\* the handler where it is, and record_done is never called.
Disconnect(r) ==
  /\ "disconnect" \in Faults /\ Goes(r, "wait", "dropped")
  /\ UNCHANGED <<endpoint, job, metrics>>

\* Duration::from_secs_f64 panics on a duration it cannot represent.
Panic(r) ==
  /\ "panic" \in Faults /\ endpoint[r] = "cpu" /\ Goes(r, "started", "dropped")
  /\ UNCHANGED <<endpoint, job, metrics>>

\* The process is killed and started again: the registry is empty, and what
\* was being handled is gone.
Restart ==
  /\ "restart" \in Faults /\ InState({"new"}) # Requests
  /\ pc' = [r \in Requests |-> IF pc[r] = "new" THEN "new" ELSE "lost"]
  /\ job' = [r \in Requests |-> "none"]
  /\ active' = 0 /\ observed' = 0 /\ total' = 0
  /\ UNCHANGED endpoint

Next == \/ \E r \in Requests : Handler(r) \/ Pool(r) \/ Disconnect(r) \/ Panic(r)
        \/ Restart
Spec == Init /\ [][Next]_vars

\* The runtime polls a handler that is ready, and a thread of the pool takes
\* the next task when it is done with one.
FairSpec == Spec /\ \A r \in Requests : WF_vars(Handler(r)) /\ WF_vars(Pool(r))

-----------------------------------------------------------------------------
Waiting == {"started", "wait", "record"}
Ended == {"done", "dropped", "lost"}

\* Every variable has its type; the gauge does not go below zero.
TypeOK ==
  /\ endpoint \in [Requests -> Endpoints]
  /\ pc \in [Requests -> Waiting \cup Ended \cup {"new", "observe", "count"}]
  /\ job \in [Requests -> {"none", "queued", "spin", "finished"}]
  /\ active \in Nat /\ observed \in Nat /\ total \in Nat

\* "Number of in-flight requests per pod.": the gauge is the handlers between active_inc and
\* the subtraction of record_done.
GaugeIsInFlight == active = Cardinality(InState(Waiting))

\* Every variable has its type, and the gauge is above the requests in flight by exactly
\* those that were dropped in flight since the process started, which it never loses again.
GaugeAccounts == TypeOK /\ active = Cardinality(InState(Waiting \cup {"dropped"}))

\* A request is in the histogram before it is in the counter, and in neither
\* before it has left the gauge, whatever the threads do: the metrics read at
\* any moment differ by the requests that are in record_done.
DoneAccounts == /\ observed = Cardinality(InState({"count", "done"}))
                /\ total = Cardinality(InState({"done"}))

\* Every request ends, also when it has to wait for tasks nobody waits for.
EveryRequestEnds == \A r \in Requests : <>(pc[r] \in Ended)

=============================================================================
