-------------------------- MODULE FaultInjection --------------------------
(***************************************************************************)
(* project/experiments/fault_injection.sh: it starts load, deletes every   *)
(* worker pod and polls until four are Ready, and the part of Kubernetes   *)
(* it talks to.  The cluster is external: its pods, which differ in nothing*)
(* the script can see, are counts.                                         *)
(***************************************************************************)
EXTENDS Naturals

CONSTANTS Required,  \* pods the loop waits for, 4 in the script
          MaxPolls,  \* bound: iterations until TIMEOUT has passed
          Faults     \* subset of {"command", "signal"}

\* "command": kubectl fails.  "signal": the script is interrupted.
ASSUME PollAssumption == /\ Required \in Nat \ {0} /\ MaxPolls \in Nat
                         /\ Faults \subseteq {"command", "signal"}

VARIABLES
  replicas,   \* what the two Deployments ask for, 3 + 1 unless the HPA has scaled
  lingering,  \* a deleted pod's container is Ready until it is killed
  flaky,      \* a pod under load may fail its readiness probe
  serving,    \* pods that are Ready and not deleted
  starting,   \* pods that are not Ready and not deleted
  leaving,    \* pods that are deleted and not yet gone
  pc,         \* the next command of the script
  READY,      \* the shell variables of the loop
  TOTAL,
  polls,      \* iterations of the loop
  outcome,    \* how the loop ended
  trapped,    \* the trap on EXIT is set
  K6_PID,     \* the variable of that name is set
  forward, load,  \* the port-forward and k6 run in the background
  exitedAt    \* history: the command the script was to run next when it exited

cluster == <<replicas, lingering, flaky, serving, starting, leaving>>
jobs == <<trapped, K6_PID, forward, load, exitedAt>>
vars == <<cluster, pc, READY, TOTAL, polls, outcome, jobs>>

Init ==
  /\ replicas \in {Required, Required - 1} /\ lingering \in BOOLEAN /\ flaky \in BOOLEAN
  /\ serving = replicas /\ starting = 0 /\ leaving = 0
  /\ pc = "apply" /\ READY = 0 /\ TOTAL = 0 /\ polls = 0 /\ outcome = "none"
  /\ trapped = FALSE /\ K6_PID = FALSE /\ forward = FALSE /\ load = FALSE
  /\ exitedAt = "nowhere"

-----------------------------------------------------------------------------
\* The cluster.

\* The controllers replace a pod as soon as it is deleted.
Replace == /\ serving + starting < replicas
           /\ starting' = starting + 1
           /\ UNCHANGED <<replicas, lingering, flaky, serving, leaving>>

BecomesReady == /\ starting > 0
                /\ starting' = starting - 1 /\ serving' = serving + 1
                /\ UNCHANGED <<replicas, lingering, flaky, leaving>>

ProbeFails == /\ flaky /\ serving > 0
              /\ starting' = starting + 1 /\ serving' = serving - 1
              /\ UNCHANGED <<replicas, lingering, flaky, leaving>>

\* SIGTERM does not end the worker, process 1 of its container without a
\* handler: a deleted pod is killed after its grace period.
Leaves == /\ leaving > 0
          /\ leaving' = leaving - 1
          /\ UNCHANGED <<replicas, lingering, flaky, serving, starting>>

Cluster == /\ Replace \/ BecomesReady \/ ProbeFails \/ Leaves
           /\ UNCHANGED <<pc, READY, TOTAL, polls, outcome, jobs>>

-----------------------------------------------------------------------------
\* Slips: the trap kills k6 first; the loop counts pods, Ready or not, or warns at its
\* timeout and goes on.
CleanupLoadFirst ==
  IF K6_PID THEN forward' = FALSE /\ load' = FALSE ELSE UNCHANGED <<forward, load>>
EnoughTotal == TOTAL >= Required

-----------------------------------------------------------------------------
\* The script.

At(here, next) == pc = here /\ pc' = next

\* Slip: the branch of the timeout has no break.
DecideNoBreak ==
  \/ /\ TOTAL >= Required /\ READY >= Required /\ At("decide", "wait")
     /\ outcome' = "recovered"
     /\ UNCHANGED <<cluster, READY, TOTAL, polls, jobs>>
  \/ /\ ~(TOTAL >= Required /\ READY >= Required) /\ At("decide", "ready")
     /\ polls' = IF polls < MaxPolls THEN polls + 1 ELSE polls
     /\ UNCHANGED <<cluster, READY, TOTAL, outcome, jobs>>

\* kubectl apply, rollout restart and rollout status of Envoy.
Configure == /\ At("apply", "forward")
             /\ UNCHANGED <<cluster, READY, TOTAL, polls, outcome, jobs>>

StartForward == /\ At("forward", "trap")
                /\ forward' = TRUE
                /\ UNCHANGED <<cluster, READY, TOTAL, polls, outcome, trapped, K6_PID, load,
                               exitedAt>>

\* After a sleep of 3 s.
SetTrap == /\ At("trap", "load")
           /\ trapped' = TRUE
           /\ UNCHANGED <<cluster, READY, TOTAL, polls, outcome, K6_PID, forward, load, exitedAt>>

\* k6 is started in the background, and its variable is set after it.
StartLoad == /\ At("load", "k6_pid")
             /\ load' = TRUE
             /\ UNCHANGED <<cluster, READY, TOTAL, polls, outcome, trapped, K6_PID, forward,
                            exitedAt>>

SetK6Pid == /\ At("k6_pid", "delete")
            /\ K6_PID' = TRUE
            /\ UNCHANGED <<cluster, READY, TOTAL, polls, outcome, trapped, forward, load, exitedAt>>

\* kubectl delete --wait=false: every pod is marked, none is gone.
DeletePods == /\ At("delete", "ready")
              /\ leaving' = leaving + serving + starting
              /\ serving' = 0 /\ starting' = 0
              /\ UNCHANGED <<replicas, lingering, flaky, READY, TOTAL, polls, outcome, jobs>>

\* Two calls of kubectl get, one after the other.
ReadReady == /\ At("ready", "total")
             /\ READY' = serving + IF lingering THEN leaving ELSE 0
             /\ UNCHANGED <<cluster, TOTAL, polls, outcome, jobs>>

ReadTotal == /\ At("total", "decide")
             /\ TOTAL' = serving + starting + leaving
             /\ UNCHANGED <<cluster, READY, polls, outcome, jobs>>

Enough == TOTAL >= Required /\ READY >= Required
TimesOut == polls = MaxPolls

Decide ==
  \/ /\ Enough /\ At("decide", "wait")
     /\ outcome' = "recovered"
     /\ UNCHANGED <<cluster, READY, TOTAL, polls, jobs>>
  \/ /\ ~Enough /\ TimesOut /\ At("decide", "wait")
     /\ outcome' = "timedOut"
     /\ UNCHANGED <<cluster, READY, TOTAL, polls, jobs>>
  \/ /\ ~Enough /\ ~TimesOut /\ At("decide", "ready")
     /\ polls' = polls + 1
     /\ UNCHANGED <<cluster, READY, TOTAL, outcome, jobs>>

\* k6 ends by itself after its 60 s, also when the script has left it behind.
LoadEnds == /\ load
            /\ load' = FALSE
            /\ UNCHANGED <<cluster, pc, READY, TOTAL, polls, outcome, trapped, K6_PID, forward,
                           exitedAt>>

\* cleanup, on any exit once the trap is set.  It kills the port-forward first, and
\* under set -u it ends at K6_PID if that is not set.
Cleanup == forward' = FALSE /\ load' = (load /\ ~K6_PID)
Exit == /\ pc' = "exit" /\ exitedAt' = pc
        /\ IF trapped THEN Cleanup ELSE UNCHANGED <<forward, load>>
        /\ UNCHANGED <<cluster, READY, TOTAL, polls, outcome, trapped, K6_PID>>

\* wait "$K6_PID", then the result file: also when the loop timed out.
WriteResult == pc = "wait" /\ ~load /\ Exit

\* set -e: a command that is not guarded by || true ends the script.
CommandFails == /\ "command" \in Faults /\ pc \in {"apply", "delete"}
                /\ Exit
Interrupted == /\ "signal" \in Faults /\ pc # "exit"
               /\ Exit

Script == \/ Configure \/ StartForward \/ SetTrap \/ StartLoad \/ SetK6Pid \/ DeletePods
          \/ ReadReady \/ ReadTotal \/ Decide \/ LoadEnds \/ WriteResult

Next == Cluster \/ Script \/ CommandFails \/ Interrupted
Spec == Init /\ [][Next]_vars
\* The shell goes on to its next command, and k6 runs for a fixed time.
FairSpec == Spec /\ WF_vars(Script)

-----------------------------------------------------------------------------
Places == {"apply", "forward", "trap", "load", "k6_pid", "delete", "ready", "total", "decide",
           "wait", "exit"}

\* Every variable has its type; no more pods than asked for and as many leaving.
TypeOK ==
  /\ replicas \in Nat /\ lingering \in BOOLEAN /\ flaky \in BOOLEAN
  /\ serving \in Nat /\ starting \in Nat /\ serving + starting <= replicas
  /\ leaving \in 0..replicas
  /\ pc \in Places /\ exitedAt \in Places \cup {"nowhere"}
  /\ READY \in Nat /\ TOTAL \in Nat /\ polls \in 0..MaxPolls
  /\ outcome \in {"none", "recovered", "timedOut"}
  /\ trapped \in BOOLEAN /\ K6_PID \in BOOLEAN /\ forward \in BOOLEAN /\ load \in BOOLEAN

\* "Waiting for all pods to become Ready again": when the loop reports a
\* recovery, as many pods as it waits for are serving.
RecoveredMeansServing == outcome = "recovered" => serving >= Required

\* Every variable has its type, and a recovery is real if a deleted pod stops being
\* Ready at once and no probe fails, though READY and TOTAL are read at different times.
RecoveredIfGone == TypeOK /\ (~lingering /\ ~flaky => RecoveredMeansServing)

\* A cluster the HPA has scaled to less than four pods is never reported as
\* recovered on the strength of its own pods.
ScaledDownTimesOut == ~lingering /\ replicas < Required => outcome # "recovered"

\* However the script ends, it leaves the port-forward running only if it ended before the
\* trap was set, and k6 only if it was interrupted between the start of k6 and the assignment
\* of K6_PID, which the trap needs.
LeftOnlyInGaps ==
  pc = "exit" => (forward => exitedAt = "trap") /\ (load => exitedAt = "k6_pid")

\* The script ends, whatever the pods do.
ScriptEnds == <>(pc = "exit")

=============================================================================
