------------------------ MODULE FaultInjectionProofs ------------------------
(***************************************************************************)
(* Theorems about FaultInjection, for any number of pods and of polls and  *)
(* any faults: type correctness, what a reported recovery means, and what  *)
(* the script can leave running, when.                                     *)
(***************************************************************************)
EXTENDS FaultInjection, TLAPS

USE PollAssumption

\* One case per command of the script: what the proof of a step is split into.
LEMMA NextCases ==
  ASSUME [Next]_vars
  PROVE  \/ Cluster \/ Configure \/ StartForward \/ SetTrap \/ StartLoad \/ SetK6Pid
         \/ DeletePods \/ ReadReady \/ ReadTotal \/ Decide \/ LoadEnds
         \/ WriteResult \/ CommandFails \/ Interrupted \/ UNCHANGED vars
BY DEF Next, Script

\* Every way to exit does the same.
LEMMA ExitCases ==
  ASSUME WriteResult \/ CommandFails \/ Interrupted
  PROVE  Exit
BY DEF WriteResult, CommandFails, Interrupted

\* What the cluster does on its own: it asks for as many pods as before, runs no more than
\* that, and stops serving a pod only if a probe fails.
LEMMA ClusterEffect ==
  ASSUME Cluster, replicas \in Nat, serving \in Nat, starting \in Nat, leaving \in Nat,
         serving + starting <= replicas
  PROVE  /\ UNCHANGED <<replicas, lingering, flaky, pc, READY, TOTAL, polls, outcome, jobs>>
         /\ serving' \in Nat /\ starting' \in Nat /\ serving' + starting' <= replicas
         /\ leaving' \in 0..leaving
         /\ ~flaky => serving' >= serving
BY DEF Cluster, Replace, BecomesReady, ProbeFails, Leaves

-----------------------------------------------------------------------------
\* The commands before the loop, and those of the loop.
BeforeDelete == {"apply", "forward", "trap", "load", "k6_pid", "delete"}
InLoop == {"ready", "total", "decide"}

\* Until the script deletes the pods none is leaving: it deletes them once, so that never
\* more are leaving than were asked for.
LeavingInv == pc \in BeforeDelete => leaving = 0

\* What the loop has read is still so when it is used: as long as a deleted pod is not
\* Ready, READY counted pods that are asked for, and if no probe fails they serve still.
ReadInv ==
  /\ pc \in BeforeDelete \cup InLoop => outcome = "none"
  /\ (~lingering /\ pc \in {"total", "decide"}) => READY <= replicas
  /\ (~lingering /\ ~flaky /\ pc \in {"total", "decide"}) => READY <= serving
  /\ (~lingering /\ outcome = "recovered") => Required <= replicas
  /\ (~lingering /\ ~flaky /\ outcome = "recovered") => Required <= serving

\* What the script has started and set by the time it is at a command.
BeforeTrap == {"apply", "forward", "trap"}
JobsInv ==
  /\ pc # "exit" => (trapped <=> pc \notin BeforeTrap)
  /\ pc # "exit" => (K6_PID <=> pc \notin BeforeTrap \cup {"load", "k6_pid"})
  /\ pc \in {"apply", "forward"} => ~forward
  /\ pc \in BeforeTrap \cup {"load"} => ~load

IInv == TypeOK /\ LeavingInv /\ ReadInv /\ JobsInv /\ LeftOnlyInGaps

\* All of the pods are serving and the script has not begun.
LEMMA InvInit == Init => IInv
<1> SUFFICES ASSUME Init PROVE IInv
  OBVIOUS
<1>1. replicas \in Nat /\ 0 \in 0..replicas /\ 0 \in 0..MaxPolls
  BY DEF Init
<1>2. TypeOK
  <2>1. /\ serving = replicas /\ starting = 0 /\ leaving = 0 /\ READY = 0 /\ TOTAL = 0
        /\ polls = 0 /\ pc = "apply" /\ outcome = "none" /\ lingering \in BOOLEAN
        /\ flaky \in BOOLEAN /\ trapped = FALSE /\ K6_PID = FALSE /\ forward = FALSE
        /\ load = FALSE /\ exitedAt = "nowhere"
    BY DEF Init
  <2>2. serving \in Nat /\ starting \in Nat /\ serving + starting <= replicas
    BY <1>1, <2>1
  <2>3. QED
    BY <1>1, <2>1, <2>2 DEF TypeOK, Places
<1>3. LeavingInv /\ ReadInv /\ JobsInv /\ LeftOnlyInGaps
  BY DEF Init, LeavingInv, ReadInv, JobsInv, BeforeTrap, LeftOnlyInGaps
<1>4. QED
  BY <1>2, <1>3 DEF IInv

\* No step takes a variable out of its type.
LEMMA TypeStep == TypeOK /\ LeavingInv /\ [Next]_vars => TypeOK'
<1> SUFFICES ASSUME TypeOK, LeavingInv, [Next]_vars PROVE TypeOK'
  OBVIOUS
<1> USE DEF TypeOK, Places
<1>1. CASE Cluster
  BY <1>1, ClusterEffect DEF jobs
<1>2. CASE Configure \/ StartForward \/ SetTrap \/ StartLoad \/ SetK6Pid
  <2>1. pc' \in Places /\ UNCHANGED <<cluster, READY, TOTAL, polls, outcome, exitedAt>>
    BY <1>2 DEF Configure, StartForward, SetTrap, StartLoad, SetK6Pid, At, jobs
  <2>2. /\ trapped' \in BOOLEAN /\ K6_PID' \in BOOLEAN
        /\ forward' \in BOOLEAN /\ load' \in BOOLEAN
    BY <1>2 DEF Configure, StartForward, SetTrap, StartLoad, SetK6Pid, jobs
  <2>3. QED
    BY <2>1, <2>2 DEF cluster
<1>3. CASE DeletePods
  <2>1. leaving = 0 /\ leaving' = leaving + serving + starting
    BY <1>3 DEF DeletePods, At, LeavingInv, BeforeDelete
  <2>2. QED
    BY <1>3, <2>1 DEF DeletePods, At, jobs
<1>4. CASE ReadReady \/ ReadTotal
  BY <1>4 DEF ReadReady, ReadTotal, At, cluster, jobs
<1>5. CASE Decide
  BY <1>5 DEF Decide, At, TimesOut, cluster, jobs
<1>6. CASE LoadEnds
  <2>1. load' = FALSE /\ UNCHANGED <<cluster, pc, READY, TOTAL, polls, outcome, trapped, K6_PID,
                                    forward, exitedAt>>
    BY <1>6 DEF LoadEnds
  <2>2. /\ trapped' \in BOOLEAN /\ K6_PID' \in BOOLEAN
        /\ forward' \in BOOLEAN /\ load' \in BOOLEAN
    BY <2>1, Zenon
  <2>3. QED
    BY <2>1, <2>2 DEF cluster
<1>7. CASE WriteResult \/ CommandFails \/ Interrupted
  <2>1. pc' = "exit" /\ exitedAt' = pc
        /\ UNCHANGED <<cluster, READY, TOTAL, polls, outcome, trapped, K6_PID>>
    BY <1>7, ExitCases DEF Exit
  <2>2. forward' \in BOOLEAN /\ load' \in BOOLEAN
    BY <1>7, ExitCases, Zenon DEF Exit, Cleanup
  <2>3. QED
    BY <2>1, <2>2 DEF cluster
<1>8. CASE UNCHANGED vars
  BY <1>8 DEF vars, cluster, jobs
<1>9. QED
  BY <1>1, <1>2, <1>3, <1>4, <1>5, <1>6, <1>7, <1>8, NextCases

\* Only DeletePods makes pods leave, and the script does not come back to it.
LEMMA LeavingStep == TypeOK /\ LeavingInv /\ [Next]_vars => LeavingInv'
<1> SUFFICES ASSUME TypeOK, LeavingInv, [Next]_vars PROVE LeavingInv'
  OBVIOUS
<1> USE DEF LeavingInv, BeforeDelete
<1>1. CASE Cluster
  BY <1>1, ClusterEffect DEF TypeOK
<1>2. CASE Configure \/ StartForward \/ SetTrap \/ StartLoad \/ SetK6Pid
  BY <1>2 DEF Configure, StartForward, SetTrap, StartLoad, SetK6Pid, At, cluster
<1>3. CASE DeletePods \/ ReadReady \/ ReadTotal \/ Decide
  BY <1>3 DEF DeletePods, ReadReady, ReadTotal, Decide, At
<1>4. CASE LoadEnds \/ UNCHANGED vars
  BY <1>4 DEF LoadEnds, vars, cluster
<1>5. CASE WriteResult \/ CommandFails \/ Interrupted
  BY <1>5, ExitCases DEF Exit
<1>6. QED
  BY <1>1, <1>2, <1>3, <1>4, <1>5, NextCases

\* Between the two reads and the decision pods come and go, but while no probe fails and
\* nothing deleted is Ready, as many as were read keep serving.
LEMMA ReadStep == TypeOK /\ ReadInv /\ [Next]_vars => ReadInv'
<1> SUFFICES ASSUME TypeOK, ReadInv, [Next]_vars PROVE ReadInv'
  OBVIOUS
<1> USE DEF ReadInv, BeforeDelete, InLoop
<1>1. CASE Cluster
  <2>1. /\ UNCHANGED <<replicas, lingering, flaky, pc, READY, outcome>>
        /\ serving' \in Nat
        /\ ~flaky => serving' >= serving
    BY <1>1, ClusterEffect DEF TypeOK
  <2>2. READY \in Nat /\ serving \in Nat
    BY DEF TypeOK
  <2>3. QED
    BY <2>1, <2>2
<1>2. CASE Configure \/ StartForward \/ SetTrap \/ StartLoad \/ SetK6Pid
  BY <1>2 DEF Configure, StartForward, SetTrap, StartLoad, SetK6Pid, At, cluster
<1>3. CASE DeletePods
  BY <1>3 DEF DeletePods, At
<1>4. CASE ReadReady
  <2>1. /\ READY' = serving + (IF lingering THEN leaving ELSE 0)
        /\ pc' = "total" /\ outcome = "none" /\ UNCHANGED <<outcome, cluster>>
    BY <1>4 DEF ReadReady, At
  <2>2. ~lingering => READY' = serving /\ serving <= replicas
    BY <2>1 DEF TypeOK
  <2>3. QED
    BY <2>1, <2>2 DEF cluster, TypeOK
<1>5. CASE ReadTotal
  BY <1>5 DEF ReadTotal, At, cluster
<1>6. CASE Decide
  <2>1. pc = "decide" /\ UNCHANGED <<cluster, READY>>
    BY <1>6 DEF Decide, At
  <2>2. \/ pc' = "wait" /\ outcome' = "recovered" /\ Required <= READY
        \/ pc' = "wait" /\ outcome' = "timedOut"
        \/ pc' = "ready" /\ outcome' = outcome
    BY <1>6 DEF Decide, At, Enough, TypeOK
  <2>3. /\ ~lingering => READY <= replicas
        /\ ~lingering /\ ~flaky => READY <= serving
        /\ outcome = "none"
    BY <2>1
  <2>4. READY \in Nat /\ serving \in Nat /\ replicas \in Nat /\ Required \in Nat
    BY DEF TypeOK
  <2>5. QED
    BY <2>1, <2>2, <2>3, <2>4 DEF cluster
<1>7. CASE LoadEnds \/ UNCHANGED vars
  BY <1>7 DEF LoadEnds, vars, cluster
<1>8. CASE WriteResult \/ CommandFails \/ Interrupted
  BY <1>8, ExitCases DEF Exit, cluster
<1>9. QED
  BY <1>1, <1>2, <1>3, <1>4, <1>5, <1>6, <1>7, <1>8, NextCases

\* A command starts a job, sets a variable or sets the trap in its turn, and none undoes it.
LEMMA JobsStep == JobsInv /\ [Next]_vars => JobsInv'
<1> SUFFICES ASSUME JobsInv, [Next]_vars PROVE JobsInv'
  OBVIOUS
<1> USE DEF JobsInv, BeforeTrap
<1>1. CASE Configure \/ StartForward \/ SetTrap \/ StartLoad \/ SetK6Pid
  BY <1>1 DEF Configure, StartForward, SetTrap, StartLoad, SetK6Pid, At, jobs
<1>2. CASE DeletePods \/ ReadReady \/ ReadTotal \/ Decide
  BY <1>2 DEF DeletePods, ReadReady, ReadTotal, Decide, At, jobs
<1>3. CASE Cluster \/ LoadEnds \/ UNCHANGED vars
  BY <1>3 DEF Cluster, LoadEnds, vars, jobs
<1>4. CASE WriteResult \/ CommandFails \/ Interrupted
  BY <1>4, ExitCases DEF Exit
<1>5. QED
  BY <1>1, <1>2, <1>3, <1>4, NextCases

\* Only an exit ends the script; the trap, if it is set, kills the port-forward, and k6 too
\* if its variable is set.
LEMMA LeftStep == JobsInv /\ LeftOnlyInGaps /\ [Next]_vars => LeftOnlyInGaps'
<1> SUFFICES ASSUME JobsInv, LeftOnlyInGaps, [Next]_vars PROVE LeftOnlyInGaps'
  OBVIOUS
<1> USE DEF LeftOnlyInGaps
<1>1. CASE \/ Configure \/ StartForward \/ SetTrap \/ StartLoad \/ SetK6Pid
           \/ DeletePods \/ ReadReady \/ ReadTotal \/ Decide
  BY <1>1 DEF Configure, StartForward, SetTrap, StartLoad, SetK6Pid, DeletePods, ReadReady,
              ReadTotal, Decide, At
<1>2. CASE Cluster \/ LoadEnds \/ UNCHANGED vars
  BY <1>2 DEF Cluster, LoadEnds, vars, jobs
<1>3. CASE WriteResult \/ CommandFails \/ Interrupted
  <2>1. /\ pc' = "exit" /\ exitedAt' = pc
        /\ IF trapped THEN forward' = FALSE /\ load' = (load /\ ~K6_PID)
                      ELSE UNCHANGED <<forward, load>>
    BY <1>3, ExitCases DEF Exit, Cleanup
  <2>2. pc # "exit"
    BY <1>3 DEF WriteResult, CommandFails, Interrupted
  <2>3. forward' => pc = "trap"
    BY <2>1, <2>2 DEF JobsInv, BeforeTrap
  <2>4. load' => pc = "k6_pid"
    BY <2>1, <2>2 DEF JobsInv, BeforeTrap
  <2>5. QED
    BY <2>1, <2>3, <2>4
<1>4. QED
  BY <1>1, <1>2, <1>3, NextCases

-----------------------------------------------------------------------------
\* Every step keeps every conjunct of the invariant.
LEMMA InvariantHolds == Spec => []IInv
<1>1. IInv /\ [Next]_vars => IInv'
  BY TypeStep, LeavingStep, ReadStep, JobsStep, LeftStep DEF IInv
<1>2. QED
  BY InvInit, <1>1, PTL DEF Spec

\* A reported recovery is real, for any number of pods and of polls, if a deleted pod stops
\* being Ready at once and no probe fails; and every variable has its type.
THEOREM RecoveryIsReal == Spec => []RecoveredIfGone
<1>1. IInv => RecoveredIfGone
  BY DEF IInv, TypeOK, ReadInv, RecoveredIfGone, RecoveredMeansServing
<1>2. QED
  BY <1>1, InvariantHolds, PTL

\* With fewer pods asked for than the loop waits for, no recovery is reported, even if
\* probes fail.
THEOREM ScaledDownNeverRecovers == Spec => []ScaledDownTimesOut
<1>1. IInv => ScaledDownTimesOut
  BY DEF IInv, TypeOK, ReadInv, ScaledDownTimesOut
<1>2. QED
  BY <1>1, InvariantHolds, PTL

\* Wherever the script fails or is interrupted, the port-forward outlives it only from before
\* the trap is set, and k6 only from the moment between its start and its variable.
THEOREM TrapCleansUp == Spec => []LeftOnlyInGaps
<1>1. IInv => LeftOnlyInGaps
  BY DEF IInv
<1>2. QED
  BY <1>1, InvariantHolds, PTL

=============================================================================
