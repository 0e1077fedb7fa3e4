--------------------------- MODULE ExperimentSuite ---------------------------
(***************************************************************************)
(* run_all.sh with the scripts it runs, run_experiment.sh,                 *)
(* collect_prometheus.sh and fault_injection.sh, as far as the files in    *)
(* results/ are concerned: which are written, in which order, what they    *)
(* hold, and what is left of them when a command fails or the user stops   *)
(* the suite.  (What fault_injection.sh does inside is FaultInjection.)    *)
(*                                                                         *)
(* A policy and a scenario make an experiment; the fault-injection run of  *)
(* a policy counts as one more, of the scenario "fault".  Every file keeps *)
(* the number of the suite that wrote it, which no script reads.           *)
(***************************************************************************)
EXTENDS K6Output

CONSTANTS Policies,         \* the policies, in the order of the loop
          Scenarios,        \* the scenarios, in the order of the loop
          K6Loads,          \* what a k6 run to its end may write
          PromReads,        \* what Prometheus may answer: latency quantiles, rates
          RecoveryTimes,    \* what fault_injection.sh may measure
          ConfigureSeconds, \* the time from one load to the next, see Configure
          Torn              \* a JSON file whose writer was stopped in the middle

\* A request appends its points in this order, and the last one is 0 or 1.
InOrder(lines) ==
  \A i \in DOMAIN lines :
    /\ lines[i].metric = "http_req_duration" => i > 1 /\ lines[i - 1].metric = "http_reqs"
    /\ lines[i].metric = "http_req_failed" =>
         i > 1 /\ lines[i - 1].metric = "http_req_duration" /\ lines[i].value <= 1

ASSUME SuiteAssumption ==
  /\ \A lines \in K6Loads : lines \in Seq(PointRecord) /\ InOrder(lines)
  /\ Policies \in Seq(STRING) \ {<<>>}
  /\ Scenarios \in Seq({"steady", "burst", "heavy", "spike"})
  /\ Scenarios # <<>> => Scenarios[1] = "steady"
  /\ RecoveryTimes \subseteq Nat /\ ConfigureSeconds \subseteq Nat

VARIABLES
  suite,    \* how many suites have been started
  job,      \* "idle", or what run_all.sh is doing for the head of todo
  todo,     \* the experiments still to run
  failed,   \* FAILED
  verdict,  \* the FAILED it printed at its end; None if it never got there
  k6,       \* k6[p, s]: results/k6-p-s.json
  prom,     \* prom[p, s]: results/prom-p-s.json
  fault,    \* fault[p]: results/fault-p.json
  traffic   \* the loads that sent requests in the last two minutes, see After

suiteVars == <<suite, job, todo, failed, verdict, k6, prom, fault, traffic>>
files == <<k6, prom, fault>>

Names(seq) == {seq[i] : i \in DOMAIN seq}
Experiments == Names(Policies) \X Names(Scenarios)

\* for policy, for scenario; then the fault injections.
Jobs ==
  LET n == Len(Scenarios)
  IN  [i \in 1 .. Len(Policies) * n |->
         <<Policies[1 + ((i - 1) \div n)], Scenarios[1 + ((i - 1) % n)]>>]
      \o [i \in 1 .. Len(Policies) |-> <<Policies[i], "fault">>]

\* The stages of load/k6/*.js added up, and the --duration of a fault injection.
StageSeconds ==
  [steady |-> 30 + 120 + 60, burst |-> 20 + 20 + 20 + 20 + 20,
   heavy |-> 30 + 180 + 30, spike |-> 10 + 10 + 30 + 10 + 10, fault |-> 60]

\* Slip: rates over [5m].
RateWindowLonger == 300

\* The [2m] of collect_prometheus.sh.
RateWindow == 120

SuiteInit ==
  /\ suite = 0 /\ job = "idle" /\ todo = <<>> /\ failed = {} /\ verdict = None
  /\ k6 = [e \in Experiments |-> NoFile]
  /\ prom = [e \in Experiments |-> NoFile]
  /\ fault = [p \in Names(Policies) |-> NoFile]
  /\ traffic = {}

-----------------------------------------------------------------------------
\* Slip: a failed experiment that is not listed.
FailsUnlisted == todo' = Tail(todo) /\ failed' = failed /\ job' = "configure"

-----------------------------------------------------------------------------
Current == Head(todo)
IsFault == Current[2] = "fault"

\* Envoy's counters do not tell whose requests they count: a rate over RateWindow is of every
\* load, of whichever suite and policy, that ended less than so many seconds ago.
After(seconds) ==
  {[t EXCEPT !.ago = @ + seconds] : t \in {u \in traffic : u.ago + seconds < RateWindow}}
Passes(seconds) == traffic' = After(seconds)
Sends(seconds) ==
  traffic' = After(seconds) \cup {[by |-> suite, policy |-> Current[1], ago |-> 0]}

StartSuite ==
  /\ job = "idle"
  /\ suite' = suite + 1 /\ job' = "configure" /\ todo' = Jobs
  /\ failed' = {} /\ verdict' = None
  /\ UNCHANGED <<files, traffic>>

\* The experiment's script exits: with status 0, or with another.
Succeeds == todo' = Tail(todo) /\ failed' = failed /\ job' = "configure"
Fails == todo' = Tail(todo) /\ failed' = failed \cup {Current} /\ job' = "configure"

\* kubectl apply, rollout restart, rollout status and the port-forwards take seconds.  Where
\* a time is not known, after a failure or between two suites, none is counted: the rates
\* reach back as far as they can.
Configure(seconds) ==
  /\ job = "configure" /\ todo # <<>>
  /\ job' = "load"
  /\ Passes(seconds)
  /\ UNCHANGED <<suite, todo, failed, verdict, files>>

\* set -e: a kubectl that fails, or a rollout that times out, ends the script.
ConfigureFails ==
  /\ job = "configure" /\ todo # <<>>
  /\ Fails
  /\ UNCHANGED <<suite, verdict, files, traffic>>

\* The thresholds of load/k6/*.js: k6 exits with 99 if one is crossed.
K6Passes(s, lines) ==
  LET durations == Values(Points(lines, "http_req_duration"))
      failures == Total(Values(Points(lines, "http_req_failed")))
  IN  durations # <<>> =>
        /\ 100 * failures < (IF s = "spike" THEN 5 ELSE 1) * Len(durations)
        /\ Percentile(durations, 95) < 100 * (IF s = "heavy" THEN 2000 ELSE 1500)

\* set -e and pipefail: an exit of k6 other than 0 ends the script before the
\* Prometheus metrics are collected.
RunLoad(lines) ==
  /\ job = "load" /\ ~IsFault
  /\ k6' = [k6 EXCEPT ![Current] = [by |-> suite, lines |-> lines]]
  /\ Sends(StageSeconds[Current[2]])
  /\ IF K6Passes(Current[2], lines)
       THEN job' = "result" /\ UNCHANGED <<todo, failed>>
       ELSE Fails
  /\ UNCHANGED <<suite, verdict, prom, fault>>

\* fault_injection.sh goes on whatever its k6 returns; kubectl delete, which it runs after 20
\* of the load's 60 seconds, may fail.
RunFaultLoad ==
  /\ job = "load" /\ IsFault
  /\ \/ job' = "result" /\ Sends(StageSeconds["fault"]) /\ UNCHANGED <<todo, failed>>
     \/ Fails /\ Sends(20)
  /\ UNCHANGED <<suite, verdict, files>>

\* cat > file: the file is emptied first, and then written.
OpenResult ==
  /\ job = "result"
  /\ job' = "write"
  /\ IF IsFault THEN fault' = [fault EXCEPT ![Current[1]] = Torn] /\ UNCHANGED prom
                ELSE prom' = [prom EXCEPT ![Current] = Torn] /\ UNCHANGED fault
  /\ UNCHANGED <<suite, todo, failed, verdict, k6, traffic>>

\* A query that fails, or whose result is empty, reads null.  Kept with the rates: whose
\* requests they are of.
WritePrometheus(read) ==
  /\ job = "write" /\ ~IsFault
  /\ prom' = [prom EXCEPT ![Current] =
                [by |-> suite, latency_ms |-> read.latency_ms,
                 throughput_rps |-> read.throughput_rps,
                 errors_5xx_rps |-> read.errors_5xx_rps,
                 of |-> {<<t.by, t.policy>> : t \in traffic}]]
  /\ Succeeds
  /\ UNCHANGED <<suite, verdict, k6, fault, traffic>>

WriteRecovery(seconds) ==
  /\ job = "write" /\ IsFault
  /\ fault' = [fault EXCEPT ![Current[1]] = [by |-> suite, recovery_time_s |-> seconds]]
  /\ Succeeds
  /\ UNCHANGED <<suite, verdict, k6, prom, traffic>>

\* The summary that run_all.sh prints.
FinishSuite ==
  /\ job = "configure" /\ todo = <<>>
  /\ job' = "idle" /\ verdict' = failed
  /\ UNCHANGED <<suite, todo, failed, files, traffic>>

\* The user stops the suite; a k6 that runs leaves what it had written, and may
\* have been in the middle of a line.
Stopped == job' = "idle" /\ todo' = <<>>
StopSuite ==
  /\ job # "idle"
  /\ Stopped
  /\ IF job = "load" /\ IsFault THEN Sends(0) ELSE UNCHANGED traffic
  /\ UNCHANGED <<suite, failed, verdict, files>>
StopLoad(lines, n) ==
  /\ job = "load" /\ ~IsFault
  /\ n \in 0 .. Len(lines)
  /\ \E end \in {<<>>, <<CutLine>>} :
       k6' = [k6 EXCEPT ![Current] = [by |-> suite, lines |-> SubSeq(lines, 1, n) \o end]]
  /\ Stopped /\ Sends(0)
  /\ UNCHANGED <<suite, failed, verdict, prom, fault>>

SuiteStep ==
  \/ \E d \in ConfigureSeconds : Configure(d)
  \/ ConfigureFails
  \/ \E lines \in K6Loads : RunLoad(lines)
  \/ RunFaultLoad \/ OpenResult
  \/ \E read \in PromReads : WritePrometheus(read)
  \/ \E t \in RecoveryTimes : WriteRecovery(t)
  \/ FinishSuite
SuiteStops ==
  \/ StopSuite
  \/ \E lines \in K6Loads : \E n \in 0 .. Len(lines) : StopLoad(lines, n)

=============================================================================
