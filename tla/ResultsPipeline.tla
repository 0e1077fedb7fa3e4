--------------------------- MODULE ResultsPipeline ---------------------------
(***************************************************************************)
(* The user's commands on one results/ directory: "make experiments" (the  *)
(* suite), run_hpa_experiment.sh, "make results" (plot_results.py and then *)
(* summary_table.py), and plot_paper_figures.py.  Commands are given one   *)
(* at a time; a suite and an HPA experiment may be stopped.                *)
(*                                                                         *)
(* A program of project/analysis is the list of functions its main calls.  *)
(* A function reads the files it needs, and saves its figure or table,     *)
(* returns without one, or ends the program with an exception.  A figure   *)
(* is the values its bars or cells show, each with the suite that measured *)
(* it, which the programs do not know: drawing and formatting are left out.*)
(***************************************************************************)
EXTENDS ExperimentSuite, HpaExperiment

CONSTANTS Plans,  \* the lists of commands a user may give
          Pods    \* results/pod-distribution.json, which no script writes

\* None is no entry of the dict load_all_metrics returns.
ASSUME ResultsAssumption ==
  None \notin [p50 : Int, p95 : Int, p99 : Int, err : Nat \X Nat, rps : Nat \X Nat, by : Nat]

VARIABLES
  plan,     \* the commands still to be given
  program,  \* what runs in project/analysis: "none" or its command
  calls,    \* the functions its main has still to call
  rows,     \* rows of summary_table.py
  data,     \* data of plot_paper_figures.py
  faults,   \* fault_data
  ups,      \* scale_up_info
  out,      \* out[f]: the figure or table f as last saved, if it ever was
  ended     \* history: the last command of project/analysis and how it ended

memory == <<rows, data, faults, ups>>
analysisVars == <<program, calls, memory, out, ended>>
vars == <<suiteVars, hpaVars, plan, analysisVars>>

Quantiles == {"p50", "p95", "p99"}
\* The state of the directory, for a figure to be told from a later one.
Version == suite + run

Init ==
  /\ SuiteInit /\ HpaInit
  /\ plan \in Plans /\ program = "none" /\ calls = <<>>
  /\ rows = None /\ data = None /\ faults = None /\ ups = None
  /\ out = [f \in {} |-> None] /\ ended = <<"none", "ok", 0>>

-----------------------------------------------------------------------------
\* Slips: an error rate that is not made a percentage, the client's latency preferred to
\* the server's, and a missing Prometheus file that is opened all the same.
ErrorBarFraction(e) ==
  LET rate == load_k6(IF k6[e] = NoFile THEN NoFile ELSE k6[e].lines).error_rate
  IN  IF rate # None THEN [v |-> Rate(rate[1], rate[2]), by |-> k6[e].by]
                     ELSE [v |-> Rate(0, 1), by |-> 0]
LatencyBarOfK6(e, q) ==
  LET m == extract_k6_metrics(IF k6[e] = NoFile THEN NoFile ELSE k6[e].lines)
  IN  IF m # None THEN [v |-> m[q], by |-> k6[e].by] ELSE [v |-> 0, by |-> 0]
PromOpened == \A e \in Experiments : prom[e] \notin {NoFile, Torn}

-----------------------------------------------------------------------------
Bar(v, by) == [v |-> v, by |-> by]
NoBar == Bar(0, 0)

\* Python's "or" passes over None and 0, and not over a NaN.
Truthy(v) == v # None /\ v # 0

\* load_prom: an empty dict without a file, an exception if it is not JSON.
PromReadable == \A e \in Experiments : prom[e] # Torn
FaultReadable == \A p \in Names(Policies) : fault[p] # Torn
latency_ms(e, q) == IF prom[e] = NoFile THEN None ELSE prom[e].latency_ms[q]
throughput_rps(e) == IF prom[e] = NoFile THEN None ELSE prom[e].throughput_rps
errors_5xx_rps(e) == IF prom[e] = NoFile THEN None ELSE prom[e].errors_5xx_rps
PromBy(e) == IF prom[e] = NoFile THEN 0 ELSE prom[e].by

K6File(e) == IF k6[e] = NoFile THEN NoFile ELSE k6[e].lines
K6By(e) == IF k6[e] = NoFile THEN 0 ELSE k6[e].by
K6Quantile(e, q) ==
  LET k == load_k6(K6File(e))
  IN  CASE q = "p50" -> k.p50_ms [] q = "p95" -> k.p95_ms [] q = "p99" -> k.p99_ms

\* Prometheus first; k6 where it has no value or 0; 0 where neither has one.
LatencyBar(e, q) ==
  IF Truthy(latency_ms(e, q)) THEN Bar(latency_ms(e, q), PromBy(e))
  ELSE IF Truthy(K6Quantile(e, q)) THEN Bar(K6Quantile(e, q), K6By(e))
  ELSE NoBar

ThroughputBar(e) ==
  IF Truthy(throughput_rps(e)) THEN Bar(throughput_rps(e), PromBy(e)) ELSE NoBar

ErrorBar(e) ==
  LET rate == load_k6(K6File(e)).error_rate
  IN  IF rate # None THEN Bar(Rate(100 * rate[1], rate[2]), K6By(e)) ELSE Bar(Rate(0, 1), 0)

\* fmt: a dash, here None, for no value and for 0; anything else is printed.
fmt(v) == IF Truthy(v) THEN v ELSE None
Row(e) ==
  [p50 |-> latency_ms(e, "p50"), p95 |-> latency_ms(e, "p95"), p99 |-> latency_ms(e, "p99"),
   rps |-> throughput_rps(e), err5xx |-> errors_5xx_rps(e), by |-> PromBy(e)]
Cells(r) ==
  [p50 |-> fmt(r.p50), p95 |-> fmt(r.p95), p99 |-> fmt(r.p99),
   rps |-> fmt(r.rps), err5xx |-> fmt(r.err5xx), by |-> r.by]

\* The durations table of load_all_metrics.
durations == [steady |-> 90, burst |-> 90, heavy |-> 180, spike |-> 50, fault |-> 60]
Metrics(e) ==
  LET m == extract_k6_metrics(K6File(e))
  IN  IF m = None THEN None
      ELSE [p50 |-> m.p50, p95 |-> m.p95, p99 |-> m.p99, err |-> m.err,
            rps |-> get_rps_from_k6(K6File(e), durations[e[2]]), by |-> K6By(e)]

Measured == {p \in Names(Policies) : fault[p] # NoFile}

-----------------------------------------------------------------------------
\* main of the three programs, as the functions it calls.
PlotResults == <<"latency", "throughput", "errors", "recovery", "pods">>
SummaryTable == <<"build_rows", "markdown", "latex">>
PaperFigures == <<"load_all_metrics", "load_fault_data", "print_summary",
                  "paper_p95", "paper_throughput", "paper_recovery", "paper_scatter",
                  "paper_errors", "paper_scaling", "paper_series">>

Idle == job = "idle" /\ at = "idle" /\ program = "none"
Gives(command) == Idle /\ plan # <<>> /\ Head(plan) = command /\ plan' = Tail(plan)

GiveSuite == Gives("suite") /\ StartSuite /\ UNCHANGED <<hpaVars, analysisVars>>
GiveHpa == Gives("hpa") /\ StartHpa /\ UNCHANGED <<suiteVars, analysisVars>>

\* make results runs plot_results.py and, if that exits with 0, summary_table.py.
Analyse(command, functions) ==
  /\ Gives(command)
  /\ program' = command /\ calls' = functions
  /\ UNCHANGED <<suiteVars, hpaVars, memory, out, ended>>
GiveResults == Analyse("results", PlotResults \o SummaryTable)
GivePaper == Analyse("paper", PaperFigures)

Calls(function) == program # "none" /\ calls # <<>> /\ Head(calls) = function
Reads == UNCHANGED <<suiteVars, hpaVars, plan>>
Returns == calls' = Tail(calls) /\ UNCHANGED <<program, ended>>
Saved(f, shows) ==
  [g \in DOMAIN out \cup {f} |-> IF g = f THEN [at |-> Version, shows |-> shows] ELSE out[g]]
Saves(f, shows) == out' = Saved(f, shows) /\ Returns /\ UNCHANGED memory
Skips == Returns /\ UNCHANGED <<memory, out>>

\* The program ends, and what it had in memory is gone.
Ends(how) ==
  /\ program' = "none" /\ calls' = <<>> /\ ended' = <<program, how, Version>>
  /\ rows' = None /\ data' = None /\ faults' = None /\ ups' = None
  /\ UNCHANGED out
Raises == Ends("exception")
Exit == program # "none" /\ calls = <<>> /\ Ends("ok") /\ Reads

\* plot_results.py
FigLatencyBar ==
  /\ Calls("latency") /\ Reads
  /\ IF PromReadable
       THEN Saves("latency", [e \in Experiments |-> [q \in Quantiles |-> LatencyBar(e, q)]])
       ELSE Raises
FigThroughputBar ==
  /\ Calls("throughput") /\ Reads
  /\ IF PromReadable THEN Saves("throughput", [e \in Experiments |-> ThroughputBar(e)])
                     ELSE Raises
FigErrorRate ==
  /\ Calls("errors") /\ Reads
  /\ Saves("errors", [e \in Experiments |-> ErrorBar(e)])
FigFaultRecovery ==
  /\ Calls("recovery") /\ Reads
  /\ IF ~FaultReadable THEN Raises
     ELSE IF Measured = {} THEN Skips
     ELSE Saves("recovery", [p \in Measured |-> Bar(fault[p].recovery_time_s, fault[p].by)])
FigPodDistribution ==
  /\ Calls("pods") /\ Reads
  /\ IF Pods = NoFile THEN Skips ELSE Saves("pods", Pods)

\* summary_table.py
BuildRows ==
  /\ Calls("build_rows") /\ Reads
  /\ IF PromReadable
       THEN /\ rows' = [e \in Experiments |-> Row(e)]
            /\ Returns /\ UNCHANGED <<data, faults, ups, out>>
       ELSE Raises
WriteTable(f) ==
  /\ Calls(f) /\ Reads
  /\ Saves(f, [e \in Experiments |-> Cells(rows[e])])
WriteMarkdown == WriteTable("markdown")
WriteLatex == WriteTable("latex")

\* plot_paper_figures.py
LoadAllMetrics ==
  /\ Calls("load_all_metrics") /\ Reads
  /\ data' = [e \in Experiments |-> Metrics(e)]
  /\ Returns /\ UNCHANGED <<rows, faults, ups, out>>
LoadFaultData ==
  /\ Calls("load_fault_data") /\ Reads
  /\ IF FaultReadable
       THEN /\ faults' = [p \in Measured |-> Bar(fault[p].recovery_time_s, fault[p].by)]
            /\ Returns /\ UNCHANGED <<rows, data, ups, out>>
       ELSE Raises
\* A None among the numbers cannot be formatted.
PrintSummary ==
  /\ Calls("print_summary") /\ Reads
  /\ IF \E e \in Experiments : data[e] # None /\ data[e].rps = None THEN Raises ELSE Skips
PaperP95 ==
  /\ Calls("paper_p95") /\ Reads
  /\ Saves("paper_p95",
           [e \in Experiments |-> IF data[e] = None THEN NoBar ELSE Bar(data[e].p95, data[e].by)])
PaperThroughput ==
  /\ Calls("paper_throughput") /\ Reads
  /\ Saves("paper_throughput",
           [e \in Experiments |->
              IF data[e] = None \/ data[e].rps = None THEN Bar(Rate(0, 1), 0)
              ELSE Bar(data[e].rps, data[e].by)])
PaperFaultRecovery ==
  /\ Calls("paper_recovery") /\ Reads
  /\ Saves("paper_recovery",
           [p \in Names(Policies) |-> IF p \in DOMAIN faults THEN faults[p] ELSE NoBar])
PaperScatter ==
  /\ Calls("paper_scatter") /\ Reads
  /\ Saves("paper_scatter",
           [e \in {d \in Experiments : data[d] # None} |->
              Bar(<<data[e].p50, data[e].p95>>, data[e].by)])
PaperErrorRate ==
  /\ Calls("paper_errors") /\ Reads
  /\ Saves("paper_errors",
           [e \in Experiments |->
              IF data[e] = None THEN Bar(Rate(0, 1), 0) ELSE Bar(data[e].err, data[e].by)])
PaperScaling ==
  /\ Calls("paper_scaling") /\ Reads
  /\ LET figure == ScalingFigure(timeline)
     IN  IF figure = None THEN Skips
         ELSE /\ ups' = figure.markers
              /\ out' = Saved("paper_scaling", figure)
              /\ Returns /\ UNCHANGED <<rows, data, faults>>
PaperSeries ==
  /\ Calls("paper_series") /\ Reads
  /\ LET series == IF load = NoFile THEN None ELSE LatencySeries(load.lines)
     IN  IF series = None THEN Skips
         ELSE Saves("paper_series",
                    [series |-> series, markers |-> IF ups = None THEN {} ELSE ups])

Analysis ==
  \/ FigLatencyBar \/ FigThroughputBar \/ FigErrorRate \/ FigFaultRecovery
  \/ FigPodDistribution \/ BuildRows \/ WriteMarkdown \/ WriteLatex
  \/ LoadAllMetrics \/ LoadFaultData \/ PrintSummary
  \/ PaperP95 \/ PaperThroughput \/ PaperFaultRecovery \/ PaperScatter \/ PaperErrorRate
  \/ PaperScaling \/ PaperSeries
  \/ Exit

Commanded == GiveSuite \/ GiveHpa \/ GiveResults \/ GivePaper
SuiteRuns == SuiteStep /\ UNCHANGED <<hpaVars, plan, analysisVars>>
HpaRunsOn == HpaScript /\ UNCHANGED <<suiteVars, plan, analysisVars>>
InBackground == Background /\ UNCHANGED <<suiteVars, plan, analysisVars>>
Stops ==
  \/ SuiteStops /\ UNCHANGED <<hpaVars, plan, analysisVars>>
  \/ HpaStops /\ UNCHANGED <<suiteVars, plan, analysisVars>>
Next == Commanded \/ SuiteRuns \/ HpaRunsOn \/ InBackground \/ Stops \/ Analysis
Spec == Init /\ [][Next]_vars

-----------------------------------------------------------------------------
UpToDate(f) == f \in DOMAIN out /\ out[f].at = Version

\* The bars and cells of an experiment that were drawn from the directory as it is.
Shown(e) ==
  {out[f].shows[e].by : f \in {g \in {"throughput", "errors", "markdown", "latex", "paper_p95",
                                      "paper_throughput", "paper_errors"} : UpToDate(g)}}
  \cup (IF UpToDate("latency") THEN {out["latency"].shows[e][q].by : q \in Quantiles} ELSE {})
ShownRecovery(p) ==
  (IF UpToDate("recovery") /\ p \in DOMAIN out["recovery"].shows
     THEN {out["recovery"].shows[p].by} ELSE {})
  \cup (IF UpToDate("paper_recovery") THEN {out["paper_recovery"].shows[p].by} ELSE {})

\* After a suite that ran to its end, a figure or a table made from its results shows a
\* number of an earlier suite only for an experiment run_all.sh lists as failed.
StaleOnlyIfFailed ==
  (verdict # None /\ job = "idle") =>
    /\ \A e \in Experiments : Shown(e) \subseteq {0, suite} \/ e \in verdict
    /\ \A p \in Names(Policies) :
         ShownRecovery(p) \subseteq {0, suite} \/ <<p, "fault">> \in verdict

\* make results and plot_paper_figures.py agree on what both draw: the error rate, if
\* k6 was not cut in the middle of a request, the p95 where Prometheus had none, and
\* the recovery times; where make results draws no recovery the paper draws 0 s.  No
\* error rate is above 100 percent, however the file was cut.
FiguresAgree ==
  /\ UpToDate("errors") /\ UpToDate("paper_errors") =>
       \A e \in Experiments :
         LET r == out["errors"].shows[e].v
             s == out["paper_errors"].shows[e].v
             all == {Len(Points(K6File(e), m)) : m \in
                       {"http_reqs", "http_req_duration", "http_req_failed"}}
         IN  /\ r[1] <= 100 * r[2] /\ s[1] <= 100 * s[2]
             /\ (k6[e] # NoFile /\ Cardinality(all) = 1) => SameRate(r, s)
  /\ UpToDate("latency") /\ UpToDate("paper_p95") =>
       \A e \in Experiments :
         LET bar == out["latency"].shows[e]["p95"]
             paper == out["paper_p95"].shows[e]
         IN  ~Truthy(latency_ms(e, "p95")) => bar = paper \/ (bar.v = 0 /\ paper.v = 0)
  /\ (program = "none" /\ UpToDate("paper_recovery") /\ ended = <<"paper", "ok", Version>>
        /\ (Measured = {} \/ UpToDate("recovery"))) =>
       \A p \in Names(Policies) :
         out["paper_recovery"].shows[p] =
           IF p \in Measured THEN out["recovery"].shows[p] ELSE NoBar

\* The table and the figures of make results tell the same: a dash where the throughput
\* figure has no bar and else its number, and a latency in the table is the one drawn.
TableAgrees ==
  UpToDate("markdown") /\ UpToDate("throughput") /\ UpToDate("latency") =>
    \A e \in Experiments :
      LET cells == out["markdown"].shows[e]
          bar == out["throughput"].shows[e]
      IN  /\ IF cells.rps = None THEN bar.v = 0 ELSE bar.v = cells.rps
          /\ cells["p95"] # None => out["latency"].shows[e]["p95"].v = cells["p95"]

\* A program ends with an exception exactly if the suite was stopped while it wrote a
\* JSON file it reads; no k6 file, wherever it was cut, ends it.
RaisesOnlyOnTorn ==
  (program = "none" /\ ended[1] # "none" /\ ended[3] = Version) =>
    (ended[2] = "exception" <=>
       \/ \E p \in Names(Policies) : fault[p] = Torn
       \/ ended[1] = "results" /\ \E e \in Experiments : prom[e] = Torn)

\* The rates in the Prometheus file of an experiment of this suite are of the suite's load of
\* that policy alone, unless the first experiment of the policy failed: every other experiment
\* may be shorter than the two minutes the rates are taken over, and that one is not.
ForeignRatesAreListed ==
  \A e \in Experiments :
    (prom[e] \notin {NoFile, Torn} /\ prom[e].by = suite) =>
      prom[e].of \subseteq {<<suite, e[1]>>} \/ <<e[1], Scenarios[1]>> \in failed

\* The throughput of the paper's figure is the requests of a whole k6 run divided by the
\* seconds its scenario runs.
ThroughputIsPerScenario ==
  UpToDate("paper_throughput") =>
    \A e \in Experiments :
      (k6[e] # NoFile /\ k6[e].lines \in K6Loads) =>
        SameRate(out["paper_throughput"].shows[e].v,
                 Rate(Len(Points(k6[e].lines, "http_reqs")), StageSeconds[e[2]]))

=============================================================================
