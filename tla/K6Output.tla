------------------------------ MODULE K6Output ------------------------------
(***************************************************************************)
(* The file that "k6 run --out json=..." writes, and the four parsers of   *)
(* project/analysis that read it.                                          *)
(*                                                                         *)
(* A file is a sequence of lines.  For a request that ends k6 appends one  *)
(* point per metric, http_reqs first and http_req_failed last; the points  *)
(* no parser looks at, and the lines that declare a metric, are left out.  *)
(* A k6 that is killed leaves a prefix of such a file, the last line of    *)
(* which may be cut.  Latencies are in milliseconds, and a percentile is   *)
(* in hundredths of one, so that interpolation stays exact.                *)
(***************************************************************************)
EXTENDS Integers, Sequences, FiniteSets

CONSTANTS NoFile,     \* there is no file of that name
          None,       \* Python's None, and JSON's null
          CutLine,    \* a line json.loads raises JSONDecodeError for
          Unreadable  \* a time datetime.fromisoformat raises ValueError for

PointRecord == [metric : STRING, value : Nat, time : Int \cup {Unreadable}]

\* None is no number, and nothing a parser returns; a line that is cut is no point, and
\* a file that is missing has no lines.
ASSUME OutputAssumption ==
  /\ None \notin Int /\ None \notin Nat \X Nat
  /\ None \notin [p50 : Int, p95 : Int, p99 : Int, err : Nat \X Nat]
  /\ CutLine \notin PointRecord
  /\ NoFile \notin Seq(PointRecord \cup {CutLine})

Point(metric, value, time) == [metric |-> metric, value |-> value, time |-> time]

\* The points of a request that took ms and ended at time.
RequestPoints(ms, failed, time) ==
  << Point("http_reqs", 1, time),
     Point("http_req_duration", ms, time),
     Point("http_req_failed", IF failed THEN 1 ELSE 0, time) >>

-----------------------------------------------------------------------------
\* Slip: windows that share their ends.
InWindowClosed(b, t) == b <= t /\ t <= b + 10

-----------------------------------------------------------------------------
\* The k-th of a set of positions, and what a loop keeps of a list, in its order: the
\* entries at the positions that pass its test.
Nth(places, k) == CHOOSE i \in places : Cardinality({j \in places : j <= i}) = k
Kept(list, places) == [k \in 1 .. Cardinality(places) |-> list[Nth(places, k)]]

MeasuredAt(file, metric) ==
  {i \in DOMAIN file : file[i] # CutLine /\ file[i].metric = metric}
Points(file, metric) == Kept(file, MeasuredAt(file, metric))

Values(points) == [i \in DOMAIN points |-> points[i].value]
\* The sum of natural numbers: the units there are in all of them.
Total(vals) == Cardinality(UNION {{i} \X (1 .. vals[i]) : i \in DOMAIN vals})

Largest(a, b) == IF a >= b THEN a ELSE b

\* numpy.percentile, linear between the two nearest ranks; ranks start at 0.
HasRank(vals, k, v) ==
  /\ Cardinality({i \in DOMAIN vals : vals[i] < v}) <= k
  /\ k < Cardinality({i \in DOMAIN vals : vals[i] <= v})
AtRank(vals, k) == CHOOSE v \in {vals[i] : i \in DOMAIN vals} : HasRank(vals, k, v)
Percentile(vals, q) ==
  LET place == q * (Len(vals) - 1)
      low == place \div 100
      part == place % 100
  IN  AtRank(vals, low) * (100 - part)
      + IF part = 0 THEN 0 ELSE AtRank(vals, low + 1) * part

\* A rate is kept as the pair of numbers the code divides.
Rate(n, of) == <<n, of>>
SameRate(r, s) == r[1] * s[2] = s[1] * r[2]

-----------------------------------------------------------------------------
\* plot_paper_figures.py.  The rps it computes is discarded by its caller.
extract_k6_metrics(file) ==
  LET dur_values == Values(Points(file, "http_req_duration"))
      fail_count == Total(Values(Points(file, "http_req_failed")))
  IN  IF file = NoFile \/ dur_values = <<>> THEN None
      ELSE [p50 |-> Percentile(dur_values, 50),
            p95 |-> Percentile(dur_values, 95),
            p99 |-> Percentile(dur_values, 99),
            err |-> Rate(100 * fail_count, Largest(1, Len(dur_values)))]

get_rps_from_k6(file, duration_s) ==
  LET count == Len(Points(file, "http_req_duration"))
  IN  IF file = NoFile \/ count = 0 THEN None ELSE Rate(count, duration_s)

\* plot_results.py.  A key the code never sets, or sets to None, is None.
load_k6(file) ==
  LET durations == Values(Points(file, "http_req_duration"))
      totals == Len(Points(file, "http_reqs"))
      failed == Values(Points(file, "http_req_failed"))
      errors == Cardinality({i \in DOMAIN failed : failed[i] > 0})
      quantile(q) == IF durations = <<>> THEN None ELSE Percentile(durations, q)
  IN  IF file = NoFile
        THEN [p50_ms |-> None, p95_ms |-> None, p99_ms |-> None, error_rate |-> None]
        ELSE [p50_ms |-> quantile(50), p95_ms |-> quantile(95), p99_ms |-> quantile(99),
              error_rate |-> IF totals = 0 THEN None ELSE Rate(errors, totals)]

-----------------------------------------------------------------------------
\* fig_hpa_latency_timeseries: the readable durations with their elapsed seconds,
\* counted from the first of them in the file.
Timed(file) ==
  Kept(file, {i \in MeasuredAt(file, "http_req_duration") : file[i].time # Unreadable})
Samples(file) ==
  LET timed == Timed(file)
  IN  [i \in DOMAIN timed |-> [t |-> timed[i].time - timed[1].time, v |-> timed[i].value]]

\* arange(0, max_t + BIN_S, BIN_S) without its last element, BIN_S being 10.
BinStarts(max_t) == {b \in 0 .. max_t - 1 : b % 10 = 0}
InWindow(b, t) == b <= t /\ t < b + 10

\* The samples of a window, and the windows that have any.
Window(samples, b) == Kept(samples, {i \in DOMAIN samples : InWindow(b, samples[i].t)})
LastTime(samples) ==
  CHOOSE t \in {samples[i].t : i \in DOMAIN samples} : \A i \in DOMAIN samples : samples[i].t <= t
Windows(samples) ==
  IF samples = <<>> THEN {} ELSE {b \in BinStarts(LastTime(samples)) : Window(samples, b) # <<>>}

LatencySeries(file) ==
  LET samples == Samples(file)
      latencies(b) == [i \in DOMAIN Window(samples, b) |-> Window(samples, b)[i].v]
  IN  IF Windows(samples) = {} THEN None
      ELSE [b \in Windows(samples) |-> [p50 |-> Percentile(latencies(b), 50),
                                        p95 |-> Percentile(latencies(b), 95)]]

=============================================================================
