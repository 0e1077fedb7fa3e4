------------------------- MODULE MCResultsPipeline -------------------------
(***************************************************************************)
(* The instances of ResultsPipeline for TLC.                               *)
(***************************************************************************)
EXTENDS ResultsPipeline

CONSTANT NaN  \* what histogram_quantile is of no requests

MCPolicies == <<"rr">>
MCScenarios == <<"steady", "burst">>
MCSteady == <<"steady">>

\* A k6 whose requests all succeed, and one that crosses a threshold.
Quick == RequestPoints(5, FALSE, 0) \o RequestPoints(7, FALSE, 0)
Failing == RequestPoints(0, TRUE, 0) \o RequestPoints(5, FALSE, 0)
MCLoads == {Quick, Failing}

\* Prometheus answers, has seen no request, or cannot be reached.
Answer(latency, rps, errors) ==
  [latency_ms |-> [q \in Quantiles |-> latency],
   throughput_rps |-> rps, errors_5xx_rps |-> errors]
MCReads == {Answer(600, 3, None), Answer(NaN, 0, 0), Answer(None, None, None)}

\* Two suites and what is drawn of them; the HPA experiment, run again or drawn.
MCPlans == {<<"suite", "suite", "results", "paper">>, <<"hpa", "hpa">>, <<"hpa", "paper">>}
MCPaper == {<<"suite", "paper">>}

=============================================================================
