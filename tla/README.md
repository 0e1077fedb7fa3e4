# Verification of laborator-pcd-2026

The repository holds two programs for a course on concurrent and distributed
programming:

* **tema1**: a client and a server in Rust (tokio) that transfer a file over five
  transports (TCP, UDP, UDP stop-and-wait, QUIC datagrams, QUIC stop-and-wait) and
  compare what each side counted; `run_experiments.py` drives the client.
* **project**: an HTTP worker in Rust (axum) behind an Envoy load balancer on
  Kubernetes, with shell scripts that run load and fault experiments into `results/`, and
  Python programs that draw figures and tables from what is there.

This directory has TLA+ models of the parts with behaviour of their own, the TLC
instances that check them, and proofs: for the five transports, the worker, the
fault-injection script, and the experiments with their analysis.

## Inventory

| Part | Source | State | Operations | What is hard | What makes it correct |
|---|---|---|---|---|---|
| UDP stop-and-wait | `client/.../udp_stop_and_wait.rs`, `server/.../udp_stop_and_wait.rs` | client: chunk, attempt, `Stats`; server: one `Stats` for all clients | send, ack, retry, give up, terminator; receive, ack, count, print and reset | loss, a timer that fires before the answer, shared statistics, a server task that ends and is not restarted | Ok means delivered; one block under way; every client returns; statistics add up |
| QUIC stop-and-wait | `client/.../quic_stop_and_wait.rs`, `server/.../quic_stop_and_wait.rs` | the same, per connection | the same, stale acks skipped, closing frame | stale acks spend attempts; the end of the transfer can be lost | the same; duplicates bounded; both ends return |
| TCP | `client/.../tcp.rs`, `server/.../tcp.rs` | the stream, a frame being read | length, body, length 0, shutdown | frames cut anywhere, end of stream or reset in between | a report is of the whole file |
| UDP | `client/.../udp.rs`, `server/.../udp.rs` | shared `Stats`, receive buffer | send, terminator, count, print and reset | silent drops, mixed clients | every packet is in one report, dropped, or pending |
| Plain QUIC | `client/.../quic.rs`, `server/.../quic.rs` | `Stats` per connection, the queues of the two connections | queue a datagram, terminator, close after 100 ms; read, report | unordered datagrams, queues that drop their oldest, early close, no report at all | a report is short by what was lost or overtaken; it is missing only if both signs of the end are |
| Chunking, formats | `client/src/file/mod.rs`, `shared/src/lib.rs` | iterator position | `next`, `to_bytes`, `from_bytes` | last chunk, empty chunk, frame length | chunks cover the file, none is empty |
| Programs, harness | `server/src/main.rs`, `client/src/main.rs`, `run_experiments.py` | tasks, a child process | spawn and join, run with a timeout of 300 s | a dead task, a killed client | one client at a time |
| HTTP worker | `project/worker/src/main.rs` | three metrics, blocking pool | `/get`, `/work`, `/cpu`, `record_done` | dropped handlers, panics, restarts, a full pool | metrics account for requests |
| Fault injection | `project/experiments/fault_injection.sh` | shell variables, background jobs | configure, start, delete, poll, write | pods change between two commands; signals | the verdict is right; it ends and cleans up |
| Experiment suite | `run_all.sh`, `run_experiment.sh`, `collect_prometheus.sh` | one k6, one Prometheus and one fault file per experiment; `FAILED` | configure, run k6, query, write, summarise | a step fails or is stopped and old files stay; files cut or emptied; rates over two minutes | numbers are of this suite unless listed as failed |
| HPA experiment | `run_hpa_experiment.sh` | timeline and k6 file, three background jobs | reset, monitor, load, clean up | an interrupt between a job and its variable; a job that outlives its run; a read that fails | nothing left running; markers stand for scale-ups |
| Analysis | `plot_results.py`, `summary_table.py`, `plot_paper_figures.py` | none but `results/` and the figures | parse, aggregate, draw | missing, stale and cut files; two programs computing the same number | figures and tables agree, and show what was measured |
| Data and charts of tema1 | `generate_data.py`, `generate_charts.py` | none | write random bytes, draw a csv file | - | (not modelled) |

The parts interact as follows. A transport's client and its server task exchange
datagrams or bytes over loopback; `BlockIterator` feeds every client; the server's
`main` joins the five tasks and discards their results, so that one that returns an
error is gone while the process lives on. The harness starts clients one after the
other and kills one that takes 300 s. The worker's handlers share the metrics and the
blocking pool; the fault-injection script acts on pods through `kubectl` only. The suite runs the other scripts one after the other,
and they meet the analysis only in the files of `results/`, which carry neither a date nor
the suite that wrote them.

## Modules

| Module | Models |
|---|---|
| `AckedTransfer` | abstract: what a stop-and-wait transfer promises |
| `UdpStopAndWait`, `MCUdpStopAndWait`, `UdpStopAndWaitProofs` | the UDP stop-and-wait clients, server and network; implements `AckedTransfer` |
| `QuicStopAndWait`, `MCQuicStopAndWait`, `QuicStopAndWaitProofs` | one QUIC stop-and-wait connection; implements `AckedTransfer` |
| `BlockIterator` | the chunks of a file, used by `TcpTransfer` |
| `TcpTransfer`, `MCTcpTransfer`, `TcpTransferProofs` | one TCP connection, byte by byte |
| `UdpTransfer`, `MCUdpTransfer`, `UdpTransferProofs` | UDP clients as the harness runs them, the receive buffer and the shared counter |
| `Worker`, `MCWorker`, `WorkerProofs` | one pod of the HTTP worker |
| `QuicTransfer`, `MCQuicTransfer`, `QuicTransferProofs` | one plain QUIC connection |
| `FaultInjection`, `MCFaultInjection`, `FaultInjectionProofs` | the script and the pods it sees |
| `K6Output` | the file k6 writes and the four parsers that read it, as operators |
| `ExperimentSuite` | `run_all.sh` and the scripts it runs, as far as `results/` is concerned |
| `HpaExperiment` | `run_hpa_experiment.sh`, its background jobs, the autoscaler, and the scaling figure |
| `ResultsPipeline`, `MCResultsPipeline`, `ResultsPipelineProofs` | composes the three above with the three analysis programs |

Each module has the code's names where it can; `PROJECT.json` maps every definition to
its lines. A section called *slips* in each module holds wrong variants of single
definitions (a missing timer, an ack of any block accepted, a gauge not lowered).
No specification uses them: each is put in the place of the right definition to see that
the properties notice.

### UdpStopAndWait

`pc[c]` is the client's place: `"send"` at the head of the retry loop (or of the loop
over the chunks), `"wait"` in `recv_from` under the timer, or what it returned. The body of
the retry loop is cut at its two awaits: `Send` does `send_to` and the counting, and what
comes out of the timed `recv_from` is `Acked`, `StaleAck`, `Retry` or `GiveUp`. The server
task is cut at its awaits too: `ReceivePayload`, `SendAck`, `Count` (the ack is out before
the payload is counted) and `ReceiveTerminator`. A datagram carries its client, its
sequence number and which attempt it is; the last is not on the wire and no action reads it,
it makes the network a set, so that losing, delaying and reordering are choosing any
element. Loopback UDP does not duplicate datagrams; retries do, and are modelled.
`faults` says what the environment may do; it is one of `Environments`, chosen at the start. Without `"late"` a timer fires only when
no answer can come any more; with it, at any time.

### QuicStopAndWait

One connection, since connections share nothing. It differs from UDP where the code
does: a stale ack is skipped and costs an attempt (`SkipStale`), in the last iteration it
ends the loop (`Panic`); the server's task ends with the empty payload, with
the closing frame or by the idle timeout. A client that leaves closes the
connection, but its process may be gone before the frame is sent (`Lose`). The handshake is
not modelled: a client that cannot connect returns an error and no transfer begins.

### TcpTransfer

Bytes are digits below `Base` and a header is `HeaderBytes` of them, so that
`LenHeader::to_bytes` and `from_bytes` are modelled as the conversions they are: digits
taken off by division, the lowest first (`Left`), and put together again from the highest. The bytes
of a file are all 1: read as a header they would be a length, so a reader
that loses the frame boundaries is noticed. `Write` and `Read` move one byte at a time,
which is every way a stream can be cut.

### UdpTransfer

`Init` chooses between the harness and clients started at will. The buffer is a
sequence: loopback keeps the order of datagrams and drops only what finds the receive buffer
full. `share`, `report`, `dropped` and `endLost` are history: what a printed number is made of.

### Worker

A handler is cut at each update of a metric, as the threads of the runtime can
interleave there, and at its await. `/get` never waits. `Disconnect` drops a handler where
it waits, as axum does when the peer goes away; `Panic` is `Duration::from_secs_f64`;
`Restart` empties the registry. `/health` and `/metrics` change nothing.

### FaultInjection

One action per command of the script; the start of k6 and the assignment of `K6_PID` are
two, since the trap uses the variable under `set -u` and an interrupt may come between them.
`exitedAt` is history: where the script was when it ended. The cluster is external and its pods are
three counts: Ready and not deleted, not Ready and not deleted, and deleted but not gone.
`Init` chooses whether the HPA has scaled a pod away (three pods for the four the script
waits for), whether deleted pods stay Ready until they are killed (the worker is process 1
of its container and handles no SIGTERM, so they do, for the grace period), and whether
probes can fail under load.

### QuicTransfer

A datagram passes the queue of the client's connection, the network and the buffer of the
server's. Both queues drop their oldest when full (quinn's send and receive buffers), which
no call reports. `Leaves` is every way the client returns: `close`, or the implicit close
when an early return drops the last handle; both drop what is still queued. A server's
`read_datagram` returns what is buffered before it returns an error, and a close by the
client, even after its failure, is a report printed as Ok. `"size"` is a chunk beyond the
datagram size of the path, `"conn"` a broken connection. The task ends with an error, and
without a report, when the connection breaks or by the idle timeout, which needs a client
that is gone without its closing frame having arrived.

### K6Output, ExperimentSuite, HpaExperiment, ResultsPipeline

A k6 file is the sequence of its points, three for each request; a k6 that is stopped leaves any
prefix, with or without a cut last line. The parsers are operators on such a sequence, each
with its own idea of what to count: `load_k6` (requests), `extract_k6_metrics` and
`get_rps_from_k6` (durations), `Samples` and `LatencySeries` (times). Percentiles are
numpy's, in hundredths so that interpolation is exact; rates are kept as the two numbers the code
divides.

`ExperimentSuite` is one job at a time: configure, load, result, write, with `Fails` for a
script that exits with another status than 0, by `set -e` (a k6 that crosses a threshold of its
scenario exits with 99 and the Prometheus file is then not written). `StopSuite` and
`StopLoad` are the user's Ctrl-C. `cat > file` is two steps: emptied, written. Every file has
a number of the suite that wrote it, `by`, which no action reads: it is there for the
properties to say whose number a bar shows. `traffic` is what Envoy's counters have seen in the
two minutes `collect_prometheus.sh` asks for: the loads that sent requests, each with its suite,
its policy and how long ago it ended. Configuring and sending let time pass (`After`), and
`WritePrometheus` keeps with the rates whose requests they are of. Where a time is not known (after
a failure, between two suites) none is counted, so that the rates reach back as far as they can.

`HpaExperiment` separates the start of a background job from the assignment of its
variable, since the trap uses the variable under `set -u`. Jobs the trap does not kill live on
beside a second run: a monitor appends to its timeline, and a k6 writes into its k6 file
(`load.shared`), each of the two k6 at its own place, so that a line may land anywhere among the
others and make some of them unreadable (`Written`). A poll is two steps: `BeginPoll` reads the time,
and `Poll` the replicas, which the autoscaler may have changed in between. It writes what it read, 2 if
kubectl failed, or a line that is not JSON if the metric has no value yet; `are` is what the replicas
really were.

`ResultsPipeline` gives commands, one at a time, from a list in `Plans`, and steps through the
functions the three `main`s call. A function saves a figure, skips it, or raises. A figure
is the numbers its bars show, with `by`. `Version` says from which state of the
directory a figure was drawn, so that properties compare only figures of the same one.

## Runs

| Run | Instance and bounds | Shows |
|---|---|---|
| `udp_saw` | 2 clients with 2 and 1 blocks, 2 attempts (the code's), 1 loss; three environments: every fault, every fault but an early timer, losses only; 405,063 states, about a minute | safety, refinement, every client returns; no stale ack in the second, every transfer succeeds in the third |
| `quic_saw_faults` | 3 blocks, 2 attempts, all faults; 70,861 states | safety, bound on duplicates, refinement, both ends return |
| `quic_saw_loop` | 2 blocks, 5 attempts (the code's), late answers only | finding 1 |
| `tcp` | files of 0..5 bytes in blocks of 1..3, headers of two binary digits, 3 bytes of window; 5,644 states | framing, whole reports, both ends return |
| `udp` | 3 clients with 2, 3 and 1 chunks, buffer of 2; 97,456 states | what reports contain |
| `worker_faults` | 3 requests, pool of 1; 26,656 states | what the metrics are worth, every request ends |
| `worker_gauge` | the same, disconnects only | finding 4 |
| `fault_script` | 4 pods or 3, 3 polls; 176,340 states | the verdict, the end, what an interrupt leaves running |
| `fault_recovery` | the same without faults | finding 2 |
| `quic` | 4 chunks, queues of 2 and 3, all faults; 19,615 states | what a report is short by, when there is none, both ends return |
| `results` | 1 policy, scenarios steady and burst: two suites and then both analyses; or two HPA experiments, two lines and two samples, or one and the paper's figures; 2,497,922 states, about two minutes | whose numbers are shown, when programs agree or raise, whose requests the rates count; what an HPA experiment leaves running, what its markers and bins mean |
| `paper_throughput` | 1 policy, steady only, one suite and the paper's figures | finding 3 |

Why the bounds are enough. Two blocks are what a stale ack needs (an ack of the first
while the second is awaited) and three let its duplicates travel from block to block.
Two UDP clients of different length let one end while the other sends, which is when the
shared statistics mix; three clients of plain UDP let what the first leaves behind pass the
second. One loss per behaviour in `udp_saw` is in addition to
timers that fire at any time, which already make the client treat any datagram as lost; the
theorems cover the rest. A file of 5 bytes in blocks of 2 has a short last chunk, in blocks
of 1 none, and the empty file has no chunk. Three requests and one thread let a dropped
request hold the thread another waits for. Losing terminators is not bounded, there being
one per client. Four chunks overflow both queues of a QUIC connection. Two suites are what a stale file
needs, and steady and burst are a scenario longer and one shorter than the two minutes; the
fault job after burst adds the third kind. The rates of the second suite
can count requests of the first; with the one policy of the run they cannot count those of another
policy, which is left to the theorem, `ForeignRatesListed`. Each k6 run has two requests: one good, one failed,
or two good ones, which is enough for every cut to separate requests, durations and failures. In
the HPA experiments ten seconds (`MaxTime`) are one full bin with its end,
two lines (`MaxLines`) are the fewest with a marker, of a rise or a failed read and of one monitor or
two (a rise across a line that is not JSON takes three, and is left to `MarkersExplained`), and two samples
(`MaxSamples`) can be out of order, of two k6, or overwritten one by the other; a second run
(`HpaRuns`) meets what the first left behind.
`MaxReplicas` 3 is one above the minimum, so that replicas rise and fall. No plan
has both a suite and an HPA experiment because the two share no file; the clock counts from the
first HPA experiment on. `Pods` is `NoFile` since nothing in
the repository writes that file. Deadlock is not checked: every one of these systems ends.

Histories never feed back into an action: `transmitted`, `arrived`, `printed`,
`delivered`, `timeouts`, `share`, `report`, `dropped`, `endLost`, `exitedAt` and `stoppedAt` are
read by properties only, and so is what `traffic` leaves with the rates.

### Fairness

Weak fairness of each client's steps and of the server task: the tokio runtime polls a
task whose socket or timer is ready, again and again. Nothing else is assumed: no
fairness of the network (a datagram may lie there for ever), of faults, or of Kubernetes.
`ServerStep` and `ClientStep` are each one disjunction, so a fair server may still
prefer one of several datagrams: termination does not depend on which. For the
worker, a pool thread takes the next task when it is done, and a task ends at its deadline
(a request with a duration of years would not end, and the model has none); for the script, the shell goes
on and k6 ends after its 60 s. For plain QUIC, `Arrive` and `CloseArrives` are fair as well: what is
under way arrives or is lost; when a datagram leaves the client's queue is left to congestion
control, without fairness. The runs of `MCResultsPipeline` check safety only and assume no fairness.

### Findings

1. `LoopReturns` of `QuicStopAndWait`: the `unreachable!()` is reached when the last of five
   iterations meets a stale ack. `PanicNeedsTimeouts` shows what it takes: as many
   timeouts as a block has attempts.
2. `RecoveredMeansServing`: the script's recovery time is taken while the deleted pods still
   count as Ready. `RecoveredIfGone` shows that the loop would be right if they did not.
3. `ThroughputIsPerScenario`: `plot_paper_figures.py` divides the requests of a run by a table
   of 90, 90, 180 and 50 s, and the scenarios take 210, 100, 240 and 70 s. The
   throughputs drawn are too high by a factor between 1.1 (burst) and 2.3 (steady), and the order of
   scenarios in the figure depends on it.
4. `GaugeIsInFlight`: the help text of `worker_active_requests` says "Number of in-flight requests per
   pod.", and a handler that is dropped while it waits never takes its request off again.
   `GaugeAccounts` shows by how much the gauge is off.

Other behaviour the passing properties describe, which a reader of the code may not expect:

* UDP stop-and-wait: one answer later than 1 s, nothing lost, leaves a second ack behind that
  ends the transfer at the next block with "Invalid ack sequence". `NoStaleAck` shows, and
  `TimelyMeansNoStaleAck` proves, that late answers are the only cause.
* A plain QUIC report can be short though nothing was lost, and a failed client is reported like
  one that finished (`ShortByLostAndOvertaken`).
* A suite stopped while it writes a result file leaves a file at which every later
  `make results` ends with an exception (`RaisesOnlyOnTorn`), some of its figures redrawn
  and others not.
* Without a Prometheus value, `make results` draws the client's latency, and the table next to it
  has a dash (`TableAgrees`).
* The rates of burst and spike count requests of the scenario before them, under their own name.
  They are of the same policy as long as steady did not fail, since it comes first and is longer than
  the two minutes; if it did, they may be of another policy or of an earlier suite
  (`ForeignRatesAreListed`).
* An interrupt between the start of a k6 and the assignment of `K6_PID` leaves it running, in
  `fault_injection.sh` (`LeftOnlyInGaps`) as in `run_hpa_experiment.sh` (`LeftOnlyIfStoppedEarly`).
* The captions of both figures of the HPA experiment say that the dotted lines "mark scale-up
  events". A failed read of the replicas is written as 2, and the next good read draws a line where
  nothing was scaled: `MarkersAccounted` bounds the markers by the rises and the failed reads.
* `run_hpa_experiment.sh` ends with "Run 'make results' to regenerate paper figures.", and no
  target of the Makefile runs `plot_paper_figures.py`: `GiveResults` and `GivePaper` are two
  commands.

## Proofs

Each module of theorems extends its model and holds for every value of the constants that the
assumptions of the model allow (files, attempts, queue limits, pool, polls, policies and
scenarios; any of the faults). `ChunksConserved` also assumes that there are finitely many clients
(`IsFiniteSet(Clients)`), since it sums over them; the others need it not. In each module
the inductive invariant is a conjunction of named parts, every part has a lemma that every step
keeps it, and that lemma has one step per action. Of the invariants the runs check, these are theorems:

| Module | Theorem | States |
|---|---|---|
| `UdpStopAndWaitProofs` | `TypeCorrect`, `Inductive` | `TypeOK`, `IInv` |
| | `Delivery`, `Window`, `Accounting` | `OkMeansDelivered`, `WindowOfOne`, `StatsAccounted` |
| | `TimelyMeansNoStaleAck` | `NoStaleAck` |
| | `RetryLoopReturns` | `LoopReturns` |
| | `StatisticsDiffer` | `DatagramsConserved` |
| | `Refinement` | `ImplementsAckedTransfer` |
| `QuicStopAndWaitProofs` | `QuicSawTypeCorrect` | `TypeOK` |
| | `ReportCovers`, `DuplicatesPaidFor`, `PanicTakesTimeouts` | `ReportCoversFile`, `DuplicatesBounded`, `PanicNeedsTimeouts` |
| | `TimelyMeansNoPanic` | `LoopReturns`, when no timer fires early |
| | `QuicSawRefinement` | `ImplementsAckedTransfer` |
| `QuicTransferProofs` | `QuicTypeCorrect` | `TypeOK`: neither queue exceeds its limit |
| | `SilentOnlyThen`, `ReportShortByLost` | `SilentOnlyIfBothLost`, `ShortByLostAndOvertaken` |
| `TcpTransferProofs` | `HeaderRoundTrip` | a header is read as the length it was written for |
| | `TcpTypeCorrect` | `TypeOK` |
| | `WholeReports`, `ServerInStep` | `ReportIsWhole`, `InStep` |
| `UdpTransferProofs` | `UdpTypeCorrect` | `TypeOK` |
| | `InTurnReports` | `HarnessReport` |
| | `ChunksConserved` | `Conserved`, for finitely many clients |
| `WorkerProofs` | `GaugeKeepsDropped`, `MetricsInOrder` | `GaugeAccounts`, `DoneAccounts` |
| `FaultInjectionProofs` | `RecoveryIsReal`, `ScaledDownNeverRecovers`, `TrapCleansUp` | `RecoveredIfGone`, `ScaledDownTimesOut`, `LeftOnlyInGaps` |
| `ResultsPipelineProofs` | `OnlyEarlyStopsLeave`, `ForeignRatesListed` | `LeftOnlyIfStoppedEarly`, `ForeignRatesAreListed` |
| | `StaleIsListed`, `TableIsFigure` | `StaleOnlyIfFailed`, `TableAgrees` |
| | `BothFiguresAgree`, `OnlyTornFilesRaise` | `FiguresAgree`, `RaisesOnlyOnTorn` |
| | `MarkersPrecede`, `MarkersExplained`, `WindowsCover` | `RightOfMarkerIsAfter`, `MarkersAccounted`, `BinsCover` |

### UDP stop-and-wait

`OkMeansDelivered` is not inductive: that a client moves on says nothing unless an ack on
the wire is known to answer something that arrived. `IInv` adds, in one conjunct each,

* `TransmissionsInv`: where transmissions can be (a datagram is on the wire or has arrived,
  never both; acks answer what arrived), and that the next one to be made is new, which is
  what `StatsAccounted` needs to count each once;
* `HoldingInv`: the server has one payload in hand between `recv_from` and the count;
* `PrefixInv`: every block before the current one has arrived;
* `CountInv`: the account of the statistics, and that what arrived is finite;
* `TimelyInv`: without early timers the only thing unanswered is what the client waits on.

TLC checks `IInv` as an invariant of `udp_saw_faults`. `RetryLoopReturns` needs
one fact on cardinalities (`AttemptsBounded`): the attempts of one block inject into
`0..(MaxAttempts - 1)`. `StatisticsDiffer` adds `SentInv`, that what the clients count is the number
of transmissions: a client counts one more exactly when it makes a new one. What they count is
a set as well (`SentCounts`: for each client the numbers up to its count). With
`StatsAccounted`, what is under way, in hand, counted or lost makes up the rest (`Conservation`).

### QUIC stop-and-wait

The same shape, with one difference: stale acks are skipped at the cost of an attempt,
so that the bound on duplicates and on attempts is one account (`StaleInv`). While the
client runs, the answers it may still skip and the attempts spent on its block are together no more
than the timers that fired. A timer pays for the attempt after it and for the copy it leaves
behind; a skipped ack is an attempt more and an answer less; and an ack of
the block leaves the account of the next block with the stale answers only. `FreshInv` says
that a datagram sent is new (else sets of datagrams do not count them), `CountInv` that
each is counted at most once and each block read is counted or in hand.
`TimelyMeansNoPanic` has an invariant of its own: without early timers at most one
datagram is alive, and it is of the block awaited.

### Plain QUIC

`SilentOnlyIfBothLost` says something of a server that timed out, and nothing of how the empty
payload got lost before that. `EndIsSomewhere` adds it: once sent and while the server reads, the
empty payload is queued, under way, buffered or lost, and a client that has closed its connection
has returned and queues nothing. `ShortByLostAndOvertaken` counts a set, so `Apart` adds that no datagram
is in two of these places, nor twice in a queue (`Once`), and that the next to be sent
is new; then a chunk that is read is one less somewhere and one more in the statistics.
`HeadTailSet`, `PushSet` and `OncePush` say what a queue holds after it loses its head or makes
room.

### TCP

`ReportIsWhole` is about the last frame, and holds because the server has never lost the frame
boundaries. The inductive invariant says where they are. The transfer is a sequence of frames,
numbered from 0: `P(k)` is the position in the file where chunk k starts, `F(k)` the
number of bytes before frame k, `Size(k)` its length. `Pipe` is all that is on its way: read for
the frame at hand, in the connection, and still to be written.

* `ClientInv`: the client is at the start or the end of the chunk of the number it counts, and
  takes no chunk after the last (`Due`);
* `ServerInv`: what the server has counted is what is before the frame it is at, and it reads
  the header or the body of that frame;
* `PipeInv`: `Carries(Pipe, Front)`: where `Pipe`, which begins `Front` bytes into the transfer,
  has a place of a header, it has that digit of the header; and while nothing broke it ends with the
  last frame sent.

`Carries` says nothing of the bytes of the chunks, so the proof does not depend on what a
file holds. It survives a stream that is cut at its end (`Cut`: a client killed, a connection
reset), read from its front (`Dropped`) or longer by a frame (`Extended`). A frame of length 0
is then the one of number `NumChunks` (`LastFrame`). `HeaderRoundTrip` has two inductions over
digits, one for each conversion; the assumption it rests on is that nothing is left of the
largest block after `HeaderBytes` digits, as nothing is of 65534 after 4 bytes.

`InStep` follows from the invariant, by induction from the last frame to the first
(`LengthsOfFrames`). `Lengths` is a recursive function, defined on every place of the bytes: `FromEndExists`
shows that such a function exists, wherever a place points to, as long as it points further on.

### Plain UDP

`HarnessReport` is about the moment of a report. `InTurn` says of every moment before it, where clients
are run one at a time, that the datagrams of a client are together in the order of arrival
(`Contiguous`): those of another are before all of them or after all of them, counted ones
included. So when the end of a client is received, what is in the counter of others is of clients
that left without an end (`Ordered`), and nothing of the client is still to come; `Complete` is
that until then what was not dropped is counted or in the buffer. `Conserved` holds whether clients are run in
turn or not: `Once` says that an end is in the buffer once and not after its report, so that no report
is written over.

### Sums

`Conserved` sums over the clients. A sum over a function is a fold, and a fold is a recursive
function on sets. `UdpTransferProofs` derives induction over a set of numbers from the fact that Nat
is well founded (`NatSetInduction`, with the library's `WFMin`), and with it that `FoldExists`: the
fold has the value its definition says. From it follow that changing one value changes the sum by
the difference (`SumDiffer`), that a sum of zeros is zero, and that a sum of naturals is one.

### Worker

`GaugeAccounts` and `DoneAccounts` follow from `Accounts`, the three metrics as numbers of requests in
certain places. `Moves` is the lemma that carries it: what a handler that goes from one
place to another does to such a number.

### Fault injection

READY and TOTAL are read by two commands, and pods change before the script decides.
`ReadInv` says what is still so of what was read: with deleted pods gone at once READY is at most what is asked
for, and if no probe fails at most what serves. `LeavingInv` adds that nothing is leaving before
the script deletes pods. `JobsInv` says at which places of the script the port-forward and k6 can be
running, the trap set and `K6_PID` known; `LeftOnlyInGaps` is what is left of it at an exit.

### Experiments and analysis

* `HpaInv`: a process that outlives its run is of one that was stopped where the trap did not yet know
  of it (`LeftEarly`), one of the current run was started before the place its script is
  at, and from there on its variable is set.
* `RatesInv`: the loads Envoy may still count are of the policy under way once its first experiment
  has succeeded, because that one is longer than the two minutes. It needs that the experiments of a
  policy follow one another in the list of jobs (`InTurn`, `JobsInTurn`), which is arithmetic on the
  places of a table again.
* `VerdictInv`: of a suite under way, whatever is not to be done any more is of this suite or in
  `failed` (`Underway`); when it ends, the verdict has the rest. It needs to know that the list of
  jobs covers every experiment (`JobsCover`), which is arithmetic on the places of a table
  (`Division`, `Place`).
* `Loads` and `Drawn`: what a program has in memory is what the files hold, or is
  loaded before its next use (`FirstBefore`, of the calls of the three `main`s), and a figure as new as the
  directory shows what the files make of it (`Figure`). `StaleIsListed` and `TableIsFigure` read their
  statements off these.
* `FilesInv`: a line of the timeline counts its seconds from a start no later than that of the
  run that emptied the file, whichever monitor wrote it (`TimelineInv`), the poll under way began no
  earlier than its run (`ClockInv`), and an answer in a k6 file that is not shared is no earlier than
  the start of its k6, which is no earlier than that of its run (`LoadInv`). A marker and a sample are drawn on axes with different origins, and these two are
  what puts them in order in `MarkersPrecede`.
* `K6Inv`: a k6 file of the suite is well cut (`WellCut`): whatever was stopped, a failure in it
  comes right after its duration and a duration right after its request, and what else there is
  is a line that was cut. So failures inject into durations and those into requests (`CountsAre`), which bounds the error
  rates of both programs by 100 %, and makes them equal when the three are as many.
* `ReadsInv`: a program under way can read the files it needs, or has yet to call the function
  that will raise; one that has ended since the directory changed raised exactly if it
  could not. That nothing else raises is that no number `print_summary` formats is None
  (`MetricsAre`): a file with a duration has its percentiles and its rate.

The parsers select from a list, and induction over the list is not needed to say what they select:
`Kept(list, places)` has at place k the entry at the k-th of the places (`Nth`), and `NthIs` proves
that every finite set of n positions has its k-th one for every k up to n, and has them in order:
the number of positions up to each is a bijection onto `1..n`. From it come the least and
the greatest of a finite set (`Extremes`), and with them that a list has a number of every rank
(`RankIs`), which a percentile is made of. A sum of zeros and ones is a number of places (`TotalIs`), so
that counting the failures and adding them up are the same. `MarkersExplained` maps the markers
after a failed read into those reads and the others into the rises, no two to the same one; `WindowsCover`
is arithmetic on tens (`Tens`).

These theorems rest on what the models assume of their constants, which TLC evaluates:
`SuiteAssumption` (the scenarios are four and steady comes first, as in run_all.sh; a k6 that ran to its end writes the points of a request one
after the other, in its order), `HpaAssumption` (runs are numbered), `OutputAssumption` and
`ResultsAssumption` (None is no number, no pair and no record of numbers; a cut line is no point; a
missing file is no list).

### Only model-checked

* Liveness (`EveryTransferEnds`, `EveryTransferSucceeds`, `BothEnd`, `OkIsReceived`, `OkIsReported`,
  `EveryRequestEnds`, `ScriptEnds`), which needs fairness and ENABLED.

Every invariant that a passing run checks, and both refinements, are theorems. What a violating run
refutes is of course none; `TimelyMeansNoPanic` and `RecoveryIsReal` say when two of the four hold.

## Not modelled

* What Envoy's routing policies do: the policies are configuration of an external
  program, and nothing in this repository reads which pod answered.
* `generate_data.py` and `generate_charts.py` (random bytes, a csv file drawn as it is),
  `quick-test.sh` (a load whose results are not kept), dashboards.
* Drawing: colours, labels, axes, rounding to the printed digits. The CPU curve of the scaling
  figure, which no property reads, and the content of `pod-distribution.json`.
* An analysis run while a suite is writing: commands are given one at a time.
* What the k6 of an HPA experiment, or one that a fault injection left behind, adds to the counters of
  Envoy and so to the rates of a suite that follows: `traffic` has the loads of suites only.
* The per-pod query of `collect_prometheus.sh`, whose answer is not written.
* Sockets and certificates (`shared/src/quic.rs`), argument parsing, printing, reading the
  file: I/O and configuration without state of their own.
* Bytes counted next to packets, except in `TcpTransfer`: the two are always updated together.
* Sequence numbers do not wrap: a `u64` is not reached by any file.
* Acks of a length other than 8, and datagrams shorter than 8 bytes: no client or server
  of this repository sends one.

## What could be added

* What clients and servers may never take back: a printed report, the result of a client that returned.
* What Envoy sends where, for the policies whose choice the configuration determines.
