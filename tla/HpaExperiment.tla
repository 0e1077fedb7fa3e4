---------------------------- MODULE HpaExperiment ----------------------------
(***************************************************************************)
(* run_hpa_experiment.sh: the script, the monitor it runs in the           *)
(* background, its k6 and its port-forward, the replicas the autoscaler    *)
(* sets, and the two files the figures are made of.                        *)
(*                                                                         *)
(* Time passes in steps of the monitor's five seconds.  How long k6 runs   *)
(* and how long the script lets the monitor go on after it are left open.  *)
(* Background jobs of a script ignore the Ctrl-C that ends the script: what*)
(* its EXIT trap does not kill lives on, beside a later run of the script. *)
(***************************************************************************)
EXTENDS K6Output

CONSTANTS HpaRuns,     \* 1 .. how often the script may be run
          MaxReplicas, \* the autoscaler's maxReplicas
          Latencies,   \* what k6 may measure
          MaxTime,     \* bound: seconds the clock runs
          MaxLines,    \* bound: lines in the timeline
          MaxSamples   \* bound: requests k6 writes

ASSUME HpaAssumption ==
  /\ MaxReplicas \in Nat /\ MaxTime \in Nat /\ MaxLines \in Nat /\ MaxSamples \in Nat
  /\ HpaRuns \subseteq Nat /\ Latencies \subseteq Nat

VARIABLES
  run,       \* how many runs have been started
  at,        \* what the script does next, "idle" when none runs
  pids,      \* the variables among MONITOR_PID, K6_PID, PF_PID that are set
  procs,     \* the background processes <<name, run>> that are alive
  start,     \* start[r]: START_TS of run r
  now,       \* the clock
  replicas,  \* the workers the autoscaler has asked for
  TS,        \* TS[r]: when the poll that run r's monitor is at began, None between two polls
  polled,    \* the runs whose monitor has written a line since the clock last moved
  timeline,  \* results/hpa-scaling-timeline.jsonl
  load,      \* results/k6-hpa-heavy.json
  stoppedAt  \* history, stoppedAt[r]: what run r was to do next when it was stopped

scriptVars == <<run, at, pids>>
hpaVars == <<scriptVars, procs, start, now, replicas, TS, polled, timeline, load, stoppedAt>>

HpaInit ==
  /\ run = 0 /\ at = "idle" /\ pids = {} /\ procs = {}
  /\ start = [r \in HpaRuns |-> 0] /\ now = 0
  /\ replicas \in 2 .. MaxReplicas /\ TS = [r \in HpaRuns |-> None] /\ polled = {}
  /\ timeline = NoFile /\ load = NoFile
  /\ stoppedAt = [r \in HpaRuns |-> "nowhere"]

-----------------------------------------------------------------------------
\* Slips: a trap that gives up only if the monitor is missing, a start time taken anew by
\* every poll, and a marker for every line that is not below the one before it.
KilledUnlessMonitor(known) == IF "monitor" \in known THEN {"monitor", "k6"} ELSE {}
ElapsedSincePoll(r) == TS[r] - TS[r]
NotBelow(rows) == {i \in 2 .. Len(rows) : rows[i].replicas >= rows[i - 1].replicas}
-----------------------------------------------------------------------------
StartHpa ==
  /\ at = "idle" /\ run + 1 \in HpaRuns
  /\ run' = run + 1 /\ at' = "reset" /\ pids' = {}
  /\ UNCHANGED <<procs, start, now, replicas, TS, polled, timeline, load, stoppedAt>>

\* kubectl apply and kubectl scale; the replicas are never set back.
Reset ==
  /\ at = "reset"
  /\ replicas' = 2 /\ at' = "forward"
  /\ UNCHANGED <<run, pids, procs, start, now, TS, polled, timeline, load, stoppedAt>>

ResetFails ==
  /\ at = "reset"
  /\ at' = "idle"
  /\ UNCHANGED <<run, pids, procs, start, now, replicas, TS, polled, timeline, load, stoppedAt>>

StartForward ==
  /\ at = "forward"
  /\ procs' = procs \cup {<<"forward", run>>} /\ pids' = {"forward"}
  /\ at' = "trap"
  /\ UNCHANGED <<run, start, now, replicas, TS, polled, timeline, load, stoppedAt>>

\* The timeline is emptied, the trap is set, and START_TS is read.
SetTrap ==
  /\ at = "trap"
  /\ timeline' = [by |-> run, lines |-> <<>>]
  /\ start' = [start EXCEPT ![run] = now]
  /\ at' = "monitor"
  /\ UNCHANGED <<run, pids, procs, now, replicas, TS, polled, load, stoppedAt>>

\* A background job is started first, and its variable is set after it.
StartMonitor ==
  /\ at = "monitor"
  /\ procs' = procs \cup {<<"monitor", run>>} /\ at' = "monitor_pid"
  /\ UNCHANGED <<run, pids, start, now, replicas, TS, polled, timeline, load, stoppedAt>>
Assign(name, from, to) ==
  /\ at = from
  /\ pids' = pids \cup {name} /\ at' = to
  /\ UNCHANGED <<run, procs, start, now, replicas, TS, polled, timeline, load, stoppedAt>>

MonitorPid == Assign("monitor", "monitor_pid", "k6")
\* k6 empties its output file as it starts; one of an earlier run may still write to it.
StartK6 ==
  /\ at = "k6"
  /\ procs' = procs \cup {<<"k6", run>>} /\ at' = "k6_pid"
  /\ load' = [by |-> run, from |-> now, shared |-> \E p \in procs : p[1] = "k6", lines |-> <<>>]
  /\ UNCHANGED <<run, pids, start, now, replicas, TS, polled, timeline, stoppedAt>>
K6Pid == Assign("k6", "k6_pid", "wait")

\* wait "$K6_PID" || true
WaitForK6 ==
  /\ at = "wait" /\ <<"k6", run>> \notin procs
  /\ at' = "tail"
  /\ UNCHANGED <<run, pids, procs, start, now, replicas, TS, polled, timeline, load, stoppedAt>>

\* set -u: the trap ends at the first variable that is not set.
Killed(known) ==
  IF "monitor" \notin known THEN {}
  ELSE IF "k6" \notin known THEN {"monitor"} ELSE {"monitor", "k6", "forward"}
Kills(names) ==
  /\ procs' = {p \in procs : p[2] # run \/ p[1] \notin names}
  /\ TS' = [r \in HpaRuns |-> IF <<"monitor", r>> \in procs' THEN TS[r] ELSE None]

\* The two kills after the last polls, and then the trap.
FinishHpa ==
  /\ at = "tail"
  /\ Kills({"monitor", "forward"} \cup Killed(pids))
  /\ at' = "idle"
  /\ UNCHANGED <<run, pids, start, now, replicas, polled, timeline, load, stoppedAt>>

Trapped == at \notin {"reset", "forward", "trap"}

StopHpa ==
  /\ at # "idle"
  /\ IF Trapped THEN Kills(Killed(pids)) ELSE UNCHANGED <<procs, TS>>
  /\ at' = "idle"
  /\ stoppedAt' = [stoppedAt EXCEPT ![run] = at]
  /\ UNCHANGED <<run, pids, start, now, replicas, polled, timeline, load>>

HpaScript ==
  \/ Reset \/ StartForward \/ SetTrap \/ StartMonitor \/ MonitorPid \/ StartK6 \/ K6Pid
  \/ WaitForK6 \/ FinishHpa

-----------------------------------------------------------------------------
Elapsed(r) == TS[r] - start[r]

\* What a poll writes: the replicas there are; 2, where kubectl fails; or, where the
\* metric has no value yet, a line with nothing after "cpu_pct", which is not JSON.
\* That the line is of the last two kinds, and how many there were, no one can see.
PollLine(r) ==
  {[ts |-> TS[r], elapsed_s |-> Elapsed(r), are |-> replicas, kind |-> kind,
    replicas |-> IF kind = "fallback" THEN 2 ELSE replicas] :
     kind \in {"read", "fallback", "invalid"}}

CanPoll(r) ==
  /\ <<"monitor", r>> \in procs /\ TS[r] = None
  /\ r \notin polled /\ Len(timeline.lines) < MaxLines

\* A poll reads the time first.
BeginPoll(r) ==
  /\ CanPoll(r)
  /\ TS' = [TS EXCEPT ![r] = now]
  /\ UNCHANGED <<scriptVars, procs, start, now, replicas, polled, timeline, load, stoppedAt>>

\* And then, when kubectl has answered, the replicas.  The monitor of run r appends to the
\* file, whoever emptied it last.
Poll(r) ==
  /\ <<"monitor", r>> \in procs /\ TS[r] # None /\ Len(timeline.lines) < MaxLines
  /\ \E line \in PollLine(r) : timeline' = [timeline EXCEPT !.lines = Append(@, line)]
  /\ TS' = [TS EXCEPT ![r] = None] /\ polled' = polled \cup {r}
  /\ UNCHANGED <<scriptVars, procs, start, now, replicas, load, stoppedAt>>

\* What a line more makes of a file.  Two k6 do not write at its end, but each where it was
\* itself: a line may land anywhere, and make others unreadable.
Written(lines, line, shared) ==
  IF ~shared THEN {Append(lines, line)}
  ELSE {Kept(lines, {j \in kept : j < i}) \o <<line>> \o Kept(lines, {j \in kept : j >= i}) :
          kept \in SUBSET DOMAIN lines, i \in 1 .. Len(lines) + 1}

\* k6 writes what it collected from its 100 virtual users, not in the order of time; a
\* fraction of a second that is not of 3 or 6 digits is unreadable to a Python before 3.11.
\* A k6 that outlived its run writes on, of what it measured since it was started.
K6Writes(r) ==
  /\ <<"k6", r>> \in procs
  /\ Len(load.lines) < MaxSamples
  /\ LET from == IF load.by = r THEN load.from ELSE start[r]
     IN  \E t \in {u \in {now - 5, now} : u >= from} \cup {Unreadable}, ms \in Latencies :
           \E lines \in Written(load.lines, Point("http_req_duration", ms, t), load.shared) :
             load' = [load EXCEPT !.lines = lines]
  /\ UNCHANGED <<scriptVars, procs, start, now, replicas, TS, polled, timeline, stoppedAt>>

\* --duration is over, or k6 fails.
K6Ends(r) ==
  /\ <<"k6", r>> \in procs
  /\ procs' = procs \ {<<"k6", r>>}
  /\ UNCHANGED <<scriptVars, start, now, replicas, TS, polled, timeline, load, stoppedAt>>

Scale(n) ==
  /\ at \in {"wait", "tail"} /\ n # replicas
  /\ replicas' = n
  /\ UNCHANGED <<scriptVars, procs, start, now, TS, polled, timeline, load, stoppedAt>>

\* A monitor sleeps five seconds between two polls, and kubectl may take as long.  The clock
\* counts from the first run of the script.
Tick ==
  /\ run > 0 /\ at \in {"idle", "wait", "tail"} /\ now + 5 <= MaxTime
  /\ \A r \in HpaRuns : ~CanPoll(r)
  /\ now' = now + 5 /\ polled' = {}
  /\ UNCHANGED <<scriptVars, procs, start, replicas, TS, timeline, load, stoppedAt>>

Background ==
  \/ \E r \in HpaRuns : BeginPoll(r) \/ Poll(r) \/ K6Writes(r) \/ K6Ends(r)
  \/ \E n \in 2 .. MaxReplicas : Scale(n)
  \/ Tick
HpaStops == StopHpa \/ ResetFails

-----------------------------------------------------------------------------
\* fig_hpa_scaling: the lines that parse, in the order of the file.
Parsed(lines) == Kept(lines, {i \in DOMAIN lines : lines[i].kind # "invalid"})

ScaleUps(rows) == {i \in 2 .. Len(rows) : rows[i].replicas > rows[i - 1].replicas}

\* The curve, and the times of the markers, which it draws and returns.
ScalingFigure(file) ==
  IF file = NoFile \/ Parsed(file.lines) = <<>> THEN None
  ELSE LET rows == Parsed(file.lines)
       IN  [curve |-> [i \in DOMAIN rows |-> <<rows[i].elapsed_s, rows[i].replicas>>],
            markers |-> {rows[i].elapsed_s : i \in ScaleUps(rows)}]

-----------------------------------------------------------------------------
\* Whatever the run left running when it ended or was stopped, it was stopped before
\* K6_PID was set; the monitor lives on only if stopped between its start and
\* MONITOR_PID, and k6 between its start and K6_PID.
LeftOnlyIfStoppedEarly ==
  at = "idle" =>
    \A p \in procs : stoppedAt[p[2]] \in
      CASE p[1] = "forward" -> {"trap", "monitor", "monitor_pid", "k6", "k6_pid"}
        [] p[1] = "monitor" -> {"monitor_pid"}
        [] p[1] = "k6" -> {"k6_pid"}

\* The markers of the scaling figure are at most as many as the times the replicas
\* had risen from one poll to the next, plus the polls whose kubectl failed: each of
\* these may draw one marker where nothing was scaled, and no more.  (The captions of the
\* paper call all markers scale-up events.)
MarkersAccounted ==
  timeline # NoFile =>
    LET lines == timeline.lines
        risen == {i \in 2 .. Len(lines) : lines[i].are > lines[i - 1].are}
        guessed == {i \in DOMAIN lines : lines[i].kind = "fallback"}
    IN  Cardinality(ScaleUps(Parsed(lines))) <= Cardinality(risen) + Cardinality(guessed)

\* The latency figure counts seconds from the first response and its markers seconds
\* from START_TS.  Even so a sample drawn to the right of a marker was answered no earlier
\* than the poll that read the rise began, if both files are of the same run and no k6 of an
\* earlier run wrote to the second.
RightOfMarkerIsAfter ==
  (timeline # NoFile /\ load # NoFile /\ timeline.by = load.by /\ ~load.shared) =>
    LET rows == Parsed(timeline.lines)
        timed == Timed(load.lines)
        samples == Samples(load.lines)
    IN  \A i \in ScaleUps(rows), j \in DOMAIN samples :
          samples[j].t > rows[i].elapsed_s => timed[j].time >= rows[i].ts

\* The windows of the latency figure are the tens of seconds: a window has every
\* sample of its ten seconds, and the samples of no window are those older than the
\* first one in the file and those of the very last second, if it is a full ten.
BinsCover ==
  load # NoFile =>
    LET samples == Samples(load.lines)
        plotted == Windows(samples)
        in(b) == {i \in DOMAIN samples : samples[i].t \div 10 = b \div 10}
        left == {i \in DOMAIN samples : \A b \in plotted : i \notin in(b)}
    IN  /\ \A b \in plotted : b % 10 = 0 /\ Len(Window(samples, b)) = Cardinality(in(b))
        /\ \A i \in left :
             \/ samples[i].t < 0
             \/ samples[i].t % 10 = 0 /\ \A j \in DOMAIN samples : samples[j].t <= samples[i].t

=============================================================================
