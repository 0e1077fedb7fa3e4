------------------------ MODULE ResultsPipelineProofs ------------------------
(***************************************************************************)
(* Theorems about ResultsPipeline, for every list of policies and of       *)
(* scenarios, every stop and failure: what HPA experiments leave behind,   *)
(* what the markers and windows of their figures mean, whose requests a  *)
(* rate is of, whose numbers an up-to-date figure shows, that the programs of   *)
(* project/analysis agree with each other, and when one of them raises.    *)
(***************************************************************************)
EXTENDS ResultsPipeline, FiniteSetTheorems, TLAPS

USE SuiteAssumption, HpaAssumption

\* The quotient and the remainder are the only ones.
LEMMA Division ==
  ASSUME NEW n \in Nat \ {0}, NEW q \in Nat, NEW r \in 0 .. n - 1
  PROVE  (q * n + r) \div n = q /\ (q * n + r) % n = r
<1> DEFINE x == q * n + r
           d == x \div n
           m == x % n
<1>1. q * n \in Nat
  OBVIOUS
<1>2. x \in Nat /\ d \in Nat /\ m \in 0 .. n - 1 /\ x = n * d + m
  BY <1>1
<1>3. ASSUME NEW a \in Nat, NEW b \in Nat, a < b PROVE n * a + n <= n * b
  <2>1. n * (b - a - 1) \in Nat /\ n * (b - a - 1) = n * b - n * a - n
    BY <1>3
  <2>2. QED
    BY <2>1
<1>4. ~(d < q) /\ ~(q < d)
  BY <1>2, <1>3
<1>5. d = q
  BY <1>2, <1>4
<1>6. QED
  BY <1>2, <1>5

\* So do the places of a table of n columns.
LEMMA Place ==
  ASSUME NEW n \in Nat \ {0}, NEW l \in Nat, NEW i \in 1 .. l * n
  PROVE  (i - 1) \div n \in 0 .. l - 1 /\ (i - 1) % n \in 0 .. n - 1
<1> DEFINE d == (i - 1) \div n
           m == (i - 1) % n
<1>1. d \in Nat /\ m \in 0 .. n - 1 /\ i - 1 = n * d + m
  OBVIOUS
<1>2. ASSUME l <= d PROVE FALSE
  <2>1. n * (d - l) \in Nat /\ n * (d - l) = n * d - n * l
    BY <1>1, <1>2
  <2>2. QED
    BY SMTT(60), <2>1, <1>1
<1>3. QED
  BY <1>1, <1>2

-----------------------------------------------------------------------------
\* A function on 1 .. m is a list.
LEMMA ListOf ==
  ASSUME NEW S, NEW m \in Nat, NEW f, f = [i \in 1 .. m |-> f[i]], \A i \in 1 .. m : f[i] \in S
  PROVE  f \in Seq(S) /\ Len(f) = m
BY SMTT(60)

\* Two lists of jobs, one after the other.
LEMMA Joined ==
  ASSUME NEW S, NEW a \in Seq(S), NEW b \in Seq(S)
  PROVE  /\ a \o b \in Seq(S) /\ DOMAIN (a \o b) = 1 .. Len(a) + Len(b)
         /\ \A i \in 1 .. Len(a) : i \in DOMAIN (a \o b) /\ (a \o b)[i] = a[i]
         /\ \A i \in 1 .. Len(b) : Len(a) + i \in DOMAIN (a \o b) /\ (a \o b)[Len(a) + i] = b[i]
         /\ \A i \in DOMAIN (a \o b) : (a \o b)[i] \in S
<1>1. a \o b \in Seq(S) /\ Len(a \o b) = Len(a) + Len(b) /\ Len(a) \in Nat /\ Len(b) \in Nat
  OBVIOUS
<1>2. DOMAIN (a \o b) = 1 .. Len(a) + Len(b)
  BY <1>1
<1>3. \A i \in 1 .. Len(a) : (a \o b)[i] = a[i]
  OBVIOUS
<1>4. \A i \in 1 .. Len(b) : (a \o b)[Len(a) + i] = b[i]
  OBVIOUS
<1>5. QED
  BY <1>1, <1>2, <1>3, <1>4

\* What run_all.sh runs: every experiment, and a fault injection for every policy.
JobSet == Names(Policies) \X (Names(Scenarios) \cup {"fault"})

\* The suite has one job for every experiment and one fault injection for every policy.
LEMMA JobsCover == Jobs \in Seq(JobSet) /\ Names(Jobs) = JobSet
<1> DEFINE n == Len(Scenarios)
           l == Len(Policies)
           cells == l * n
           grid == [i \in 1 .. cells |->
                      <<Policies[1 + ((i - 1) \div n)], Scenarios[1 + ((i - 1) % n)]>>]
           last == [i \in 1 .. l |-> <<Policies[i], "fault">>]
<1>1. n \in Nat /\ l \in Nat /\ cells \in Nat /\ Jobs = grid \o last
  BY DEF Jobs
<1>2. /\ DOMAIN Policies = 1 .. l /\ DOMAIN Scenarios = 1 .. n
      /\ Names(Policies) = {Policies[i] : i \in 1 .. l}
      /\ Names(Scenarios) = {Scenarios[i] : i \in 1 .. n}
  BY DEF Names
<1>3. ASSUME NEW i \in 1 .. cells
      PROVE  1 + ((i - 1) \div n) \in 1 .. l /\ 1 + ((i - 1) % n) \in 1 .. n
  <2>1. n # 0
    BY <1>1
  <2>2. (i - 1) \div n \in 0 .. l - 1 /\ (i - 1) % n \in 0 .. n - 1
    BY <2>1, <1>1, Place
  <2>3. QED
    BY SMTT(60), <2>2, <1>1
<1>4. grid \in Seq(JobSet) /\ Len(grid) = cells
  <2>1. \A i \in 1 .. cells : grid[i] \in JobSet
    BY <1>2, <1>3 DEF JobSet
  <2>2. grid = [i \in 1 .. cells |-> grid[i]]
    OBVIOUS
  <2> HIDE DEF grid, cells
  <2>3. QED
    BY <2>1, <2>2, <1>1, ListOf
<1>5. last \in Seq(JobSet) /\ Len(last) = l
  BY <1>1, <1>2 DEF JobSet
<1>6. ASSUME NEW p \in 1 .. l, NEW s \in 1 .. n
      PROVE  \E i \in 1 .. cells : grid[i] = <<Policies[p], Scenarios[s]>>
  <2> DEFINE i == (p - 1) * n + (s - 1) + 1
  <2>1. p - 1 \in Nat /\ s - 1 \in 0 .. n - 1 /\ n \in Nat \ {0}
    BY <1>1
  <2>2. (p - 1) * n \in Nat /\ i - 1 = (p - 1) * n + (s - 1)
    BY <2>1
  <2>3. (i - 1) \div n = p - 1 /\ (i - 1) % n = s - 1
    <3>1. /\ ((p - 1) * n + (s - 1)) \div n = p - 1
          /\ ((p - 1) * n + (s - 1)) % n = s - 1
      <4> HIDE DEF n
      <4>1. QED
        BY ZenonT(60), <2>1, Division
    <3> HIDE DEF i, n
    <3>2. QED
      BY <2>2, <3>1, Zenon
  <2>4. i \in 1 .. cells
    <3>1. (l - p) * n \in Nat
      BY <1>1
    <3>2. cells = (p - 1) * n + n + (l - p) * n
      BY <1>1
    <3>3. (p - 1) * n + (s - 1) + 1 <= (p - 1) * n + n
      BY <2>1, <2>2
    <3> HIDE DEF cells
    <3>4. QED
      BY <3>1, <3>2, <3>3, <2>1, <2>2, <1>1
  <2>5. grid[i] = <<Policies[1 + ((i - 1) \div n)], Scenarios[1 + ((i - 1) % n)]>>
    BY <2>4
  <2>6. 1 + ((i - 1) \div n) = p /\ 1 + ((i - 1) % n) = s
    BY SMTT(60), <2>3, <1>1
  <2> HIDE DEF i, grid, cells
  <2>7. QED
    BY <2>4, <2>5, <2>6
<1>7. \A i \in 1 .. l : last[i] = <<Policies[i], "fault">>
  OBVIOUS
<1> HIDE DEF n, l, cells, grid, last
<1>8. /\ Jobs \in Seq(JobSet) /\ \A i \in DOMAIN Jobs : Jobs[i] \in JobSet
      /\ \A i \in 1 .. cells : i \in DOMAIN Jobs /\ Jobs[i] = grid[i]
      /\ \A i \in 1 .. l : cells + i \in DOMAIN Jobs /\ Jobs[cells + i] = last[i]
  BY SMTT(60), <1>1, <1>4, <1>5, Joined
<1>9. ASSUME NEW e \in JobSet PROVE e \in Names(Jobs)
  <2>1. PICK p \in 1 .. l : e[1] = Policies[p]
    BY <1>2 DEF JobSet
  <2>2. e = <<e[1], e[2]>>
    BY DEF JobSet
  <2>3. CASE e[2] = "fault"
    <3>1. last[p] = e
      BY <2>1, <2>2, <2>3, <1>7
    <3>2. QED
      BY <3>1, <1>8 DEF Names
  <2>4. CASE e[2] \in Names(Scenarios)
    <3>1. PICK s \in 1 .. n : e[2] = Scenarios[s]
      BY <2>4, <1>2
    <3>2. PICK i \in 1 .. cells : grid[i] = e
      <4>1. PICK i \in 1 .. cells : grid[i] = <<Policies[p], Scenarios[s]>>
        BY <1>6, Zenon
      <4>2. QED
        BY ZenonT(60), <4>1, <3>1, <2>1, <2>2
    <3>3. QED
      BY <3>2, <1>8 DEF Names
  <2>5. QED
    BY <2>3, <2>4 DEF JobSet
<1>10. QED
  BY <1>8, <1>9 DEF Names

\* What is left of a list of jobs when its first one is taken from it.
LEMMA NamesTail ==
  ASSUME NEW S, NEW q \in Seq(S), q # <<>>
  PROVE  /\ Head(q) \in S /\ Tail(q) \in Seq(S)
         /\ Names(q) = {Head(q)} \cup Names(Tail(q))
<1>1. /\ Head(q) = q[1] /\ Head(q) \in S /\ Tail(q) \in Seq(S)
      /\ Len(Tail(q)) = Len(q) - 1 /\ Len(q) \in Nat \ {0}
      /\ DOMAIN q = 1 .. Len(q) /\ DOMAIN Tail(q) = 1 .. Len(Tail(q))
  OBVIOUS
<1>2. \A i \in 1 .. Len(Tail(q)) : Tail(q)[i] = q[i + 1]
  OBVIOUS
<1>3. ASSUME NEW i \in 1 .. Len(q) PROVE q[i] \in {Head(q)} \cup Names(Tail(q))
  <2>1. CASE i = 1
    BY <2>1, <1>1
  <2>2. CASE i # 1
    <3>1. i - 1 \in 1 .. Len(Tail(q)) /\ Tail(q)[i - 1] = q[i]
      BY <2>2, <1>1, <1>2
    <3>2. QED
      BY <3>1, <1>1 DEF Names
  <2>3. QED
    BY <2>1, <2>2
<1>4. ASSUME NEW i \in 1 .. Len(Tail(q)) PROVE Tail(q)[i] \in Names(q)
  <2>1. i + 1 \in 1 .. Len(q) /\ Tail(q)[i] = q[i + 1]
    BY <1>1, <1>2
  <2>2. QED
    BY <2>1, <1>1 DEF Names
<1>5. Names(q) \subseteq {Head(q)} \cup Names(Tail(q))
  BY <1>3, <1>1 DEF Names
<1>6. Head(q) \in Names(q) /\ Names(Tail(q)) \subseteq Names(q)
  BY <1>1, <1>4 DEF Names
<1>7. QED
  BY <1>1, <1>5, <1>6

-----------------------------------------------------------------------------
\* The k-th of a finite set of positions is the one with k of them up to it: the first is
\* the smallest, and every position is the k-th for some k.
LEMMA NthIs ==
  ASSUME NEW T \in SUBSET Int, IsFiniteSet(T)
  PROVE  LET n == Cardinality(T)
         IN  /\ n \in Nat
             /\ \A k \in 1 .. n : Nth(T, k) \in T
             /\ \A k, l \in 1 .. n : k < l => Nth(T, k) < Nth(T, l)
             /\ \A i \in T : \E k \in 1 .. n : Nth(T, k) = i
<1> DEFINE n == Cardinality(T)
           upto(i) == {j \in T : j <= i}
           rank == [i \in T |-> Cardinality(upto(i))]
<1>1. n \in Nat
  BY FS_CardinalityType
<1>2. \A i \in T : IsFiniteSet(upto(i)) /\ rank[i] \in 1 .. n /\ rank[i] \in Nat
  <2> TAKE i \in T
  <2>1. IsFiniteSet(upto(i)) /\ Cardinality(upto(i)) <= n
    BY FS_Subset
  <2>2. i \in upto(i)
    OBVIOUS
  <2>3. Cardinality(upto(i)) \in Nat /\ Cardinality(upto(i)) # 0
    BY <2>1, <2>2, FS_CardinalityType, FS_EmptySet
  <2> HIDE DEF upto
  <2>4. QED
    BY <1>1, <2>1, <2>3
<1>3. ASSUME NEW i \in T, NEW j \in T, i < j PROVE rank[i] < rank[j]
  <2>1. upto(i) \subseteq upto(j) /\ j \in upto(j) /\ j \notin upto(i)
    <3>1. i \in Int /\ j \in Int /\ j <= j /\ ~(j <= i)
      BY <1>3
    <3>2. \A k \in T : k <= i => k <= j
      BY <1>3, <3>1
    <3>3. QED
      BY <3>1, <3>2
  <2>2. Cardinality(upto(i)) <= Cardinality(upto(j)) /\ Cardinality(upto(i)) # Cardinality(upto(j))
    <3> HIDE DEF upto
    <3>1. IsFiniteSet(upto(j))
      BY <1>2
    <3>2. upto(i) \in SUBSET upto(j) /\ upto(i) # upto(j)
      BY <2>1
    <3>3. QED
      BY <3>1, <3>2, FS_Subset
  <2>3. rank[i] \in Nat /\ rank[j] \in Nat
    BY <1>2
  <2>4. rank[i] = Cardinality(upto(i)) /\ rank[j] = Cardinality(upto(j))
    OBVIOUS
  <2> HIDE DEF rank, upto
  <2>5. QED
    BY <2>2, <2>3, <2>4
<1>4. rank \in Surjection(T, 1 .. n)
  <2>1. rank \in [T -> 1 .. n]
    <3>1. rank = [i \in T |-> rank[i]]
      OBVIOUS
    <3> HIDE DEF rank
    <3>2. QED
      BY <1>2, <3>1
  <2>2. \A i, j \in T : i # j => rank[i] # rank[j]
    <3> HIDE DEF rank
    <3>1. \A i, j \in T : i # j => i < j \/ j < i
      OBVIOUS
    <3>2. \A i \in T : rank[i] \in Nat
      BY <1>2
    <3>3. QED
      BY <1>3, <3>1, <3>2
  <2> HIDE DEF rank
  <2>3. rank \in Injection(T, 1 .. n)
    BY <2>1, <2>2 DEF Injection, IsInjective
  <2>4. IsFiniteSet(1 .. n) /\ Cardinality(1 .. n) = n
    BY <1>1, FS_Interval
  <2>5. QED
    BY <2>3, <2>4, FS_Injection
<1>5. ASSUME NEW k \in 1 .. n PROVE Nth(T, k) \in T /\ rank[Nth(T, k)] = k
  <2>1. \E i \in T : rank[i] = k
    BY <1>4 DEF Surjection
  <2>2. \E i \in T : Cardinality(upto(i)) = k
    BY <2>1
  <2>3. Nth(T, k) = CHOOSE i \in T : Cardinality(upto(i)) = k
    BY DEF Nth
  <2>4. QED
    BY <2>2, <2>3
<1>6. ASSUME NEW k \in 1 .. n, NEW l \in 1 .. n, k < l PROVE Nth(T, k) < Nth(T, l)
  <2> DEFINE a == Nth(T, k)
             b == Nth(T, l)
  <2>1. a \in T /\ b \in T /\ a \in Int /\ b \in Int /\ rank[a] = k /\ rank[b] = l
    BY <1>5
  <2> HIDE DEF a, b, rank
  <2>2. ~(b < a) /\ a # b
    BY <1>3, <1>6, <2>1
  <2>3. a < b
    BY <2>1, <2>2
  <2>4. QED
    BY <2>3 DEF a, b
<1>7. ASSUME NEW i \in T PROVE \E k \in 1 .. n : Nth(T, k) = i
  <2> DEFINE k == rank[i]
             j == Nth(T, k)
  <2>1. k \in 1 .. n
    BY <1>2
  <2>2. j \in T /\ rank[j] = k
    BY <1>5, <2>1
  <2>3. ~(i < j) /\ ~(j < i)
    <3>1. rank[i] = k /\ k \in Int
      BY <2>1
    <3> HIDE DEF rank, j, k
    <3>2. QED
      BY <1>3, <2>2, <3>1
  <2>4. i \in Int /\ j \in Int
    BY <2>2
  <2> HIDE DEF j, k
  <2>5. j = i
    BY <2>3, <2>4
  <2>6. QED
    BY <2>1, <2>5 DEF j
<1> HIDE DEF n, rank
<1>8. QED
  BY <1>1, <1>5, <1>6, <1>7 DEF n

\* What is kept of a list: its entries at the places, in their order.
LEMMA KeptIs ==
  ASSUME NEW S, NEW list \in Seq(S), NEW T \in SUBSET DOMAIN list
  PROVE  /\ IsFiniteSet(T) /\ Cardinality(T) \in Nat
         /\ Kept(list, T) \in Seq(S) /\ Len(Kept(list, T)) = Cardinality(T)
         /\ \A k \in 1 .. Cardinality(T) :
              Nth(T, k) \in T /\ Kept(list, T)[k] = list[Nth(T, k)]
         /\ Kept(list, T) = <<>> <=> T = {}
<1> DEFINE n == Cardinality(T)
           picked == Kept(list, T)
<1>1. DOMAIN list = 1 .. Len(list) /\ Len(list) \in Nat
  OBVIOUS
<1>2. T \in SUBSET Int /\ IsFiniteSet(T)
  <2>1. IsFiniteSet(DOMAIN list) /\ DOMAIN list \subseteq Int
    BY <1>1, FS_Interval
  <2>2. QED
    BY <2>1, FS_Subset
<1>3. n \in Nat /\ \A k \in 1 .. n : Nth(T, k) \in T
  BY <1>2, NthIs
<1>4. picked = [k \in 1 .. n |-> list[Nth(T, k)]]
  BY DEF Kept
<1>5. n = 0 <=> T = {}
  BY <1>2, FS_EmptySet
<1> HIDE DEF n, picked
<1>6. \A k \in 1 .. n : picked[k] = list[Nth(T, k)] /\ picked[k] \in S
  BY <1>1, <1>3, <1>4
<1>7. picked = [k \in 1 .. n |-> picked[k]]
  BY <1>4
<1>8. picked \in Seq(S) /\ Len(picked) = n
  BY <1>3, <1>6, <1>7, ListOf
<1>9. picked = <<>> <=> T = {}
  BY <1>5, <1>8
<1>10. QED
  BY <1>2, <1>3, <1>6, <1>8, <1>9 DEF n, picked

\* A finite set of numbers has a smallest and a largest one.
LEMMA Extremes ==
  ASSUME NEW T \in SUBSET Int, IsFiniteSet(T), T # {}
  PROVE  (\E i \in T : \A j \in T : i <= j) /\ (\E i \in T : \A j \in T : j <= i)
<1> DEFINE n == Cardinality(T)
<1>1. n \in Nat /\ n # 0
  BY FS_CardinalityType, FS_EmptySet
<1>2. /\ \A k \in 1 .. n : Nth(T, k) \in T
      /\ \A k, l \in 1 .. n : k < l => Nth(T, k) < Nth(T, l)
      /\ \A i \in T : \E k \in 1 .. n : Nth(T, k) = i
  BY NthIs
<1> HIDE DEF n
<1>3. 1 \in 1 .. n /\ n \in 1 .. n
  BY <1>1
<1>4. ASSUME NEW j \in T PROVE Nth(T, 1) <= j /\ j <= Nth(T, n)
  <2>1. PICK k \in 1 .. n : Nth(T, k) = j
    BY <1>2
  <2>2. (k = 1 \/ 1 < k) /\ (k = n \/ k < n)
    BY <1>1
  <2>3. Nth(T, 1) \in Int /\ Nth(T, n) \in Int /\ j \in Int
    BY <1>2, <1>3
  <2>4. (k = 1 \/ Nth(T, 1) < j) /\ (k = n \/ j < Nth(T, n))
    BY <1>2, <1>3, <2>1, <2>2
  <2>5. QED
    BY <2>1, <2>3, <2>4
<1>5. QED
  BY <1>2, <1>3, <1>4

-----------------------------------------------------------------------------
\* The programs of project/analysis change no result and give no command.
LEMMA AnalysisReads == Analysis => program # "none" /\ Reads
BY DEF Analysis, FigLatencyBar, FigThroughputBar, FigErrorRate, FigFaultRecovery,
       FigPodDistribution, BuildRows, WriteMarkdown, WriteLatex, WriteTable,
       LoadAllMetrics, LoadFaultData, PrintSummary, PaperP95, PaperThroughput,
       PaperFaultRecovery, PaperScatter, PaperErrorRate, PaperScaling, PaperSeries, Exit, Calls

\* A step is one of the HPA experiment, or leaves it alone.
LEMMA HpaSteps ==
  [Next]_vars => StartHpa \/ HpaScript \/ Background \/ HpaStops \/ UNCHANGED hpaVars
BY AnalysisReads DEF Next, vars, Commanded, GiveSuite, GiveHpa, GiveResults, GivePaper,
   Analyse, SuiteRuns, HpaRunsOn, InBackground, Stops, Reads

\* A step is one of the suite, or leaves it alone; and then so do all others.
LEMMA SuiteSteps ==
  [Next]_vars =>
    \/ /\ StartSuite /\ Idle
       /\ UNCHANGED <<hpaVars, analysisVars>>
    \/ SuiteStep /\ UNCHANGED <<hpaVars, plan, analysisVars>>
    \/ SuiteStops /\ UNCHANGED <<hpaVars, plan, analysisVars>>
    \/ UNCHANGED suiteVars
BY AnalysisReads DEF Next, vars, Commanded, GiveSuite, GiveHpa, GiveResults, GivePaper, Gives,
   Analyse, SuiteRuns, HpaRunsOn, InBackground, Stops, Reads

-----------------------------------------------------------------------------
\* Where the script may be when it has started its monitor, and its k6.
Monitored == {"monitor_pid", "k6", "k6_pid", "wait", "tail"}
Loaded == {"k6_pid", "wait", "tail"}

\* What a process <<name, r>> that is not of the run under way says of that run.
LeftEarly(p) ==
  stoppedAt[p[2]] \in
    CASE p[1] = "forward" -> {"trap", "monitor", "monitor_pid", "k6", "k6_pid"}
      [] p[1] = "monitor" -> {"monitor_pid"}
      [] p[1] = "k6" -> {"k6_pid"}

\* What a process of the run under way says of the place of its script.
StartedBefore(p) ==
  /\ at \notin {"reset", "forward"}
  /\ p[1] = "monitor" => at \in Monitored
  /\ p[1] = "k6" => at \in Loaded

\* A process that lives on is of a run that was stopped early, or of the one under way, and
\* then started; the trap knows of a job from the moment its variable is set.
HpaInv ==
  /\ run \in Nat /\ (at # "idle" => run \in HpaRuns) /\ DOMAIN stoppedAt = HpaRuns
  /\ at \in {"idle", "reset", "forward", "trap", "monitor"} \cup Monitored
  /\ at \in Monitored \ {"monitor_pid"} => "monitor" \in pids
  /\ at \in Loaded \ {"k6_pid"} => "k6" \in pids
  /\ \A p \in procs :
       /\ p[1] \in {"forward", "monitor", "k6"} /\ p[2] \in HpaRuns /\ p[2] \in 0 .. run
       /\ IF at = "idle" \/ p[2] # run THEN LeftEarly(p) ELSE StartedBefore(p)

\* No experiment has left anything before the first.
LEMMA HpaInvInit == Init => HpaInv
BY DEF Init, HpaInit, HpaInv, Monitored, Loaded

\* What is left running was left by a run that was stopped before its trap knew of it.
LEMMA HpaStep == HpaInv /\ [Next]_vars => HpaInv'
<1> SUFFICES ASSUME HpaInv, [Next]_vars PROVE HpaInv'
  OBVIOUS
<1> USE DEF HpaInv
<1>1. CASE StartHpa
  BY <1>1 DEF StartHpa, LeftEarly, StartedBefore, Monitored, Loaded
<1>2. CASE HpaScript
  BY <1>2 DEF HpaScript, Reset, StartForward, SetTrap, StartMonitor, Assign, MonitorPid,
     StartK6, K6Pid, WaitForK6, FinishHpa, LeftEarly, StartedBefore, Monitored, Loaded, Kills,
      Killed
<1>3. CASE Background
  BY <1>3 DEF Background, BeginPoll, Poll, K6Writes, K6Ends, Scale, Tick, LeftEarly, StartedBefore,
     scriptVars
<1>4. CASE HpaStops
  <2>1. CASE ResetFails
    BY <2>1 DEF ResetFails, LeftEarly, StartedBefore, Monitored, Loaded
  <2>2. CASE StopHpa
    <3>1. /\ at' = "idle" /\ UNCHANGED <<run, pids>> /\ run \in HpaRuns
          /\ \A r \in HpaRuns : stoppedAt'[r] = IF r = run THEN at ELSE stoppedAt[r]
          /\ DOMAIN stoppedAt' = HpaRuns
      BY <2>2 DEF StopHpa
    <3>2. ASSUME NEW p \in procs'
          PROVE  /\ p \in procs
                 /\ p[2] = run => (Trapped => p[1] \notin Killed(pids))
      BY <2>2 DEF StopHpa, Kills
    <3>3. ASSUME NEW p \in procs', p[2] = run PROVE LeftEarly(p)'
      <4>1. StartedBefore(p) /\ p[1] \in {"forward", "monitor", "k6"}
            /\ (Trapped => p[1] \notin Killed(pids)) /\ at # "idle"
        BY <3>2, <3>3, <2>2 DEF StopHpa
      <4>2. stoppedAt'[p[2]] = at
        BY <3>1, <3>3
      <4>3. QED
        BY <4>1, <4>2 DEF LeftEarly, StartedBefore, Monitored, Loaded, Trapped, Killed
    <3>4. ASSUME NEW p \in procs', p[2] # run PROVE LeftEarly(p)'
      BY <3>1, <3>2, <3>4 DEF LeftEarly
    <3>5. QED
      BY <3>1, <3>2, <3>3, <3>4 DEF Monitored, Loaded
  <2>3. QED
    BY <1>4, <2>1, <2>2 DEF HpaStops
<1>5. CASE UNCHANGED hpaVars
  BY <1>5 DEF hpaVars, scriptVars, LeftEarly, StartedBefore
<1>6. QED
  BY <1>1, <1>2, <1>3, <1>4, <1>5, HpaSteps

\* Whatever an HPA experiment leaves running, it was stopped in the moments in which its
\* trap does not know of it, for any runs, latencies and scaling.
THEOREM OnlyEarlyStopsLeave == Spec => []LeftOnlyIfStoppedEarly
<1>1. HpaInv => LeftOnlyIfStoppedEarly
  BY DEF HpaInv, LeftOnlyIfStoppedEarly, LeftEarly
<1>2. QED
  BY <1>1, HpaInvInit, HpaStep, PTL DEF Spec

-----------------------------------------------------------------------------
\* What a monitor writes, and what k6 writes in the HPA experiment.
TimelineLine ==
  [ts : Nat, elapsed_s : Nat, are : Nat, kind : {"read", "fallback", "invalid"}, replicas : Nat]
LoadLine == [metric : {"http_req_duration"}, value : Nat, time : Int \cup {Unreadable}]

\* A line counts its seconds from a start that is not after that of the run that emptied the
\* timeline, and shows the replicas there were, or the two of a kubectl that failed.
TrueLine(line) ==
  /\ line.ts - line.elapsed_s <= start[timeline.by]
  /\ 2 <= line.are /\ line.replicas = IF line.kind = "fallback" THEN 2 ELSE line.are

TimelineInv ==
  (timeline # NoFile \/ at = "monitor" \/ \E p \in procs : p[1] = "monitor") =>
    /\ timeline \in [by : HpaRuns, lines : Seq(TimelineLine)]
    /\ \A i \in DOMAIN timeline.lines : TrueLine(timeline.lines[i])
    /\ \A p \in procs : p[1] = "monitor" => start[p[2]] <= start[timeline.by]
    /\ at = "monitor" => timeline.by = run

\* k6 is started after the start time of its run is read, and answers come after that, if
\* no other k6 writes to the file.
LoadInv ==
  (load # NoFile \/ \E p \in procs : p[1] = "k6") =>
    /\ load \in [by : HpaRuns, from : Nat, shared : BOOLEAN, lines : Seq(LoadLine)]
    /\ start[load.by] <= load.from
    /\ load.by <= run /\ (load.by = run => at \notin {"reset", "forward", "trap"})
    /\ ~load.shared =>
         /\ \A p \in procs : p[1] = "k6" => p[2] = load.by
         /\ \A i \in DOMAIN load.lines :
              load.lines[i].time # Unreadable => load.from <= load.lines[i].time

\* A start time is never in the future, and a poll under way has begun after that of its run.
ClockInv ==
  /\ now \in Nat /\ start = [r \in HpaRuns |-> start[r]]
  /\ \A r \in HpaRuns : start[r] \in Nat /\ start[r] <= now
  /\ replicas \in Nat /\ 2 <= replicas
  /\ TS = [r \in HpaRuns |-> TS[r]]
  /\ \A r \in HpaRuns :
       TS[r] # None => TS[r] \in Nat /\ start[r] <= TS[r] /\ <<"monitor", r>> \in procs

FilesInv == ClockInv /\ TimelineInv /\ LoadInv

\* Nothing is written before the first run.
LEMMA FilesInit == Init => FilesInv
<1> SUFFICES ASSUME Init PROVE FilesInv
  OBVIOUS
<1>1. /\ now = 0 /\ procs = {} /\ at = "idle" /\ timeline = NoFile /\ load = NoFile
      /\ start = [r \in HpaRuns |-> 0] /\ replicas \in 2 .. MaxReplicas
      /\ TS = [r \in HpaRuns |-> None]
  BY DEF Init, HpaInit
<1>2. replicas \in Nat /\ 2 <= replicas
  BY <1>1
<1>3. ClockInv
  BY <1>1, <1>2 DEF ClockInv
<1>4. QED
  BY <1>1, <1>3 DEF FilesInv, TimelineInv, LoadInv

\* A line more, at the end of a file.
LEMMA Appended ==
  ASSUME NEW B, NEW S, NEW r \in [by : B, lines : Seq(S)], NEW x \in S
  PROVE  LET file == [r EXCEPT !.lines = Append(@, x)]
         IN  file \in [by : B, lines : Seq(S)] /\ file.by = r.by /\ file.lines = Append(r.lines, x)
<1> DEFINE more == Append(r.lines, x)
<1>1. more \in Seq(S) /\ r = [by |-> r.by, lines |-> r.lines] /\ r.by \in B
  OBVIOUS
<1> HIDE DEF more
<1>2. [r EXCEPT !.lines = more] = [by |-> r.by, lines |-> more]
  BY <1>1
<1>3. QED
  BY <1>1, <1>2 DEF more

\* A line more in the file of k6, at its end or among what another k6 leaves of it.
LEMMA WrittenIs ==
  ASSUME NEW S, NEW file, file.lines \in Seq(S), NEW x \in S,
         NEW more, more \in Written(file.lines, x, file.shared)
  PROVE  more \in Seq(S) /\ (~file.shared => more = Append(file.lines, x))
<1> DEFINE lines == file.lines
           mixed(kept, i) ==
             Kept(lines, {j \in kept : j < i}) \o <<x>> \o Kept(lines, {j \in kept : j >= i})
           all == {mixed(kept, i) : kept \in SUBSET DOMAIN lines, i \in 1 .. Len(lines) + 1}
<1>1. Written(lines, x, file.shared) = IF ~file.shared THEN {Append(lines, x)} ELSE all
  BY DEF Written
<1>2. lines \in Seq(S) /\ more \in Written(lines, x, file.shared)
  OBVIOUS
<1> HIDE DEF lines, mixed, all
<1>3. CASE ~file.shared
  <2>1. more \in {Append(lines, x)}
    BY <1>2, <1>1, <1>3
  <2>2. more = Append(lines, x)
    BY <2>1
  <2>3. QED
    BY <1>2, <1>3, <2>2 DEF lines
<1>4. CASE file.shared
  <2>1. more \in all
    BY <1>2, <1>1, <1>4
  <2>2. PICK kept \in SUBSET DOMAIN lines, i \in 1 .. Len(lines) + 1 :
          more = mixed(kept, i)
    BY <2>1 DEF all
  <2> DEFINE before == Kept(lines, {j \in kept : j < i})
             after == Kept(lines, {j \in kept : j >= i})
  <2>3. before \in Seq(S)
    <3>1. {j \in kept : j < i} \in SUBSET DOMAIN lines
      OBVIOUS
    <3>2. QED
      BY <1>2, <3>1, KeptIs
  <2>4. after \in Seq(S)
    <3>1. {j \in kept : j >= i} \in SUBSET DOMAIN lines
      OBVIOUS
    <3>2. QED
      BY <1>2, <3>1, KeptIs
  <2> HIDE DEF before, after
  <2>5. before \o <<x>> \o after \in Seq(S)
    BY <2>3, <2>4
  <2>6. QED
    BY <1>4, <2>2, <2>5 DEF before, after, mixed
<1>5. QED
  BY <1>3, <1>4

\* No step moves a start time or a poll into the future.
LEMMA ClockStep == HpaInv /\ ClockInv /\ [Next]_vars => ClockInv'
<1> SUFFICES ASSUME HpaInv, ClockInv, [Next]_vars PROVE ClockInv'
  OBVIOUS
\* The times stay, and the monitors that are at a poll live on.
<1>1. CASE /\ UNCHANGED <<now, start>> /\ (replicas' = replicas \/ replicas' \in 2 .. MaxReplicas)
           /\ TS' = [r \in HpaRuns |-> TS'[r]]
           /\ \A r \in HpaRuns :
                \/ TS'[r] = None
                \/ TS'[r] = TS[r] /\ (<<"monitor", r>> \in procs => <<"monitor", r>> \in procs')
  <2>1. replicas' \in Nat /\ 2 <= replicas'
    BY <1>1 DEF ClockInv
  <2>2. QED
    BY <1>1, <2>1 DEF ClockInv
<1>2. CASE SetTrap
  <2>1. /\ UNCHANGED <<now, replicas, TS, procs>> /\ start' = [start EXCEPT ![run] = now]
        /\ start = [r \in HpaRuns |-> start[r]] /\ at = "trap"
    BY <1>2 DEF SetTrap, ClockInv
  <2>2. /\ start' = [r \in HpaRuns |-> start'[r]]
        /\ \A r \in HpaRuns : start'[r] = start[r] \/ start'[r] = now
        /\ \A r \in HpaRuns : r # run => start'[r] = start[r]
    BY <2>1
  <2>3. <<"monitor", run>> \notin procs
    BY <2>1 DEF HpaInv, StartedBefore, Monitored
  <2>4. QED
    BY <2>1, <2>2, <2>3 DEF ClockInv
<1>3. CASE Tick
  <2>1. now' = now + 5 /\ UNCHANGED <<start, replicas, TS, procs>>
    BY <1>3 DEF Tick
  <2>2. now' \in Nat /\ now <= now'
    BY <2>1 DEF ClockInv
  <2>3. QED
    BY <2>1, <2>2 DEF ClockInv
<1>4. CASE Reset
  <2>1. UNCHANGED <<now, start, TS, procs>> /\ replicas' = 2
    BY <1>4 DEF Reset
  <2>2. QED
    BY <2>1 DEF ClockInv
<1>5. ASSUME NEW names, Kills(names), UNCHANGED <<now, start, replicas>> PROVE ClockInv'
  <2>1. \A r \in HpaRuns :
          TS'[r] = None \/ (TS'[r] = TS[r] /\ <<"monitor", r>> \in procs')
    BY <1>5 DEF Kills
  <2>2. TS' = [r \in HpaRuns |-> TS'[r]]
    BY <1>5 DEF Kills
  <2>3. QED
    BY <1>1, <1>5, <2>1, <2>2
<1>6. CASE /\ UNCHANGED <<now, start, replicas, TS>>
           /\ \A p \in procs : p[1] = "monitor" => p \in procs'
  BY <1>1, <1>6 DEF ClockInv
<1>7. CASE StartHpa \/ HpaStops \/ UNCHANGED hpaVars
  BY <1>5, <1>6, <1>7 DEF StartHpa, HpaStops, StopHpa, ResetFails, hpaVars
<1>8. CASE HpaScript
  BY <1>2, <1>4, <1>5, <1>6, <1>8 DEF HpaScript, StartForward, StartMonitor, Assign, MonitorPid,
     StartK6, K6Pid, WaitForK6, FinishHpa
<1>9. ASSUME NEW r \in HpaRuns, BeginPoll(r) PROVE ClockInv'
  <2>1. /\ UNCHANGED <<now, start, replicas, procs>> /\ TS' = [TS EXCEPT ![r] = now]
        /\ <<"monitor", r>> \in procs
    BY <1>9 DEF BeginPoll, CanPoll
  <2>2. /\ TS' = [q \in HpaRuns |-> TS'[q]]
        /\ \A q \in HpaRuns : TS'[q] = IF q = r THEN now ELSE TS[q]
    BY <2>1 DEF ClockInv
  <2>3. QED
    BY <2>1, <2>2 DEF ClockInv
<1>10. ASSUME NEW r \in HpaRuns, Poll(r) PROVE ClockInv'
  <2>1. UNCHANGED <<now, start, replicas, procs>> /\ TS' = [TS EXCEPT ![r] = None]
    BY <1>10 DEF Poll
  <2>2. /\ TS' = [q \in HpaRuns |-> TS'[q]]
        /\ \A q \in HpaRuns : TS'[q] = IF q = r THEN None ELSE TS[q]
    BY <2>1 DEF ClockInv
  <2>3. QED
    BY <2>1, <2>2 DEF ClockInv
<1>11. ASSUME NEW n \in 2 .. MaxReplicas, Scale(n) PROVE ClockInv'
  BY <1>1, <1>11 DEF Scale, ClockInv
<1>12. ASSUME NEW r \in HpaRuns, K6Writes(r) \/ K6Ends(r) PROVE ClockInv'
  BY <1>6, <1>12 DEF K6Writes, K6Ends
<1>13. CASE Background
  BY <1>3, <1>9, <1>10, <1>11, <1>12, <1>13 DEF Background
<1>14. QED
  BY <1>7, <1>8, <1>13, HpaSteps

\* Every line a monitor appends is true of the moment, whichever run it is of.
LEMMA TimelineStep == HpaInv /\ FilesInv /\ [Next]_vars => TimelineInv'
<1> SUFFICES ASSUME HpaInv, FilesInv, [Next]_vars PROVE TimelineInv'
  OBVIOUS
<1> USE DEF FilesInv
\* The timeline stays, and no monitor comes.
<1>1. CASE /\ UNCHANGED <<timeline, start>>
           /\ at' = "monitor" => UNCHANGED <<at, run>>
           /\ \A p \in procs' : p[1] = "monitor" => p \in procs
  BY <1>1 DEF TimelineInv, TrueLine
<1>2. CASE SetTrap
  <2>1. /\ timeline' = [by |-> run, lines |-> <<>>] /\ procs' = procs /\ run' = run
        /\ start' = [start EXCEPT ![run] = now] /\ run \in HpaRuns
    BY <1>2 DEF SetTrap, HpaInv
  <2>2. timeline' \in [by : HpaRuns, lines : Seq(TimelineLine)] /\ DOMAIN timeline'.lines = {}
    BY <2>1
  <2>3. start'[timeline'.by] = now /\ \A r \in HpaRuns : start'[r] <= now
    BY <2>1 DEF ClockInv
  <2>4. QED
    BY <2>1, <2>2, <2>3 DEF TimelineInv, HpaInv
<1>3. CASE StartMonitor
  BY <1>3 DEF StartMonitor, TimelineInv, TrueLine, ClockInv
<1>4. ASSUME NEW r \in HpaRuns, Poll(r) PROVE TimelineInv'
  <2>1. PICK line \in PollLine(r) : timeline' = [timeline EXCEPT !.lines = Append(@, line)]
    BY <1>4 DEF Poll
  <2>2. <<"monitor", r>> \in procs /\ UNCHANGED <<run, at, procs, start>>
    BY <1>4 DEF Poll, scriptVars
  <2>3. /\ timeline \in [by : HpaRuns, lines : Seq(TimelineLine)]
        /\ \A i \in DOMAIN timeline.lines : TrueLine(timeline.lines[i])
        /\ \A p \in procs : p[1] = "monitor" => start[p[2]] <= start[timeline.by]
        /\ at = "monitor" => timeline.by = run
    BY <2>2 DEF TimelineInv
  <2>4. start[r] <= start[timeline.by] /\ start[r] \in Nat /\ TS[r] \in Nat /\ start[r] <= TS[r]
    BY <1>4, <2>2, <2>3 DEF Poll, ClockInv
  <2>5. PICK kind \in {"read", "fallback", "invalid"} :
          line = [ts |-> TS[r], elapsed_s |-> TS[r] - start[r], are |-> replicas, kind |-> kind,
                  replicas |-> IF kind = "fallback" THEN 2 ELSE replicas]
    BY DEF PollLine, Elapsed
  <2>6. TS[r] - start[r] \in Nat /\ TS[r] - (TS[r] - start[r]) = start[r]
    BY <2>4
  <2>7. line \in TimelineLine /\ TrueLine(line)
    BY <2>4, <2>5, <2>6 DEF TimelineLine, TrueLine, ClockInv
  <2>8. /\ timeline' \in [by : HpaRuns, lines : Seq(TimelineLine)]
        /\ timeline'.by = timeline.by /\ timeline'.lines = Append(timeline.lines, line)
    BY <2>1, <2>3, <2>7, Appended
  <2>9. \A i \in DOMAIN timeline'.lines : TrueLine(timeline'.lines[i])
    BY <2>3, <2>7, <2>8
  <2>10. \A i \in DOMAIN timeline'.lines : TrueLine(timeline.lines[i])'
    BY <2>2, <2>8, <2>9 DEF TrueLine
  <2>11. QED
    BY <2>2, <2>3, <2>8, <2>10 DEF TimelineInv
<1>5. CASE StartHpa \/ HpaStops \/ UNCHANGED hpaVars
  BY <1>1, <1>5 DEF StartHpa, HpaStops, StopHpa, ResetFails, hpaVars, scriptVars, Kills
<1>6. CASE HpaScript
  BY <1>1, <1>2, <1>3, <1>6 DEF HpaScript, Reset, StartForward, Assign, MonitorPid,
     StartK6, K6Pid, WaitForK6, FinishHpa, Kills
<1>7. CASE Background
  BY <1>1, <1>4, <1>7 DEF Background, BeginPoll, K6Writes, K6Ends, Scale, Tick, scriptVars
<1>8. QED
  BY <1>5, <1>6, <1>7, HpaSteps

\* k6 writes no answer from before its start.
LEMMA LoadStep == HpaInv /\ FilesInv /\ [Next]_vars => LoadInv'
<1> SUFFICES ASSUME HpaInv, FilesInv, [Next]_vars PROVE LoadInv'
  OBVIOUS
<1> USE DEF FilesInv
\* The file stays, and no k6 comes; a start is only read before that of k6.
<1>1. CASE /\ UNCHANGED <<load, run>>
           /\ start' = start \/ (at = "trap" /\ start' = [start EXCEPT ![run] = now])
           /\ at' \in {"reset", "forward", "trap"} => at \in {"reset", "forward", "trap"}
           /\ \A p \in procs' : p[1] = "k6" => p \in procs
  BY <1>1 DEF LoadInv, ClockInv
<1>2. CASE StartHpa
  <2>1. run' = run + 1 /\ UNCHANGED <<load, start, procs>> /\ run \in Nat
    BY <1>2 DEF StartHpa, HpaInv
  <2>2. \A r \in HpaRuns : r <= run => r <= run + 1 /\ r # run + 1
    BY <2>1
  <2>3. QED
    BY <2>1, <2>2 DEF LoadInv
<1>3. CASE StartK6
  <2> DEFINE shared == \E p \in procs : p[1] = "k6"
  <2>1. /\ load' = [by |-> run, from |-> now, shared |-> shared, lines |-> <<>>]
        /\ procs' = procs \cup {<<"k6", run>>}
        /\ UNCHANGED <<run, start>> /\ run \in HpaRuns /\ at' = "k6_pid"
    BY <1>3 DEF StartK6, HpaInv
  <2>2. /\ load' \in [by : HpaRuns, from : Nat, shared : BOOLEAN, lines : Seq(LoadLine)]
        /\ DOMAIN load'.lines = {}
    BY <2>1 DEF ClockInv
  <2>3. start'[load'.by] <= load'.from
    BY <2>1 DEF ClockInv
  <2>4. ~load'.shared => \A p \in procs' : p[1] = "k6" => p[2] = load'.by
    BY <2>1
  <2>5. QED
    BY <2>1, <2>2, <2>3, <2>4 DEF LoadInv, HpaInv
<1>4. ASSUME NEW r \in HpaRuns, K6Writes(r) PROVE LoadInv'
  <2> DEFINE from == IF load.by = r THEN load.from ELSE start[r]
  <2>1. PICK t \in {u \in {now - 5, now} : u >= from} \cup {Unreadable}, ms \in Latencies :
          \E lines \in Written(load.lines, Point("http_req_duration", ms, t), load.shared) :
            load' = [load EXCEPT !.lines = lines]
    BY <1>4 DEF K6Writes
  <2> DEFINE line == Point("http_req_duration", ms, t)
  <2>2. PICK lines \in Written(load.lines, line, load.shared) :
          load' = [load EXCEPT !.lines = lines]
    BY <2>1
  <2>3. <<"k6", r>> \in procs /\ UNCHANGED <<run, at, procs, start>>
    BY <1>4 DEF K6Writes, scriptVars
  <2>4. /\ load \in [by : HpaRuns, from : Nat, shared : BOOLEAN, lines : Seq(LoadLine)]
        /\ start[load.by] <= load.from
        /\ load.by <= run /\ (load.by = run => at \notin {"reset", "forward", "trap"})
        /\ ~load.shared =>
             /\ \A p \in procs : p[1] = "k6" => p[2] = load.by
             /\ \A i \in DOMAIN load.lines :
                  load.lines[i].time # Unreadable => load.from <= load.lines[i].time
    BY <2>3 DEF LoadInv
  <2>5. /\ load.by \in HpaRuns /\ load.from \in Nat /\ load.shared \in BOOLEAN
        /\ load.lines \in Seq(LoadLine)
    BY <2>4
  <2>6. load' = [by |-> load.by, from |-> load.from, shared |-> load.shared, lines |-> lines]
    BY <2>2, <2>4
  <2>7. t \in Int \cup {Unreadable} /\ (~load.shared /\ t # Unreadable => load.from <= t)
    <3>1. now \in Nat
      BY DEF ClockInv
    <3>2. ~load.shared => load.by = r
      BY <2>3, <2>4
    <3>3. t \in {now - 5, now, Unreadable} /\ (~load.shared /\ t # Unreadable => t >= load.from)
      BY <3>2
    <3> HIDE DEF from
    <3>4. QED
      BY <3>1, <3>3, <2>5
  <2> HIDE DEF from
  <2>8. line \in LoadLine /\ line.time = t
    <3>1. ms \in Nat
      OBVIOUS
    <3>2. QED
      BY <2>7, <3>1 DEF LoadLine, Point
  <2> HIDE DEF line
  <2>9. lines \in Seq(LoadLine) /\ (~load.shared => lines = Append(load.lines, line))
    <3>1. lines \in Written(load.lines, line, load.shared)
      OBVIOUS
    <3>2. QED
      BY <3>1, <2>5, <2>8, WrittenIs
  <2>10. ~load.shared =>
           \A i \in DOMAIN lines : lines[i].time # Unreadable => load.from <= lines[i].time
    <3>1. ASSUME ~load.shared, NEW i \in DOMAIN lines, lines[i].time # Unreadable
          PROVE  load.from <= lines[i].time
      <4>1. /\ lines = Append(load.lines, line)
            /\ line.time # Unreadable => load.from <= line.time
            /\ \A k \in DOMAIN load.lines :
                 load.lines[k].time # Unreadable => load.from <= load.lines[k].time
        BY <3>1, <2>4, <2>7, <2>8, <2>9
      <4>2. load.lines \in Seq(LoadLine)
        BY <2>5
      <4>3. QED
        BY <3>1, <4>1, <4>2
    <3>2. QED
      BY <3>1
  <2>11. load' \in [by : HpaRuns, from : Nat, shared : BOOLEAN, lines : Seq(LoadLine)]
    BY <2>5, <2>6, <2>9
  <2>12. QED
    BY <2>3, <2>4, <2>6, <2>10, <2>11 DEF LoadInv
<1>5. CASE HpaStops \/ UNCHANGED hpaVars
  BY <1>1, <1>5 DEF HpaStops, StopHpa, ResetFails, hpaVars, scriptVars, Kills
<1>6. CASE HpaScript
  BY <1>1, <1>3, <1>6 DEF HpaScript, Reset, StartForward, SetTrap, StartMonitor, Assign,
     MonitorPid, K6Pid, WaitForK6, FinishHpa, Kills
<1>7. CASE Background
  BY <1>1, <1>4, <1>7 DEF Background, BeginPoll, Poll, K6Ends, Scale, Tick, scriptVars
<1>8. QED
  BY <1>2, <1>5, <1>6, <1>7, HpaSteps

\* The invariant of the two files holds of every behaviour.
LEMMA FilesHold == Spec => [](HpaInv /\ FilesInv)
<1>1. HpaInv /\ FilesInv /\ [Next]_vars => FilesInv'
  BY ClockStep, TimelineStep, LoadStep DEF FilesInv
<1>2. QED
  BY <1>1, HpaInvInit, HpaStep, FilesInit, PTL DEF Spec

-----------------------------------------------------------------------------
\* The lines of the timeline a figure shows are those of the file that parse.
LEMMA RowsIs ==
  ASSUME NEW lines \in Seq(TimelineLine)
  PROVE  LET T == {i \in DOMAIN lines : lines[i].kind # "invalid"}
             picked == Parsed(lines)
         IN  /\ picked \in Seq(TimelineLine)
             /\ \A k \in 1 .. Len(picked) : Nth(T, k) \in T /\ picked[k] = lines[Nth(T, k)]
             /\ \A k, l \in 1 .. Len(picked) : k < l => Nth(T, k) < Nth(T, l)
             /\ \A k \in 1 .. Len(picked) : \E i \in DOMAIN lines : picked[k] = lines[i]
             /\ T \subseteq Int
<1> DEFINE T == {i \in DOMAIN lines : lines[i].kind # "invalid"}
           picked == Parsed(lines)
<1>1. T \in SUBSET DOMAIN lines /\ T \subseteq Int
  OBVIOUS
<1>2. picked = Kept(lines, T)
  BY DEF Parsed
<1> HIDE DEF T, picked
<1>3. /\ IsFiniteSet(T) /\ picked \in Seq(TimelineLine) /\ Len(picked) = Cardinality(T)
      /\ \A k \in 1 .. Len(picked) : Nth(T, k) \in T /\ picked[k] = lines[Nth(T, k)]
  BY <1>1, <1>2, KeptIs
<1>4. \A k, l \in 1 .. Cardinality(T) : k < l => Nth(T, k) < Nth(T, l)
  BY <1>1, <1>3, NthIs
<1>5. \A k \in 1 .. Len(picked) : \E i \in DOMAIN lines : picked[k] = lines[i]
  BY <1>1, <1>3
<1>6. QED
  BY <1>1, <1>3, <1>4, <1>5 DEF T, picked

\* The points of the load that the latency figure has a time of.
LEMMA TimedIs ==
  ASSUME LoadInv, load # NoFile
  PROVE  /\ Timed(load.lines) \in Seq(LoadLine)
         /\ \A j \in DOMAIN Timed(load.lines) :
              /\ Timed(load.lines)[j].time \in Int
              /\ ~load.shared => load.from <= Timed(load.lines)[j].time
<1> DEFINE lines == load.lines
           T == {i \in MeasuredAt(lines, "http_req_duration") : lines[i].time # Unreadable}
           timed == Timed(lines)
<1>0. ~load.shared =>
        \A i \in DOMAIN lines : lines[i].time # Unreadable => load.from <= lines[i].time
  BY DEF LoadInv
<1>1. lines \in Seq(LoadLine) /\ load.from \in Nat
  BY DEF LoadInv
<1>2. T \in SUBSET DOMAIN lines /\ \A i \in T : lines[i].time # Unreadable
  BY DEF MeasuredAt
<1>3. timed = Kept(lines, T)
  BY DEF Timed
<1>4. ASSUME NEW i \in T
      PROVE  lines[i].time \in Int /\ (~load.shared => load.from <= lines[i].time)
  <2>1. i \in DOMAIN lines /\ lines[i].time # Unreadable
    BY <1>2
  <2> HIDE DEF lines
  <2>2. lines[i] \in LoadLine
    BY <1>1, <2>1
  <2>3. lines[i].time \in Int
    BY <2>1, <2>2 DEF LoadLine
  <2>4. QED
    BY <1>0, <2>1, <2>3
<1> HIDE DEF lines, T, timed
<1>5. /\ timed \in Seq(LoadLine) /\ Len(timed) = Cardinality(T)
      /\ \A k \in 1 .. Cardinality(T) : Nth(T, k) \in T /\ timed[k] = lines[Nth(T, k)]
  BY <1>1, <1>2, <1>3, KeptIs
<1>6. \A k \in DOMAIN timed :
        timed[k].time \in Int /\ (~load.shared => load.from <= timed[k].time)
  BY <1>4, <1>5
<1>7. QED
  BY <1>5, <1>6 DEF lines, timed

\* The two clocks of the latency figure never show an answer from before the poll that read a
\* rise to the right of its marker, whatever monitors an earlier run left behind.
THEOREM MarkersPrecede == Spec => []RightOfMarkerIsAfter
<1>1. ASSUME FilesInv, timeline # NoFile, load # NoFile, timeline.by = load.by,
             ~load.shared,
             NEW i \in ScaleUps(Parsed(timeline.lines)), NEW j \in DOMAIN Samples(load.lines),
             Samples(load.lines)[j].t > Parsed(timeline.lines)[i].elapsed_s
      PROVE  Timed(load.lines)[j].time >= Parsed(timeline.lines)[i].ts
  <2> DEFINE picked == Parsed(timeline.lines)
             timed == Timed(load.lines)
             from == start[load.by]
  <2>1. /\ timeline.lines \in Seq(TimelineLine) /\ load.by \in HpaRuns /\ load.from \in Nat
        /\ \A k \in DOMAIN timeline.lines : TrueLine(timeline.lines[k])
        /\ from <= load.from /\ from \in Nat
    BY <1>1 DEF FilesInv, TimelineInv, LoadInv, ClockInv
  <2>2. i \in 1 .. Len(picked)
    BY <1>1, <2>1, RowsIs DEF ScaleUps
  <2>3. picked[i] \in TimelineLine /\ TrueLine(picked[i])
    <3>1. \E k \in DOMAIN timeline.lines : picked[i] = timeline.lines[k]
      BY <2>1, <2>2, RowsIs
    <3> HIDE DEF picked
    <3>2. QED
      BY <2>1, <3>1
  <2>4. /\ picked[i].ts \in Nat /\ picked[i].elapsed_s \in Nat
        /\ picked[i].ts - picked[i].elapsed_s <= from
    BY <1>1, <2>3 DEF TrueLine, TimelineLine
  <2>5. j \in DOMAIN timed /\ Samples(load.lines)[j].t = timed[j].time - timed[1].time
    BY <1>1 DEF Samples
  <2>6. 1 \in DOMAIN timed
    BY <1>1, <2>5, TimedIs DEF FilesInv
  <2>7. /\ timed[j].time \in Int
        /\ timed[1].time \in Int /\ load.from <= timed[1].time
    BY <1>1, <2>5, <2>6, TimedIs DEF FilesInv
  <2> DEFINE x == timed[j].time
             y == timed[1].time
             s == picked[i].ts
             e == picked[i].elapsed_s
             f == load.from
  <2>8. x \in Int /\ y \in Int /\ s \in Nat /\ e \in Nat /\ f \in Nat /\ from \in Nat
        /\ x - y > e /\ f <= y /\ from <= f /\ s - e <= from
    BY <1>1, <2>1, <2>4, <2>5, <2>7
  <2> HIDE DEF x, y, s, e, f, from
  <2>9. x >= s
    BY <2>8
  <2>10. QED
    BY <2>9 DEF x, s
<1>2. FilesInv => RightOfMarkerIsAfter
  BY <1>1 DEF RightOfMarkerIsAfter
<1>3. QED
  BY <1>2, FilesHold, PTL

\* Replicas that are more than before have risen from one poll to the next in between.
LEMMA Risen ==
  ASSUME NEW lines \in Seq(TimelineLine), NEW p \in DOMAIN lines, NEW q \in DOMAIN lines,
         p < q, lines[p].are < lines[q].are
  PROVE  \E k \in p + 1 .. q : k \in 2 .. Len(lines) /\ lines[k].are > lines[k - 1].are
<1> DEFINE T == {k \in p + 1 .. q : lines[k].are > lines[p].are}
<1>1. p \in 1 .. Len(lines) /\ q \in 1 .. Len(lines) /\ Len(lines) \in Nat
      /\ \A k \in 1 .. Len(lines) : lines[k].are \in Nat
  <2>1. \A k \in 1 .. Len(lines) : lines[k] \in TimelineLine
    OBVIOUS
  <2>2. \A line \in TimelineLine : line.are \in Nat
    BY DEF TimelineLine
  <2>3. QED
    BY <2>1, <2>2
<1>2. IsFiniteSet(T) /\ T \in SUBSET Int
  <2>1. IsFiniteSet(p + 1 .. q) /\ p + 1 .. q \subseteq Int
    BY <1>1, FS_Interval
  <2>2. QED
    BY <2>1, FS_Subset
<1>3. q \in T
  BY <1>1
<1>4. PICK k \in T : \A l \in T : k <= l
  BY <1>2, <1>3, Extremes
<1>5. k \in p + 1 .. q /\ k \in 2 .. Len(lines) /\ k - 1 \in 1 .. Len(lines)
      /\ lines[k].are > lines[p].are
  BY <1>1, <1>4
<1>6. lines[k - 1].are <= lines[p].are
  <2>1. CASE k - 1 = p
    BY <2>1, <1>1
  <2>2. CASE k - 1 # p
    <3>1. k - 1 \in p + 1 .. q /\ ~(k <= k - 1)
      BY <2>2, <1>1, <1>5
    <3>2. k - 1 \notin T
      BY <3>1, <1>4
    <3>3. QED
      BY SMTT(60), <3>1, <3>2, <1>1, <1>5
  <2>3. QED
    BY <2>1, <2>2
<1>7. lines[k].are > lines[k - 1].are
  BY SMTT(60), <1>1, <1>5, <1>6
<1>8. QED
  BY <1>5, <1>7

\* Every marker stands for a rise of the replicas of its own, or for a poll of its own whose
\* kubectl failed: a figure has no more of them, whatever lines were left out.
THEOREM MarkersExplained == Spec => []MarkersAccounted
<1>1. ASSUME FilesInv, timeline # NoFile PROVE MarkersAccounted
  <2> DEFINE lines == timeline.lines
             picked == Parsed(lines)
             T == {i \in DOMAIN lines : lines[i].kind # "invalid"}
             place(k) == Nth(T, k)
             risen == {i \in 2 .. Len(lines) : lines[i].are > lines[i - 1].are}
             guessed == {i \in DOMAIN lines : lines[i].kind = "fallback"}
             marks == ScaleUps(picked)
             blind == {i \in marks : place(i - 1) \in guessed}
             seen == marks \ blind
  <2>1. lines \in Seq(TimelineLine) /\ \A i \in DOMAIN lines : TrueLine(lines[i])
    BY <1>1 DEF FilesInv, TimelineInv
  <2>2. /\ picked \in Seq(TimelineLine) /\ T \subseteq Int /\ T \subseteq DOMAIN lines
        /\ \A k \in 1 .. Len(picked) : place(k) \in T /\ picked[k] = lines[place(k)]
        /\ \A k, l \in 1 .. Len(picked) : k < l => place(k) < place(l)
    BY <2>1, RowsIs
  <2>3. /\ DOMAIN lines = 1 .. Len(lines) /\ Len(lines) \in Nat /\ Len(picked) \in Nat
        /\ \A i \in DOMAIN lines : lines[i].are \in Nat /\ 2 <= lines[i].are
             /\ lines[i].replicas = IF lines[i].kind = "fallback" THEN 2 ELSE lines[i].are
    <3>1. Len(picked) \in Nat
      BY <2>2
    <3> HIDE DEF lines, picked
    <3>2. DOMAIN lines = 1 .. Len(lines) /\ Len(lines) \in Nat
          /\ \A i \in DOMAIN lines : lines[i] \in TimelineLine /\ TrueLine(lines[i])
      BY <2>1
    <3>3. \A line \in TimelineLine : line.are \in Nat
      BY DEF TimelineLine
    <3>4. QED
      BY <3>1, <3>2, <3>3 DEF TrueLine
  <2>4. IsFiniteSet(risen) /\ IsFiniteSet(guessed) /\ IsFiniteSet(marks)
        /\ IsFiniteSet(blind) /\ IsFiniteSet(seen)
    <3>1. IsFiniteSet(DOMAIN lines) /\ IsFiniteSet(2 .. Len(picked)) /\ IsFiniteSet(2 .. Len(lines))
      <4> HIDE DEF lines, picked
      <4>1. QED
        BY <2>3, FS_Interval
    <3>2. risen \subseteq 2 .. Len(lines) /\ guessed \subseteq DOMAIN lines
          /\ marks \subseteq 2 .. Len(picked) /\ blind \subseteq 2 .. Len(picked)
          /\ seen \subseteq 2 .. Len(picked)
      BY DEF ScaleUps
    <3> HIDE DEF risen, guessed, marks, blind, seen, lines, picked
    <3>3. QED
      BY <3>1, <3>2, FS_Subset
  <2>5. ASSUME NEW i \in marks
        PROVE  /\ i \in 1 .. Len(picked) /\ i - 1 \in 1 .. Len(picked)
               /\ place(i - 1) < place(i)
               /\ place(i - 1) \in DOMAIN lines /\ place(i) \in DOMAIN lines
               /\ place(i) \notin guessed
               /\ place(i - 1) \in guessed \/ lines[place(i - 1)].are < lines[place(i)].are
    <3>1. i \in 1 .. Len(picked) /\ i - 1 \in 1 .. Len(picked) /\ i - 1 < i
          /\ picked[i].replicas > picked[i - 1].replicas
      BY <2>3 DEF ScaleUps
    <3> DEFINE a == place(i - 1)
               b == place(i)
    <3>2. a < b /\ a \in DOMAIN lines /\ b \in DOMAIN lines
          /\ lines[b].replicas > lines[a].replicas
      BY <2>2, <3>1
    <3> HIDE DEF place, lines, picked
    <3>3. lines[b].kind # "fallback"
      BY <2>3, <3>2
    <3>4. lines[a].kind = "fallback" \/ lines[a].are < lines[b].are
      BY <2>3, <3>2, <3>3
    <3>5. QED
      BY <3>1, <3>2, <3>3, <3>4
  <2> HIDE DEF place, picked, T, marks, lines
  <2>6. Cardinality(blind) <= Cardinality(guessed)
    <3> DEFINE f == [i \in blind |-> place(i - 1)]
    <3>1. f \in [blind -> guessed]
      OBVIOUS
    <3>2. ASSUME NEW i \in blind, NEW j \in blind, i < j PROVE f[i] < f[j]
      <4>1. i - 1 \in 1 .. Len(picked) /\ j - 1 \in 1 .. Len(picked) /\ i - 1 < j - 1
        BY <2>5, <2>3, <3>2
      <4>2. QED
        BY <4>1, <2>2
    <3>3. \A i \in blind : i \in Int /\ f[i] \in Int
      BY <2>5, <2>3
    <3> HIDE DEF f, blind, guessed
    <3>4. \A i, j \in blind : f[i] = f[j] => i = j
      <4>1. \A i, j \in blind : i = j \/ i < j \/ j < i
        BY <3>3
      <4>2. QED
        BY <4>1, <3>2, <3>3
    <3>5. f \in Injection(blind, guessed)
      BY <3>1, <3>4 DEF Injection, IsInjective
    <3>6. QED
      BY <3>5, <2>4, FS_Injection
  <2>7. Cardinality(seen) <= Cardinality(risen)
    <3> DEFINE up(i) == {k \in risen : place(i - 1) < k /\ k <= place(i)}
               g == [i \in seen |-> CHOOSE k \in risen : place(i - 1) < k /\ k <= place(i)]
    <3>1. ASSUME NEW i \in seen
          PROVE  g[i] \in risen /\ place(i - 1) < g[i] /\ g[i] <= place(i)
      <4> DEFINE a == place(i - 1)
                 b == place(i)
      <4>1. i \in marks /\ a \notin guessed
        OBVIOUS
      <4>2. a \in DOMAIN lines /\ b \in DOMAIN lines /\ a < b /\ lines[a].are < lines[b].are
        BY <2>5, <4>1
      <4> HIDE DEF a, b
      <4>3. PICK k \in a + 1 .. b : k \in 2 .. Len(lines) /\ lines[k].are > lines[k - 1].are
        BY <4>2, <2>1, Risen
      <4>4. a < k /\ k <= b /\ k \in risen
        BY <4>2, <4>3, <2>3
      <4>5. g[i] = CHOOSE l \in risen : a < l /\ l <= b
        BY DEF a, b
      <4> HIDE DEF g, risen
      <4>6. g[i] \in risen /\ a < g[i] /\ g[i] <= b
        BY <4>4, <4>5
      <4>7. QED
        BY <4>6 DEF a, b
    <3>2. g \in [seen -> risen]
      <4>1. g = [i \in seen |-> g[i]]
        OBVIOUS
      <4> HIDE DEF g
      <4>2. QED
        BY <3>1, <4>1
    <3> HIDE DEF g
    <3>3. \A i \in seen : i \in marks /\ i \in Int /\ g[i] \in Int
      BY <2>5, <2>3, <3>1
    <3>4. ASSUME NEW i \in seen, NEW j \in seen, i < j PROVE g[i] < g[j]
      <4>1. i \in 1 .. Len(picked) /\ j - 1 \in 1 .. Len(picked) /\ (i = j - 1 \/ i < j - 1)
        BY <2>5, <2>3, <3>3, <3>4
      <4>2. place(i) \in DOMAIN lines /\ place(j - 1) \in DOMAIN lines
        BY <2>5, <3>3
      <4>3. place(i) = place(j - 1) \/ place(i) < place(j - 1)
        BY <4>1, <2>2
      <4>4. g[i] <= place(i) /\ place(j - 1) < g[j]
        BY <3>1
      <4>5. QED
        BY <4>2, <4>3, <4>4, <3>3, <2>3
    <3> HIDE DEF seen, risen
    <3>5. \A i, j \in seen : g[i] = g[j] => i = j
      <4>1. \A i, j \in seen : i = j \/ i < j \/ j < i
        BY <3>3
      <4>2. QED
        BY <4>1, <3>4, <3>3
    <3>6. g \in Injection(seen, risen)
      BY <3>2, <3>5 DEF Injection, IsInjective
    <3>7. QED
      BY <3>6, <2>4, FS_Injection
  <2>8. Cardinality(marks) = Cardinality(blind) + Cardinality(seen)
    <3>1. marks = blind \cup seen /\ blind \cap seen = {}
      OBVIOUS
    <3> HIDE DEF blind, seen
    <3>2. Cardinality(marks) = Cardinality(blind) + Cardinality(seen) - Cardinality({})
      BY <3>1, <2>4, FS_Union
    <3>3. QED
      BY <3>2, <2>4, FS_EmptySet, FS_CardinalityType
  <2>9. Cardinality(marks) <= Cardinality(risen) + Cardinality(guessed)
    <3>1. /\ Cardinality(blind) \in Nat /\ Cardinality(seen) \in Nat
          /\ Cardinality(risen) \in Nat /\ Cardinality(guessed) \in Nat
      BY <2>4, FS_CardinalityType
    <3> HIDE DEF blind, seen, risen, guessed
    <3>2. QED
      BY <3>1, <2>6, <2>7, <2>8
  <2>10. QED
    BY <2>9 DEF MarkersAccounted, marks, picked, lines
<1>2. FilesInv => MarkersAccounted
  BY <1>1 DEF MarkersAccounted
<1>3. QED
  BY <1>2, FilesHold, PTL

-----------------------------------------------------------------------------
\* A number in a window of ten, and the tens it has: the window is the numbers of those tens.
LEMMA Tens ==
  ASSUME NEW b \in Nat, b % 10 = 0, NEW t \in Int
  PROVE  InWindow(b, t) <=> t \div 10 = b \div 10
<1> DEFINE d == t \div 10
           m == t % 10
           c == b \div 10
<1>1. d \in Int /\ m \in 0 .. 9 /\ t = 10 * d + m /\ c \in Int /\ b = 10 * c
  OBVIOUS
<1> HIDE DEF d, m, c
<1>2. InWindow(b, t) <=> (10 * c <= 10 * d + m /\ 10 * d + m < 10 * c + 10)
  BY <1>1 DEF InWindow
<1>3. (10 * c <= 10 * d + m /\ 10 * d + m < 10 * c + 10) <=> d = c
  BY <1>1
<1>4. QED
  BY <1>2, <1>3 DEF d, c

\* The latency figure loses no sample but those before the first one of the file and those of
\* a last second that is a full ten, for any load.
THEOREM WindowsCover == Spec => []BinsCover
<1>1. ASSUME FilesInv, load # NoFile PROVE BinsCover
  <2> DEFINE timed == Timed(load.lines)
             samples == Samples(load.lines)
             plotted == Windows(samples)
             in(b) == {i \in DOMAIN samples : samples[i].t \div 10 = b \div 10}
             times == {samples[i].t : i \in DOMAIN samples}
             last == LastTime(samples)
  <2>1. /\ timed \in Seq(LoadLine) /\ \A j \in DOMAIN timed : timed[j].time \in Int
        /\ DOMAIN timed = 1 .. Len(timed) /\ Len(timed) \in Nat
    BY <1>1, TimedIs DEF FilesInv
  <2>2. samples = [i \in 1 .. Len(timed) |->
                     [t |-> timed[i].time - timed[1].time, v |-> timed[i].value]]
    BY <2>1 DEF Samples
  <2> DEFINE S == [t : Int, v : Nat]
  <2>3. \A i \in 1 .. Len(timed) : samples[i] \in S
    <3>1. ASSUME NEW i \in 1 .. Len(timed)
          PROVE  timed[i].time \in Int /\ timed[1].time \in Int /\ timed[i].value \in Nat
      <4>1. 1 \in DOMAIN timed /\ i \in DOMAIN timed
        BY <2>1
      <4>2. timed[i] \in LoadLine
        BY <2>1, <4>1
      <4> HIDE DEF timed
      <4>3. QED
        BY <2>1, <4>1, <4>2 DEF LoadLine
    <3> HIDE DEF timed, samples
    <3>2. QED
      BY <2>2, <3>1
  <2> HIDE DEF timed, samples
  <2>4. samples \in Seq(S) /\ Len(samples) = Len(timed)
    <3>1. samples = [i \in 1 .. Len(timed) |-> samples[i]]
      BY <2>2
    <3> HIDE DEF S
    <3>2. QED
      BY <2>1, <2>3, <3>1, ListOf
  <2>5. \A i \in DOMAIN samples : samples[i].t \in Int
    BY SMTT(60), <2>3, <2>4
  <2>6. samples # <<>> => last \in times /\ \A i \in DOMAIN samples : samples[i].t <= last
    <3>1. ASSUME samples # <<>> PROVE \E t \in times : \A i \in DOMAIN samples : samples[i].t <= t
      <4>1. times \in SUBSET Int /\ times # {}
        <5>1. 1 \in DOMAIN samples
          BY <2>4, <3>1
        <5>2. samples[1].t \in times
          BY <5>1
        <5>3. QED
          BY <2>5, <5>2
      <4>2. IsFiniteSet(times)
        <5> DEFINE f == [i \in DOMAIN samples |-> samples[i].t]
        <5>1. f \in Surjection(DOMAIN samples, times)
          BY DEF Surjection
        <5>2. IsFiniteSet(DOMAIN samples)
          <6>1. DOMAIN samples = 1 .. Len(samples) /\ Len(samples) \in Nat
            BY <2>4
          <6>2. QED
            BY <6>1, FS_Interval
        <5> HIDE DEF f, times
        <5>3. QED
          BY <5>1, <5>2, FS_Surjection
      <4>3. \E t \in times : \A u \in times : u <= t
        BY <4>1, <4>2, Extremes
      <4>4. QED
        BY <4>3
    <3>2. last = CHOOSE t \in times : \A i \in DOMAIN samples : samples[i].t <= t
      BY DEF LastTime
    <3> HIDE DEF last, times
    <3>3. QED
      BY <3>1, <3>2
  <2>7. ASSUME NEW b \in Nat, b % 10 = 0
        PROVE  /\ Len(Window(samples, b)) = Cardinality(in(b))
               /\ Window(samples, b) = <<>> <=> in(b) = {}
    <3>1. {i \in DOMAIN samples : InWindow(b, samples[i].t)} = in(b)
      BY <2>5, <2>7, Tens
    <3>2. Window(samples, b) = Kept(samples, in(b)) /\ in(b) \in SUBSET DOMAIN samples
      BY <3>1 DEF Window
    <3> HIDE DEF in, S
    <3>3. QED
      BY <2>4, <3>2, KeptIs
  <2>8. ASSUME NEW b \in plotted PROVE b \in Nat /\ b % 10 = 0
    BY <2>6 DEF Windows, BinStarts
  <2>9. ASSUME NEW i \in DOMAIN samples, \A b \in plotted : i \notin in(b), ~(samples[i].t < 0)
        PROVE  samples[i].t % 10 = 0 /\ \A j \in DOMAIN samples : samples[j].t <= samples[i].t
    <3> DEFINE t == samples[i].t
               b == 10 * (t \div 10)
    <3>1. t \in Nat
      BY <2>5, <2>9
    <3>2. b \in Nat /\ b % 10 = 0 /\ b \div 10 = t \div 10 /\ b <= t /\ t < b + 10 /\ t - b = t % 10
      <4> HIDE DEF t
      <4>1. QED
        BY <3>1
    <3>3. i \in in(b)
      BY <3>2
    <3>4. /\ samples # <<>> /\ last \in Int /\ t <= last
          /\ \A j \in DOMAIN samples : samples[j].t <= last
      <4>1. samples # <<>>
        BY <2>4
      <4>2. last \in times
        BY <2>6, <4>1
      <4> HIDE DEF last
      <4>3. QED
        BY <2>5, <2>6, <4>1, <4>2
    <3> HIDE DEF in, b, t, last
    <3>5. b \notin plotted
      BY <3>3, <2>9
    <3>6. Window(samples, b) # <<>>
      BY <2>7, <3>2, <3>3
    <3>7. ~(b \in 0 .. last - 1)
      BY <3>2, <3>4, <3>5, <3>6 DEF Windows, BinStarts, last
    <3>8. b = t /\ t = last
      BY <3>1, <3>2, <3>4, <3>7
    <3>9. t % 10 = 0
      BY <3>1, <3>2, <3>8
    <3>10. QED
      BY <3>4, <3>8, <3>9 DEF t
  <2>10. QED
    BY <2>7, <2>8, <2>9 DEF BinsCover, samples
<1>2. FilesInv => BinsCover
  BY <1>1 DEF BinsCover
<1>3. QED
  BY <1>2, FilesHold, PTL

-----------------------------------------------------------------------------
\* The types of the suite's state; a job that has begun is the head of those to do.
SuiteTypes ==
  /\ suite \in Nat
  /\ job \in {"idle", "configure", "load", "result", "write"}
  /\ todo \in Seq(JobSet) /\ (job \in {"load", "result", "write"} => todo # <<>>)
  /\ k6 = [e \in Experiments |-> k6[e]]
  /\ prom = [e \in Experiments |-> prom[e]]
  /\ fault = [p \in Names(Policies) |-> fault[p]]

\* The job under way: an experiment, or the fault injection of a policy.
LEMMA CurrentJob ==
  ASSUME SuiteTypes, todo # <<>>
  PROVE  /\ Current \in JobSet
         /\ ~IsFault => Current \in Experiments
         /\ ~IsFault => Current[2] \in {"steady", "burst", "heavy", "spike"}
         /\ IsFault => Current[1] \in Names(Policies) /\ Current = <<Current[1], "fault">>
<1>1. Current \in JobSet
  BY DEF Current, SuiteTypes
<1>2. Names(Scenarios) \subseteq {"steady", "burst", "heavy", "spike"}
  BY DEF Names
<1>3. QED
  BY <1>1, <1>2 DEF JobSet, IsFault, Experiments

\* No file is written and no job under way at first.
LEMMA TypesInit == Init => SuiteTypes
<1>1. <<>> \in Seq(JobSet)
  OBVIOUS
<1> SUFFICES ASSUME Init PROVE SuiteTypes
  OBVIOUS
<1>2. /\ k6 = [e \in Experiments |-> NoFile] /\ prom = [e \in Experiments |-> NoFile]
      /\ fault = [p \in Names(Policies) |-> NoFile]
  BY DEF Init, SuiteInit
<1>3. /\ k6 = [e \in Experiments |-> k6[e]] /\ prom = [e \in Experiments |-> prom[e]]
      /\ fault = [p \in Names(Policies) |-> fault[p]]
  BY <1>2
<1>4. suite = 0 /\ job = "idle" /\ todo = <<>>
  BY DEF Init, SuiteInit
<1>5. QED
  BY <1>1, <1>3, <1>4 DEF SuiteTypes

\* Every step keeps the types of what the suite and its files hold.
LEMMA TypesStep == SuiteTypes /\ [Next]_vars => SuiteTypes'
<1> SUFFICES ASSUME SuiteTypes, [Next]_vars PROVE SuiteTypes'
  OBVIOUS
<1>0. todo # <<>> => Tail(todo) \in Seq(JobSet)
  BY DEF SuiteTypes
<1>1. CASE StartSuite
  BY <1>1, JobsCover DEF StartSuite, SuiteTypes, files
<1>2. CASE SuiteStep
  <2>1. ASSUME NEW d \in ConfigureSeconds, Configure(d) PROVE SuiteTypes'
    BY <2>1 DEF Configure, SuiteTypes, files
  <2>2. CASE ConfigureFails
    BY <2>2, <1>0 DEF ConfigureFails, Fails, SuiteTypes, files
  <2>3. ASSUME NEW lines \in K6Loads, RunLoad(lines) PROVE SuiteTypes'
    <3>0. k6' = [e \in Experiments |-> k6'[e]]
      BY <2>3 DEF RunLoad, SuiteTypes
    <3>1. UNCHANGED <<suite, prom, fault>> /\ todo # <<>>
      BY <2>3 DEF RunLoad, SuiteTypes
    <3>2. \/ job' = "result" /\ todo' = todo
          \/ job' = "configure" /\ todo' = Tail(todo)
      BY <2>3 DEF RunLoad, Fails
    <3>3. QED
      BY <3>0, <3>1, <3>2, <1>0 DEF SuiteTypes
  <2>4. CASE RunFaultLoad
    BY <2>4, <1>0 DEF RunFaultLoad, Fails, SuiteTypes, files
  <2>5. CASE OpenResult
    BY <2>5 DEF OpenResult, SuiteTypes
  <2>6. ASSUME NEW read \in PromReads, WritePrometheus(read) PROVE SuiteTypes'
    BY <2>6, <1>0 DEF WritePrometheus, Succeeds, SuiteTypes
  <2>7. ASSUME NEW t \in RecoveryTimes, WriteRecovery(t) PROVE SuiteTypes'
    BY <2>7, <1>0 DEF WriteRecovery, Succeeds, SuiteTypes
  <2>8. CASE FinishSuite
    BY <2>8 DEF FinishSuite, SuiteTypes, files
  <2>9. QED
    BY <1>2, <2>1, <2>2, <2>3, <2>4, <2>5, <2>6, <2>7, <2>8 DEF SuiteStep
<1>3. CASE SuiteStops
  <2>1. <<>> \in Seq(JobSet)
    OBVIOUS
  <2>2. CASE StopSuite
    BY <2>1, <2>2 DEF StopSuite, Stopped, SuiteTypes, files
  <2>3. ASSUME NEW lines \in K6Loads, NEW n \in 0 .. Len(lines), StopLoad(lines, n)
        PROVE  SuiteTypes'
    <3>1. k6' = [e \in Experiments |-> k6'[e]]
      BY <2>3 DEF StopLoad, SuiteTypes
    <3>2. job' = "idle" /\ todo' = <<>> /\ UNCHANGED <<suite, prom, fault>>
      BY <2>3 DEF StopLoad, Stopped
    <3>3. QED
      BY <3>1, <3>2, <2>1 DEF SuiteTypes
  <2>4. QED
    BY <1>3, <2>2, <2>3 DEF SuiteStops
<1>4. CASE UNCHANGED suiteVars
  BY <1>4 DEF suiteVars, SuiteTypes
<1>5. QED
  BY <1>1, <1>2, <1>3, <1>4, SuiteSteps

-----------------------------------------------------------------------------
\* The loads that the rates of this moment are of: those of other suites and policies count
\* for a policy only if its first experiment is listed as failed.
Request == [by : Nat, policy : Names(Policies), ago : Nat]
Own(p) ==
  \/ \A t \in traffic : t.by = suite /\ t.policy = p
  \/ <<p, Scenarios[1]>> \in failed

\* A job that is not the first experiment of its policy, nor its fault injection, comes
\* after an experiment of the same policy.
Opens(e) == e[2] \in {Scenarios[1], "fault"}
Follows(e, d) == e[1] = d[1] /\ d[2] # "fault"
InTurn(q) == \A i \in 2 .. Len(q) : Opens(q[i]) \/ Follows(q[i], q[i - 1])

\* From the first experiment of a policy on, until its last one, the rates are its own.
RatesInv ==
  /\ traffic \in SUBSET Request
  /\ InTurn(todo)
  /\ job \in {"configure", "load"} /\ todo # <<>> => Opens(Current) \/ Own(Current[1])
  /\ job \in {"result", "write"} /\ ~IsFault => Own(Current[1])
  /\ \A e \in Experiments :
       prom[e] \notin {NoFile, Torn} => prom[e].by \in Nat /\ prom[e].by <= suite
  /\ ForeignRatesAreListed

\* A rate over the last two minutes is of no load that ended before.
LEMMA AfterIs ==
  ASSUME traffic \in SUBSET Request, NEW d \in Nat
  PROVE  /\ After(d) \in SUBSET Request
         /\ \A t \in After(d) : \E u \in traffic : t.by = u.by /\ t.policy = u.policy
         /\ d >= RateWindow => After(d) = {}
<1>1. ASSUME NEW u \in traffic
      PROVE  /\ u.by \in Nat /\ u.policy \in Names(Policies) /\ u.ago \in Nat
             /\ [u EXCEPT !.ago = @ + d] \in Request
             /\ [u EXCEPT !.ago = @ + d].by = u.by
             /\ [u EXCEPT !.ago = @ + d].policy = u.policy
  BY DEF Request
<1>2. \A t \in After(d) : \E u \in traffic : t = [u EXCEPT !.ago = @ + d] /\ u.ago + d < RateWindow
  BY DEF After
<1>3. ASSUME d >= RateWindow, NEW u \in traffic PROVE ~(u.ago + d < RateWindow)
  <2>1. u.ago \in Nat
    BY <1>1
  <2>2. QED
    BY <1>3, <2>1 DEF RateWindow
<1>4. QED
  BY <1>1, <1>2, <1>3

\* What a load leaves for the rates after it.
LEMMA SendsIs ==
  ASSUME traffic \in SUBSET Request, SuiteTypes, todo # <<>>, NEW d \in Nat, Sends(d)
  PROVE  /\ traffic' \in SUBSET Request
         /\ \A t \in traffic' :
              \/ t.by = suite /\ t.policy = Current[1]
              \/ d < RateWindow /\ \E u \in traffic : t.by = u.by /\ t.policy = u.policy
<1> DEFINE sent == [by |-> suite, policy |-> Current[1], ago |-> 0]
<1>1. sent \in Request /\ sent.by = suite /\ sent.policy = Current[1]
  BY CurrentJob DEF SuiteTypes, Request, JobSet
<1>2. traffic' = After(d) \cup {sent}
  BY DEF Sends
<1> HIDE DEF sent
<1>3. d >= RateWindow \/ d < RateWindow
  BY DEF RateWindow
<1>4. QED
  BY <1>1, <1>2, <1>3, AfterIs

\* The list of jobs has every experiment of a policy after the first one of that policy.
LEMMA JobsInTurn == InTurn(Jobs) /\ (Jobs # <<>> => Opens(Jobs[1]))
<1> DEFINE n == Len(Scenarios)
           l == Len(Policies)
           cells == l * n
           grid == [i \in 1 .. cells |->
                      <<Policies[1 + ((i - 1) \div n)], Scenarios[1 + ((i - 1) % n)]>>]
           last == [i \in 1 .. l |-> <<Policies[i], "fault">>]
<1>1. n \in Nat /\ l \in Nat /\ cells \in Nat /\ Jobs = grid \o last
  BY DEF Jobs
<1>2. Len(grid) = cells /\ Len(last) = l /\ Len(Jobs) = cells + l
  BY <1>1
<1>3. ASSUME NEW i \in 1 .. cells
      PROVE  /\ Jobs[i] = <<Policies[1 + ((i - 1) \div n)], Scenarios[1 + ((i - 1) % n)]>>
             /\ n \in Nat \ {0} /\ (i - 1) \div n \in Nat /\ (i - 1) % n \in 0 .. n - 1
             /\ Scenarios[1 + ((i - 1) % n)] # "fault"
  <2>1. n # 0
    BY <1>1
  <2>2. (i - 1) \div n \in 0 .. l - 1 /\ (i - 1) % n \in 0 .. n - 1
    BY <2>1, <1>1, Place
  <2>3. Jobs[i] = grid[i]
    BY <1>1, <1>2
  <2>4. 1 + ((i - 1) % n) \in 1 .. n
    BY <2>2, <1>1
  <2>5. Scenarios[1 + ((i - 1) % n)] \in {"steady", "burst", "heavy", "spike"}
    BY <2>4
  <2>6. Jobs[i] = <<Policies[1 + ((i - 1) \div n)], Scenarios[1 + ((i - 1) % n)]>>
    BY <2>3
  <2>7. Scenarios[1 + ((i - 1) % n)] # "fault"
    BY <2>5
  <2>8. (i - 1) \div n \in Nat /\ n \in Nat \ {0}
    <3> HIDE DEF n, l
    <3>1. QED
      BY <2>1, <2>2, <1>1
  <2> HIDE DEF n, l
  <2>9. QED
    BY <2>2, <2>6, <2>7, <2>8
<1>4. ASSUME NEW i \in cells + 1 .. cells + l PROVE Jobs[i][2] = "fault"
  <2>1. i - cells \in 1 .. l /\ Jobs[i] = last[i - cells]
    BY <1>1, <1>2
  <2>2. QED
    BY <2>1
<1> HIDE DEF n, l, cells, grid, last
<1>5. ASSUME NEW i \in 1 .. cells, (i - 1) % n = 0 PROVE Opens(Jobs[i])
  BY <1>3, <1>5 DEF Opens
<1>6. ASSUME NEW i \in 2 .. cells, (i - 1) % n # 0 PROVE Follows(Jobs[i], Jobs[i - 1])
  <2> DEFINE q == (i - 1) \div n
             r == (i - 1) % n
  <2>1. i \in 1 .. cells /\ i - 1 \in 1 .. cells /\ i - 1 \in Nat
    BY <1>1
  <2>2. n \in Nat \ {0} /\ q \in Nat /\ r - 1 \in 0 .. n - 1 /\ q * n \in Nat
    <3>1. n \in Nat \ {0} /\ q \in Nat /\ r \in 0 .. n - 1 /\ r # 0
      BY <2>1, <1>3, <1>6
    <3> HIDE DEF q, r
    <3>2. QED
      BY <3>1
  <2>3. i - 1 - 1 = q * n + (r - 1)
    BY <2>1, <2>2
  <2>4. (q * n + (r - 1)) \div n = q
    <3> HIDE DEF q, r
    <3>1. QED
      BY <2>2, Division
  <2>5. (i - 1 - 1) \div n = q
    BY <2>3, <2>4
  <2>6. /\ Jobs[i] = <<Policies[1 + q], Scenarios[1 + r]>>
        /\ Jobs[i - 1] = <<Policies[1 + ((i - 1 - 1) \div n)], Scenarios[1 + ((i - 1 - 1) % n)]>>
        /\ Scenarios[1 + ((i - 1 - 1) % n)] # "fault"
    BY <2>1, <1>3
  <2> HIDE DEF q, r
  <2>7. QED
    BY <2>5, <2>6 DEF Follows
<1>7. \A i \in 1 .. Len(Jobs) : i \in 1 .. cells \/ i \in cells + 1 .. cells + l
  BY <1>1, <1>2
<1>8. InTurn(Jobs)
  <2> SUFFICES ASSUME NEW i \in 2 .. Len(Jobs)
               PROVE  Opens(Jobs[i]) \/ Follows(Jobs[i], Jobs[i - 1])
    BY DEF InTurn
  <2>1. i \in 1 .. Len(Jobs) /\ i \in Nat /\ 2 <= i
    BY <1>1, <1>2
  <2>2. CASE i \in 1 .. cells
    <3>1. i \in 2 .. cells
      BY <2>1, <2>2, <1>1
    <3>2. CASE (i - 1) % n = 0
      BY <2>2, <3>2, <1>5
    <3>3. CASE (i - 1) % n # 0
      BY <3>1, <3>3, <1>6
    <3>4. QED
      BY <3>2, <3>3
  <2>3. CASE i \in cells + 1 .. cells + l
    BY <2>3, <1>4 DEF Opens
  <2>4. QED
    BY <2>1, <2>2, <2>3, <1>7
<1>9. ASSUME Jobs # <<>> PROVE Opens(Jobs[1])
  <2>1. 1 \in 1 .. Len(Jobs)
    BY <1>9, <1>1, <1>2, JobsCover
  <2>2. CASE 1 \in 1 .. cells
    <3>1. (1 - 1) % n = 0
      BY <2>2, <1>3
    <3>2. QED
      BY <2>2, <3>1, <1>5
  <2>3. CASE 1 \in cells + 1 .. cells + l
    BY <2>3, <1>4 DEF Opens
  <2>4. QED
    BY <2>1, <2>2, <2>3, <1>7
<1>10. QED
  BY <1>8, <1>9

\* The job after this one follows it, or opens.
LEMMA TurnTail ==
  ASSUME SuiteTypes, todo # <<>>, InTurn(todo)
  PROVE  /\ InTurn(Tail(todo))
         /\ Tail(todo) # <<>> => Opens(Head(Tail(todo))) \/ Follows(Head(Tail(todo)), Current)
<1>1. /\ todo \in Seq(JobSet) /\ Len(Tail(todo)) = Len(todo) - 1 /\ Len(todo) \in Nat \ {0}
      /\ \A i \in 1 .. Len(Tail(todo)) : Tail(todo)[i] = todo[i + 1]
      /\ Current = todo[1]
  BY DEF SuiteTypes, Current
<1>2. ASSUME NEW i \in 2 .. Len(Tail(todo))
      PROVE  Opens(Tail(todo)[i]) \/ Follows(Tail(todo)[i], Tail(todo)[i - 1])
  <2>1. /\ i + 1 \in 2 .. Len(todo) /\ i \in 1 .. Len(Tail(todo))
        /\ i - 1 \in 1 .. Len(Tail(todo)) /\ (i - 1) + 1 = (i + 1) - 1
    BY <1>1
  <2>2. Tail(todo)[i] = todo[i + 1] /\ Tail(todo)[i - 1] = todo[(i + 1) - 1]
    BY <1>1, <2>1
  <2>3. QED
    BY <2>1, <2>2 DEF InTurn
<1>3. ASSUME Tail(todo) # <<>>
      PROVE  Opens(Head(Tail(todo))) \/ Follows(Head(Tail(todo)), Current)
  <2>1. Len(Tail(todo)) >= 1 /\ Tail(todo) \in Seq(JobSet)
    BY <1>1, <1>3
  <2>2. Head(Tail(todo)) = todo[2] /\ 2 \in 2 .. Len(todo) /\ 2 - 1 = 1
    BY <1>1, <2>1
  <2>3. QED
    BY <1>1, <2>2 DEF InTurn
<1>4. QED
  BY <1>2, <1>3 DEF InTurn

\* What the jobs of a policy have left is its own, or its first experiment is listed.
LEMMA RatesStep == SuiteTypes /\ RatesInv /\ [Next]_vars => RatesInv'
<1> SUFFICES ASSUME SuiteTypes, RatesInv, [Next]_vars PROVE RatesInv'
  OBVIOUS
<1>0. traffic \in SUBSET Request /\ suite \in Nat
  BY DEF RatesInv, SuiteTypes
\* Own is kept by a step that adds loads of this suite and policy only.
<1>1. ASSUME NEW p, Own(p), suite' = suite, failed \subseteq failed',
             \A t \in traffic' :
               \/ t.by = suite /\ t.policy = p
               \/ \E u \in traffic : t.by = u.by /\ t.policy = u.policy
      PROVE  Own(p)'
  BY <1>1 DEF Own
\* The files stay as they are.
<1>2. ASSUME suite' = suite, failed \subseteq failed',
             \A e \in Experiments : prom'[e] = prom[e] \/ prom'[e] = Torn
      PROVE  /\ \A e \in Experiments :
                  prom'[e] \notin {NoFile, Torn} => prom'[e].by \in Nat /\ prom'[e].by <= suite'
             /\ ForeignRatesAreListed'
  BY <1>2 DEF RatesInv, ForeignRatesAreListed
\* A job is taken from the list, and the one after it is of the same policy, or opens.
<1>3. ASSUME todo # <<>>, todo' = Tail(todo), IsFault \/ \A p : p = Current[1] => Own(p)'
      PROVE  InTurn(todo)' /\ (todo # <<>> => Opens(Current) \/ Own(Current[1]))'
  <2>1. InTurn(Tail(todo))
    BY <1>3, TurnTail DEF RatesInv
  <2>2. InTurn(todo)'
    BY <1>3, <2>1 DEF InTurn, Opens, Follows
  <2>3. Current' = Head(Tail(todo))
    BY <1>3 DEF Current
  <2>4. Tail(todo) # <<>> => Opens(Current)' \/ Follows(Current', Current)
    BY <1>3, <2>3, TurnTail DEF RatesInv, Opens
  <2>5. Follows(Current', Current) => ~IsFault /\ Current'[1] = Current[1]
    BY DEF Follows, IsFault
  <2>6. Follows(Current', Current) => Own(Current[1])'
    BY <1>3, <2>5 DEF Own
  <2>7. QED
    BY <1>3, <2>2, <2>4, <2>6
\* A job stays.
<1>16. ASSUME todo' = todo
      PROVE  InTurn(todo)' /\ Current' = Current /\ IsFault' = IsFault
             /\ (Opens(Current)' <=> Opens(Current))
             /\ ((\A p : p = Current[1] => Own(p)') => Own(Current[1])')
  <2>1. Current' = Current
    BY <1>16 DEF Current
  <2>2. InTurn(todo)' /\ IsFault' = IsFault /\ (Opens(Current)' <=> Opens(Current))
    BY <1>16, <2>1 DEF RatesInv, InTurn, Opens, Follows, IsFault
  <2>3. (\A p : p = Current[1] => Own(p)') => Own(Current[1])'
    BY <2>1 DEF Own
  <2>4. QED
    BY <2>1, <2>2, <2>3
<1>4. CASE StartSuite
  <2>1. /\ suite' = suite + 1 /\ job' = "configure" /\ todo' = Jobs
        /\ UNCHANGED <<prom, traffic>>
    BY <1>4 DEF StartSuite, files
  <2>2. \A e \in Experiments : prom[e] \notin {NoFile, Torn} =>
          prom[e].by \in Nat /\ prom[e].by <= suite' /\ prom[e].by # suite'
    BY <2>1, <1>0 DEF RatesInv
  <2>3. InTurn(todo)' /\ (todo' # <<>> => Opens(Current)')
    BY <2>1, JobsInTurn, JobsCover DEF Current, InTurn, Opens, Follows
  <2>4. QED
    BY <2>1, <2>2, <2>3, <1>0 DEF RatesInv, ForeignRatesAreListed
<1>5. ASSUME NEW d \in ConfigureSeconds, Configure(d) PROVE RatesInv'
  <2>1. /\ job = "configure" /\ job' = "load" /\ todo # <<>> /\ traffic' = After(d) /\ d \in Nat
        /\ UNCHANGED <<suite, todo, failed, prom>>
    BY <1>5 DEF Configure, Passes, files
  <2>2. /\ traffic' \in SUBSET Request
        /\ \A t \in traffic' : \E u \in traffic : t.by = u.by /\ t.policy = u.policy
    BY <2>1, <1>0, AfterIs
  <2>3. Opens(Current) \/ \A p : p = Current[1] => Own(p)'
    BY <2>1, <2>2, <1>1 DEF RatesInv
  <2>4. QED
    BY <2>1, <2>2, <2>3, <1>2, <1>16 DEF RatesInv
<1>6. CASE ConfigureFails
  <2>1. /\ job = "configure" /\ job' = "configure" /\ todo # <<>> /\ todo' = Tail(todo)
        /\ failed' = failed \cup {Current} /\ UNCHANGED <<suite, prom, traffic>>
    BY <1>6 DEF ConfigureFails, Fails, files
  <2>2. CASE Opens(Current) /\ ~IsFault
    <3>1. Current = <<Current[1], Scenarios[1]>>
      BY <2>1, <2>2, CurrentJob DEF Opens, IsFault, JobSet
    <3>2. \A p : p = Current[1] => Own(p)'
      BY <2>1, <3>1 DEF Own
    <3>3. QED
      BY <2>1, <3>2, <1>0, <1>2, <1>3 DEF RatesInv
  <2>3. CASE ~Opens(Current)
    <3>1. \A p : p = Current[1] => Own(p)'
      BY <2>1, <2>3, <1>1 DEF RatesInv
    <3>2. QED
      BY <2>1, <3>1, <1>0, <1>2, <1>3 DEF RatesInv
  <2>4. CASE IsFault
    BY <2>1, <2>4, <1>0, <1>2, <1>3 DEF RatesInv
  <2>5. QED
    BY <2>2, <2>3, <2>4
<1>7. ASSUME NEW lines \in K6Loads, RunLoad(lines) PROVE RatesInv'
  <2>1. /\ job = "load" /\ todo # <<>> /\ ~IsFault /\ UNCHANGED <<suite, prom>>
        /\ Sends(StageSeconds[Current[2]]) /\ failed \subseteq failed'
        /\ \/ job' = "result" /\ todo' = todo
           \/ job' = "configure" /\ todo' = Tail(todo)
    BY <1>7 DEF RunLoad, Fails, SuiteTypes
  <2>2. /\ StageSeconds[Current[2]] \in Nat
        /\ Current[2] = "steady" => ~(StageSeconds[Current[2]] < RateWindow)
    BY <2>1, CurrentJob DEF StageSeconds, RateWindow
  <2>3. /\ traffic' \in SUBSET Request
        /\ \A t \in traffic' :
             \/ t.by = suite /\ t.policy = Current[1]
             \/ /\ StageSeconds[Current[2]] < RateWindow
                /\ \E u \in traffic : t.by = u.by /\ t.policy = u.policy
    BY <2>1, <2>2, <1>0, SendsIs
  <2>4. \A p : p = Current[1] => Own(p)'
    <3>1. CASE Opens(Current)
      <4>1. Current[2] = "steady"
        <5>1. Current \in Experiments /\ Current[2] = Scenarios[1]
          BY <2>1, <3>1, CurrentJob DEF Opens, IsFault
        <5>2. Scenarios # <<>>
          BY <5>1 DEF Experiments, Names
        <5>3. QED
          BY <5>1, <5>2
      <4>2. QED
        BY <2>1, <2>2, <2>3, <4>1 DEF Own
    <3>2. CASE ~Opens(Current)
      BY <2>1, <2>3, <3>2, <1>1 DEF RatesInv
    <3>3. QED
      BY <3>1, <3>2
  <2>5. CASE job' = "result" /\ todo' = todo
    BY <2>1, <2>3, <2>4, <2>5, <1>2, <1>16 DEF RatesInv
  <2>6. CASE job' = "configure" /\ todo' = Tail(todo)
    BY <2>1, <2>3, <2>4, <2>6, <1>2, <1>3 DEF RatesInv
  <2>7. QED
    BY <2>1, <2>5, <2>6
<1>8. CASE RunFaultLoad
  <2>1. /\ job = "load" /\ todo # <<>> /\ IsFault /\ UNCHANGED <<suite, prom>>
        /\ failed \subseteq failed' /\ \E d \in Nat : Sends(d)
        /\ \/ job' = "result" /\ todo' = todo
           \/ job' = "configure" /\ todo' = Tail(todo)
    BY <1>8 DEF RunFaultLoad, Fails, SuiteTypes, files, StageSeconds
  <2>2. traffic' \in SUBSET Request
    BY <2>1, <1>0, SendsIs
  <2>3. CASE job' = "result" /\ todo' = todo
    BY <2>1, <2>2, <2>3, <1>2, <1>16 DEF RatesInv
  <2>4. CASE job' = "configure" /\ todo' = Tail(todo)
    BY <2>1, <2>2, <2>4, <1>2, <1>3 DEF RatesInv
  <2>5. QED
    BY <2>1, <2>3, <2>4
<1>9. CASE OpenResult
  <2>1. /\ job = "result" /\ job' = "write" /\ UNCHANGED <<suite, todo, failed, traffic>>
        /\ \A e \in Experiments : prom'[e] = prom[e] \/ prom'[e] = Torn
    BY <1>9 DEF OpenResult, SuiteTypes
  <2>2. ~IsFault => \A p : p = Current[1] => Own(p)'
    BY <2>1 DEF RatesInv, Own
  <2>3. QED
    BY <2>1, <2>2, <1>0, <1>2, <1>16 DEF RatesInv
<1>10. ASSUME NEW read \in PromReads, WritePrometheus(read) PROVE RatesInv'
  <2>1. /\ job = "write" /\ ~IsFault /\ todo # <<>> /\ job' = "configure" /\ todo' = Tail(todo)
        /\ UNCHANGED <<suite, failed, traffic>>
    BY <1>10 DEF WritePrometheus, Succeeds, SuiteTypes
  <2>2. \A e \in Experiments :
          \/ prom'[e] = prom[e]
          \/ /\ e = Current /\ prom'[e].by = suite
             /\ prom'[e].of = {<<t.by, t.policy>> : t \in traffic}
    BY <1>10 DEF WritePrometheus, SuiteTypes
  <2>3. Own(Current[1]) /\ \A p : p = Current[1] => Own(p)'
    BY <2>1 DEF RatesInv, Own
  <2>4. \/ {<<t.by, t.policy>> : t \in traffic} \subseteq {<<suite, Current[1]>>}
        \/ <<Current[1], Scenarios[1]>> \in failed
    BY <2>3 DEF Own
  <2>5. ForeignRatesAreListed'
    BY <2>1, <2>2, <2>4 DEF RatesInv, ForeignRatesAreListed
  <2>6. \A e \in Experiments :
          prom'[e] \notin {NoFile, Torn} => prom'[e].by \in Nat /\ prom'[e].by <= suite'
    BY <2>1, <2>2, <1>0 DEF RatesInv
  <2>7. QED
    BY <2>1, <2>3, <2>5, <2>6, <1>0, <1>3 DEF RatesInv
<1>11. ASSUME NEW t \in RecoveryTimes, WriteRecovery(t) PROVE RatesInv'
  <2>1. /\ job = "write" /\ IsFault /\ todo # <<>> /\ job' = "configure" /\ todo' = Tail(todo)
        /\ UNCHANGED <<suite, failed, prom, traffic>>
    BY <1>11 DEF WriteRecovery, Succeeds, SuiteTypes
  <2>2. QED
    BY <2>1, <1>0, <1>2, <1>3 DEF RatesInv
<1>12. CASE FinishSuite
  <2>1. job' = "idle" /\ UNCHANGED <<suite, todo, failed, prom, traffic>>
    BY <1>12 DEF FinishSuite, files
  <2>2. QED
    BY <2>1, <1>0, <1>2, <1>16 DEF RatesInv
<1>13. CASE SuiteStops
  <2>1. /\ job # "idle" /\ job' = "idle" /\ todo' = <<>> /\ UNCHANGED <<suite, failed, prom>>
        /\ traffic' = traffic \/ (job = "load" /\ Sends(0))
    BY <1>13 DEF SuiteStops, StopSuite, StopLoad, Stopped, files
  <2>2. traffic' \in SUBSET Request
    BY <2>1, <1>0, SendsIs DEF SuiteTypes
  <2>3. QED
    BY <2>1, <2>2, <1>2 DEF RatesInv, InTurn
<1>14. CASE UNCHANGED suiteVars
  BY <1>14 DEF suiteVars, RatesInv, Own, Current, IsFault, InTurn, Opens, Follows,
               ForeignRatesAreListed
<1>15. QED
  BY <1>4, <1>5, <1>6, <1>7, <1>8, <1>9, <1>10, <1>11, <1>12, <1>13, <1>14, SuiteSteps
     DEF SuiteStep

\* Whose requests the rates of an experiment are of, for any policies, any scenarios of which
\* the first is steady, and whatever fails or is stopped.
THEOREM ForeignRatesListed == Spec => []ForeignRatesAreListed
<1>1. Init => RatesInv
  BY DEF Init, SuiteInit, RatesInv, ForeignRatesAreListed, InTurn
<1>2. RatesInv => ForeignRatesAreListed
  BY DEF RatesInv
<1>3. QED
  BY <1>1, <1>2, TypesInit, TypesStep, RatesStep, PTL DEF Spec

-----------------------------------------------------------------------------
\* The suite a recovery time is of.
FaultBy(p) == IF fault[p] = NoFile THEN 0 ELSE fault[p].by

\* Both files of an experiment, or the file of a fault injection, are of this suite.
Fresh(e) == K6By(e) \in {0, suite} /\ PromBy(e) \in {0, suite}
FreshFault(p) == FaultBy(p) \in {0, suite}

\* Of a suite under way: what is not to be done any more is fresh or has failed.
Underway ==
  /\ \A e \in Experiments : e \in Names(todo) \/ e \in failed \/ Fresh(e)
  /\ \A p \in Names(Policies) :
       <<p, "fault">> \in Names(todo) \/ <<p, "fault">> \in failed \/ FreshFault(p)

\* While a suite runs it keeps its list of what is to be done, and after it its verdict.
VerdictInv ==
  /\ job # "idle" => verdict = None /\ Underway
  /\ verdict # None =>
       /\ \A e \in Experiments : e \in verdict \/ Fresh(e)
       /\ \A p \in Names(Policies) : <<p, "fault">> \in verdict \/ FreshFault(p)
  /\ job \in {"result", "write"} /\ ~IsFault => K6By(Current) \in {0, suite}

\* A file keeps its suite until its experiment is run again, and is new, or listed, after.
LEMMA VerdictStep == SuiteTypes /\ VerdictInv /\ [Next]_vars => VerdictInv'
<1> SUFFICES ASSUME SuiteTypes, VerdictInv, [Next]_vars PROVE VerdictInv'
  OBVIOUS
<1> USE DEF VerdictInv
<1>0. todo # <<>> => Names(todo) = {Current} \cup Names(Tail(todo))
  BY NamesTail DEF SuiteTypes, Current
\* A step of a suite that leaves verdict alone has only to keep what is under way.
<1>1. ASSUME job # "idle", job' = "idle" \/ Underway', verdict' = verdict,
             job' \in {"result", "write"} /\ ~IsFault' => K6By(Current)' \in {0, suite'}
      PROVE  VerdictInv'
  BY <1>1
\* The files stay: a job goes on, or is taken from the list as failed.
<1>2. ASSUME job # "idle", Underway, UNCHANGED <<suite, files>>,
             UNCHANGED <<todo, failed>> \/ (todo # <<>> /\ Fails)
      PROVE  Underway'
  BY <1>0, <1>2 DEF Underway, Fails, Fresh, FreshFault, FaultBy, K6By, PromBy, files
<1>3. CASE StartSuite
  <2>1. todo' = Jobs /\ verdict' = None /\ job' = "configure"
    BY <1>3 DEF StartSuite
  <2>2. Experiments \subseteq Names(Jobs)
        /\ \A p \in Names(Policies) : <<p, "fault">> \in Names(Jobs)
    BY JobsCover DEF JobSet, Experiments
  <2>3. QED
    BY <2>1, <2>2 DEF Underway
<1>4. CASE SuiteStep
  <2>1. ASSUME NEW d \in ConfigureSeconds, Configure(d) PROVE VerdictInv'
    BY <1>1, <1>2, <2>1 DEF Configure
  <2>2. CASE ConfigureFails
    BY <1>1, <1>2, <2>2 DEF ConfigureFails, Fails
  <2>3. ASSUME NEW lines \in K6Loads, RunLoad(lines) PROVE VerdictInv'
    <3>1. /\ todo # <<>> /\ ~IsFault /\ job = "load"
          /\ k6' = [k6 EXCEPT ![Current] = [by |-> suite, lines |-> lines]]
          /\ UNCHANGED <<suite, verdict, prom, fault>>
          /\ \/ job' = "result" /\ UNCHANGED <<todo, failed>>
             \/ job' = "configure" /\ Fails
      BY <2>3 DEF RunLoad, SuiteTypes, Fails
    <3>2. Current \in Experiments
      BY <3>1, CurrentJob
    <3>3. \A e \in Experiments : IF e = Current THEN k6'[e].by = suite ELSE k6'[e] = k6[e]
      BY <3>1 DEF SuiteTypes
    <3>4. Underway'
      BY <1>0, <3>1, <3>2, <3>3 DEF Underway, Fails, Fresh, FreshFault, FaultBy, PromBy, K6By
    <3>5. job' = "result" => K6By(Current)' \in {0, suite'}
      BY <3>1, <3>2, <3>3 DEF K6By, Current
    <3>6. QED
      BY <1>1, <3>1, <3>4, <3>5
  <2>4. CASE RunFaultLoad
    <3>1. job = "load" /\ IsFault /\ todo # <<>> /\ UNCHANGED <<suite, verdict, files>>
          /\ \/ job' = "result" /\ UNCHANGED <<todo, failed>>
             \/ job' = "configure" /\ Fails
      BY <2>4 DEF RunFaultLoad, SuiteTypes, Fails
    <3>2. job' = "result" => IsFault'
      BY <3>1 DEF IsFault, Current
    <3>3. QED
      BY <1>1, <1>2, <3>1, <3>2
  <2>5. CASE OpenResult
    <3>1. /\ job = "result" /\ todo # <<>> /\ job' = "write"
          /\ UNCHANGED <<suite, verdict, todo, failed, k6>>
          /\ \A e \in Experiments : e # Current => prom'[e] = prom[e]
          /\ \A p \in Names(Policies) : <<p, "fault">> # Current => fault'[p] = fault[p]
      <4>1. job = "result" /\ todo # <<>> /\ job' = "write"
            /\ UNCHANGED <<suite, verdict, todo, failed, k6>>
        BY <2>5 DEF OpenResult, SuiteTypes
      <4>2. \A e \in Experiments : e # Current => prom'[e] = prom[e]
        BY <2>5 DEF OpenResult, SuiteTypes
      <4>3. ASSUME NEW p \in Names(Policies), <<p, "fault">> # Current
            PROVE  fault'[p] = fault[p]
        <5>1. IsFault => Current[1] # p
          BY <4>1, <4>3, CurrentJob
        <5>2. QED
          BY <5>1, <2>5 DEF OpenResult, SuiteTypes
      <4>4. QED
        BY <4>1, <4>2, <4>3
    <3>2. Current \in Names(todo)
      BY <1>0, <3>1
    <3>3. Underway'
      BY <3>1, <3>2 DEF Underway, Fresh, FreshFault, FaultBy, PromBy, K6By
    <3>4. QED
      BY <1>1, <3>1, <3>3 DEF K6By, Current, IsFault
  <2>6. ASSUME NEW read \in PromReads, WritePrometheus(read) PROVE VerdictInv'
    <3>1. /\ job = "write" /\ ~IsFault /\ todo # <<>> /\ job' = "configure"
          /\ UNCHANGED <<suite, verdict, failed, k6, fault>> /\ todo' = Tail(todo)
      BY <2>6 DEF WritePrometheus, Succeeds, SuiteTypes
    <3>2. \A e \in Experiments : e # Current => prom'[e] = prom[e]
      BY <2>6 DEF WritePrometheus, SuiteTypes
    <3>3. Current \in Experiments /\ prom'[Current].by = suite
      BY <2>6, <3>1, CurrentJob DEF WritePrometheus, SuiteTypes
    <3>4. Current # <<Current[1], "fault">>
      BY <3>1 DEF IsFault
    <3>5. K6By(Current) \in {0, suite}
      BY <3>1
    <3>6. \A p \in Names(Policies) : <<p, "fault">> # Current
      BY <3>1 DEF IsFault
    <3>7. Underway'
      BY <1>0, <3>1, <3>2, <3>3, <3>5, <3>6
         DEF Underway, Fresh, FreshFault, FaultBy, PromBy, K6By
    <3>8. QED
      BY <1>1, <3>1, <3>7
  <2>7. ASSUME NEW t \in RecoveryTimes, WriteRecovery(t) PROVE VerdictInv'
    <3>1. /\ job = "write" /\ IsFault /\ todo # <<>> /\ job' = "configure"
          /\ UNCHANGED <<suite, verdict, failed, k6, prom>> /\ todo' = Tail(todo)
      BY <2>7 DEF WriteRecovery, Succeeds, SuiteTypes
    <3>2. Current[1] \in Names(Policies) /\ Current = <<Current[1], "fault">>
      BY <3>1, CurrentJob
    <3>3. \A p \in Names(Policies) : IF p = Current[1] THEN fault'[p].by = suite
                                                       ELSE fault'[p] = fault[p]
      BY <2>7, <3>2 DEF WriteRecovery, SuiteTypes
    <3>4. \A p \in Names(Policies) : <<p, "fault">> = Current => p = Current[1]
      BY <3>2
    <3>5. Current \notin Experiments
      <4>1. "fault" \notin Names(Scenarios)
        BY DEF Names
      <4>2. QED
        BY <3>2, <4>1 DEF Experiments
    <3>6. Underway'
      BY <1>0, <3>1, <3>3, <3>4, <3>5
         DEF Underway, Fresh, FreshFault, FaultBy, PromBy, K6By
    <3>7. QED
      BY <1>1, <3>1, <3>6
  <2>8. CASE FinishSuite
    <3>1. /\ job = "configure" /\ todo = <<>> /\ job' = "idle" /\ verdict' = failed
          /\ UNCHANGED <<suite, files>>
      BY <2>8 DEF FinishSuite
    <3>2. Names(todo) = {}
      BY <3>1 DEF Names
    <3>3. QED
      BY <3>1, <3>2 DEF Underway, Fresh, FreshFault, FaultBy, PromBy, K6By, files
  <2>9. QED
    BY <1>4, <2>1, <2>2, <2>3, <2>4, <2>5, <2>6, <2>7, <2>8 DEF SuiteStep
<1>5. CASE SuiteStops
  <2>1. job # "idle" /\ job' = "idle" /\ verdict' = verdict
    BY <1>5 DEF SuiteStops, StopSuite, StopLoad, Stopped
  <2>2. QED
    BY <1>1, <2>1
<1>6. CASE UNCHANGED suiteVars
  BY <1>6 DEF suiteVars, Underway, Fresh, FreshFault, FaultBy, PromBy, K6By, IsFault, Current
<1>7. QED
  BY <1>3, <1>4, <1>5, <1>6, SuiteSteps

-----------------------------------------------------------------------------
\* The figures and tables as the files in the directory make them.
RecoveryBar(p) == Bar(fault[p].recovery_time_s, fault[p].by)
Figure ==
  [latency |-> [e \in Experiments |-> [q \in Quantiles |-> LatencyBar(e, q)]],
   throughput |-> [e \in Experiments |-> ThroughputBar(e)],
   errors |-> [e \in Experiments |-> ErrorBar(e)],
   recovery |-> [p \in Measured |-> RecoveryBar(p)],
   markdown |-> [e \in Experiments |-> Cells(Row(e))],
   latex |-> [e \in Experiments |-> Cells(Row(e))],
   paper_p95 |->
     [e \in Experiments |->
        IF Metrics(e) = None THEN NoBar ELSE Bar(Metrics(e).p95, Metrics(e).by)],
   paper_throughput |->
     [e \in Experiments |->
        IF Metrics(e) = None \/ Metrics(e).rps = None THEN Bar(Rate(0, 1), 0)
        ELSE Bar(Metrics(e).rps, Metrics(e).by)],
   paper_recovery |->
     [p \in Names(Policies) |-> IF p \in Measured THEN RecoveryBar(p) ELSE NoBar],
   paper_errors |->
     [e \in Experiments |->
        IF Metrics(e) = None THEN Bar(Rate(0, 1), 0) ELSE Bar(Metrics(e).err, Metrics(e).by)]]

\* What the programs keep in memory, as the files make it.
RowsOfFiles == [e \in Experiments |-> Row(e)]
DataOfFiles == [e \in Experiments |-> Metrics(e)]
FaultsOfFiles == [p \in Measured |-> RecoveryBar(p)]

\* A call of one of users comes after one of first.
FirstBefore(list, first, users) ==
  \A i \in DOMAIN list : list[i] \in users => \E j \in 1 .. i - 1 : list[j] = first

RowUsers == {"markdown", "latex"}
DataUsers == {"print_summary", "paper_p95", "paper_throughput", "paper_scatter", "paper_errors"}
FaultUsers == {"paper_recovery"}

\* The functions main may call.
MainCalls == {"latency", "throughput", "errors", "recovery", "pods", "build_rows", "markdown",
              "latex", "load_all_metrics", "load_fault_data", "print_summary", "paper_p95",
              "paper_throughput", "paper_recovery", "paper_scatter", "paper_errors",
              "paper_scaling", "paper_series"}

\* A program has in memory what the files say, or still has to load it before it uses it.
Loads ==
  /\ program = "none" => calls = <<>>
  /\ calls \in Seq(MainCalls)
  /\ rows = RowsOfFiles \/ FirstBefore(calls, "build_rows", RowUsers)
  /\ data = DataOfFiles \/ FirstBefore(calls, "load_all_metrics", DataUsers)
  /\ faults = FaultsOfFiles \/ FirstBefore(calls, "load_fault_data", FaultUsers)

\* A figure that is as new as the directory shows what the files hold; and while a suite
\* runs, none is.
Drawn ==
  /\ program # "none" => job = "idle"
  /\ \A f \in DOMAIN out :
       /\ out[f].at \in Nat /\ out[f].at <= Version
       /\ job # "idle" => out[f].at # Version
       /\ out[f].at = Version /\ f \in DOMAIN Figure => out[f].shows = Figure[f]

\* Taking the first call leaves the order of the others.
LEMMA FirstBeforeTail ==
  ASSUME NEW S, NEW q \in Seq(S), q # <<>>, NEW first, NEW users, FirstBefore(q, first, users)
  PROVE  /\ Head(q) \notin users
         /\ Head(q) # first => FirstBefore(Tail(q), first, users)
<1>1. /\ Head(q) = q[1] /\ DOMAIN q = 1 .. Len(q) /\ Len(q) \in Nat \ {0}
      /\ DOMAIN Tail(q) = 1 .. Len(q) - 1
  OBVIOUS
<1>2. \A i \in 1 .. Len(q) - 1 : Tail(q)[i] = q[i + 1]
  OBVIOUS
<1>3. Head(q) \notin users
  BY <1>1 DEF FirstBefore
<1>4. ASSUME Head(q) # first, NEW i \in 1 .. Len(q) - 1, Tail(q)[i] \in users
      PROVE  \E j \in 1 .. i - 1 : Tail(q)[j] = first
  <2>1. PICK j \in 1 .. i : q[j] = first
    BY <1>1, <1>2, <1>4 DEF FirstBefore
  <2>2. j # 1
    BY <2>1, <1>1, <1>4
  <2>3. j - 1 \in 1 .. i - 1 /\ Tail(q)[j - 1] = q[j]
    BY <2>2, <1>2
  <2>4. QED
    BY <2>1, <2>3
<1>5. QED
  BY <1>1, <1>3, <1>4 DEF FirstBefore

\* The calls of both commands load before they use.
LEMMA MainsLoadFirst ==
  ASSUME NEW list \in {PlotResults \o SummaryTable, PaperFigures}
  PROVE  /\ list \in Seq(MainCalls)
         /\ FirstBefore(list, "build_rows", RowUsers)
         /\ FirstBefore(list, "load_all_metrics", DataUsers)
         /\ FirstBefore(list, "load_fault_data", FaultUsers)
<1>1. CASE list = PaperFigures
  <2>1. list \in Seq(MainCalls) /\ DOMAIN list = 1 .. 10
    BY <1>1 DEF PaperFigures, MainCalls
  <2>2. /\ list[1] = "load_all_metrics" /\ list[2] = "load_fault_data"
        /\ list[3] = "print_summary" /\ list[4] = "paper_p95" /\ list[5] = "paper_throughput"
    BY <1>1 DEF PaperFigures
  <2>3. /\ list[6] = "paper_recovery" /\ list[7] = "paper_scatter" /\ list[8] = "paper_errors"
        /\ list[9] = "paper_scaling" /\ list[10] = "paper_series"
    BY <1>1 DEF PaperFigures
  <2>4. \A i \in 1 .. 10 : list[i] \notin RowUsers
    BY <2>2, <2>3 DEF RowUsers
  <2>5. \A i \in 1 .. 10 : list[i] \in DataUsers \cup FaultUsers => 2 < i
    BY <2>2, <2>3 DEF DataUsers, FaultUsers
  <2>6. QED
    BY <2>1, <2>2, <2>4, <2>5 DEF FirstBefore
<1>2. CASE list = PlotResults \o SummaryTable
  <2>1. /\ PlotResults \in Seq(MainCalls) /\ Len(PlotResults) = 5
        /\ \A i \in 1 .. 5 :
             PlotResults[i] \in {"latency", "throughput", "errors", "recovery", "pods"}
    <3>1. /\ PlotResults[1] = "latency" /\ PlotResults[2] = "throughput"
          /\ PlotResults[3] = "errors" /\ PlotResults[4] = "recovery" /\ PlotResults[5] = "pods"
      BY DEF PlotResults
    <3>2. PlotResults \in Seq(MainCalls) /\ Len(PlotResults) = 5
      BY DEF PlotResults, MainCalls
    <3>3. QED
      BY <3>1, <3>2
  <2>2. /\ SummaryTable \in Seq(MainCalls) /\ Len(SummaryTable) = 3
        /\ SummaryTable[1] = "build_rows" /\ SummaryTable[2] = "markdown"
        /\ SummaryTable[3] = "latex"
    BY DEF SummaryTable, MainCalls
  <2>3. /\ list \in Seq(MainCalls) /\ DOMAIN list = 1 .. Len(PlotResults) + Len(SummaryTable)
        /\ \A i \in 1 .. Len(PlotResults) : list[i] = PlotResults[i]
        /\ \A i \in 1 .. Len(SummaryTable) : list[Len(PlotResults) + i] = SummaryTable[i]
    <3>1. PlotResults \in Seq(MainCalls) /\ SummaryTable \in Seq(MainCalls)
      BY <2>1, <2>2
    <3>2. /\ PlotResults \o SummaryTable \in Seq(MainCalls)
          /\ DOMAIN (PlotResults \o SummaryTable) = 1 .. Len(PlotResults) + Len(SummaryTable)
      BY <3>1, Joined, Zenon
    <3>3. \A i \in 1 .. Len(PlotResults) : (PlotResults \o SummaryTable)[i] = PlotResults[i]
      BY <3>1
    <3>4. \A i \in 1 .. Len(SummaryTable) :
            (PlotResults \o SummaryTable)[Len(PlotResults) + i] = SummaryTable[i]
      BY <3>1
    <3>5. QED
      BY <1>2, <3>2, <3>3, <3>4, Zenon
  <2>4. /\ DOMAIN list = 1 .. 8
        /\ \A i \in 1 .. 5 : list[i] \in {"latency", "throughput", "errors", "recovery", "pods"}
    BY <2>1, <2>2, <2>3
  <2>5. list[6] = "build_rows" /\ list[7] = "markdown" /\ list[8] = "latex"
    <3>1. \A i \in 1 .. 3 : list[5 + i] = SummaryTable[i]
      BY <2>1, <2>2, <2>3
    <3>2. list[5 + 1] = SummaryTable[1] /\ list[5 + 2] = SummaryTable[2]
          /\ list[5 + 3] = SummaryTable[3]
      BY <3>1
    <3>3. QED
      BY <3>2, <2>2
  <2>6. \A i \in 1 .. 8 : list[i] \in RowUsers => 6 < i
    BY <2>4, <2>5 DEF RowUsers
  <2>7. \A i \in 1 .. 8 : list[i] \notin DataUsers \cup FaultUsers
    BY <2>4, <2>5 DEF DataUsers, FaultUsers
  <2>8. FirstBefore(list, "build_rows", RowUsers)
    <3>1. ASSUME NEW i \in 1 .. 8, list[i] \in RowUsers
          PROVE  \E j \in 1 .. i - 1 : list[j] = "build_rows"
      <4>1. 6 \in 1 .. i - 1
        BY <3>1, <2>6
      <4>2. QED
        BY <4>1, <2>5
    <3>2. QED
      BY <3>1, <2>4 DEF FirstBefore
  <2>9. QED
    BY <2>3, <2>4, <2>7, <2>8 DEF FirstBefore
<1>3. QED
  BY <1>1, <1>2

\* Nothing is drawn or loaded otherwise while the files stay.
LEMMA FilesDecide ==
  ASSUME UNCHANGED files
  PROVE  /\ UNCHANGED <<Figure, RowsOfFiles, DataOfFiles, FaultsOfFiles>>
<1>1. k6' = k6 /\ prom' = prom /\ fault' = fault
  BY DEF files
<1>2. \A p : RecoveryBar(p)' = RecoveryBar(p)
  BY <1>1 DEF RecoveryBar
<1>3. Measured' = Measured
  BY <1>1 DEF Measured
<1>4. \A e : Metrics(e)' = Metrics(e)
  BY <1>1 DEF Metrics, K6File, K6By
<1>5. \A e : Row(e)' = Row(e)
  BY <1>1 DEF Row, latency_ms, throughput_rps, errors_5xx_rps, PromBy
<1>6. \A e : ThroughputBar(e)' = ThroughputBar(e) /\ ErrorBar(e)' = ErrorBar(e)
  BY <1>1 DEF ThroughputBar, throughput_rps, PromBy, ErrorBar, K6File, K6By
<1>7. \A e, q : LatencyBar(e, q)' = LatencyBar(e, q)
  BY <1>1 DEF LatencyBar, latency_ms, PromBy, K6Quantile, K6File, K6By
<1>8. QED
  BY <1>2, <1>3, <1>4, <1>5, <1>6, <1>7 DEF Figure, RowsOfFiles, DataOfFiles, FaultsOfFiles

-----------------------------------------------------------------------------
\* Nothing is loaded at first, and no calls are to come.
LEMMA LoadsInit == Init => Loads
<1>1. <<>> \in Seq(MainCalls) /\ DOMAIN <<>> = {}
  OBVIOUS
<1>2. QED
  BY <1>1 DEF Init, Loads, FirstBefore

\* Every step keeps what is in memory true to the files.
LEMMA LoadsStep == Loads /\ Drawn /\ [Next]_vars => Loads'
<1> SUFFICES ASSUME Loads, Drawn, [Next]_vars PROVE Loads'
  OBVIOUS
<1>1. <<>> \in Seq(MainCalls) /\ \A first, users : FirstBefore(<<>>, first, users)
  BY DEF FirstBefore
\* No program runs.
<1>2. ASSUME calls' = <<>> PROVE Loads'
  BY <1>1, <1>2 DEF Loads
\* The memory and the files stay.
<1>3. ASSUME UNCHANGED <<program, calls, memory, files>> PROVE Loads'
  <2>1. UNCHANGED <<RowsOfFiles, DataOfFiles, FaultsOfFiles>>
    BY <1>3, FilesDecide
  <2>2. QED
    BY <2>1, <1>3 DEF Loads, memory
\* A function has been called: it loads, or it leaves the memory alone.
<1>4. ASSUME NEW f, Calls(f), Returns, UNCHANGED files,
             IF f = "build_rows" THEN rows' = RowsOfFiles ELSE rows' = rows,
             IF f = "load_all_metrics" THEN data' = DataOfFiles ELSE data' = data,
             IF f = "load_fault_data" THEN faults' = FaultsOfFiles ELSE faults' = faults
      PROVE  Loads'
  <2>1. /\ calls \in Seq(MainCalls) /\ calls # <<>> /\ Head(calls) = f
        /\ calls' = Tail(calls) /\ program' = program /\ program # "none"
    BY <1>4 DEF Calls, Returns, Loads
  <2>2. Tail(calls) \in Seq(MainCalls)
    BY <2>1
  <2>3. UNCHANGED <<RowsOfFiles, DataOfFiles, FaultsOfFiles>>
    BY <1>4, FilesDecide
  <2>4. rows' = RowsOfFiles \/ FirstBefore(calls', "build_rows", RowUsers)
    BY <1>4, <2>1, FirstBeforeTail DEF Loads
  <2>5. data' = DataOfFiles \/ FirstBefore(calls', "load_all_metrics", DataUsers)
    BY <1>4, <2>1, FirstBeforeTail DEF Loads
  <2>6. faults' = FaultsOfFiles \/ FirstBefore(calls', "load_fault_data", FaultUsers)
    BY <1>4, <2>1, FirstBeforeTail DEF Loads
  <2>7. QED
    BY <2>1, <2>2, <2>3, <2>4, <2>5, <2>6 DEF Loads
<1>5. ASSUME NEW f, Calls(f), f \notin {"build_rows", "load_all_metrics", "load_fault_data"},
             UNCHANGED <<rows, data, faults, files>>, Returns
      PROVE  Loads'
  BY <1>4, <1>5
<1>6. CASE Analysis
  <2>0. UNCHANGED files
    BY <1>6, AnalysisReads DEF Reads, suiteVars, files
  <2>1. ASSUME NEW f, NEW shows, Calls(f), Saves(f, shows),
               f \notin {"build_rows", "load_all_metrics", "load_fault_data"}
        PROVE  Loads'
    BY <1>5, <2>0, <2>1 DEF Saves, memory
  <2>2. ASSUME NEW f, Calls(f), Skips,
               f \notin {"build_rows", "load_all_metrics", "load_fault_data"}
        PROVE  Loads'
    BY <1>5, <2>0, <2>2 DEF Skips, memory
  <2>3. ASSUME NEW how, Ends(how) PROVE Loads'
    BY <1>2, <2>3 DEF Ends
  <2>4. CASE FigLatencyBar \/ FigThroughputBar \/ FigErrorRate
    BY <2>1, <2>3, <2>4 DEF FigLatencyBar, FigThroughputBar, FigErrorRate, Raises
  <2>5. CASE FigFaultRecovery \/ FigPodDistribution
    BY <2>1, <2>2, <2>3, <2>5 DEF FigFaultRecovery, FigPodDistribution, Raises
  <2>6. CASE WriteMarkdown \/ WriteLatex
    BY <2>1, <2>6 DEF WriteMarkdown, WriteLatex, WriteTable
  <2>7. CASE PaperP95 \/ PaperThroughput \/ PaperFaultRecovery \/ PaperScatter \/ PaperErrorRate
    BY <2>1, <2>7
       DEF PaperP95, PaperThroughput, PaperFaultRecovery, PaperScatter, PaperErrorRate
  <2>8. CASE PrintSummary
    BY <2>2, <2>3, <2>8 DEF PrintSummary, Raises
  <2>9. CASE PaperScaling
    BY <1>5, <2>0, <2>2, <2>9 DEF PaperScaling
  <2>10. CASE PaperSeries
    BY <2>1, <2>2, <2>10 DEF PaperSeries
  <2>11. CASE Exit
    BY <2>3, <2>11 DEF Exit
  <2>12. CASE BuildRows
    BY <1>4, <2>0, <2>3, <2>12 DEF BuildRows, RowsOfFiles, Raises
  <2>13. CASE LoadAllMetrics
    BY <1>4, <2>0, <2>13 DEF LoadAllMetrics, DataOfFiles
  <2>14. CASE LoadFaultData
    BY <1>4, <2>0, <2>3, <2>14 DEF LoadFaultData, FaultsOfFiles, RecoveryBar, Raises
  <2>15. QED
    BY <1>6, <2>4, <2>5, <2>6, <2>7, <2>8, <2>9, <2>10, <2>11, <2>12, <2>13, <2>14 DEF Analysis
<1>7. CASE GiveResults \/ GivePaper
  <2>1. PICK list \in {PlotResults \o SummaryTable, PaperFigures} :
          calls' = list /\ program' # "none"
    BY <1>7 DEF GiveResults, GivePaper, Analyse
  <2>2. QED
    BY <2>1, MainsLoadFirst DEF Loads
<1>8. CASE GiveSuite \/ SuiteRuns \/ Stops
  <2>1. UNCHANGED analysisVars
    BY <1>8 DEF GiveSuite, SuiteRuns, Stops
  <2>2. program = "none" \/ UNCHANGED files
    BY <1>8 DEF GiveSuite, Gives, Idle, SuiteRuns, SuiteStep, Stops, SuiteStops, Drawn,
       Configure, ConfigureFails, RunLoad, RunFaultLoad, OpenResult, WritePrometheus,
       WriteRecovery, FinishSuite, StopSuite, StopLoad, suiteVars, files
  <2>3. QED
    BY <1>2, <1>3, <2>1, <2>2 DEF analysisVars, Loads
<1>9. CASE GiveHpa \/ HpaRunsOn \/ InBackground \/ UNCHANGED vars
  BY <1>3, <1>9 DEF GiveHpa, HpaRunsOn, InBackground, vars, suiteVars, files, analysisVars
<1>10. QED
  BY <1>6, <1>7, <1>8, <1>9 DEF Next, Commanded

\* Every step draws what the files hold, or leaves the figures alone.
LEMMA DrawnStep ==
  SuiteTypes /\ HpaInv /\ Loads /\ Drawn /\ [Next]_vars => Drawn'
<1> SUFFICES ASSUME SuiteTypes, HpaInv, Loads, Drawn, [Next]_vars PROVE Drawn'
  OBVIOUS
<1>0. Version \in Nat
  BY DEF Version, SuiteTypes, HpaInv
\* Figures, files and jobs stay.
<1>1. ASSUME UNCHANGED <<out, suite, job, run, files>>, program' # "none" => job = "idle"
      PROVE  Drawn'
  <2>1. Figure' = Figure /\ Version' = Version
    BY <1>1, FilesDecide DEF Version
  <2>2. QED
    BY <2>1, <1>1 DEF Drawn
\* The directory has changed since any figure was drawn.
<1>2. ASSUME UNCHANGED out, program' = "none", Version' \in Nat,
             Version' > Version \/ (Version' = Version /\ job # "idle")
      PROVE  Drawn'
  <2>1. \A f \in DOMAIN out : out[f].at \in Nat /\ out[f].at < Version'
    BY <1>0, <1>2 DEF Drawn
  <2>2. QED
    BY <2>1, <1>2 DEF Drawn
\* A function saves its figure.
<1>3. ASSUME NEW f, NEW shows, Calls(f), out' = Saved(f, shows), Reads, Returns,
             f \in DOMAIN Figure => shows = Figure[f]
      PROVE  Drawn'
  <2>1. /\ UNCHANGED <<suite, job, run, files, program>> /\ job = "idle"
    BY <1>3 DEF Reads, suiteVars, hpaVars, scriptVars, files, Returns, Calls, Drawn
  <2>2. Figure' = Figure /\ Version' = Version
    BY <2>1, FilesDecide DEF Version
  <2>3. ASSUME NEW g \in DOMAIN out'
        PROVE  \/ g = f /\ out'[g] = [at |-> Version, shows |-> shows]
               \/ g \in DOMAIN out /\ out'[g] = out[g]
    BY <1>3 DEF Saved
  <2>4. ASSUME NEW g \in DOMAIN out'
        PROVE  /\ out'[g].at \in Nat /\ out'[g].at <= Version
               /\ out'[g].at = Version /\ g \in DOMAIN Figure => out'[g].shows = Figure[g]
    BY <2>3, <1>0, <1>3 DEF Drawn
  <2>5. QED
    BY <2>1, <2>2, <2>4 DEF Drawn
<1>4. CASE Analysis
  <2>0. /\ Reads /\ program # "none" /\ job = "idle"
        /\ UNCHANGED <<suite, job, run, files>>
    BY <1>4, AnalysisReads DEF Reads, suiteVars, hpaVars, scriptVars, files, Drawn
  <2>1. ASSUME UNCHANGED out PROVE Drawn'
    BY <1>1, <2>0, <2>1
  <2>2. ASSUME NEW f, NEW shows, Calls(f), Saves(f, shows),
               f \in DOMAIN Figure => shows = Figure[f]
        PROVE  Drawn'
    BY <1>3, <2>0, <2>2 DEF Saves
  <2>3. ASSUME NEW f, NEW first, NEW users, Calls(f), FirstBefore(calls, first, users)
        PROVE  f \notin users
    BY <2>3, FirstBeforeTail DEF Calls, Loads
  <2>4. CASE FigLatencyBar
    BY <2>1, <2>2, <2>4 DEF FigLatencyBar, Figure, Raises, Ends
  <2>5. CASE FigThroughputBar \/ FigErrorRate
    BY <2>1, <2>2, <2>5 DEF FigThroughputBar, FigErrorRate, Figure, Raises, Ends
  <2>6. CASE FigFaultRecovery \/ FigPodDistribution
    BY <2>1, <2>2, <2>6
       DEF FigFaultRecovery, FigPodDistribution, Figure, RecoveryBar, Raises, Ends, Skips
  <2>7. CASE WriteMarkdown \/ WriteLatex
    <3>1. PICK f \in RowUsers : WriteTable(f)
      BY <2>7 DEF WriteMarkdown, WriteLatex, RowUsers
    <3>2. rows = RowsOfFiles
      BY <3>1, <2>3 DEF WriteTable, Loads
    <3>3. [e \in Experiments |-> Cells(rows[e])] = Figure[f]
      BY <3>1, <3>2 DEF RowUsers, Figure, RowsOfFiles
    <3>4. QED
      BY <2>2, <3>1, <3>3 DEF WriteTable
  <2>8. CASE PaperP95 \/ PaperThroughput \/ PaperErrorRate
    <3>1. data = DataOfFiles
      <4>1. PICK f \in DataUsers : Calls(f)
        BY <2>8 DEF PaperP95, PaperThroughput, PaperErrorRate, DataUsers
      <4>2. QED
        BY <4>1, <2>3 DEF Loads
    <3>2. \A e \in Experiments : data[e] = Metrics(e)
      BY <3>1 DEF DataOfFiles
    <3>3. CASE PaperP95
      BY <3>2, <3>3, <2>2 DEF PaperP95, Figure
    <3>4. CASE PaperThroughput
      BY <3>2, <3>4, <2>2 DEF PaperThroughput, Figure
    <3>5. CASE PaperErrorRate
      BY <3>2, <3>5, <2>2 DEF PaperErrorRate, Figure
    <3>6. QED
      BY <2>8, <3>3, <3>4, <3>5
  <2>9. CASE PaperFaultRecovery
    <3>1. faults = FaultsOfFiles
      BY <2>9, <2>3 DEF PaperFaultRecovery, FaultUsers, Loads
    <3>2. DOMAIN faults = Measured /\ \A p \in Measured : faults[p] = RecoveryBar(p)
      BY <3>1 DEF FaultsOfFiles
    <3>3. QED
      BY <3>2, <2>9, <2>2 DEF PaperFaultRecovery, Figure
  <2>10. CASE PaperScatter
    BY <2>2, <2>10 DEF PaperScatter, Figure
  <2>11. CASE PaperScaling
    BY <1>3, <2>0, <2>1, <2>11 DEF PaperScaling, Figure, Skips
  <2>12. CASE PaperSeries
    BY <2>1, <2>2, <2>12 DEF PaperSeries, Figure, Skips
  <2>13. CASE BuildRows \/ LoadAllMetrics \/ LoadFaultData \/ PrintSummary \/ Exit
    BY <2>1, <2>13
       DEF BuildRows, LoadAllMetrics, LoadFaultData, PrintSummary, Exit, Raises, Ends, Skips
  <2>14. QED
    BY <1>4, <2>4, <2>5, <2>6, <2>7, <2>8, <2>9, <2>10, <2>11, <2>12, <2>13 DEF Analysis
<1>5. CASE GiveResults \/ GivePaper
  BY <1>1, <1>5 DEF GiveResults, GivePaper, Analyse, Gives, Idle, suiteVars, hpaVars,
                    scriptVars, files
<1>6. CASE GiveSuite \/ GiveHpa
  <2>1. /\ UNCHANGED analysisVars /\ program = "none"
        /\ \/ suite' = suite + 1 /\ run' = run
           \/ suite' = suite /\ run' = run + 1
    BY <1>6 DEF GiveSuite, GiveHpa, Gives, Idle, StartSuite, StartHpa, hpaVars, suiteVars,
                scriptVars
  <2>2. Version' = Version + 1
    BY <2>1 DEF Version, SuiteTypes, HpaInv
  <2>3. QED
    BY <1>0, <1>2, <2>1, <2>2 DEF analysisVars
<1>7. CASE SuiteRuns \/ (SuiteStops /\ UNCHANGED <<hpaVars, plan, analysisVars>>)
  <2>1. UNCHANGED <<run, out, program>>
    BY <1>7 DEF SuiteRuns, hpaVars, scriptVars, analysisVars
  <2>2. job # "idle" /\ suite' = suite
    BY <1>7 DEF SuiteRuns, SuiteStep, SuiteStops, Configure, ConfigureFails, RunLoad,
       RunFaultLoad, OpenResult, WritePrometheus, WriteRecovery, FinishSuite, StopSuite, StopLoad
  <2>3. program = "none" /\ Version' = Version
    BY <2>1, <2>2 DEF Drawn, Version
  <2>4. QED
    BY <1>0, <1>2, <2>1, <2>2, <2>3
<1>8. CASE UNCHANGED <<suiteVars, plan, analysisVars>> /\ (HpaScript \/ Background \/ HpaStops)
  <2>1. run' = run
    BY <1>8 DEF HpaScript, Reset, StartForward, SetTrap, StartMonitor, Assign, MonitorPid,
       StartK6, K6Pid, WaitForK6, FinishHpa, Background, BeginPoll, Poll, K6Writes, K6Ends,
       Scale, Tick, HpaStops, StopHpa, ResetFails, scriptVars
  <2>2. QED
    BY <1>1, <1>8, <2>1 DEF suiteVars, analysisVars, files, Drawn
<1>9. CASE UNCHANGED vars
  BY <1>1, <1>9 DEF vars, suiteVars, hpaVars, scriptVars, analysisVars, files, Drawn
<1>10. QED
  BY <1>4, <1>5, <1>6, <1>7, <1>8, <1>9
     DEF Next, Commanded, HpaRunsOn, InBackground, Stops

-----------------------------------------------------------------------------
\* What None, a cut line and a missing file are not, for all that reads the files of k6.
USE OutputAssumption, ResultsAssumption

\* What a k6 that was stopped leaves: points in the order of a request, and no more than a
\* cut line after them.
WellCut(lines) ==
  /\ lines \in Seq(PointRecord \cup {CutLine})
  /\ \A i \in DOMAIN lines :
       lines[i] # CutLine =>
         /\ lines[i].metric = "http_req_duration" =>
              i > 1 /\ lines[i - 1] # CutLine /\ lines[i - 1].metric = "http_reqs"
         /\ lines[i].metric = "http_req_failed" =>
              /\ i > 1 /\ lines[i - 1] # CutLine /\ lines[i - 1].metric = "http_req_duration"
              /\ lines[i].value <= 1

K6Inv == \A e \in Experiments : k6[e] # NoFile => k6[e].by \in Nat /\ WellCut(k6[e].lines)

\* A load that ran to its end is in order, and so is every part of one from its start.
LEMMA CutsAreWell ==
  ASSUME NEW lines \in K6Loads
  PROVE  /\ WellCut(lines)
         /\ \A n \in 0 .. Len(lines), end \in {<<>>, <<CutLine>>} :
              WellCut(SubSeq(lines, 1, n) \o end)
<1>1. lines \in Seq(PointRecord) /\ InOrder(lines) /\ Len(lines) \in Nat
  OBVIOUS
<1>2. \A i \in DOMAIN lines : lines[i] \in PointRecord /\ lines[i] # CutLine
  BY <1>1
<1>3. WellCut(lines)
  <2>1. lines \in Seq(PointRecord \cup {CutLine})
    BY <1>1
  <2>2. \A i \in DOMAIN lines : i > 1 => i - 1 \in DOMAIN lines
    BY <1>1
  <2>3. QED
    BY <1>1, <1>2, <2>1, <2>2 DEF WellCut, InOrder
<1>4. ASSUME NEW n \in 0 .. Len(lines), NEW end \in {<<>>, <<CutLine>>}
      PROVE  WellCut(SubSeq(lines, 1, n) \o end)
  <2> DEFINE part == SubSeq(lines, 1, n)
             left == part \o end
  <2>1. part \in Seq(PointRecord) /\ Len(part) = n /\ \A i \in 1 .. n : part[i] = lines[i]
    BY <1>1
  <2>2. end \in Seq(PointRecord \cup {CutLine}) /\ \A i \in 1 .. Len(end) : end[i] = CutLine
    <3>1. CASE end = <<>>
      BY <3>1
    <3>2. CASE end = <<CutLine>>
      BY <3>2
    <3>3. QED
      BY <3>1, <3>2
  <2> HIDE DEF part
  <2>3. part \in Seq(PointRecord \cup {CutLine})
    BY <2>1
  <2>4. /\ left \in Seq(PointRecord \cup {CutLine}) /\ Len(left) = n + Len(end)
        /\ Len(end) \in Nat
    <3> DEFINE S == PointRecord \cup {CutLine}
    <3>1. part \in Seq(S) /\ end \in Seq(S) /\ Len(part) = n
      BY <2>1, <2>2, <2>3
    <3> HIDE DEF S, left
    <3>2. part \o end \in Seq(S) /\ Len(part \o end) = n + Len(end) /\ Len(end) \in Nat
      BY SMTT(60), <3>1
    <3>3. QED
      BY <3>2 DEF S, left
  <2>5. \A i \in 1 .. n : left[i] = lines[i]
    BY <2>1, <2>2, <2>3
  <2>6. \A i \in 1 .. Len(left) : n < i => left[i] = CutLine
    <3>1. ASSUME NEW i \in 1 .. Len(left), n < i PROVE left[i] = CutLine
      <4>1. i - n \in 1 .. Len(end)
        BY <3>1, <2>4
      <4>2. left[i] = end[i - n]
        BY <3>1, <4>1, <2>1, <2>2, <2>3, <2>4
      <4>3. QED
        BY <4>1, <4>2, <2>2
    <3>2. QED
      BY <3>1
  <2> HIDE DEF left
  <2>7. ASSUME NEW i \in DOMAIN left, left[i] # CutLine
        PROVE  /\ i \in 1 .. n /\ i \in DOMAIN lines /\ left[i] = lines[i]
               /\ i > 1 => i - 1 \in 1 .. n /\ left[i - 1] = lines[i - 1] /\ left[i - 1] # CutLine
    <3>1. i \in 1 .. Len(left)
      BY <2>4, <2>7
    <3>2. i \in 1 .. n
      BY <3>1, <2>4, <2>6, <2>7
    <3>3. i > 1 => i - 1 \in 1 .. n
      BY <3>2
    <3>4. \A k \in 1 .. n : k \in DOMAIN lines
      BY <1>1
    <3>5. QED
      BY <3>2, <3>3, <3>4, <2>5, <1>2
  <2>8. WellCut(left)
    BY <2>4, <2>7, <1>1 DEF WellCut, InOrder
  <2>9. QED
    BY <2>8 DEF left, part
<1>5. QED
  BY <1>3, <1>4

\* Every k6 file of an experiment is such a file.
LEMMA K6Step == SuiteTypes /\ K6Inv /\ [Next]_vars => K6Inv'
<1> SUFFICES ASSUME SuiteTypes, K6Inv, [Next]_vars PROVE K6Inv'
  OBVIOUS
<1>1. CASE k6' = k6
  BY <1>1 DEF K6Inv
<1>2. ASSUME NEW lines, WellCut(lines), NEW by \in Nat,
             k6' = [k6 EXCEPT ![Current] = [by |-> by, lines |-> lines]]
      PROVE  K6Inv'
  <2>1. \A e \in Experiments : k6'[e] = k6[e] \/ k6'[e] = [by |-> by, lines |-> lines]
    BY <1>2 DEF SuiteTypes
  <2>2. ASSUME NEW e \in Experiments, k6'[e] # NoFile
        PROVE  k6'[e].by \in Nat /\ WellCut(k6'[e].lines)
    <3>1. CASE k6'[e] = k6[e]
      BY <3>1, <2>2 DEF K6Inv
    <3>2. CASE k6'[e] = [by |-> by, lines |-> lines]
      <4>1. k6'[e].lines = lines /\ k6'[e].by = by
        BY <3>2
      <4>2. QED
        BY <4>1, <1>2
    <3>3. QED
      BY <2>1, <3>1, <3>2
  <2>3. QED
    BY <2>2 DEF K6Inv
<1>3. CASE SuiteStep
  <2>1. ASSUME NEW lines \in K6Loads, RunLoad(lines) PROVE K6Inv'
    BY <1>2, <2>1, CutsAreWell DEF RunLoad, SuiteTypes
  <2>2. QED
    BY <1>1, <1>3, <2>1 DEF SuiteStep, Configure, ConfigureFails, RunFaultLoad, OpenResult,
       WritePrometheus, WriteRecovery, FinishSuite, files
<1>4. CASE SuiteStops
  <2>1. ASSUME NEW lines \in K6Loads, NEW n \in 0 .. Len(lines), StopLoad(lines, n) PROVE K6Inv'
    <3>1. PICK end \in {<<>>, <<CutLine>>} :
            k6' = [k6 EXCEPT ![Current] = [by |-> suite, lines |-> SubSeq(lines, 1, n) \o end]]
      BY <2>1 DEF StopLoad
    <3>2. WellCut(SubSeq(lines, 1, n) \o end)
      BY CutsAreWell
    <3>3. QED
      BY <1>2, <3>1, <3>2 DEF SuiteTypes
  <2>2. QED
    BY <1>1, <1>4, <2>1 DEF SuiteStops, StopSuite, files
<1>5. CASE StartSuite \/ UNCHANGED suiteVars
  BY <1>1, <1>5 DEF StartSuite, suiteVars, files
<1>6. QED
  BY <1>3, <1>4, <1>5, SuiteSteps

\* The points of a metric, as many as the lines that have one.
LEMMA PointsIs ==
  ASSUME NEW lines, WellCut(lines), NEW metric
  PROVE  LET at0 == MeasuredAt(lines, metric)
             points == Points(lines, metric)
         IN  /\ IsFiniteSet(at0) /\ Cardinality(at0) \in Nat /\ at0 \in SUBSET DOMAIN lines
             /\ points \in Seq(PointRecord) /\ Len(points) = Cardinality(at0)
             /\ \A k \in 1 .. Len(points) : \E i \in at0 : points[k] = lines[i]
<1> DEFINE at0 == MeasuredAt(lines, metric)
           points == Points(lines, metric)
<1>1. lines \in Seq(PointRecord \cup {CutLine}) /\ at0 \in SUBSET DOMAIN lines
      /\ points = Kept(lines, at0)
  BY DEF WellCut, MeasuredAt, Points
<1>2. \A i \in at0 : lines[i] \in PointRecord
  <2>1. \A i \in at0 : i \in DOMAIN lines /\ lines[i] # CutLine
    BY DEF MeasuredAt
  <2> HIDE DEF at0
  <2>2. QED
    BY <1>1, <2>1
<1> DEFINE S == PointRecord \cup {CutLine}
<1>a. lines \in Seq(S)
  BY <1>1
<1> HIDE DEF at0, points, S
<1>3. /\ IsFiniteSet(at0) /\ Cardinality(at0) \in Nat
      /\ points \in Seq(S) /\ Len(points) = Cardinality(at0)
      /\ \A k \in 1 .. Cardinality(at0) : Nth(at0, k) \in at0 /\ points[k] = lines[Nth(at0, k)]
  BY <1>a, <1>1, KeptIs
<1>4. \A k \in 1 .. Len(points) : points[k] \in PointRecord /\ \E i \in at0 : points[k] = lines[i]
  BY <1>2, <1>3
<1>5. points \in Seq(PointRecord)
  BY <1>3, <1>4
<1>6. QED
  BY <1>1, <1>3, <1>4, <1>5 DEF at0, points

-----------------------------------------------------------------------------
\* Every rank of a list of numbers has its number in the list.
LEMMA RankIs ==
  ASSUME NEW vals \in Seq(Int), NEW k \in 0 .. Len(vals) - 1
  PROVE  AtRank(vals, k) \in Int
<1> DEFINE n == Len(vals)
           all == {vals[i] : i \in DOMAIN vals}
           below(v) == {i \in DOMAIN vals : vals[i] < v}
           upto(v) == {i \in DOMAIN vals : vals[i] <= v}
           T == {v \in all : k < Cardinality(upto(v))}
<1>1. n \in Nat /\ n # 0 /\ k \in Nat /\ k < n /\ DOMAIN vals = 1 .. n
      /\ \A i \in DOMAIN vals : vals[i] \in Int
  OBVIOUS
<1>2. IsFiniteSet(DOMAIN vals) /\ Cardinality(DOMAIN vals) = n
  <2> HIDE DEF n
  <2>1. QED
    BY <1>1, FS_Interval
<1>3. all \in SUBSET Int /\ all # {} /\ IsFiniteSet(all)
  <2>1. all \in SUBSET Int
    BY <1>1
  <2>2. vals[1] \in all
    <3>1. 1 \in DOMAIN vals
      BY <1>1
    <3>2. QED
      BY <3>1
  <2>3. IsFiniteSet(all)
    <3> DEFINE f == [i \in DOMAIN vals |-> vals[i]]
    <3>1. f \in Surjection(DOMAIN vals, all)
      BY DEF Surjection
    <3> HIDE DEF f, all
    <3>2. QED
      BY <3>1, <1>2, FS_Surjection
  <2>4. QED
    BY <2>1, <2>2, <2>3
<1>4. ASSUME NEW v PROVE /\ IsFiniteSet(upto(v)) /\ Cardinality(upto(v)) \in Nat
                         /\ IsFiniteSet(below(v)) /\ Cardinality(below(v)) \in Nat
  <2>1. upto(v) \in SUBSET DOMAIN vals /\ below(v) \in SUBSET DOMAIN vals
    OBVIOUS
  <2> HIDE DEF upto, below
  <2>2. QED
    BY <2>1, <1>2, FS_Subset, FS_CardinalityType
<1>5. T \in SUBSET Int /\ IsFiniteSet(T)
  <2>1. T \in SUBSET all
    OBVIOUS
  <2> HIDE DEF T, all
  <2>2. QED
    BY <2>1, <1>3, FS_Subset
<1>6. T # {}
  <2>1. PICK m \in all : \A v \in all : v <= m
    <3> HIDE DEF all
    <3>1. QED
      BY <1>3, Extremes
  <2>2. upto(m) = DOMAIN vals
    BY <2>1
  <2>3. k < Cardinality(upto(m))
    <3> HIDE DEF upto, n
    <3>1. QED
      BY <2>2, <1>1, <1>2
  <2>4. m \in T
    BY <2>1, <2>3
  <2>5. QED
    BY <2>4
<1>7. PICK v \in T : \A w \in T : v <= w
  <2> HIDE DEF T
  <2>1. QED
    BY <1>5, <1>6, Extremes
<1>8. v \in all /\ v \in Int /\ k < Cardinality(upto(v))
  BY <1>3, <1>7
<1>9. Cardinality(below(v)) <= k
  <2>1. ASSUME k < Cardinality(below(v)) PROVE FALSE
    <3> DEFINE U == {w \in all : w < v}
    <3>1. IsFiniteSet(U) /\ U \in SUBSET Int
      <4>1. U \in SUBSET all
        OBVIOUS
      <4> HIDE DEF U, all
      <4>2. QED
        BY <4>1, <1>3, FS_Subset
    <3>2. below(v) # {}
      <4>1. IsFiniteSet(below(v)) /\ Cardinality(below(v)) \in Nat
        BY <1>4
      <4> HIDE DEF below
      <4>2. Cardinality(below(v)) # 0
        BY <2>1, <1>1, <4>1
      <4>3. QED
        BY <4>1, <4>2, FS_EmptySet
    <3>3. U # {}
      BY <3>2
    <3>4. PICK u \in U : \A w \in U : w <= u
      <4> HIDE DEF U
      <4>1. QED
        BY <3>1, <3>3, Extremes
    <3>5. u \in all /\ u \in Int /\ u < v
      BY <3>1, <3>4
    <3>6. below(v) \in SUBSET upto(u)
      BY <3>4
    <3>7. Cardinality(below(v)) <= Cardinality(upto(u))
      <4> HIDE DEF below, upto
      <4>1. QED
        BY <3>6, <1>4, FS_Subset
    <3>8. k < Cardinality(upto(u))
      <4> HIDE DEF below, upto
      <4>1. QED
        BY <2>1, <3>7, <1>4, <1>1
    <3>9. u \in T
      BY <3>5, <3>8
    <3>10. v <= u
      <4> HIDE DEF T
      <4>1. QED
        BY <3>9, <1>7
    <3> HIDE DEF below, upto, all, U, T
    <3>11. QED
      BY <3>5, <3>10, <1>8
  <2>2. Cardinality(below(v)) \in Nat
    BY <1>4
  <2> HIDE DEF below
  <2>3. QED
    BY <1>1, <2>1, <2>2
<1>10. HasRank(vals, k, v)
  BY <1>8, <1>9 DEF HasRank
<1>11. AtRank(vals, k) \in all
  <2>1. AtRank(vals, k) = CHOOSE w \in all : HasRank(vals, k, w)
    BY DEF AtRank
  <2> HIDE DEF all
  <2>2. QED
    BY <1>8, <1>10, <2>1
<1>12. QED
  BY <1>11, <1>3

\* A percentile of some numbers is a number.
LEMMA PercentileIs ==
  ASSUME NEW vals \in Seq(Int), vals # <<>>, NEW q \in 0 .. 100
  PROVE  Percentile(vals, q) \in Int
<1> DEFINE n == Len(vals)
           place == q * (n - 1)
           low == place \div 100
           part == place % 100
<1>1. n \in Nat /\ n # 0
  OBVIOUS
<1> HIDE DEF n
<1>2. place \in Nat /\ place <= 100 * (n - 1)
  <2>1. q * (n - 1) \in Nat
    BY <1>1
  <2>2. (100 - q) * (n - 1) \in Nat
    BY <1>1
  <2>3. 100 * (n - 1) = q * (n - 1) + (100 - q) * (n - 1)
    BY <1>1
  <2>4. QED
    BY <2>1, <2>2, <2>3
<1> HIDE DEF place
<1>3. low \in Nat /\ part \in 0 .. 99 /\ place = 100 * low + part
  BY <1>2
<1> HIDE DEF low, part
<1>4. low \in 0 .. n - 1 /\ (part # 0 => low + 1 \in 0 .. n - 1)
  BY <1>1, <1>2, <1>3
<1>5. AtRank(vals, low) \in Int /\ (part # 0 => AtRank(vals, low + 1) \in Int)
  BY <1>4, RankIs DEF n
<1>6. Percentile(vals, q) = AtRank(vals, low) * (100 - part)
                            + IF part = 0 THEN 0 ELSE AtRank(vals, low + 1) * part
  BY DEF Percentile, low, part, place, n
<1>7. QED
  BY <1>3, <1>5, <1>6

-----------------------------------------------------------------------------
\* A sum of zeros and ones is the number of the ones.
LEMMA TotalIs ==
  ASSUME NEW vals \in Seq({0, 1})
  PROVE  LET ones == {i \in DOMAIN vals : vals[i] > 0}
         IN  /\ Total(vals) = Cardinality(ones) /\ Total(vals) \in Nat
             /\ Total(vals) <= Len(vals)
<1> DEFINE ones == {i \in DOMAIN vals : vals[i] > 0}
           units == UNION {{i} \X (1 .. vals[i]) : i \in DOMAIN vals}
           f == [i \in ones |-> <<i, 1>>]
           n == Len(vals)
<1>1. DOMAIN vals = 1 .. n /\ n \in Nat /\ \A i \in DOMAIN vals : vals[i] \in {0, 1}
  OBVIOUS
<1>2. IsFiniteSet(ones) /\ Cardinality(ones) \in Nat /\ Cardinality(ones) <= n
  <2> HIDE DEF n
  <2>1. IsFiniteSet(1 .. n) /\ Cardinality(1 .. n) = n
    BY <1>1, FS_Interval
  <2>2. ones \in SUBSET (1 .. n)
    BY <1>1
  <2> HIDE DEF ones
  <2>3. IsFiniteSet(ones) /\ Cardinality(ones) <= Cardinality(1 .. n)
    BY <2>1, <2>2, FS_Subset
  <2>4. Cardinality(ones) \in Nat
    BY <2>3, FS_CardinalityType
  <2>5. QED
    BY <2>1, <2>3, <2>4
<1>3. \A i \in ones : <<i, 1>> \in units
  BY <1>1
<1>4. ASSUME NEW u \in units PROVE \E i \in ones : u = <<i, 1>>
  <2>1. PICK i \in DOMAIN vals : u \in {i} \X (1 .. vals[i])
    OBVIOUS
  <2>2. u = <<i, u[2]>> /\ u[2] \in 1 .. vals[i]
    BY <2>1
  <2>3. vals[i] = 1 /\ u[2] = 1
    BY <2>2, <1>1
  <2>4. QED
    BY <2>1, <2>2, <2>3
<1>5. f \in Surjection(ones, units)
  <2> HIDE DEF ones, units
  <2>1. f \in [ones -> units]
    BY <1>3
  <2>2. \A u \in units : \E i \in ones : f[i] = u
    BY <1>4
  <2> HIDE DEF f
  <2>3. QED
    BY <2>1, <2>2 DEF Surjection
<1>6. f \in Injection(ones, units)
  <2> HIDE DEF ones, units
  <2>1. f \in [ones -> units]
    BY <1>3
  <2>2. \A i, j \in ones : f[i] = f[j] => i = j
    OBVIOUS
  <2> HIDE DEF f
  <2>3. QED
    BY <2>1, <2>2 DEF Injection, IsInjective
<1>7. Cardinality(units) = Cardinality(ones)
  <2> HIDE DEF ones, units, f
  <2>1. QED
    BY <1>2, <1>5, <1>6, FS_Surjection
<1>8. Total(vals) = Cardinality(units)
  BY DEF Total
<1> HIDE DEF ones, units, n
<1>9. QED
  BY <1>2, <1>7, <1>8 DEF ones, n

\* A request that has ended has one point of each metric before the last one it has.
LEMMA CountsAre ==
  ASSUME NEW lines, WellCut(lines)
  PROVE  /\ Len(Points(lines, "http_req_failed")) <= Len(Points(lines, "http_req_duration"))
         /\ Len(Points(lines, "http_req_duration")) <= Len(Points(lines, "http_reqs"))
<1> DEFINE places(metric) == MeasuredAt(lines, metric)
<1>1. ASSUME NEW a, NEW b,
             \A i \in places(a) : i > 1 /\ lines[i - 1] # CutLine /\ lines[i - 1].metric = b
      PROVE  Len(Points(lines, a)) <= Len(Points(lines, b))
  <2> DEFINE f == [i \in places(a) |-> i - 1]
  <2>1. /\ IsFiniteSet(places(b)) /\ Len(Points(lines, a)) = Cardinality(places(a))
        /\ Len(Points(lines, b)) = Cardinality(places(b))
        /\ places(a) \in SUBSET DOMAIN lines
    BY PointsIs
  <2>2. DOMAIN lines = 1 .. Len(lines) /\ Len(lines) \in Nat
    BY DEF WellCut
  <2>3. \A i \in places(a) : i \in Int /\ i - 1 \in places(b)
    <3>1. \A i \in places(a) : i \in Int /\ i - 1 \in DOMAIN lines
      <4> HIDE DEF places
      <4>1. QED
        BY <1>1, <2>1, <2>2
    <3>2. QED
      BY <1>1, <3>1 DEF MeasuredAt
  <2> HIDE DEF places
  <2>4. f \in [places(a) -> places(b)] /\ \A i, j \in places(a) : f[i] = f[j] => i = j
    BY <2>3
  <2> HIDE DEF f
  <2>5. f \in Injection(places(a), places(b))
    BY <2>4 DEF Injection, IsInjective
  <2>6. QED
    BY <2>1, <2>5, FS_Injection
<1>2. /\ \A i \in places("http_req_failed") :
            i > 1 /\ lines[i - 1] # CutLine /\ lines[i - 1].metric = "http_req_duration"
      /\ \A i \in places("http_req_duration") :
            i > 1 /\ lines[i - 1] # CutLine /\ lines[i - 1].metric = "http_reqs"
  BY DEF WellCut, MeasuredAt
<1> HIDE DEF places
<1>3. QED
  BY <1>1, <1>2

\* The failed requests a file tells of: both programs count the same.
LEMMA FailuresAre ==
  ASSUME NEW lines, WellCut(lines)
  PROVE  LET flags == Values(Points(lines, "http_req_failed"))
         IN  /\ Total(flags) = Cardinality({i \in DOMAIN flags : flags[i] > 0})
             /\ Total(flags) \in Nat
             /\ Total(flags) <= Len(Points(lines, "http_req_failed"))
<1> DEFINE places == MeasuredAt(lines, "http_req_failed")
           points == Points(lines, "http_req_failed")
           flags == Values(points)
           n == Len(points)
<1>1. /\ points \in Seq(PointRecord) /\ n \in Nat
      /\ \A k \in 1 .. n : \E i \in places : points[k] = lines[i]
  BY PointsIs
<1>2. \A i \in places : lines[i].value <= 1
  BY DEF WellCut, MeasuredAt
<1> HIDE DEF points, places
<1>3. ASSUME NEW k \in 1 .. n PROVE points[k].value \in {0, 1}
  <2>1. points[k].value <= 1
    BY <1>1, <1>2
  <2>2. points[k] \in PointRecord
    BY <1>1
  <2>3. points[k].value \in Nat
    BY <2>2 DEF PointRecord
  <2>4. QED
    BY <2>1, <2>3
<1>4. flags = [i \in 1 .. n |-> points[i].value]
  BY <1>1 DEF Values
<1> HIDE DEF flags, n
<1>5. flags = [i \in 1 .. n |-> flags[i]] /\ \A i \in 1 .. n : flags[i] \in {0, 1}
  BY <1>3, <1>4
<1>6. flags \in Seq({0, 1}) /\ Len(flags) = n
  <2> DEFINE bits == {0, 1}
  <2>1. n \in Nat /\ \A i \in 1 .. n : flags[i] \in bits
    BY <1>1, <1>5
  <2> HIDE DEF bits
  <2>2. flags \in Seq(bits) /\ Len(flags) = n
    BY <1>5, <2>1, ListOf
  <2>3. QED
    BY <2>2 DEF bits
<1>7. /\ Total(flags) = Cardinality({i \in DOMAIN flags : flags[i] > 0})
      /\ Total(flags) \in Nat /\ Total(flags) <= n
  BY <1>6, TotalIs
<1>8. QED
  BY <1>7 DEF flags, points, n

\* What the parsers make of a k6 file: nothing of one without durations, and else numbers.
LEMMA ParsedFile ==
  ASSUME NEW lines, WellCut(lines)
  PROVE  LET n == Len(Points(lines, "http_req_duration"))
             m == extract_k6_metrics(lines)
             vals == Values(Points(lines, "http_req_duration"))
             fails == Total(Values(Points(lines, "http_req_failed")))
         IN  /\ lines # NoFile /\ n \in Nat /\ (vals = <<>> <=> n = 0) /\ (m = None <=> n = 0)
             /\ n # 0 => Percentile(vals, 95) \in Int
             /\ n # 0 => m \in [p50 : Int, p95 : Int, p99 : Int, err : Nat \X Nat]
             /\ n # 0 => m = [p50 |-> Percentile(vals, 50), p95 |-> Percentile(vals, 95),
                              p99 |-> Percentile(vals, 99),
                              err |-> Rate(100 * fails, n)]
<1> DEFINE points == Points(lines, "http_req_duration")
           n == Len(points)
           vals == Values(points)
           fails == Total(Values(Points(lines, "http_req_failed")))
           m == extract_k6_metrics(lines)
           whole == [p50 |-> Percentile(vals, 50), p95 |-> Percentile(vals, 95),
                     p99 |-> Percentile(vals, 99), err |-> Rate(100 * fails, Largest(1, n))]
<1>0. lines # NoFile
  BY DEF WellCut
<1>1. points \in Seq(PointRecord) /\ n \in Nat
  BY PointsIs
<1> HIDE DEF points
<1>2. vals \in Seq(Int) /\ Len(vals) = n
  <2>1. vals = [i \in 1 .. n |-> points[i].value]
    BY <1>1 DEF Values
  <2>2. \A i \in 1 .. n : points[i].value \in Int
    <3>1. \A i \in 1 .. n : points[i] \in PointRecord
      BY <1>1
    <3>2. QED
      BY <3>1 DEF PointRecord
  <2> HIDE DEF vals, n
  <2>3. vals = [i \in 1 .. n |-> vals[i]] /\ \A i \in 1 .. n : vals[i] \in Int
    BY <2>1, <2>2
  <2>4. QED
    BY <1>1, <2>3, ListOf DEF n
<1>3. fails \in Nat
  BY FailuresAre
<1> HIDE DEF n, vals, fails
<1>4. vals = <<>> <=> n = 0
  BY <1>1, <1>2
<1>5. Len(vals) = n /\ m = IF vals = <<>> THEN None ELSE whole
  BY <1>0, <1>2 DEF extract_k6_metrics, m, whole, vals, fails, points
<1>6. n # 0 => /\ Percentile(vals, 50) \in Int /\ Percentile(vals, 95) \in Int
               /\ Percentile(vals, 99) \in Int
  BY <1>2, <1>4, PercentileIs
<1>7. n # 0 => Largest(1, n) = n
  BY <1>1 DEF Largest
<1>8. n # 0 => whole \in [p50 : Int, p95 : Int, p99 : Int, err : Nat \X Nat]
  BY <1>1, <1>3, <1>6, <1>7 DEF Rate
<1>9. n # 0 => whole # None
  BY <1>8
<1>10. QED
  BY <1>0, <1>1, <1>4, <1>5, <1>6, <1>7, <1>8, <1>9 DEF n, vals, fails, points

-----------------------------------------------------------------------------
\* What load_all_metrics keeps of an experiment: nothing of a missing file and of one without
\* durations, and else numbers.
LEMMA MetricsAre ==
  ASSUME K6Inv, NEW e \in Experiments
  PROVE  LET lines == k6[e].lines
             vals == Values(Points(lines, "http_req_duration"))
             n == Len(Points(lines, "http_req_duration"))
             fails == Total(Values(Points(lines, "http_req_failed")))
         IN  /\ k6[e] = NoFile \/ n = 0 => Metrics(e) = None
             /\ k6[e] # NoFile /\ n # 0 =>
                  /\ Metrics(e) # None /\ Metrics(e).rps # None
                  /\ Metrics(e).p95 = Percentile(vals, 95) /\ Metrics(e).by = k6[e].by
                  /\ Metrics(e).err = Rate(100 * fails, n)
<1> DEFINE lines == k6[e].lines
           vals == Values(Points(lines, "http_req_duration"))
           n == Len(Points(lines, "http_req_duration"))
           fails == Total(Values(Points(lines, "http_req_failed")))
           m == extract_k6_metrics(K6File(e))
           rps == get_rps_from_k6(K6File(e), durations[e[2]])
<1>1. Metrics(e) = IF m = None THEN None
                   ELSE [p50 |-> m.p50, p95 |-> m.p95, p99 |-> m.p99, err |-> m.err,
                         rps |-> rps, by |-> K6By(e)]
  BY DEF Metrics
<1>2. CASE k6[e] = NoFile
  <2>1. m = None
    BY <1>2 DEF extract_k6_metrics, K6File
  <2>2. QED
    BY <1>1, <1>2, <2>1
<1>3. CASE k6[e] # NoFile
  <2>1. WellCut(lines) /\ k6[e].by \in Nat /\ K6File(e) = lines /\ K6By(e) = k6[e].by
    BY <1>3 DEF K6Inv, K6File, K6By
  <2>2. /\ lines # NoFile /\ n \in Nat /\ (m = None <=> n = 0)
        /\ n # 0 => m = [p50 |-> Percentile(vals, 50), p95 |-> Percentile(vals, 95),
                         p99 |-> Percentile(vals, 99), err |-> Rate(100 * fails, n)]
    BY <2>1, ParsedFile
  <2>3. n # 0 => m \in [p50 : Int, p95 : Int, p99 : Int, err : Nat \X Nat]
    BY <2>1, ParsedFile
  <2>4. n # 0 => rps \in Nat \X Nat
    <3>1. durations[e[2]] \in Nat
      <4>1. e[2] \in {"steady", "burst", "heavy", "spike"}
        BY DEF Experiments, Names
      <4>2. QED
        BY <4>1 DEF durations
    <3>2. rps = IF lines = NoFile \/ n = 0 THEN None ELSE Rate(n, durations[e[2]])
      BY <2>1 DEF get_rps_from_k6
    <3> HIDE DEF n, rps, lines
    <3>3. QED
      BY <2>2, <3>1, <3>2 DEF Rate
  <2> HIDE DEF m, rps, n, lines, vals, fails
  <2>5. CASE n = 0
    BY <1>1, <1>3, <2>2, <2>5 DEF lines, n
  <2>6. CASE n # 0
    <3>1. Metrics(e) = [p50 |-> m.p50, p95 |-> m.p95, p99 |-> m.p99, err |-> m.err,
                        rps |-> rps, by |-> k6[e].by]
      BY <1>1, <2>1, <2>2, <2>6
    <3>2. Metrics(e) \in [p50 : Int, p95 : Int, p99 : Int, err : Nat \X Nat,
                          rps : Nat \X Nat, by : Nat]
      BY <3>1, <2>1, <2>3, <2>4, <2>6
    <3>3. Metrics(e) # None /\ Metrics(e).rps # None
      BY <3>2
    <3>4. /\ Metrics(e).p95 = Percentile(vals, 95) /\ Metrics(e).by = k6[e].by
          /\ Metrics(e).err = Rate(100 * fails, n)
      BY <3>1, <2>2, <2>6
    <3>5. QED
      BY <3>3, <3>4, <2>6, <1>3 DEF lines, n, vals, fails
  <2>7. QED
    BY <2>5, <2>6
<1>4. QED
  BY <1>2, <1>3

-----------------------------------------------------------------------------
\* The files one of the two commands cannot read.
TornFor(command) == ~FaultReadable \/ (command = "results" /\ ~PromReadable)

\* The functions that open the files of Prometheus.
PromUsers == {"latency", "throughput", "build_rows"}

\* A program that runs can read its files or has yet to call the function that cannot; one
\* that ended since the directory changed raised exactly if it could not.
ReadsInv ==
  /\ program \in {"none", "results", "paper"}
  /\ program = "results" =>
       /\ PromReadable \/ "latency" \in Names(calls)
       /\ FaultReadable \/ "recovery" \in Names(calls)
  /\ program = "paper" =>
       /\ Names(calls) \cap PromUsers = {}
       /\ FaultReadable \/ "load_fault_data" \in Names(calls)
  /\ ended[3] \in Nat /\ ended[3] <= Version
  /\ job # "idle" => ended[3] # Version
  /\ ended[1] # "none" /\ ended[3] = Version =>
       (ended[2] = "exception" <=> TornFor(ended[1]))

\* No program has run at first.
LEMMA ReadsInit == Init => ReadsInv
BY DEF Init, SuiteInit, HpaInit, ReadsInv, Version

\* The two commands call each function that opens a JSON file, and only make results those
\* that open the files of Prometheus.
LEMMA CallsAre ==
  /\ "latency" \in Names(PlotResults \o SummaryTable)
  /\ "recovery" \in Names(PlotResults \o SummaryTable)
  /\ "load_fault_data" \in Names(PaperFigures) /\ Names(PaperFigures) \cap PromUsers = {}
<1>1. /\ PlotResults \in Seq(MainCalls) /\ SummaryTable \in Seq(MainCalls)
      /\ Len(PlotResults) = 5 /\ PlotResults[1] = "latency" /\ PlotResults[4] = "recovery"
  BY DEF PlotResults, SummaryTable, MainCalls
<1>2. \A i \in 1 .. 5 : /\ i \in DOMAIN (PlotResults \o SummaryTable)
                        /\ (PlotResults \o SummaryTable)[i] = PlotResults[i]
  <2> DEFINE P == PlotResults
             S == SummaryTable
  <2>0. P \in Seq(MainCalls) /\ S \in Seq(MainCalls)
    BY <1>1
  <2> HIDE DEF P, S
  <2>1. DOMAIN (P \o S) = 1 .. Len(P) + Len(S) /\ Len(S) \in Nat
    BY <2>0
  <2>2. \A i \in 1 .. Len(P) : (P \o S)[i] = P[i]
    BY <2>0
  <2>3. \A i \in 1 .. 5 : i \in 1 .. 5 + Len(S)
    BY <2>1
  <2>4. QED
    BY <1>1, <2>1, <2>2, <2>3, Zenon DEF P, S
<1>3. {"latency", "recovery"} \subseteq Names(PlotResults \o SummaryTable)
  <2>1. 1 \in 1 .. 5 /\ 4 \in 1 .. 5
    OBVIOUS
  <2>2. QED
    <3> DEFINE list == PlotResults \o SummaryTable
    <3>1. /\ 1 \in DOMAIN list /\ list[1] = "latency"
          /\ 4 \in DOMAIN list /\ list[4] = "recovery"
      BY <1>1, <1>2, <2>1, Zenon
    <3> HIDE DEF list
    <3>2. "latency" \in Names(list) /\ "recovery" \in Names(list)
      BY <3>1 DEF Names
    <3>3. QED
      BY <3>2 DEF list
<1>4. DOMAIN PaperFigures = 1 .. 10 /\ PaperFigures[2] = "load_fault_data"
  BY DEF PaperFigures, MainCalls
<1>5. ASSUME NEW i \in 1 .. 10 PROVE PaperFigures[i] \notin PromUsers
  <2>1. /\ PaperFigures[1] = "load_all_metrics" /\ PaperFigures[2] = "load_fault_data"
        /\ PaperFigures[3] = "print_summary" /\ PaperFigures[4] = "paper_p95"
        /\ PaperFigures[5] = "paper_throughput"
    BY DEF PaperFigures
  <2>2. /\ PaperFigures[6] = "paper_recovery" /\ PaperFigures[7] = "paper_scatter"
        /\ PaperFigures[8] = "paper_errors" /\ PaperFigures[9] = "paper_scaling"
        /\ PaperFigures[10] = "paper_series"
    BY DEF PaperFigures
  <2>3. QED
    BY <2>1, <2>2 DEF PromUsers
<1>6. QED
  BY SMTT(60), <1>3, <1>4, <1>5 DEF Names

-----------------------------------------------------------------------------
\* A function that meets a file it cannot read ends its program, no other does, and no
\* number that is missing ends one.
LEMMA ReadsStep ==
  SuiteTypes /\ HpaInv /\ K6Inv /\ Loads /\ Drawn /\ ReadsInv /\ [Next]_vars => ReadsInv'
<1> SUFFICES ASSUME SuiteTypes, HpaInv, K6Inv, Loads, Drawn, ReadsInv, [Next]_vars
             PROVE  ReadsInv'
  OBVIOUS
<1>0. Version \in Nat
  BY DEF Version, SuiteTypes, HpaInv
<1>1. ASSUME UNCHANGED <<prom, fault>>
      PROVE  /\ PromReadable' = PromReadable /\ FaultReadable' = FaultReadable
             /\ \A command : TornFor(command)' = TornFor(command)
  BY <1>1 DEF PromReadable, FaultReadable, TornFor
\* No program ends or is called on.
<1>2. ASSUME UNCHANGED <<program, calls, ended, suite, job, run, prom, fault>> PROVE ReadsInv'
  <2>1. Version' = Version
    BY <1>2 DEF Version
  <2>2. QED
    BY <1>1, <1>2, <2>1 DEF ReadsInv
\* The directory has changed since any program ended.
<1>3. ASSUME UNCHANGED ended, program' = "none", Version' \in Nat,
             Version' > Version \/ (Version' = Version /\ job # "idle")
      PROVE  ReadsInv'
  <2>1. ended[3] \in Nat /\ ended[3] < Version'
    BY <1>0, <1>3 DEF ReadsInv
  <2>2. QED
    BY <1>3, <2>1 DEF ReadsInv
\* A function returns: it has read the file it opens.
<1>4. ASSUME NEW f, Calls(f), Reads, Returns, f = "latency" => PromReadable,
             f \in {"recovery", "load_fault_data"} => FaultReadable
      PROVE  ReadsInv'
  <2>1. UNCHANGED <<program, ended, suite, job, run, prom, fault>>
    BY <1>4 DEF Reads, Returns, suiteVars, hpaVars, scriptVars, files
  <2>2. Names(calls) = {f} \cup Names(calls')
    BY <1>4, NamesTail DEF Calls, Returns, Loads
  <2>3. Version' = Version
    BY <2>1 DEF Version
  <2>4. QED
    BY <1>1, <1>4, <2>1, <2>2, <2>3 DEF ReadsInv
\* A program ends as its files make it.
<1>5. ASSUME NEW how, Ends(how), Reads, program # "none", how = "exception" <=> TornFor(program)
      PROVE  ReadsInv'
  <2>1. UNCHANGED <<suite, job, run, prom, fault>> /\ job = "idle"
    BY <1>5 DEF Reads, suiteVars, hpaVars, scriptVars, files, Drawn
  <2>2. /\ program' = "none" /\ ended' = <<program, how, Version>> /\ Version' = Version
    BY <1>5, <2>1 DEF Ends, Version
  <2>3. ended'[1] = program /\ ended'[2] = how /\ ended'[3] = Version
    BY <2>2
  <2>4. QED
    BY <1>0, <1>1, <1>5, <2>1, <2>2, <2>3 DEF ReadsInv
<1>6. CASE Analysis
  <2>0. Reads /\ program # "none" /\ program \in {"results", "paper"}
    BY <1>6, AnalysisReads DEF ReadsInv
  <2>1. ASSUME NEW f, Calls(f) PROVE f \in Names(calls)
    BY <2>1, NamesTail DEF Calls, Loads
  <2>2. ASSUME NEW f \in PromUsers, Calls(f), ~PromReadable, Raises PROVE ReadsInv'
    <3>1. program = "results"
      BY <2>0, <2>1, <2>2 DEF ReadsInv
    <3>2. QED
      BY <1>5, <2>0, <2>2, <3>1 DEF Raises, TornFor
  <2>3. ASSUME ~FaultReadable, Raises PROVE ReadsInv'
    BY <1>5, <2>0, <2>3 DEF Raises, TornFor
  <2>4. ASSUME NEW f, NEW shows, Calls(f), Saves(f, shows), f = "latency" => PromReadable,
               f \in {"recovery", "load_fault_data"} => FaultReadable
        PROVE  ReadsInv'
    BY <1>4, <2>0, <2>4 DEF Saves
  <2>5. ASSUME NEW f, Calls(f), Skips, f = "latency" => PromReadable,
               f \in {"recovery", "load_fault_data"} => FaultReadable
        PROVE  ReadsInv'
    BY <1>4, <2>0, <2>5 DEF Skips
  <2>6. CASE FigLatencyBar \/ FigThroughputBar
    BY <2>2, <2>4, <2>6 DEF FigLatencyBar, FigThroughputBar, PromUsers
  <2>7. CASE FigErrorRate \/ WriteMarkdown \/ WriteLatex
    BY <2>4, <2>7 DEF FigErrorRate, WriteMarkdown, WriteLatex, WriteTable
  <2>8. CASE FigFaultRecovery \/ FigPodDistribution
    BY <2>3, <2>4, <2>5, <2>8 DEF FigFaultRecovery, FigPodDistribution
  <2>9. CASE BuildRows
    BY <1>4, <2>0, <2>2, <2>9 DEF BuildRows, PromUsers
  <2>10. CASE LoadAllMetrics
    BY <1>4, <2>0, <2>10 DEF LoadAllMetrics
  <2>11. CASE LoadFaultData
    BY <1>4, <2>0, <2>3, <2>11 DEF LoadFaultData
  <2>12. CASE PrintSummary
    <3>1. data = DataOfFiles
      <4>1. Calls("print_summary") /\ "print_summary" \in DataUsers
        BY <2>12 DEF PrintSummary, DataUsers
      <4>2. QED
        BY <4>1, FirstBeforeTail DEF Calls, Loads
    <3>2. \A e \in Experiments : data[e] = Metrics(e)
      BY <3>1 DEF DataOfFiles
    <3>3. \A e \in Experiments : Metrics(e) = None \/ Metrics(e).rps # None
      BY MetricsAre
    <3>4. Skips
      BY <2>12, <3>2, <3>3 DEF PrintSummary
    <3>5. QED
      BY <2>5, <2>12, <3>4 DEF PrintSummary
  <2>13. CASE PaperP95 \/ PaperThroughput \/ PaperFaultRecovery \/ PaperScatter \/ PaperErrorRate
    BY <2>4, <2>13
       DEF PaperP95, PaperThroughput, PaperFaultRecovery, PaperScatter, PaperErrorRate
  <2>14. CASE PaperScaling
    BY <1>4, <2>0, <2>5, <2>14 DEF PaperScaling
  <2>15. CASE PaperSeries
    BY <2>4, <2>5, <2>15 DEF PaperSeries
  <2>16. CASE Exit
    <3>1. Names(calls) = {}
      BY <2>16 DEF Exit, Names
    <3>2. ~TornFor(program)
      BY <2>0, <3>1 DEF ReadsInv, TornFor
    <3>3. QED
      BY <1>5, <2>0, <2>16, <3>2 DEF Exit
  <2>17. QED
    BY <1>6, <2>6, <2>7, <2>8, <2>9, <2>10, <2>11, <2>12, <2>13, <2>14, <2>15, <2>16
       DEF Analysis
<1>7. CASE GiveResults \/ GivePaper
  <2>1. /\ UNCHANGED <<ended, suite, job, run, prom, fault>>
        /\ \/ program' = "results" /\ calls' = PlotResults \o SummaryTable
           \/ program' = "paper" /\ calls' = PaperFigures
    BY <1>7 DEF GiveResults, GivePaper, Analyse, suiteVars, hpaVars, scriptVars, files
  <2>2. Version' = Version
    BY <2>1 DEF Version
  <2>3. QED
    BY <1>1, <2>1, <2>2, CallsAre DEF ReadsInv
<1>8. CASE GiveSuite \/ GiveHpa
  <2>1. /\ UNCHANGED analysisVars /\ program = "none"
        /\ \/ suite' = suite + 1 /\ run' = run
           \/ suite' = suite /\ run' = run + 1
    BY <1>8 DEF GiveSuite, GiveHpa, Gives, Idle, StartSuite, StartHpa, hpaVars, suiteVars,
                scriptVars
  <2>2. Version' = Version + 1
    BY <2>1 DEF Version, SuiteTypes, HpaInv
  <2>3. QED
    BY <1>0, <1>3, <2>1, <2>2 DEF analysisVars
<1>9. CASE SuiteRuns \/ (SuiteStops /\ UNCHANGED <<hpaVars, plan, analysisVars>>)
  <2>1. UNCHANGED <<run, ended, program>>
    BY <1>9 DEF SuiteRuns, hpaVars, scriptVars, analysisVars
  <2>2. job # "idle" /\ suite' = suite
    BY <1>9 DEF SuiteRuns, SuiteStep, SuiteStops, Configure, ConfigureFails, RunLoad,
       RunFaultLoad, OpenResult, WritePrometheus, WriteRecovery, FinishSuite, StopSuite, StopLoad
  <2>3. program = "none" /\ Version' = Version
    BY <2>1, <2>2 DEF Drawn, Version
  <2>4. QED
    BY <1>0, <1>3, <2>1, <2>2, <2>3
<1>10. CASE UNCHANGED <<suiteVars, plan, analysisVars>> /\ (HpaScript \/ Background \/ HpaStops)
  <2>1. run' = run
    BY <1>10 DEF HpaScript, Reset, StartForward, SetTrap, StartMonitor, Assign, MonitorPid,
       StartK6, K6Pid, WaitForK6, FinishHpa, Background, BeginPoll, Poll, K6Writes, K6Ends,
       Scale, Tick, HpaStops, StopHpa, ResetFails, scriptVars
  <2>2. QED
    BY <1>2, <1>10, <2>1 DEF suiteVars, analysisVars, files
<1>11. CASE UNCHANGED vars
  BY <1>2, <1>11 DEF vars, suiteVars, hpaVars, scriptVars, analysisVars, files
<1>12. QED
  BY <1>6, <1>7, <1>8, <1>9, <1>10, <1>11
     DEF Next, Commanded, HpaRunsOn, InBackground, Stops

-----------------------------------------------------------------------------
IInv == SuiteTypes /\ HpaInv /\ VerdictInv /\ Loads /\ Drawn /\ K6Inv /\ ReadsInv

\* Every step keeps every conjunct of the invariant.
LEMMA InvariantHolds == Spec => []IInv
<1>1. Init => VerdictInv /\ Drawn /\ K6Inv
  BY DEF Init, SuiteInit, VerdictInv, Drawn, K6Inv
<1>2. Init => IInv
  BY <1>1, TypesInit, HpaInvInit, LoadsInit, ReadsInit DEF IInv
<1>3. IInv /\ [Next]_vars => IInv'
  BY TypesStep, HpaStep, VerdictStep, LoadsStep, DrawnStep, K6Step, ReadsStep DEF IInv
<1>4. QED
  BY <1>2, <1>3, PTL DEF Spec

\* Whose number a bar or a cell of an up-to-date figure is.
LEMMA ShownBy ==
  ASSUME Drawn
  PROVE  /\ \A e \in Experiments : Shown(e) \subseteq {0, K6By(e), PromBy(e)}
         /\ \A p \in Names(Policies) : ShownRecovery(p) \subseteq {0, FaultBy(p)}
<1>1. \A f \in DOMAIN Figure : UpToDate(f) => out[f].shows = Figure[f]
  BY DEF Drawn, UpToDate
<1>2. ASSUME NEW e \in Experiments PROVE Shown(e) \subseteq {0, K6By(e), PromBy(e)}
  <2>1. ThroughputBar(e).by \in {0, PromBy(e)} /\ ErrorBar(e).by \in {0, K6By(e)}
        /\ Cells(Row(e)).by = PromBy(e)
    BY DEF ThroughputBar, ErrorBar, Cells, Row, Bar, NoBar
  <2>2. Metrics(e) = None \/ Metrics(e).by = K6By(e)
    BY DEF Metrics
  <2>3. \A q \in Quantiles : LatencyBar(e, q).by \in {0, K6By(e), PromBy(e)}
    BY DEF LatencyBar, Bar, NoBar
  <2>4. \A f \in {"throughput", "errors", "markdown", "latex", "paper_p95",
                  "paper_throughput", "paper_errors"} :
          f \in DOMAIN Figure /\ Figure[f][e].by \in {0, K6By(e), PromBy(e)}
    BY <2>1, <2>2 DEF Figure, Bar, NoBar
  <2>5. \A q \in Quantiles :
          "latency" \in DOMAIN Figure /\ Figure["latency"][e][q].by \in {0, K6By(e), PromBy(e)}
    BY <2>3 DEF Figure
  <2>6. QED
    BY <1>1, <2>4, <2>5 DEF Shown
<1>3. ASSUME NEW p \in Names(Policies) PROVE ShownRecovery(p) \subseteq {0, FaultBy(p)}
  <2>1. p \in Measured => RecoveryBar(p).by = FaultBy(p)
    BY DEF Measured, RecoveryBar, FaultBy, Bar
  <2>2. /\ {"recovery", "paper_recovery"} \subseteq DOMAIN Figure
        /\ p \in DOMAIN Figure["recovery"] => Figure["recovery"][p].by = FaultBy(p)
        /\ Figure["paper_recovery"][p].by \in {0, FaultBy(p)}
    BY <2>1 DEF Figure, Bar, NoBar
  <2>3. QED
    BY <1>1, <2>2 DEF ShownRecovery
<1>4. QED
  BY <1>2, <1>3

\* After a suite that ran to its end, no figure and no table shows a number of an earlier
\* suite for an experiment the suite did not list as failed, whatever was stopped before.
THEOREM StaleIsListed == Spec => []StaleOnlyIfFailed
<1>1. IInv => StaleOnlyIfFailed
  BY ShownBy DEF IInv, VerdictInv, Fresh, FreshFault, StaleOnlyIfFailed
<1>2. QED
  BY <1>1, InvariantHolds, PTL

\* The table and the figures of make results tell the same, whatever Prometheus answered.
THEOREM TableIsFigure == Spec => []TableAgrees
<1>1. ASSUME Drawn, UpToDate("markdown"), UpToDate("throughput"), UpToDate("latency"),
             NEW e \in Experiments
      PROVE  LET cells == out["markdown"].shows[e]
                 bar == out["throughput"].shows[e]
             IN  /\ IF cells.rps = None THEN bar.v = 0 ELSE bar.v = cells.rps
                 /\ cells["p95"] # None => out["latency"].shows[e]["p95"].v = cells["p95"]
  <2>1. /\ out["markdown"].shows = Figure["markdown"]
        /\ out["throughput"].shows = Figure["throughput"]
        /\ out["latency"].shows = Figure["latency"]
    BY <1>1 DEF Drawn, UpToDate, Figure
  <2>2. /\ out["markdown"].shows[e] = Cells(Row(e))
        /\ out["throughput"].shows[e] = ThroughputBar(e)
        /\ out["latency"].shows[e]["p95"] = LatencyBar(e, "p95")
    BY <2>1 DEF Figure, Quantiles
  <2>3. /\ Cells(Row(e)).rps = fmt(throughput_rps(e))
        /\ Cells(Row(e)).p95 = fmt(latency_ms(e, "p95"))
    BY DEF Cells, Row
  <2>4. IF fmt(throughput_rps(e)) = None THEN ThroughputBar(e).v = 0
                                         ELSE ThroughputBar(e).v = fmt(throughput_rps(e))
    BY DEF fmt, Truthy, ThroughputBar, Bar, NoBar
  <2>5. fmt(latency_ms(e, "p95")) # None =>
          LatencyBar(e, "p95").v = fmt(latency_ms(e, "p95"))
    BY DEF fmt, Truthy, LatencyBar, Bar, NoBar
  <2>6. QED
    BY <2>2, <2>3, <2>4, <2>5
<1>2. IInv => TableAgrees
  BY <1>1 DEF IInv, TableAgrees
<1>3. QED
  BY <1>2, InvariantHolds, PTL

-----------------------------------------------------------------------------
\* A program ends with an exception exactly if a file it reads was torn, whatever k6 left.
THEOREM OnlyTornFilesRaise == Spec => []RaisesOnlyOnTorn
<1>1. IInv => RaisesOnlyOnTorn
  BY DEF IInv, ReadsInv, RaisesOnlyOnTorn, TornFor, FaultReadable, PromReadable
<1>2. QED
  BY <1>1, InvariantHolds, PTL

-----------------------------------------------------------------------------
\* The error rates of the two programs: no more failures than requests, and the same of a
\* file that was not cut in the middle of a request.
LEMMA ErrorRatesAre ==
  ASSUME K6Inv, NEW e \in Experiments
  PROVE  LET r == Figure["errors"][e].v
             s == Figure["paper_errors"][e].v
             all == {Len(Points(K6File(e), m)) : m \in
                       {"http_reqs", "http_req_duration", "http_req_failed"}}
         IN  /\ r[1] <= 100 * r[2] /\ s[1] <= 100 * s[2]
             /\ (k6[e] # NoFile /\ Cardinality(all) = 1) => SameRate(r, s)
<1> DEFINE lines == k6[e].lines
           n == Len(Points(lines, "http_req_duration"))
           totals == Len(Points(lines, "http_reqs"))
           flags == Values(Points(lines, "http_req_failed"))
           fails == Total(flags)
           all == {Len(Points(K6File(e), m)) : m \in
                     {"http_reqs", "http_req_duration", "http_req_failed"}}
           r == Figure["errors"][e].v
           s == Figure["paper_errors"][e].v
<1>1. /\ r = ErrorBar(e).v
      /\ s = IF Metrics(e) = None THEN <<0, 1>> ELSE Metrics(e).err
  BY DEF Figure, Bar, Rate
<1>2. CASE k6[e] = NoFile
  <2>1. load_k6(K6File(e)).error_rate = None
    BY <1>2 DEF load_k6, K6File
  <2>2. r = <<0, 1>>
    BY <1>1, <2>1 DEF ErrorBar, Bar, Rate
  <2>3. s = <<0, 1>>
    BY <1>1, <1>2, MetricsAre
  <2> HIDE DEF r, s
  <2>4. r[1] <= 100 * r[2] /\ s[1] <= 100 * s[2]
    BY <2>2, <2>3
  <2>5. QED
    BY <1>2, <2>4 DEF r, s
<1>3. CASE k6[e] # NoFile
  <2>1. WellCut(lines) /\ K6File(e) = lines /\ lines # NoFile
    BY <1>3, ParsedFile DEF K6Inv, K6File
  <2>2. /\ n \in Nat /\ totals \in Nat /\ fails \in Nat /\ fails <= n /\ n <= totals
    <3>1. n \in Nat /\ totals \in Nat /\ Len(Points(lines, "http_req_failed")) \in Nat
      BY <2>1, PointsIs
    <3>2. fails \in Nat /\ fails <= Len(Points(lines, "http_req_failed"))
      BY <2>1, FailuresAre
    <3>3. Len(Points(lines, "http_req_failed")) <= n /\ n <= totals
      BY <2>1, CountsAre
    <3> HIDE DEF n, totals, fails
    <3>4. QED
      BY <3>1, <3>2, <3>3
  <2>3. load_k6(K6File(e)).error_rate = IF totals = 0 THEN None ELSE <<fails, totals>>
    <3>1. fails = Cardinality({i \in DOMAIN flags : flags[i] > 0})
      BY <2>1, FailuresAre
    <3>2. QED
      BY <2>1, <3>1 DEF load_k6, Rate
  <2>4. r = IF totals = 0 THEN <<0, 1>> ELSE <<100 * fails, totals>>
    <3> DEFINE rate == load_k6(K6File(e)).error_rate
    <3>1. r = IF rate # None THEN <<100 * rate[1], rate[2]>> ELSE <<0, 1>>
      BY <1>1 DEF ErrorBar, Bar, Rate
    <3> HIDE DEF rate, r, totals, fails
    <3>2. totals # 0 => <<fails, totals>> # None
      BY <2>2
    <3>3. rate = IF totals = 0 THEN None ELSE <<fails, totals>>
      BY <2>3 DEF rate
    <3>4. QED
      BY <3>1, <3>2, <3>3
  <2>5. s = IF n = 0 THEN <<0, 1>> ELSE <<100 * fails, n>>
    BY <1>1, <1>3, MetricsAre DEF Rate
  <2>6. Cardinality(all) = 1 => n = totals
    <3>1. n \in all /\ totals \in all
      BY <2>1
    <3>2. IsFiniteSet(all)
      <4> DEFINE M == {"http_reqs", "http_req_duration", "http_req_failed"}
                 f == [m \in M |-> Len(Points(K6File(e), m))]
      <4>1. IsFiniteSet(M)
        <5>1. M = ({"http_reqs"} \cup {"http_req_duration"}) \cup {"http_req_failed"}
          OBVIOUS
        <5> HIDE DEF M
        <5>2. IsFiniteSet({"http_reqs"} \cup {"http_req_duration"})
          BY FS_Singleton, FS_AddElement
        <5>3. QED
          BY <5>1, <5>2, FS_AddElement
      <4>2. f \in Surjection(M, all)
        BY DEF Surjection
      <4> HIDE DEF M, f, all
      <4>3. QED
        BY <4>1, <4>2, FS_Surjection
    <3> HIDE DEF all, n, totals
    <3>3. QED
      BY <3>1, <3>2, FS_Singleton
  <2> HIDE DEF n, totals, fails, r, s, all
  <2>7. r[1] <= 100 * r[2] /\ s[1] <= 100 * s[2]
    BY <2>2, <2>4, <2>5
  <2>8. Cardinality(all) = 1 => SameRate(r, s)
    <3>1. ASSUME Cardinality(all) = 1 PROVE r = s /\ r[1] \in Int /\ r[2] \in Int
      BY <2>2, <2>4, <2>5, <2>6, <3>1
    <3>2. QED
      BY <3>1 DEF SameRate
  <2>9. QED
    BY <2>7, <2>8 DEF r, s, all
<1>4. QED
  BY <1>2, <1>3

\* The p95 of the two programs where Prometheus had none.
LEMMA LatenciesAre ==
  ASSUME K6Inv, NEW e \in Experiments, ~Truthy(latency_ms(e, "p95"))
  PROVE  LET bar == Figure["latency"][e]["p95"]
             paper == Figure["paper_p95"][e]
         IN  bar = paper \/ (bar.v = 0 /\ paper.v = 0)
<1> DEFINE lines == k6[e].lines
           n == Len(Points(lines, "http_req_duration"))
           vals == Values(Points(lines, "http_req_duration"))
           q == K6Quantile(e, "p95")
           bar == Figure["latency"][e]["p95"]
           paper == Figure["paper_p95"][e]
<1>1. /\ bar = IF Truthy(q) THEN Bar(q, K6By(e)) ELSE NoBar
      /\ paper = IF Metrics(e) = None THEN NoBar ELSE Bar(Metrics(e).p95, Metrics(e).by)
  BY DEF Figure, LatencyBar, Quantiles
<1>2. q = load_k6(K6File(e)).p95_ms
  BY DEF K6Quantile
<1>3. CASE k6[e] = NoFile
  <2>1. q = None
    BY <1>2, <1>3 DEF load_k6, K6File
  <2>2. bar = NoBar
    BY <1>1, <2>1 DEF Truthy
  <2>3. paper = NoBar
    BY <1>1, <1>3, MetricsAre
  <2>4. QED
    BY <2>2, <2>3
<1>4. CASE k6[e] # NoFile
  <2>1. WellCut(lines) /\ K6File(e) = lines /\ K6By(e) = k6[e].by
    BY <1>4 DEF K6Inv, K6File, K6By
  <2>2. /\ lines # NoFile /\ n \in Nat /\ (vals = <<>> <=> n = 0)
        /\ n # 0 => Percentile(vals, 95) \in Int
    BY <2>1, ParsedFile
  <2>3. q = IF vals = <<>> THEN None ELSE Percentile(vals, 95)
    BY <1>2, <2>1, <2>2 DEF load_k6
  <2>4. /\ n = 0 => Metrics(e) = None
        /\ n # 0 => /\ Metrics(e) # None /\ Metrics(e).p95 = Percentile(vals, 95)
                    /\ Metrics(e).by = k6[e].by
    BY <1>4, MetricsAre
  <2> HIDE DEF bar, paper, q, n, vals, lines
  <2>5. CASE n = 0
    BY <1>1, <2>2, <2>3, <2>4, <2>5 DEF Truthy, bar, paper
  <2>6. CASE n # 0
    <3>1. q = Percentile(vals, 95) /\ q # None
      BY <2>2, <2>3, <2>6
    <3>2. paper = Bar(q, k6[e].by)
      BY <1>1, <2>4, <2>6, <3>1
    <3>3. bar = paper \/ (q = 0 /\ bar = NoBar)
      BY <1>1, <2>1, <3>1, <3>2 DEF Truthy
    <3>4. QED
      BY <3>2, <3>3 DEF Bar, NoBar, bar, paper
  <2>7. QED
    BY <2>5, <2>6
<1>5. QED
  BY <1>3, <1>4

\* make results and plot_paper_figures.py draw the same error rates, latencies and recovery
\* times, wherever k6 was cut, and no error rate above 100 percent.
THEOREM BothFiguresAgree == Spec => []FiguresAgree
<1>1. IInv => FiguresAgree
  <2> SUFFICES ASSUME Drawn, K6Inv PROVE FiguresAgree
    BY DEF IInv
  <2>1. \A f \in DOMAIN Figure : UpToDate(f) => out[f].shows = Figure[f]
    BY DEF Drawn, UpToDate
  <2>2. {"errors", "paper_errors", "latency", "paper_p95", "recovery", "paper_recovery"}
          \subseteq DOMAIN Figure
    BY DEF Figure
  <2>3. ASSUME UpToDate("paper_recovery"), Measured = {} \/ UpToDate("recovery"),
               NEW p \in Names(Policies)
        PROVE  out["paper_recovery"].shows[p] =
                 IF p \in Measured THEN out["recovery"].shows[p] ELSE NoBar
    <3>1. /\ out["paper_recovery"].shows = Figure["paper_recovery"]
          /\ p \in Measured => out["recovery"].shows = Figure["recovery"]
      <4> HIDE DEF Figure
      <4>1. QED
        BY <2>1, <2>2, <2>3
    <3>2. /\ Figure["paper_recovery"][p] = IF p \in Measured THEN RecoveryBar(p) ELSE NoBar
          /\ p \in Measured => Figure["recovery"][p] = RecoveryBar(p)
      BY DEF Figure
    <3>3. QED
      BY <3>1, <3>2, Zenon
  <2> HIDE DEF Figure
  <2>4. QED
    BY <2>1, <2>2, <2>3, ErrorRatesAre, LatenciesAre DEF FiguresAgree
<1>2. QED
  BY <1>1, InvariantHolds, PTL

=============================================================================
