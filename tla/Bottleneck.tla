----------------------------- MODULE Bottleneck -----------------------------
(***************************************************************************)
(* The bottleneck analysis of the PerfAnalysis MCP server, after the raw   *)
(* results are put in time buckets: which findings it reports, where each  *)
(* begins, and what it makes of them.  Numbers are scaled so that medians  *)
(* and percentages are exact: response times are multiples of 8, ratios    *)
(* are compared by cross-multiplication.                                   *)
(***************************************************************************)
EXTENDS Integers, Sequences, FiniteSets, SequencesExt, FiniteSetsExt, Functions

CONSTANTS
    Warmup, Sustained,        \* warmup_buckets, sustained_buckets
    PersistencePct,           \* persistence_ratio, in percent
    Reach,                    \* (rolling_window_buckets - 1) / 2
    LatencyPct,               \* latency_degrade_pct
    PlateauPct,               \* throughput_plateau_pct
    ErrorAbs,                 \* error_rate_degrade_abs
    CpuHigh,                  \* cpu_high_pct
    NoFinding                 \* no onset, no threshold, no window

\* A run: one number per bucket for each metric, the SLA of the run's default
\* profile, and its labels in the order they are met.
Runs(Times, Errors, Rates, Loads, Cpus, Slas, Labels) ==
    [p90 : Times, errors : Errors, tps : Rates, conc : Loads, cpu : Cpus, sla : Slas,
     labels : Labels]

Total(f, S) == FoldFunctionOnSet(+, 0, f, S)

Abs(x) == IF x < 0 THEN -x ELSE x

-----------------------------------------------------------------------------
(* Smoothing and the baseline.                                             *)

Around(s, i) == {j \in DOMAIN s : Abs(j - i) <= Reach}

Ranked(f, S, k) == CHOOSE v \in {f[i] : i \in S} :
                       /\ Cardinality({i \in S : f[i] < v}) < k
                       /\ Cardinality({i \in S : f[i] <= v}) >= k

Median(f, S) == LET n == Cardinality(S)
                IN  (Ranked(f, S, (n + 1) \div 2) + Ranked(f, S, n \div 2 + 1)) \div 2

Smoothed(s) == [i \in DOMAIN s |-> Median(s, Around(s, i))]

\* is_outlier: 2 MADs off the rolling median, the MAD at least 5% of the median.
Outliers(raw) ==
    LET smooth == Smoothed(raw)
        off    == [i \in DOMAIN raw |-> Abs(raw[i] - smooth[i])]
        mad    == Smoothed(off)
        level  == Median(smooth, DOMAIN smooth)
    IN  {i \in DOMAIN raw : /\ off[i] > 2 * mad[i]
                            /\ 10 * off[i] > IF level > 0 THEN level ELSE 20}

Active(s) == {i \in DOMAIN s : i > Warmup}

\* The buckets the baseline averages.
Baseline(s, outliers) ==
    LET early == {i \in Active(s) : i <= Warmup + Sustained}
    IN  IF early = {} THEN {Len(s)}
        ELSE IF early \subseteq outliers THEN early ELSE early \ outliers

-----------------------------------------------------------------------------
(* The sustained-run scan, its persistence and its severity.               *)

\* Mutated form: an outlier breaks the run of degraded buckets it is in.
OutlierResets(acc, i, bad, outliers) ==
    IF acc.hit THEN acc
    ELSE IF i \in bad \ outliers
    THEN [count |-> acc.count + 1, onset |-> IF acc.count = 0 THEN i ELSE acc.onset,
          hit |-> acc.count + 1 >= Sustained]
    ELSE [count |-> 0, onset |-> 0, hit |-> FALSE]

\* An outlier neither starts, counts in, nor breaks a run of degraded buckets.
Visit(acc, i, bad, outliers) ==
    IF acc.hit \/ i \in outliers THEN acc
    ELSE IF i \in bad
    THEN [count |-> acc.count + 1, onset |-> IF acc.count = 0 THEN i ELSE acc.onset,
          hit |-> acc.count + 1 >= Sustained]
    ELSE [count |-> 0, onset |-> 0, hit |-> FALSE]

NoRun == [count |-> 0, onset |-> 0, hit |-> FALSE]

\* The scan after each of the positions up to n.
Scan(n, bad, outliers) ==
    LET scan[i \in 0 .. n] == IF i <= Warmup THEN NoRun
                              ELSE Visit(scan[i - 1], i, bad, outliers)
    IN  scan

\* Onset of the first sustained run of bad buckets among positions 1 .. n.
Onset(n, bad, outliers) ==
    LET scan == Scan(n, bad, outliers)[n]
    IN  IF scan.hit THEN scan.onset ELSE NoFinding

\* The share of the remaining buckets, outliers included, that are bad.
Share(n, bad, onset) == [bad |-> Cardinality(bad \cap (onset .. n)), of |-> n - onset + 1]

_check_persistence(share) == 100 * share.bad >= PersistencePct * share.of

\* How many of the bounds the ratio num / den reaches.
Score(num, den, bounds) == Cardinality({b \in bounds : num * 100 >= b * den})

\* The delta is num / den; bounds are its three thresholds, in percent.
_classify_severity_v2(class, num, den, bounds, share, overall) ==
    LET total == Score(num, den, bounds) + Score(share.bad, share.of, {50, 70, 90})
                    + (IF overall THEN 1 ELSE 0)
    IN  CASE class = "transient_spike" -> "low"
          [] total >= 7 -> "critical"
          [] total >= 5 -> "high"
          [] total >= 3 -> "medium"
          [] OTHER -> "low"

\* Scopes of a finding, besides the labels' numbers.
Overall == 0
Infrastructure == -1

\* The finding of a run of bad buckets, of the whole test's or of a label's own:
\* value num / den off its reference.
_make_finding(type, scope, of, onset, num, den, bounds, share) ==
    LET class == IF _check_persistence(share) THEN "bottleneck" ELSE "transient_spike"
    IN  [type |-> type, scope |-> scope, onset |-> onset, classification |-> class,
         share |-> share, concurrency |-> of.conc[onset],
         severity |-> _classify_severity_v2(class, num, den, bounds, share, scope = Overall)]

-----------------------------------------------------------------------------
(* Phase 1: the detectors.                                                 *)

Latency == {25, 50, 100}

\* One scan of the overall response times against a limit of num / den.
LatencyFinding(run, num, den) ==
    LET p90   == Smoothed(run.p90)
        n     == Len(p90)
        bad   == {i \in Active(p90) : p90[i] * den >= num}
        onset == Onset(n, bad, Outliers(run.p90))
    IN  [onset |-> onset, bad |-> bad, p90 |-> p90, n |-> n]

_detect_latency_degradation(run) ==
    LET out   == Outliers(run.p90)
        base  == Baseline(run.p90, out)
        p90   == Smoothed(run.p90)
        sum   == Total(p90, base)
        size  == Cardinality(base)
        slow  == LatencyFinding(run, sum * (100 + LatencyPct), 100 * size)
        over  == LatencyFinding(run, run.sla, 1)
        found(scan, num, den) ==
            IF scan.onset = NoFinding THEN <<>>
            ELSE <<_make_finding("latency_degradation", Overall, run, scan.onset,
                       Abs(p90[scan.onset] * den - num), num, Latency,
                       Share(scan.n, scan.bad, scan.onset))>>
    IN  (IF sum <= 0 THEN <<>> ELSE found(slow, sum, size) \o found(over, run.sla, 1))

_detect_error_rate_increase(run) ==
    LET out   == Outliers(run.p90)
        base  == Baseline(run.p90, out)
        rate  == Smoothed(run.errors)
        n     == Len(rate)
        sum   == Total(rate, base)
        size  == Cardinality(base)
        limit(r) == IF sum > 0 /\ 2 * sum < ErrorAbs * size THEN r * size >= 2 * sum
                                                             ELSE r >= ErrorAbs
        bad   == {i \in Active(rate) : limit(rate[i])}
        onset == Onset(n, bad, out)
    IN  IF onset = NoFinding THEN <<>>
        ELSE <<_make_finding("error_rate_increase", Overall, run, onset,
                   IF sum > 0 THEN Abs(rate[onset] * size - sum) ELSE rate[onset],
                   IF sum > 0 THEN sum ELSE 1, {50, 200, 500}, Share(n, bad, onset))>>

\* Load rose by more than 5% over three buckets, throughput by less than PlateauPct.
_detect_throughput_plateau(run) ==
    LET out   == Outliers(run.p90)
        tps   == Smoothed(run.tps)
        n     == Len(tps)
        base  == Baseline(run.p90, out)
        sum   == Total(tps, base)
        size  == Cardinality(base)
        known == {i \in Active(tps) : i > Warmup + 3 /\ tps[i - 3] > 0}
        flat  == {i \in known : /\ 100 * (run.conc[i] - run.conc[i - 3]) > 5 * run.conc[i - 3]
                                /\ 100 * (tps[i] - tps[i - 3]) < PlateauPct * tps[i - 3]}
        onset == Onset(n, flat, out)
        below == {i \in Active(tps) : 100 * tps[i] <= 105 * tps[onset]}
    IN  IF n - Warmup < 4 \/ onset = NoFinding THEN <<>>
        ELSE <<_make_finding("throughput_plateau", Overall, run, onset,
                   IF sum > 0 THEN Abs(tps[onset] * size - sum) ELSE 0,
                   IF sum > 0 THEN sum ELSE 1, Latency, Share(n, below, onset))>>

\* A label is put in buckets of its own, those it has requests in: position and
\* load are the label's.  It degrades against its own baseline, and beyond its
\* SLA; one beyond its SLA from the start is known to be slow.
LabelFinding(run, l) ==
    LET label == run.labels[l]
        p90   == Smoothed(label.p90)
        n     == Len(p90)
        base  == {i \in Active(p90) : i <= Warmup + Sustained}
        sum   == Total(p90, base)
        size  == Cardinality(base)
        bad   == {i \in Active(p90) : /\ 100 * size * p90[i] >= (100 + LatencyPct) * sum
                                      /\ p90[i] >= label.sla}
        onset == Onset(n, bad, Outliers(label.p90))
    IN  IF label.requests < 10 \/ n <= Warmup THEN NoFinding
        ELSE IF sum >= label.sla * size
        THEN [type |-> "multi_tier_bottleneck", scope |-> l, onset |-> Warmup + 1,
              classification |-> "known_slow_endpoint", share |-> [bad |-> 0, of |-> 1],
              concurrency |-> label.conc[Warmup + 1], severity |-> "info"]
        ELSE IF onset = NoFinding THEN NoFinding
        ELSE _make_finding("multi_tier_bottleneck", l, label, onset,
                 IF sum > 0 THEN p90[onset] * size - sum ELSE 0,
                 IF sum > 0 THEN sum ELSE 1, Latency, Share(n, bad, onset))

LabelFindings(run) ==
    IF Len(run.labels) <= 1 THEN {}
    ELSE {LabelFinding(run, l) : l \in DOMAIN run.labels} \ {NoFinding}

Met(f, g) == f.scope < g.scope

\* Mutated form: the labels are reported in the order they are met.
AsMet(f, g) == Met(f, g)

\* What persists comes first, then what began at less load.
Ahead(f, g) ==
    LET lasting(x) == x.classification = "bottleneck"
    IN  \/ lasting(f) /\ ~lasting(g)
        \/ /\ lasting(f) <=> lasting(g)
           /\ \/ f.concurrency < g.concurrency
              \/ f.concurrency = g.concurrency /\ Met(f, g)

Foremost(S, Before(_, _), most) == {f \in S : Cardinality({g \in S : Before(g, f)}) < most}

\* Five degraded labels are reported, and three slow ones.  The code sorts them;
\* no property here tells the order of those reported.
_detect_multi_tier_bottlenecks(run) ==
    LET slow == {f \in LabelFindings(run) : f.classification = "known_slow_endpoint"}
    IN  SetToSeq(Foremost(LabelFindings(run) \ slow, Ahead, 5)) \o SetToSeq(Foremost(slow, Met, 3))

OverallFindings(run) == _detect_latency_degradation(run) \o _detect_error_rate_increase(run)
                          \o _detect_throughput_plateau(run)

Phase1(run) == OverallFindings(run) \o _detect_multi_tier_bottlenecks(run)

-----------------------------------------------------------------------------
(* Phase 2: windows, infrastructure, capacity risks; the summary.          *)

IsReal(f) == /\ f.classification \notin {"transient_spike", "known_slow_endpoint"}
             /\ f.severity # "info"

\* A window is a finding's index with its first and last bucket.
_extract_degradation_windows(findings, n) ==
    {[finding |-> i, first |-> findings[i].onset,
      last |-> IF _check_persistence(findings[i].share) THEN n
               ELSE Min({findings[i].onset + Sustained, n})] :
         i \in {i \in DOMAIN findings : IsReal(findings[i])}}

\* The buckets whose mean is the healthy level of the CPU.
InfraBaseline(windows, outliers) ==
    LET healthy == Warmup + 1 .. Max({Warmup + 1, Min({w.first : w \in windows}) - 1})
    IN  IF healthy \subseteq outliers THEN healthy ELSE healthy \ outliers

\* A window's status: the CPU rose by a quarter, or is high.
_cross_reference_infrastructure(run, windows) ==
    [w \in windows |->
        LET base == InfraBaseline(windows, Outliers(run.p90))
            sum  == Total(run.cpu, base)
            size == Cardinality(base)
            used == Total(run.cpu, w.first .. w.last)
            long == w.last - w.first + 1
        IN  /\ sum > 0
            /\ \/ 100 * (used * size - sum * long) >= 25 * sum * long
               \/ used >= CpuHigh * long]

\* Sustained high CPU to the end of the test, away from every window.
_detect_capacity_risks(run, windows) ==
    LET n     == Len(run.cpu)
        high  == {i \in Active(run.cpu) : run.cpu[i] >= CpuHigh}
        onset == Onset(n, high, {})
        share == Share(n, high, onset)
    IN  IF \/ onset = NoFinding
           \/ ~_check_persistence(share)
           \/ \E w \in windows : w.last >= onset
        THEN <<>>
        ELSE <<[type |-> "capacity_risk", scope |-> Infrastructure, onset |-> onset,
                classification |-> "capacity_risk", share |-> share,
                concurrency |-> run.conc[onset], severity |-> "medium"]>>

Degradations == {"latency_degradation", "error_rate_increase", "throughput_plateau",
                 "multi_tier_bottleneck"}

\* The least load at which a real bottleneck began.
_get_threshold_concurrency(findings) ==
    LET real == {i \in DOMAIN findings : /\ findings[i].type \in Degradations
                                         /\ IsReal(findings[i])}
    IN  IF real = {} THEN NoFinding ELSE Min({findings[i].concurrency : i \in real})

\* Which sentence the report opens with, and the factor it names.
_generate_headline(findings) ==
    LET threshold == _get_threshold_concurrency(findings)
        named == SelectSeq(findings, LAMBDA f : f.concurrency = threshold)
    IN  IF findings = <<>> THEN [says |-> "no bottlenecks", factor |-> "none"]
        ELSE IF threshold # NoFinding
        THEN [says |-> "began degrading", factor |-> Head(named).type]
        ELSE [says |-> "no sustained degradation", factor |-> "none"]

\* What is made of the findings of Phase 1.
Phase2(run, first) ==
    LET windows == _extract_degradation_windows(first, Len(run.p90))
        all     == first \o _detect_capacity_risks(run, windows)
    IN  [findings |-> all, windows |-> windows,
         correlated |-> IF windows = {} THEN {}
                        ELSE {w \in windows : _cross_reference_infrastructure(run, windows)[w]},
         threshold |-> _get_threshold_concurrency(all),
         headline |-> _generate_headline(all)]

-----------------------------------------------------------------------------
(* Properties of a run and the report made of it.                          *)

\* Buckets from i on that are not outliers, as long as the run needs.
FirstOf(i, n, outliers) ==
    {j \in (i .. n) \ outliers : Cardinality((i .. j) \ outliers) <= Sustained}

\* A metric's reported onset is where its earliest sustained degradation
\* begins, as a reader would define it: a bucket from which Sustained buckets,
\* outliers left aside, are all degraded, and no earlier bucket is one.
OnsetIsEarliest(run) ==
    LET out  == Outliers(run.p90)
        n    == Len(run.p90)
        scan == LatencyFinding(run, run.sla, 1)
        can  == {i \in Active(run.p90) \ out :
                    /\ Cardinality(FirstOf(i, n, out)) = Sustained
                    /\ FirstOf(i, n, out) \subseteq scan.bad}
    IN  scan.onset = IF can = {} THEN NoFinding ELSE Min(can)

\* Whatever really degraded, a label that is not reported included.
Degraded(run) == {f \in ToSet(OverallFindings(run)) \cup LabelFindings(run) : IsReal(f)}

\* The threshold is the least load at which anything really degraded, although
\* only some of the labels are reported; it is that of a window; the headline
\* speaks of degradation, and there are windows, if there is one; and each
\* reaches the end of the test.
ReportAgrees(run, report) ==
    LET loads == {f.concurrency : f \in Degraded(run)}
    IN  /\ report.threshold = IF loads = {} THEN NoFinding ELSE Min(loads)
        /\ IF loads = {} THEN report.windows = {}
           ELSE \E w \in report.windows :
                   report.findings[w.finding].concurrency = report.threshold
        /\ (report.headline.says = "began degrading") <=> loads # {}
        /\ \A w \in report.windows : w.last = Len(run.p90)

\* What the documents say and the code does not keep.

\* A degradation that lasts to the end of the test is a confirmed bottleneck
\* (perfanalysis README, sustained-degradation validation), whatever spike
\* went before it.
LastingIsReported(run, report) ==
    LET scan == LatencyFinding(run, run.sla, 1)
        lasts(i) == /\ (i .. scan.n) \subseteq scan.bad
                    /\ Cardinality((i .. scan.n) \ Outliers(run.p90)) >= Sustained
    IN  (\E i \in Active(run.p90) : lasts(i)) =>
            \E f \in ToSet(report.findings) : f.classification = "bottleneck"

\* The baseline of the infrastructure is a healthy window (docstring of
\* _cross_reference_infrastructure).
BaselineIsHealthy(run, report) ==
    \A w \in report.windows :
        InfraBaseline(report.windows, Outliers(run.p90)) \cap (w.first .. w.last) = {}

\* An onset is an index within the full buckets (docstrings of _onset_fields and
\* _extract_degradation_windows): that of the bucket it begins in.
OnsetsAreOfTheTest(run, report) ==
    \A f \in ToSet(report.findings) :
        f.type = "multi_tier_bottleneck" => run.labels[f.scope].at[f.onset] = f.onset

\* The limiting factor the headline names is a bottleneck's.
FactorIsReal(report) ==
    report.headline.says = "began degrading" =>
        \E f \in ToSet(report.findings) : IsReal(f) /\ f.type = report.headline.factor
                                          /\ f.concurrency = report.threshold
=============================================================================
