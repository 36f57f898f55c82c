------------------------------ MODULE Analysis ------------------------------
(***************************************************************************)
(* The bottleneck analysis as the PerfAnalysis MCP server is asked for it: *)
(* a run is given, and the analysis answers with its report.               *)
(***************************************************************************)
EXTENDS Bottleneck

CONSTANT Cases    \* the runs that may be given

\* Time buckets as the server makes them: each metric has a number in each.
\* Those of a label are the ones it has requests in, and its load in a bucket
\* is at most the bucket's.
IsRun(run) ==
    /\ run.p90 \in Seq(Nat)
    /\ {run.errors, run.tps, run.conc, run.cpu} \subseteq [DOMAIN run.p90 -> Nat]
    /\ run.labels \in Seq([at : Seq(DOMAIN run.p90), p90 : Seq(Nat), conc : Seq(Nat), sla : Nat,
                           requests : Nat])
    /\ \A l \in DOMAIN run.labels :
          LET label == run.labels[l]
          IN  /\ Len(label.at) = Len(label.p90) /\ Len(label.conc) = Len(label.p90)
              /\ \A i, j \in DOMAIN label.at : i < j => label.at[i] < label.at[j]
              /\ \A i \in DOMAIN label.at : label.conc[i] <= run.conc[label.at[i]]
              /\ label.requests >= Len(label.at)

ASSUME AnalysisAssumption ==
    /\ Warmup \in Nat /\ Sustained \in Nat \ {0}
    /\ NoFinding \notin Int
    /\ \A run \in Cases : IsRun(run)

VARIABLES
    case,            \* the run
    detected,        \* the findings of Phase 1
    answer           \* the report

analysisVars == <<case, detected, answer>>

AnalysisInit == case \in Cases /\ detected = NoFinding /\ answer = NoFinding

Detect == /\ detected = NoFinding /\ detected' = Phase1(case)
          /\ UNCHANGED <<case, answer>>

Conclude == /\ detected # NoFinding /\ answer = NoFinding
            /\ answer' = Phase2(case, detected)
            /\ UNCHANGED <<case, detected>>

analyze_bottlenecks == Detect \/ Conclude

AnalysisSpec == AnalysisInit /\ [][analyze_bottlenecks]_analysisVars

-----------------------------------------------------------------------------
(* Properties.                                                             *)

Answered == answer # NoFinding

\* The analysis finds the earliest sustained degradation, no later one.
OnsetsAreEarliest == OnsetIsEarliest(case)

\* What the report says in its windows, its threshold and its headline agrees.
ReportsAgree == Answered => ReportAgrees(case, answer)

LastingDegradationIsReported == Answered => LastingIsReported(case, answer)
BaselinesAreHealthy == Answered => BaselineIsHealthy(case, answer)
OnsetsAreIndices == Answered => OnsetsAreOfTheTest(case, answer)
FactorsAreReal == Answered => FactorIsReal(answer)
=============================================================================
