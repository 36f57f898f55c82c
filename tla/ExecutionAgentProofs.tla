------------------------- MODULE ExecutionAgentProofs -------------------------
(***************************************************************************)
(* Proofs about ExecutionAgent, for every number of retries, polls, runs,  *)
(* tests and tasks, and every non-empty set of sessions.                   *)
(*                                                                         *)
(* What an extraction reports when it ends follows from what it had done   *)
(* at each step of the recipe (OnTheWay): nothing after a critical step is *)
(* reached unless the step left what it was for.  The envelope is made in  *)
(* the step that ends the task, and the folders only grow, so what it says *)
(* stays true until the next task begins (Truthful).                       *)
(***************************************************************************)
EXTENDS ExecutionAgent, FiniteSetTheorems, SequenceTheorems, TLAPS

Statuses == {"running", "ended", "broken"}
Outcomes == {"pending", "success", "partial", "failed", "skipped"}
RecipeSteps == {"get_run_results", "get_artifacts_path", "process_session_artifacts",
                "get_public_report", "get_aggregate_report", "analyze_jmeter_log"}
Kinds == {Script, "data"}

\* The steps that need the session artifacts.
Later == {"get_public_report", "get_aggregate_report", "analyze_jmeter_log"}

\* Retries and polls stay below their limits, a task's creations below all.
Counted == /\ step = "poll" => tries < MaxPollFailures
           /\ step \in RecipeSteps \cup {"start"} => tries < MaxAttempts
           /\ made <= Len(runs) + Len(tests)

\* A task that may make one thing has made none before its one attempt.
MadeOnce == tool # "blazemeter_start_test" =>
                /\ made <= 1
                /\ step \in {"start", "create"} => made = 0

\* A report a step claims is in the folder.
Filed(ss, r) == \A s \in Reports : ss[s] = "success" => s \in files[r]

\* What an extraction at a step has behind it.
OnTheWay == step \in RecipeSteps =>
    /\ about \in Runs
    /\ Filed(steps, about)
    /\ step # "get_run_results" => steps["get_run_results"] = "success"
    /\ step \in Later => completed[about] # {}

\* What the last task's envelope says.
Truthful == CoreIsThere /\ ReportsAreThere

IInv == TypeOK /\ Counted /\ MadeOnce /\ OnTheWay /\ Truthful

-----------------------------------------------------------------------------
(* The recipe and the envelopes.                                           *)

LEMMA RecipeIs ==
    /\ ToSet(Recipe) = RecipeSteps /\ ToSet(Uploads) = Kinds
    /\ NextOf("get_run_results") = "get_artifacts_path"
    /\ NextOf("get_artifacts_path") = "process_session_artifacts"
    /\ NextOf("process_session_artifacts") = "get_public_report"
    /\ NextOf("get_public_report") = "get_aggregate_report"
    /\ NextOf("get_aggregate_report") = "analyze_jmeter_log"
<1>1. /\ DOMAIN Recipe = 1 .. 6
      /\ Recipe[1] = "get_run_results" /\ Recipe[2] = "get_artifacts_path"
      /\ Recipe[3] = "process_session_artifacts" /\ Recipe[4] = "get_public_report"
      /\ Recipe[5] = "get_aggregate_report" /\ Recipe[6] = "analyze_jmeter_log"
  BY DEF Recipe
<1>2. ASSUME NEW k \in 1 .. 5 PROVE NextOf(Recipe[k]) = Recipe[k + 1]
  <2>1. \A i \in DOMAIN Recipe : Recipe[i] = Recipe[k] => i = k
    BY <1>1
  <2>2. (CHOOSE i \in DOMAIN Recipe : Recipe[i] = Recipe[k]) = k
    BY <1>1, <2>1
  <2>3. 1 + k = k + 1
    OBVIOUS
  <2> QED
    BY <2>2, <2>3 DEF NextOf
<1>3. ToSet(Recipe) = RecipeSteps
  BY DEF ToSet, Recipe, RecipeSteps
<1>4. ToSet(Uploads) = Kinds
  BY DEF ToSet, Uploads, Kinds
<1> QED
  BY <1>1, <1>2, <1>3, <1>4

\* Envelopes that are not about an extraction.
Plain(r) == "steps" \notin DOMAIN r /\ "validation" \notin DOMAIN r

LEMMA PlainEnvelopes ==
    /\ Plain(Error)
    /\ \A n : Plain(Ok([run |-> n]))
    /\ \A n, p : Plain(Ok([test |-> n, partial |-> p]))
    /\ \A status, failed, late : Plain(Verdict(status, failed, late))
BY DEF Plain, Error, Ok, Verdict

LEMMA ReportFields ==
    ASSUME NEW status, NEW ss, NEW r, r = Report(status, ss)
    PROVE  /\ "steps" \in DOMAIN r /\ "validation" \in DOMAIN r
           /\ r.status = status /\ r.steps = ss
           /\ r.validation = _build_validation_block(ss)
BY DEF Report, Ok

\* A plain envelope says nothing that could be untrue.
LEMMA PlainIsTruthful ==
    ASSUME Plain(result)' PROVE Truthful'
BY DEF Truthful, CoreIsThere, ReportsAreThere, Has, Plain

\* The report of an extraction whose steps are ss.
LEMMA ReportIsTruthful ==
    ASSUME NEW status, NEW ss, result' = Report(status, ss), Filed(ss, about)',
           status # "failed" => ss["get_run_results"] = "success" /\ completed'[about'] # {}
    PROVE  Truthful'
<1>1. "steps" \in DOMAIN result' /\ result'.status = status /\ result'.steps = ss
      /\ result'.validation = _build_validation_block(ss)
  BY ReportFields
<1>2. "test_results_csv" \notin Reports
  BY DEF Reports
<1>3. _build_validation_block(ss) \cap Reports \subseteq files'[about']
  BY <1>2 DEF _build_validation_block, Filed
<1> QED
  BY <1>1, <1>3, Zenon DEF Truthful, CoreIsThere, ReportsAreThere, Has

-----------------------------------------------------------------------------
(* An extraction's steps.                                                  *)

\* What a settled step leaves: its outcome is known, and the recipe goes on
\* or the task ends.
LEMMA SettleKeeps ==
    ASSUME TypeOK, OnTheWay, step \in RecipeSteps, NEW outcome \in Outcomes, Settle(outcome),
           about' = about,
           completed' \in [Runs -> SUBSET Sessions], completed[about] \subseteq completed'[about],
           files' \in [Runs -> SUBSET Reports], files[about] \subseteq files'[about],
           outcome = "success" /\ step \in Reports => step \in files'[about],
           step = "get_run_results" => outcome \in {"success", "failed"},
           step = "process_session_artifacts" /\ outcome # "failed" => completed'[about] # {}
    PROVE  /\ step' \in RecipeSteps \cup {"idle"}
           /\ steps' \in [RecipeSteps -> Outcomes]
           /\ step' \in RecipeSteps => tries' = 0
           /\ tries' \in {0, tries}
           /\ OnTheWay' /\ Truthful'
<1>1. steps \in [RecipeSteps -> Outcomes] /\ about \in Runs /\ Filed(steps, about)
      /\ "idle" \notin RecipeSteps
  BY RecipeIs DEF TypeOK, OnTheWay, Outcomes, RecipeSteps
<1>2. CASE outcome = "failed" /\ step \in Critical
  <2>1. PICK ss : ss = [n \in ToSet(Recipe) |-> IF n = step THEN "failed"
                                       ELSE IF n \in After(step) THEN "skipped" ELSE steps[n]]
    OBVIOUS
  <2>2. steps' = ss /\ step' = "idle" /\ result' = Report("failed", ss) /\ tries' = tries
    BY <1>2, <2>1 DEF Settle, _finalize_critical_failure, Finish
  <2>3. ss = [n \in RecipeSteps |-> IF n = step THEN "failed"
                                    ELSE IF n \in After(step) THEN "skipped" ELSE steps[n]]
    BY <2>1, RecipeIs, Zenon
  <2>4. ss \in [RecipeSteps -> Outcomes]
    BY <1>1, <2>3 DEF Outcomes
  <2>5. Filed(ss, about)'
    <3>1. \A s \in Reports : ss[s] = "success" => steps[s] = "success"
      BY <2>3 DEF Reports, RecipeSteps
    <3>2. ss' = ss
      BY <2>2
    <3> QED
      BY <1>1, <3>1 DEF Filed
  <2>6. Truthful'
    BY <1>1, <2>2, <2>5, ReportIsTruthful
  <2> QED
    BY <1>1, <2>2, <2>4, <2>6 DEF OnTheWay
<1>3. CASE ~(outcome = "failed" /\ step \in Critical)
  <2>1. PICK ss : ss = [steps EXCEPT ![step] = outcome]
    OBVIOUS
  <2>2. /\ steps' = ss /\ tries' = 0
        /\ IF step = "analyze_jmeter_log"
           THEN Finish(Report(IF \E s \in Reports : ss[s] = "failed"
                              THEN "partial" ELSE "success", ss))
           ELSE step' = NextOf(step) /\ UNCHANGED result
    BY <1>3, <2>1 DEF Settle, Proceed
  <2>3. ss \in [RecipeSteps -> Outcomes]
    BY <1>1, <2>1
  <2>4. \A s \in RecipeSteps : ss[s] = IF s = step THEN outcome ELSE steps[s]
    BY <1>1, <2>1
  <2>5. Filed(ss, about)'
    <3>1. ASSUME NEW s \in Reports, ss[s] = "success" PROVE s \in files'[about']
      <4>1. s \in RecipeSteps
        BY DEF Reports, RecipeSteps
      <4> QED
        BY <1>1, <2>4, <3>1, <4>1 DEF Filed
    <3> QED
      BY <3>1 DEF Filed
  <2>6. ss["get_run_results"] = "success"
    <3>1. "get_run_results" \in RecipeSteps /\ "get_run_results" \in Critical
      BY DEF RecipeSteps, Critical
    <3> QED
      BY <1>3, <2>4, <3>1 DEF OnTheWay
  <2>7. step \in Later \/ step = "process_session_artifacts" => completed'[about'] # {}
    BY <1>3 DEF OnTheWay, Critical
  <2>8. CASE step = "analyze_jmeter_log"
    <3>1. PICK status : step' = "idle" /\ result' = Report(status, ss)
      BY <2>2, <2>8 DEF Finish
    <3>2. Truthful'
      BY <1>1, <2>5, <2>6, <2>7, <2>8, <3>1, ReportIsTruthful DEF Later
    <3> QED
      BY <1>1, <2>2, <2>3, <3>1, <3>2 DEF OnTheWay
  <2>9. CASE step # "analyze_jmeter_log"
    <3>1. step' = NextOf(step)
      BY <2>2, <2>9
    <3>2. /\ step' \in RecipeSteps
          /\ step' \in Later => step \in Later \/ step = "process_session_artifacts"
      BY <2>9, <3>1, RecipeIs DEF RecipeSteps, Later
    <3>3. OnTheWay'
      BY <1>1, <2>2, <2>5, <2>6, <2>7, <3>2 DEF OnTheWay
    <3>4. Truthful'
      BY <1>1, <3>2 DEF Truthful, CoreIsThere, ReportsAreThere, Idle
    <3> QED
      BY <2>2, <2>3, <3>2, <3>3, <3>4
  <2> QED
    BY <2>8, <2>9
<1> QED
  BY <1>2, <1>3

\* What every step of an extraction leaves alone.
Fixed == <<runs, tests, adopted, tool, about, sleeps, made, tasks>>

LEMMA ExtractKeeps ==
    ASSUME ExecutionAssumption, IInv, Extract
    PROVE  IInv'
<1>1. step \in RecipeSteps /\ UNCHANGED Fixed /\ TypeOK /\ OnTheWay /\ about \in Runs
  BY RecipeIs DEF Extract, Fixed, vendor, IInv, OnTheWay
<1>2. completed \in [Runs -> SUBSET Sessions] /\ files \in [Runs -> SUBSET Reports]
  BY <1>1 DEF TypeOK
<1> DEFINE Kept == /\ step' \in RecipeSteps \cup {"idle"}
                   /\ steps' \in [RecipeSteps -> Outcomes]
                   /\ step' \in RecipeSteps => tries' \in Nat /\ tries' < MaxAttempts
                   /\ tries' \in {0, tries, tries + 1} /\ tries' <= tries + 1
                   /\ OnTheWay' /\ Truthful'
           Grown == /\ completed' \in [Runs -> SUBSET Sessions]
                    /\ completed[about] \subseteq completed'[about]
                    /\ files' \in [Runs -> SUBSET Reports]
                    /\ files[about] \subseteq files'[about]
<1>3. MaxAttempts \in Nat \ {0} /\ tries \in Nat
  BY <1>1 DEF ExecutionAssumption, TypeOK
<1>4. ASSUME NEW done \in SUBSET Sessions, completed[about] \subseteq done,
             completed' = [completed EXCEPT ![about] = done], UNCHANGED files
      PROVE  Grown /\ completed'[about] = done
  BY <1>1, <1>2, <1>4
<1>5. ASSUME step \in Reports, files' = [files EXCEPT ![about] = @ \cup {step}],
             UNCHANGED completed
      PROVE  Grown /\ step \in files'[about]
  BY <1>1, <1>2, <1>5
<1>6. ASSUME UNCHANGED <<completed, files>> PROVE Grown
  BY <1>2, <1>6
<1>7. ASSUME NEW outcome \in Outcomes, Settle(outcome), Grown,
             outcome = "success" /\ step \in Reports => step \in files'[about],
             step = "get_run_results" => outcome \in {"success", "failed"},
             step = "process_session_artifacts" /\ outcome # "failed" => completed'[about] # {}
      PROVE  Kept
  BY <1>1, <1>3, <1>7, SettleKeeps DEF Fixed
<1>8. ASSUME step = "process_session_artifacts" /\ Process /\ UNCHANGED files
      PROVE  Grown /\ Kept
  <2>1. PICK done \in SUBSET Sessions :
            /\ completed[about] \subseteq done
            /\ completed' = [completed EXCEPT ![about] = done]
            /\ Settle(SessionOutcome(Contract!Reply(done)))
    BY <1>8 DEF Process
  <2>2. Grown /\ completed'[about] = done
    BY <1>4, <1>8, <2>1
  <2>3. PICK outcome : outcome = SessionOutcome(Contract!Reply(done))
    OBVIOUS
  <2>4. outcome \in Outcomes /\ (outcome # "failed" => done # {})
    BY <2>3 DEF SessionOutcome, Contract!Reply, Outcomes, ExecutionAssumption
  <2> QED
    BY <1>7, <1>8, <2>1, <2>2, <2>3, <2>4 DEF Reports
<1>9. ASSUME step # "process_session_artifacts" /\ Fetch /\ UNCHANGED completed
      PROVE  Grown /\ Kept
  <2>1. PICK good \in BOOLEAN :
            /\ files' = IF good /\ step \in Reports
                        THEN [files EXCEPT ![about] = @ \cup {step}] ELSE files
            /\ Settle(StepOutcome(good))
    BY <1>9 DEF Fetch
  <2>2. Grown /\ (good /\ step \in Reports => step \in files'[about])
    BY <1>5, <1>6, <1>9, <2>1
  <2>3. PICK outcome : outcome = StepOutcome(good)
    OBVIOUS
  <2>4. outcome \in {"success", "failed"} /\ (outcome = "success" => good)
    BY <2>3 DEF StepOutcome
  <2> QED
    BY <1>7, <1>9, <2>1, <2>2, <2>3, <2>4 DEF Outcomes
<1>10. ASSUME StepRaised PROVE Grown /\ Kept
  <2>1. Grown
    <3>1. \/ UNCHANGED folders
          \/ /\ step = "process_session_artifacts"
             /\ \E done \in SUBSET Sessions :
                   /\ completed[about] \subseteq done
                   /\ completed' = [completed EXCEPT ![about] = done]
             /\ UNCHANGED files
          \/ /\ step \in Reports
             /\ files' = [files EXCEPT ![about] = @ \cup {step}]
             /\ UNCHANGED completed
      BY <1>10, Zenon DEF StepRaised
    <3> HIDE DEF Grown
    <3> QED
      BY <1>4, <1>5, <1>6, <3>1 DEF folders
  <2>2. CASE tries + 1 < Attempts(step)
    <3>1. tries' = tries + 1 /\ UNCHANGED <<step, steps, result>>
      BY <1>10, <2>2 DEF StepRaised
    <3>2. Attempts(step) <= MaxAttempts
      BY <1>3 DEF Attempts
    <3>3. tries' < MaxAttempts
      BY <1>3, <2>2, <3>1, <3>2 DEF Attempts
    <3>4. OnTheWay' /\ Truthful'
      <4>1. Filed(steps, about)'
        BY <1>1, <2>1, <3>1 DEF OnTheWay, Filed, Fixed
      <4>2. OnTheWay'
        BY <1>1, <2>1, <3>1, <4>1 DEF OnTheWay, Fixed
      <4>3. step # "idle"
        BY <1>1 DEF RecipeSteps
      <4> QED
        BY <3>1, <4>2, <4>3 DEF Truthful, CoreIsThere, ReportsAreThere, Idle
    <3>5. steps \in [RecipeSteps -> Outcomes]
      BY <1>1, RecipeIs DEF TypeOK, Outcomes
    <3> QED
      BY <1>1, <1>3, <2>1, <3>1, <3>3, <3>4, <3>5
  <2>3. CASE ~(tries + 1 < Attempts(step))
    <3>1. Settle("failed")
      BY <1>10, <2>3 DEF StepRaised
    <3> QED
      BY <1>7, <2>1, <3>1 DEF Outcomes
  <2> QED
    BY <2>2, <2>3
<1>11. Grown /\ Kept
  <2> HIDE DEF Grown, Kept
  <2> QED
    BY <1>8, <1>9, <1>10, Zenon DEF Extract
<1>12. TypeOK'
  <2>1. tries' \in 0 .. MaxAttempts + MaxPollFailures
    BY <1>1, <1>3, <1>11, SMTT(20) DEF TypeOK, IInv, Counted, ExecutionAssumption
  <2>2. step' \in {"idle", "start", "poll", "create", "upload"} \cup ToSet(Recipe)
        /\ steps' \in [ToSet(Recipe) -> {"pending", "success", "partial", "failed", "skipped"}]
    BY <1>11, RecipeIs DEF Outcomes
  <2> QED
    BY <1>1, <1>11, <2>1, <2>2 DEF TypeOK, Fixed
<1>13. Counted' /\ MadeOnce'
  <2>1. step' \notin {"start", "create", "poll"}
    BY <1>11 DEF RecipeSteps
  <2> QED
    BY <1>1, <1>11, <2>1 DEF IInv, Counted, MadeOnce, Fixed
<1> QED
  BY <1>11, <1>12, <1>13 DEF IInv

-----------------------------------------------------------------------------
(* The other actions.                                                      *)

LEMMA Numbers ==
    ASSUME ExecutionAssumption
    PROVE  {MaxAttempts, MaxPollFailures, MaxSleeps, MaxRuns, MaxTests, MaxTasks} \subseteq Nat \ {0}
BY DEF ExecutionAssumption

LEMMA DispatchKeeps ==
    ASSUME ExecutionAssumption, IInv, Dispatch
    PROVE  IInv'
<1>1. PICK t \in Tools, r \in {adopted} \cup DOMAIN runs :
          /\ t \in {"wait_for_completion", "extract_test_run_artifacts"} => r # 0
          /\ tool' = t /\ about' = r /\ step' = FirstStep[t]
  BY Zenon DEF Dispatch
<1>2. /\ tasks' = tasks + 1 /\ tasks < MaxTasks
      /\ tries' = 0 /\ sleeps' = MaxSleeps /\ steps' = Untried /\ made' = 0
      /\ UNCHANGED <<runs, tests, completed, files, adopted>>
  BY DEF Dispatch, vendor, folders
<1>3. TypeOK /\ Len(runs) \in Nat /\ Len(tests) \in Nat /\ MaxSleeps \in Nat
  BY Numbers, SMTT(20) DEF IInv, TypeOK
<1>4. r \in 0 .. Len(runs) /\ r \in 0 .. MaxRuns
  BY <1>3, Numbers, SMTT(20) DEF TypeOK
<1>5. /\ step' \in {"start", "poll", "create", "get_run_results"}
      /\ step' = "get_run_results" => t = "extract_test_run_artifacts"
  BY <1>1 DEF Tools, FirstStep
<1>6. Untried \in [ToSet(Recipe) -> {"pending", "success", "partial", "failed", "skipped"}]
      /\ \A s \in Reports : Untried[s] # "success"
  BY RecipeIs DEF Untried, Reports, RecipeSteps
<1>7. TypeOK'
  <2>1. step' \in {"idle", "start", "poll", "create", "upload"} \cup ToSet(Recipe)
    BY <1>5, RecipeIs DEF RecipeSteps
  <2>2. tries' \in 0 .. MaxAttempts + MaxPollFailures /\ sleeps' \in 0 .. MaxSleeps
        /\ made' \in 0 .. MaxRuns + MaxTests /\ tasks' \in 0 .. MaxTasks
    BY <1>2, <1>3, Numbers, SMTT(20) DEF TypeOK
  <2> QED
    BY <1>1, <1>2, <1>3, <1>4, <1>6, <2>1, <2>2 DEF TypeOK
<1>8. Counted' /\ MadeOnce'
  BY <1>2, <1>3, Numbers DEF Counted, MadeOnce
<1>9. OnTheWay'
  <2> SUFFICES ASSUME step' \in RecipeSteps
               PROVE  step' = "get_run_results" /\ about' \in Runs /\ Filed(steps, about)'
    BY DEF OnTheWay, Later
  <2>1. step' = "get_run_results"
    BY <1>5 DEF RecipeSteps
  <2>2. about' \in Runs
    BY <1>1, <1>4, <1>5, <2>1, Numbers DEF Runs
  <2> QED
    BY <1>2, <1>6, <2>1, <2>2 DEF Filed
<1>10. Truthful'
  BY <1>5 DEF Truthful, CoreIsThere, ReportsAreThere, Idle
<1> QED
  BY <1>7, <1>8, <1>9, <1>10 DEF IInv

\* A task that ends with an envelope not about an extraction.
LEMMA EndsPlainly ==
    ASSUME step' = "idle", Plain(result)'
    PROVE  OnTheWay' /\ Truthful'
BY PlainIsTruthful DEF OnTheWay, RecipeSteps

LEMMA RejectKeeps ==
    ASSUME ExecutionAssumption, IInv, Reject
    PROVE  IInv'
<1>1. /\ step' = "idle"
      /\ UNCHANGED <<runs, tests, completed, files, adopted, tool, about, tries, sleeps, steps,
                     made, tasks>>
  BY DEF Reject, vendor, folders
<1>2. TypeOK' /\ Counted' /\ MadeOnce'
  <2>1. TypeOK'
    BY <1>1 DEF IInv, TypeOK
  <2>2. Counted' /\ MadeOnce'
    BY <1>1 DEF IInv, Counted, MadeOnce, RecipeSteps
  <2> QED
    BY <2>1, <2>2
<1>3. OnTheWay'
  BY <1>1 DEF OnTheWay, RecipeSteps
<1>4. Truthful'
  <2>1. CASE result' = Error
    BY <2>1, PlainEnvelopes, PlainIsTruthful
  <2>2. CASE result' # Error
    <3>1. /\ result' = [ok |-> TRUE, status |-> "failed", steps |-> Skipped, validation |-> {}]
          /\ tool = "extract_test_run_artifacts"
      BY <2>2 DEF Reject
    <3> QED
      BY <3>1 DEF Truthful, CoreIsThere, ReportsAreThere, Has
  <2> QED
    BY <2>1, <2>2
<1> QED
  BY <1>2, <1>3, <1>4 DEF IInv

LEMMA RunEndsKeeps ==
    ASSUME ExecutionAssumption, IInv, RunEnds
    PROVE  IInv'
<1>1. PICK r \in DOMAIN runs, end \in {"ended", "broken"} : runs' = [runs EXCEPT ![r] = end]
  BY DEF RunEnds
<1>2. UNCHANGED <<tests, completed, files, adopted, tool, about, step, tries, sleeps, steps,
                  result, made, tasks>>
  BY DEF RunEnds, folders
<1>3. runs' \in Seq(Statuses) /\ Len(runs') = Len(runs)
  BY <1>1, ExceptSeq, SMTT(20) DEF IInv, TypeOK, Statuses
<1>4. TypeOK'
  BY <1>2, <1>3 DEF IInv, TypeOK, Statuses
<1>5. Counted' /\ MadeOnce'
  BY <1>2, <1>3 DEF IInv, Counted, MadeOnce
<1>6. OnTheWay' /\ Truthful'
  BY <1>2 DEF IInv, OnTheWay, Filed, Truthful, Idle, CoreIsThere, ReportsAreThere, Has
<1> QED
  BY <1>4, <1>5, <1>6 DEF IInv

LEMMA StartKeeps ==
    ASSUME ExecutionAssumption, IInv, Start
    PROVE  IInv'
<1>1. step = "start" /\ UNCHANGED <<tests, completed, files, tool, about, sleeps, steps, tasks>>
  BY DEF Start, folders
<1>2. TypeOK /\ Counted /\ MadeOnce /\ Len(runs) \in Nat /\ Len(tests) \in Nat
      /\ tries \in Nat /\ made \in Nat /\ Len(tests) <= MaxTests
      /\ adopted \in 0 .. Len(runs) /\ about \in 0 .. Len(runs)
  BY SMTT(20) DEF IInv, TypeOK
<1>3. \/ UNCHANGED <<runs, made>>
      \/ /\ Len(runs) < MaxRuns /\ runs' = Append(runs, "running") /\ made' = made + 1
  BY DEF Start, Started, StartFailed, MakeRun
<1>4. /\ runs' \in Seq(Statuses) /\ Len(runs') <= MaxRuns /\ Len(runs') \in Nat
      /\ Len(runs) <= Len(runs') /\ made' \in Nat /\ made' <= made + 1
      /\ made' <= Len(runs') + Len(tests)
  <2>1. runs \in Seq(Statuses) /\ Len(runs) <= MaxRuns /\ made <= Len(runs) + Len(tests)
    BY <1>2 DEF TypeOK, Counted, Statuses
  <2>2. CASE UNCHANGED <<runs, made>>
    BY <1>2, <2>1, <2>2
  <2>3. CASE Len(runs) < MaxRuns /\ runs' = Append(runs, "running") /\ made' = made + 1
    <3>1. runs' \in Seq(Statuses) /\ Len(runs') = Len(runs) + 1
      BY <2>1, <2>3 DEF Statuses
    <3> QED
      BY <1>2, <2>1, <2>3, <3>1, Numbers
  <2> QED
    BY <1>3, <2>2, <2>3
<1>5. adopted' \in {adopted, Len(runs')}
  BY DEF Start, Started, StartFailed
<1>6. \/ step' = "idle" /\ tries' = tries /\ Plain(result)'
      \/ /\ tool = "blazemeter_start_test"
         /\ tries + 1 < MaxAttempts /\ tries' = tries + 1 /\ step' = step /\ result' = result
  <2>1. CASE Started
    <3>1. step' = "idle" /\ tries' = tries /\ result' = Ok([run |-> Len(runs')])
      BY <2>1 DEF Started, Finish
    <3> QED
      BY <3>1, PlainEnvelopes
  <2>2. CASE StartFailed
    <3>1. CASE Retries /\ tries + 1 < MaxAttempts
      BY <2>2, <3>1 DEF StartFailed, Retries
    <3>2. CASE ~(Retries /\ tries + 1 < MaxAttempts)
      <4>1. step' = "idle" /\ result' = Error /\ tries' = tries
        BY <2>2, <3>2 DEF StartFailed, Finish
      <4> QED
        BY <4>1, PlainEnvelopes
    <3> QED
      BY <3>1, <3>2
  <2> QED
    BY <2>1, <2>2 DEF Start
<1>7. TypeOK'
  <2>1. step' \in {"idle", "start", "poll", "create", "upload"} \cup ToSet(Recipe)
    BY <1>1, <1>6
  <2>2. tries' \in 0 .. MaxAttempts + MaxPollFailures
    BY <1>2, <1>6, Numbers, SMTT(20) DEF TypeOK
  <2>3. made' \in 0 .. MaxRuns + MaxTests
    BY <1>2, <1>4, Numbers
  <2>4. adopted' \in 0 .. Len(runs') /\ about' \in 0 .. Len(runs')
    BY <1>1, <1>2, <1>4, <1>5
  <2> QED
    BY <1>1, <1>2, <1>4, <2>1, <2>2, <2>3, <2>4 DEF TypeOK, Statuses
<1>8. Counted'
  BY <1>1, <1>2, <1>4, <1>6 DEF Counted, RecipeSteps
<1>9. MadeOnce'
  BY <1>1, <1>2, <1>4, <1>6 DEF MadeOnce
<1>10. OnTheWay' /\ Truthful'
  <2>1. CASE step' = "idle" /\ Plain(result)'
    BY <2>1, EndsPlainly
  <2>2. CASE step' = step
    BY <1>1, <2>2 DEF OnTheWay, RecipeSteps, Truthful, CoreIsThere, ReportsAreThere, Idle
  <2> QED
    BY <1>6, <2>1, <2>2
<1> QED
  BY <1>7, <1>8, <1>9, <1>10 DEF IInv

LEMMA KeepWaitingEnds ==
    ASSUME ExecutionAssumption, TypeOK, NEW status, KeepWaiting(status)
    PROVE  /\ \/ step' = "idle" /\ Plain(result)'
              \/ step' = "poll"
           /\ sleeps' \in 0 .. MaxSleeps
<1>1. CASE sleeps = 0
  <2>1. step' = "idle" /\ result' = Verdict(status, FALSE, TRUE) /\ sleeps' = sleeps
    BY <1>1 DEF KeepWaiting, Finish
  <2> QED
    BY <2>1, PlainEnvelopes DEF TypeOK
<1>2. CASE sleeps # 0
  BY <1>2, Numbers, SMTT(20) DEF KeepWaiting, TypeOK
<1> QED
  BY <1>1, <1>2

LEMMA PollKeeps ==
    ASSUME ExecutionAssumption, IInv, Poll
    PROVE  IInv'
<1>1. step = "poll" /\ UNCHANGED <<runs, tests, completed, files, adopted, tool, about, steps,
                                   made, tasks>>
  BY DEF Poll, vendor, folders
<1>2. TypeOK /\ Counted /\ MadeOnce /\ tries \in Nat /\ tries < MaxPollFailures
  BY <1>1, SMTT(20) DEF IInv, TypeOK, Counted
<1>3. /\ \/ step' = "idle" /\ Plain(result)'
         \/ step' = "poll" /\ tries' < MaxPollFailures
      /\ sleeps' \in 0 .. MaxSleeps /\ tries' \in {0, tries + 1}
  <2>1. CASE PollAnswered
    <3>1. PICK a \in StatusOf(about) :
              /\ tries' = 0
              /\ IF Succeeded(a)
                 THEN Finish(Verdict("ENDED", FALSE, FALSE)) /\ UNCHANGED sleeps
                 ELSE IF a.has_error \/ a.status = "FAILED"
                      THEN Finish(Verdict(a.status, TRUE, FALSE)) /\ UNCHANGED sleeps
                      ELSE KeepWaiting(a.status)
      BY <2>1, Zenon DEF PollAnswered
    <3>2. \/ \E status, failed, late : Finish(Verdict(status, failed, late)) /\ UNCHANGED sleeps
          \/ KeepWaiting(a.status)
      BY <3>1, Zenon
    <3>3. ASSUME NEW status, NEW failed, NEW late,
                 Finish(Verdict(status, failed, late)), UNCHANGED sleeps
          PROVE  step' = "idle" /\ Plain(result)' /\ sleeps' \in 0 .. MaxSleeps
      BY <1>2, <3>3, PlainEnvelopes DEF Finish, TypeOK
    <3> QED
      BY <1>2, <3>1, <3>2, <3>3, KeepWaitingEnds, Numbers
  <2>2. CASE PollRaised
    <3>1. CASE tries + 1 >= MaxPollFailures
      <4>1. step' = "idle" /\ result' = Error /\ sleeps' = sleeps /\ tries' = tries + 1
        BY <2>2, <3>1 DEF PollRaised, Finish
      <4> QED
        BY <1>2, <4>1, PlainEnvelopes DEF TypeOK
    <3>2. CASE ~(tries + 1 >= MaxPollFailures)
      <4>1. KeepWaiting("unknown") /\ tries' = tries + 1
        BY <2>2, <3>2 DEF PollRaised
      <4>2. tries' < MaxPollFailures
        BY <1>2, <3>2, <4>1, Numbers
      <4> QED
        BY <1>2, <4>1, <4>2, KeepWaitingEnds
    <3> QED
      BY <3>1, <3>2
  <2> QED
    BY <2>1, <2>2 DEF Poll
<1>4. TypeOK'
  <2>1. tries' \in 0 .. MaxAttempts + MaxPollFailures
    BY <1>2, <1>3, Numbers
  <2> QED
    BY <1>1, <1>2, <1>3, <2>1 DEF TypeOK
<1>5. Counted' /\ MadeOnce'
  BY <1>1, <1>2, <1>3 DEF Counted, MadeOnce, RecipeSteps
<1>6. OnTheWay' /\ Truthful'
  <2>1. CASE step' = "idle" /\ Plain(result)'
    BY <2>1, EndsPlainly
  <2>2. CASE step' = "poll"
    BY <2>2 DEF OnTheWay, RecipeSteps, Truthful, CoreIsThere, ReportsAreThere, Idle
  <2> QED
    BY <1>3, <2>1, <2>2
<1> QED
  BY <1>4, <1>5, <1>6 DEF IInv

LEMMA CreateKeeps ==
    ASSUME ExecutionAssumption, IInv, Create
    PROVE  IInv'
<1>1. step = "create" /\ UNCHANGED <<runs, completed, files, adopted, tool, about, tries, sleeps,
                                     steps, tasks>>
  BY DEF Create, folders
<1>2. /\ TypeOK /\ Counted /\ MadeOnce /\ Len(runs) \in Nat /\ Len(tests) \in Nat /\ made \in Nat
      /\ Len(runs) <= MaxRuns
  BY SMTT(20) DEF IInv, TypeOK
<1>3. /\ \/ UNCHANGED <<tests, made>>
         \/ Len(tests) < MaxTests /\ tests' = Append(tests, {}) /\ made' = made + 1
      /\ \/ step' = "upload" /\ result' = result
         \/ step' = "idle" /\ Plain(result)'
  <2>1. ASSUME Finish(Error) PROVE step' = "idle" /\ Plain(result)'
    BY <2>1, PlainEnvelopes DEF Finish
  <2> QED
    BY <2>1 DEF Create
<1>4. /\ tests' \in Seq(SUBSET ToSet(Uploads)) /\ Len(tests') <= MaxTests
      /\ made' \in 0 .. MaxRuns + MaxTests /\ made' <= Len(runs) + Len(tests')
      /\ made' <= made + 1
  <2>1. tests \in Seq(SUBSET ToSet(Uploads)) /\ Len(tests) <= MaxTests /\ made <= Len(runs) + Len(tests)
    BY <1>2 DEF TypeOK, Counted
  <2>2. CASE UNCHANGED <<tests, made>>
    BY <1>2, <2>1, <2>2, Numbers
  <2>3. CASE Len(tests) < MaxTests /\ tests' = Append(tests, {}) /\ made' = made + 1
    <3>1. tests' \in Seq(SUBSET ToSet(Uploads)) /\ Len(tests') = Len(tests) + 1
      BY <2>1, <2>3
    <3> QED
      BY <1>2, <2>1, <2>3, <3>1, Numbers
  <2> QED
    BY <1>3, <2>2, <2>3
<1>5. TypeOK'
  BY <1>1, <1>2, <1>3, <1>4 DEF TypeOK
<1>6. Counted' /\ MadeOnce'
  BY <1>1, <1>2, <1>3, <1>4, SMTT(20) DEF Counted, MadeOnce, RecipeSteps
<1>7. OnTheWay' /\ Truthful'
  <2>1. CASE step' = "idle" /\ Plain(result)'
    BY <2>1, EndsPlainly
  <2>2. CASE step' = "upload"
    BY <2>2 DEF OnTheWay, RecipeSteps, Truthful, CoreIsThere, ReportsAreThere, Idle
  <2> QED
    BY <1>3, <2>1, <2>2
<1> QED
  BY <1>5, <1>6, <1>7 DEF IInv

LEMMA UploadKeeps ==
    ASSUME ExecutionAssumption, IInv, Upload
    PROVE  IInv'
<1>1. step = "upload" /\ UNCHANGED <<runs, completed, files, adopted, tool, about, tries, sleeps,
                                     steps, made, tasks>>
  BY DEF Upload, folders
<1>2. PICK done \in SUBSET ToSet(Uploads), answered \in BOOLEAN :
          /\ tests' = [tests EXCEPT ![Len(tests)] = done]
          /\ Finish(IF answered /\ UploadAccepted(done)
                    THEN Ok([test |-> Len(tests), partial |-> done # ToSet(Uploads)])
                    ELSE Error)
  BY Zenon DEF Upload
<1>3. step' = "idle" /\ Plain(result)'
  <2>1. CASE answered /\ UploadAccepted(done)
    <3>1. step' = "idle" /\ result' = Ok([test |-> Len(tests), partial |-> done # ToSet(Uploads)])
      BY <1>2, <2>1 DEF Finish
    <3> QED
      BY <3>1, PlainEnvelopes, Zenon
  <2>2. CASE ~(answered /\ UploadAccepted(done))
    BY <1>2, <2>2, PlainEnvelopes DEF Finish
  <2> QED
    BY <2>1, <2>2
<1>4. tests' \in Seq(SUBSET ToSet(Uploads)) /\ Len(tests') = Len(tests)
  <2>1. tests \in Seq(SUBSET ToSet(Uploads)) /\ Len(tests) \in Nat
    BY DEF IInv, TypeOK
  <2>2. CASE Len(tests) = 0
    <3>1. tests' = tests
      BY <1>2, <2>1, <2>2
    <3> QED
      BY <2>1, <3>1
  <2>3. CASE Len(tests) # 0
    BY <1>2, <2>1, <2>3, ExceptSeq
  <2> QED
    BY <2>2, <2>3
<1>5. TypeOK'
  BY <1>1, <1>3, <1>4 DEF IInv, TypeOK
<1>6. Counted' /\ MadeOnce'
  BY <1>1, <1>3, <1>4 DEF IInv, Counted, MadeOnce, RecipeSteps
<1> QED
  BY <1>3, <1>5, <1>6, EndsPlainly DEF IInv

-----------------------------------------------------------------------------
(* The theorems.                                                           *)

LEMMA Invariance == Spec => []IInv
<1>1. Init => IInv
  <2> SUFFICES ASSUME Init PROVE IInv
    OBVIOUS
  <2>1. TypeOK
    <3>1. Untried \in [ToSet(Recipe) -> {"pending", "success", "partial", "failed", "skipped"}]
      BY DEF Untried
    <3>2. {MaxAttempts, MaxPollFailures, MaxSleeps, MaxRuns, MaxTests, MaxTasks} \subseteq Nat \ {0}
      BY ExecutionAssumption, Numbers
    <3> QED
      BY <3>1, <3>2 DEF Init, TypeOK
  <2>2. Counted /\ MadeOnce /\ OnTheWay
    BY DEF Init, Counted, MadeOnce, OnTheWay, RecipeSteps
  <2>3. Truthful
    BY PlainEnvelopes DEF Init, Plain, Truthful, CoreIsThere, ReportsAreThere, Has
  <2> QED
    BY <2>1, <2>2, <2>3 DEF IInv
<1>2. IInv /\ [Next]_vars => IInv'
  <2> SUFFICES ASSUME IInv, [Next]_vars PROVE IInv'
    OBVIOUS
  <2>1. CASE Dispatch
    BY <2>1, ExecutionAssumption, DispatchKeeps
  <2>2. CASE Reject
    BY <2>2, ExecutionAssumption, RejectKeeps
  <2>3. CASE Start
    BY <2>3, ExecutionAssumption, StartKeeps
  <2>4. CASE Poll
    BY <2>4, ExecutionAssumption, PollKeeps
  <2>5. CASE Extract
    BY <2>5, ExecutionAssumption, ExtractKeeps
  <2>6. CASE Create
    BY <2>6, ExecutionAssumption, CreateKeeps
  <2>7. CASE Upload
    BY <2>7, ExecutionAssumption, UploadKeeps
  <2>8. CASE RunEnds
    BY <2>8, ExecutionAssumption, RunEndsKeeps
  <2>9. CASE UNCHANGED vars
    <3>1. TypeOK' /\ Counted' /\ MadeOnce'
      BY <2>9 DEF vars, vendor, folders, IInv, TypeOK, Counted, MadeOnce
    <3>2. OnTheWay' /\ Truthful'
      BY <2>9 DEF vars, vendor, folders, IInv, OnTheWay, Filed, Truthful, CoreIsThere,
                  ReportsAreThere, Has, Idle
    <3> QED
      BY <3>1, <3>2 DEF IInv
  <2> QED
    BY <2>1, <2>2, <2>3, <2>4, <2>5, <2>6, <2>7, <2>8, <2>9, Zenon DEF Next, Work
<1> QED
  BY <1>1, <1>2, PTL DEF Spec

(* The types of the agent's state, and that no retry or poll is counted    *)
(* beyond its limit.                                                       *)
THEOREM TypeCorrect == Spec => []TypeOK
<1>1. IInv => TypeOK
  BY DEF IInv
<1> QED
  BY <1>1, Invariance, PTL

(* agents/execution-agent/agent.py:48: a start or a provisioning is tried  *)
(* once, so a task of a composite tool makes one run or one test at most,  *)
(* whatever answer is lost.                                                *)
THEOREM OneShotHolds == Spec => []OneShot
<1>1. IInv => OneShot
  BY DEF IInv, MadeOnce, OneShot
<1> QED
  BY <1>1, Invariance, PTL

(* The recipe's critical steps: an extraction not reported failed read the *)
(* run's results and left the artifacts of a session in the run's folder.  *)
THEOREM CoreIsExtracted == Spec => []CoreIsThere
<1>1. IInv => CoreIsThere
  BY DEF IInv, Truthful
<1> QED
  BY <1>1, Invariance, PTL

(* The validation block names only reports that are in the run's folder,   *)
(* whatever calls raised after their tool had done its work.               *)
THEOREM ReportsAreFiled == Spec => []ReportsAreThere
<1>1. IInv => ReportsAreThere
  BY DEF IInv, Truthful
<1> QED
  BY <1>1, Invariance, PTL

=============================================================================
