--------------------------- MODULE ExecutionAgent ---------------------------
(***************************************************************************)
(* The execution agent's tasks: it provisions a BlazeMeter test, starts    *)
(* it, waits for the run to end and extracts its artifacts, each on the    *)
(* orchestrator's request, through MCP tools that may fail, or succeed and *)
(* lose their answer.  Tests and runs live at BlazeMeter; the artifacts of *)
(* a run in a folder of the MCP servers.                                   *)
(***************************************************************************)
EXTENDS Integers, Sequences, FiniteSets, SequencesExt

CONSTANTS
    Sessions,                 \* load generators of a run
    MaxAttempts,              \* _BLAZEMETER_STEP_MAX_ATTEMPTS
    MaxPollFailures,          \* _MAX_CONSECUTIVE_POLL_FAILURES
    MaxSleeps,                \* timeout_seconds / poll_interval_seconds
    MaxRuns, MaxTests,        \* bounds on what BlazeMeter holds
    MaxTasks                  \* bound on the tasks

ASSUME ExecutionAssumption ==
    /\ Sessions # {}
    /\ {MaxAttempts, MaxPollFailures, MaxSleeps, MaxRuns, MaxTests, MaxTasks} \subseteq Nat \ {0}

VARIABLES
    runs,            \* BlazeMeter's runs: "running", "ended", or ended "broken"
    tests,           \* BlazeMeter's tests, each the set of files it holds
    completed,       \* sessions whose artifacts were processed, per run
    files,           \* reports in a run's folder
    adopted,         \* test_run_id of the thread's tasks: a run, or 0
    tool, about,     \* the task in progress and the run it is given
    step, tries,     \* its step, and failed calls (consecutive ones while polling)
    sleeps,          \* polls left before the deadline
    steps,           \* "steps" of the extraction's report
    result,          \* tool_result of the last task
    made,            \* runs and tests the task in progress made (history variable)
    tasks

vendor == <<runs, tests>>
folders == <<completed, files>>
vars == <<vendor, folders, adopted, tool, about, step, tries, sleeps, steps, result, made, tasks>>

Contract == INSTANCE ArtifactContract WITH verdict <- result

Runs == 1 .. MaxRuns
Tools == {"start_performance_test", "wait_for_completion", "extract_test_run_artifacts",
          "provision_performance_test", "blazemeter_start_test"}
Recipe == <<"get_run_results", "get_artifacts_path", "process_session_artifacts",
            "get_public_report", "get_aggregate_report", "analyze_jmeter_log">>
Critical == {"get_run_results", "get_artifacts_path", "process_session_artifacts"}
Reports == {"get_public_report", "get_aggregate_report", "analyze_jmeter_log"}
Script == "jmx"
Uploads == <<Script, "data">>

Ok(fields) == [f \in DOMAIN fields \cup {"ok"} |-> IF f = "ok" THEN TRUE ELSE fields[f]]
Error == [ok |-> FALSE]
Untried == [s \in ToSet(Recipe) |-> "pending"]

Init == /\ runs = <<>> /\ tests = <<>>
        /\ completed = [r \in Runs |-> {}] /\ files = [r \in Runs |-> {}]
        /\ adopted = 0 /\ tool = "none" /\ about = 0
        /\ step = "idle" /\ tries = 0 /\ sleeps = 0
        /\ steps = Untried /\ result = Error /\ made = 0 /\ tasks = 0

-----------------------------------------------------------------------------
(* Dispatch.                                                               *)

FirstStep == [start_performance_test |-> "start", wait_for_completion |-> "poll",
              extract_test_run_artifacts |-> "get_run_results",
              provision_performance_test |-> "create", blazemeter_start_test |-> "start"]

\* The run a task is about is the thread's, or one the orchestrator names.
Dispatch ==
    /\ step = "idle" /\ tasks < MaxTasks
    /\ tasks' = tasks + 1
    /\ \E t \in Tools, r \in {adopted} \cup DOMAIN runs :
          /\ t \in {"wait_for_completion", "extract_test_run_artifacts"} => r # 0
          /\ tool' = t /\ about' = r /\ step' = FirstStep[t]
    /\ tries' = 0 /\ sleeps' = MaxSleeps /\ steps' = Untried /\ made' = 0
    /\ result' = Error
    /\ UNCHANGED <<vendor, folders, adopted>>

Finish(envelope) == step' = "idle" /\ result' = envelope

Skipped == [s \in ToSet(Recipe) |-> "skipped"]

\* The envelope carries an error and the task completes: an unknown tool, bad
\* arguments, an environment or project that cannot be resolved; a module or
\* an MCP client that cannot be loaded, opened or, at any later step, used or
\* closed.  An extraction then reports that no step was tried.
Reject == /\ step # "idle"
          /\ step' = "idle"
          /\ result' \in {Error} \cup (IF tool = "extract_test_run_artifacts"
                                       THEN {[ok |-> TRUE, status |-> "failed", steps |-> Skipped,
                                              validation |-> {}]}
                                       ELSE {})
          /\ UNCHANGED <<vendor, folders, adopted, tool, about, tries, sleeps, steps, made, tasks>>

-----------------------------------------------------------------------------
(* start_performance_test, and the same MCP tool passed through.           *)

MakeRun == /\ Len(runs) < MaxRuns
           /\ runs' = Append(runs, "running") /\ made' = made + 1

\* Mutated form: the composite tool retries like every other MCP call.
RetriesAll == TRUE

\* blazemeter_* tools that are passed through are tried MaxAttempts times.
Retries == tool = "blazemeter_start_test"

\* The vendor's run id becomes the thread's, if the row can be written.
Started == /\ MakeRun
           /\ Finish(Ok([run |-> Len(runs')]))
           /\ adopted' \in IF tool = "start_performance_test"
                           THEN {adopted, Len(runs')} ELSE {adopted}
           /\ UNCHANGED tries

\* The call raises, with or without a run made; or its answer has no run id.
StartFailed == /\ \/ UNCHANGED <<runs, made>>
                  \/ MakeRun
               /\ IF Retries /\ tries + 1 < MaxAttempts
                  THEN tries' = tries + 1 /\ UNCHANGED <<step, result>>
                  ELSE Finish(Error) /\ UNCHANGED tries
               /\ UNCHANGED adopted

Start == /\ step = "start"
         /\ Started \/ StartFailed
         /\ UNCHANGED <<tests, folders, tool, about, sleeps, steps, tasks>>

-----------------------------------------------------------------------------
(* wait_for_completion.                                                    *)

\* get_test_status answers an API failure with the status ERROR.
Answers(r) == {[status |-> "RUNNING", has_error |-> FALSE],
               [status |-> "ENDED", has_error |-> runs[r] = "broken"],
               [status |-> "FAILED", has_error |-> TRUE],
               [status |-> "ERROR", has_error |-> TRUE]}

StatusOf(r) == {a \in Answers(r) : \/ a.status = "ERROR"
                                   \/ runs[r] = "running" /\ a.status = "RUNNING"
                                   \/ runs[r] = "ended" /\ a.status = "ENDED"
                                   \/ runs[r] = "broken" /\ a.status \in {"ENDED", "FAILED"}}

Verdict(status, failed, late) ==
    Ok([status |-> status, has_error |-> failed, timed_out |-> late])

Succeeded(a) == a.status = "ENDED" /\ ~a.has_error

\* Mutated form: the deadline is never looked at.
PollForever(status) == step' = "poll" /\ UNCHANGED <<result, sleeps>>

KeepWaiting(status) ==
    IF sleeps = 0 THEN Finish(Verdict(status, FALSE, TRUE)) /\ UNCHANGED sleeps
                      ELSE /\ step' = "poll" /\ UNCHANGED result
                           /\ sleeps' \in 0 .. sleeps - 1    \* slow calls leave fewer

PollAnswered == \E a \in StatusOf(about) :
    /\ tries' = 0
    /\ IF Succeeded(a) THEN Finish(Verdict("ENDED", FALSE, FALSE)) /\ UNCHANGED sleeps
       ELSE IF a.has_error \/ a.status = "FAILED"
            THEN Finish(Verdict(a.status, TRUE, FALSE)) /\ UNCHANGED sleeps
            ELSE KeepWaiting(a.status)

PollRaised == /\ tries' = tries + 1
              /\ IF tries + 1 >= MaxPollFailures THEN Finish(Error) /\ UNCHANGED sleeps
                                                 ELSE KeepWaiting("unknown")

Poll == /\ step = "poll"
        /\ PollAnswered \/ PollRaised
        /\ UNCHANGED <<vendor, folders, adopted, tool, about, steps, made, tasks>>

-----------------------------------------------------------------------------
(* extract_test_run_artifacts.                                             *)

After(s) == LET i == CHOOSE i \in DOMAIN Recipe : Recipe[i] = s
            IN  {Recipe[j] : j \in i + 1 .. Len(Recipe)}

NextOf(s) == Recipe[1 + CHOOSE i \in DOMAIN Recipe : Recipe[i] = s]

\* Steps 1 to 5 are retried when the call raises; step 6 is not.
Attempts(s) == IF s = "analyze_jmeter_log" THEN 1 ELSE MaxAttempts

_build_validation_block(ss) ==
    (IF ss["process_session_artifacts"] \in {"success", "partial"}
     THEN {"test_results_csv"} ELSE {})
        \cup {s \in Reports : ss[s] = "success"}

Report(status, ss) ==
    Ok([status |-> status, steps |-> ss, validation |-> _build_validation_block(ss)])

_finalize_critical_failure(s) ==
    LET ss == [n \in ToSet(Recipe) |-> IF n = s THEN "failed"
                                       ELSE IF n \in After(s) THEN "skipped" ELSE steps[n]]
    IN  /\ steps' = ss /\ Finish(Report("failed", ss)) /\ UNCHANGED tries

\* A step that is not critical, or a critical one that did not fail.
Proceed(outcome) ==
    LET ss == [steps EXCEPT ![step] = outcome]
    IN  /\ steps' = ss /\ tries' = 0
        /\ IF step = "analyze_jmeter_log"
           THEN Finish(Report(IF \E s \in Reports : ss[s] = "failed"
                              THEN "partial" ELSE "success", ss))
           ELSE step' = NextOf(step) /\ UNCHANGED result

Settle(outcome) == IF outcome = "failed" /\ step \in Critical
                   THEN _finalize_critical_failure(step)
                   ELSE Proceed(outcome)

\* Mutated form: any structured answer lets the recipe go on.
AnyReply(reply) == "partial"

\* What the agent makes of the status of process_session_artifacts.
SessionOutcome(reply) == IF reply \in {"success", "partial"} THEN reply ELSE "failed"

\* Mutated form: an answer with an error field counts as the step's success.
AnyAnswer(good) == "success"

StepOutcome(good) == IF good THEN "success" ELSE "failed"

\* The session processor works in the run's folder, as it promises.
Process == \E done \in SUBSET Sessions :
    /\ completed[about] \subseteq done
    /\ completed' = [completed EXCEPT ![about] = done]
    /\ Settle(SessionOutcome(Contract!Reply(done)))

\* The other tools answer well or badly, and write their report if well.
Fetch == \E good \in BOOLEAN :
    /\ files' = IF good /\ step \in Reports
                THEN [files EXCEPT ![about] = @ \cup {step}] ELSE files
    /\ Settle(StepOutcome(good))

\* The call raises; the tool may have done its work, or part of it.
StepRaised ==
    /\ IF tries + 1 < Attempts(step)
       THEN tries' = tries + 1 /\ UNCHANGED <<step, steps, result>>
       ELSE Settle("failed")
    /\ \/ UNCHANGED folders
       \/ /\ step = "process_session_artifacts"
          /\ \E done \in SUBSET Sessions :
                /\ completed[about] \subseteq done
                /\ completed' = [completed EXCEPT ![about] = done]
          /\ UNCHANGED files
       \/ /\ step \in Reports
          /\ files' = [files EXCEPT ![about] = @ \cup {step}]
          /\ UNCHANGED completed

Extract == /\ step \in ToSet(Recipe)
           /\ \/ step = "process_session_artifacts" /\ Process /\ UNCHANGED files
              \/ step # "process_session_artifacts" /\ Fetch /\ UNCHANGED completed
              \/ StepRaised
           /\ UNCHANGED <<vendor, adopted, tool, about, sleeps, made, tasks>>

-----------------------------------------------------------------------------
(* provision_performance_test, and the vendor.                             *)

\* The test is made before its files are uploaded, one by one.
Create == /\ step = "create"
          /\ \/ /\ Len(tests) < MaxTests
                /\ tests' = Append(tests, {}) /\ made' = made + 1
                /\ step' = "upload" /\ UNCHANGED result
             \/ /\ Len(tests) < MaxTests        \* made, and the answer lost
                /\ tests' = Append(tests, {}) /\ made' = made + 1
                /\ Finish(Error)
             \/ Finish(Error) /\ UNCHANGED <<tests, made>>
          /\ UNCHANGED <<runs, folders, adopted, tool, about, tries, sleeps, steps, tasks>>

\* An upload of some of the files is a success, with a warning.
UploadAccepted(done) == done # {}

Upload == /\ step = "upload"
          /\ \E done \in SUBSET ToSet(Uploads), answered \in BOOLEAN :
                /\ tests' = [tests EXCEPT ![Len(tests)] = done]
                /\ Finish(IF answered /\ UploadAccepted(done)
                          THEN Ok([test |-> Len(tests), partial |-> done # ToSet(Uploads)])
                          ELSE Error)
          /\ UNCHANGED <<runs, folders, adopted, tool, about, tries, sleeps, steps, made, tasks>>

RunEnds == /\ \E r \in DOMAIN runs, end \in {"ended", "broken"} :
                 runs[r] = "running" /\ runs' = [runs EXCEPT ![r] = end]
           /\ UNCHANGED <<tests, folders, adopted, tool, about, step, tries, sleeps, steps,
                          result, made, tasks>>

Work == Reject \/ Start \/ Poll \/ Extract \/ Create \/ Upload

Next == Dispatch \/ Work \/ RunEnds

Spec == Init /\ [][Next]_vars

\* The executor awaits the tool; every call returns or raises.
FairSpec == Spec /\ WF_vars(Work)

-----------------------------------------------------------------------------
(* Properties.                                                             *)

Has(field) == field \in DOMAIN result
Idle == step = "idle"

TypeOK == /\ runs \in Seq({"running", "ended", "broken"}) /\ Len(runs) <= MaxRuns
          /\ tests \in Seq(SUBSET ToSet(Uploads)) /\ Len(tests) <= MaxTests
          /\ completed \in [Runs -> SUBSET Sessions] /\ files \in [Runs -> SUBSET Reports]
          /\ adopted \in 0 .. Len(runs) /\ about \in 0 .. Len(runs)
          /\ tool \in Tools \cup {"none"}
          /\ step \in {"idle", "start", "poll", "create", "upload"} \cup ToSet(Recipe)
          /\ tries \in 0 .. MaxAttempts + MaxPollFailures /\ sleeps \in 0 .. MaxSleeps
          /\ steps \in [ToSet(Recipe) -> {"pending", "success", "partial", "failed", "skipped"}]
          /\ made \in 0 .. MaxRuns + MaxTests /\ tasks \in 0 .. MaxTasks

\* Starting and provisioning are not idempotent: whatever is lost on the way,
\* one task of a composite tool makes one run or test at most.
OneShot == tool # "blazemeter_start_test" => made <= 1

\* An extraction that is not reported failed left a bundle the analysis can
\* use: the run's results were read and some session's artifacts are there.
CoreIsThere ==
    (Idle /\ Has("steps") /\ result.status # "failed") =>
        /\ result.steps["get_run_results"] = "success"
        /\ completed[about] # {}

\* The reports the validation block names are in the run's folder, although
\* the block is made from the answers alone.
ReportsAreThere ==
    (Idle /\ Has("validation")) => result.validation \cap Reports \subseteq files[about]

\* Every task of the execution agent comes to an end: the retries, the polls
\* and the recipe are all bounded, whatever BlazeMeter answers.
TasksEnd == ~Idle ~> Idle

-----------------------------------------------------------------------------
(* What the documents say and the code does not keep.                      *)

\* Transient failures of a poll are absorbed: a verdict that the test failed
\* is about the test (agent.py, wait_for_completion).
FailureIsTheTests ==
    (Idle /\ Has("has_error") /\ result.has_error) => runs[about] = "broken"

\* "success" of an extraction means that all six steps succeeded
\* (execution-agent INSTRUCTIONS.md, Status definitions).
SuccessIsAllSix ==
    (Idle /\ Has("steps") /\ result.status = "success") =>
        \A s \in ToSet(Recipe) : result.steps[s] = "success"

\* A test is started at most once per request (agent.py, start_performance_test).
StartsAreSingle == made <= 1

\* A provisioned test holds the script it is to run.
ProvisionedHasScript == (Idle /\ Has("test")) => Script \in tests[result.test]
=============================================================================
