# PerfPilot Hub in TLA+

PerfPilot Hub runs performance tests through LLM agents. Its core is the
agent framework's backend (`agent-framework/backend`, Python, asyncio): a table
of tasks, an executor that runs them, an A2A server that takes requests from
other agents, an AG-UI server behind the Web UI, human approval gates, an
orchestrator that delegates work to specialist agents, and the conversations
all of them share. The specialists call the MCP servers of
`mcp-perf-suite`, which keep a run's artifacts, analyse them and write reports.
These modules model the core, and the parts of the suite with state or
decisions of their own. TLC checks them on small instances; TLAPS proves the main
invariants for every value of the constants. Source paths are relative to
`agent-framework/backend`, or begin with the name of an MCP server under
`mcp-perf-suite`.

## 1. The system

| Part | Keeps | Operations | Talks to |
|---|---|---|---|
| Task table `stores/task_store.py` | `agent_tasks` rows | create, mark running / completed / failed / cancelled / input required, append a resume message: each one conditional `UPDATE` | everything |
| Executor `services/task_executor.py` | one coroutine per user turn of a task | load, gate, dispatch, write outcome, broadcast, reload, webhook, message | table, bus, gates, agents |
| A2A requests `a2a/server/v1_rest.py`, `v1_jsonrpc.py`, `helpers/resume.py` | per request | send, stream, subscribe, cancel, resume | table, executor, bus |
| Bus `services/subscriptions.py` | queues per task (64 events), parent cache | subscribe, broadcast (dropping), proxy to the parent | executor, streams |
| Waits `helpers/wait.py`, `helpers/sse.py` | one queue per blocking request | wait until settled, close a stream | bus, table |
| Gates `services/hitl_gates.py`, `stores/hitl_store.py` | `hitl_approvals` rows | insert a prompt, poll it until decided or late; approve, reject | executor, tool loop, Web UI |
| Delegation `agents/orchestrator/agent.py`, `services/specialist_agents.py` | `_caller_identity`, `_pending_executions`, ContextVars | delegate, check, drain, restore and clear the identity | table, executor, both servers |
| AG-UI server `agui_server.py` | chat streams | chat turn, approvals, threads, secrets, snapshots | orchestrator, stores |
| Tool loop `services/helpers/tool_loop.py`, run of a specialist or orchestrator `services/specialist_agents.py`, `task_executor.py` | messages of one agent's run, repetition count, audit | ask the LLM, call tools, compact, drain, end | gates, MCP, stores |
| Conversations `stores/thread_store.py`, `stores/conversation_store.py`, `a2a/server/utils/context.py` | threads, their messages | find or create, append, load the first 200 | both servers, executor |
| Test run ids `core/test_run_id.py`, `services/helpers/test_run_id_resolver.py`, `webui_resolve.py` | `agent_tasks.test_run_id` | reuse, mint, ask, reuse the only one, write back | both servers, executor, specialists |
| Execution agent `agents/execution-agent/agent.py` | polls of one run | start, wait, extract, provision | BlazeMeter MCP |
| Session artifacts `blazemeter-mcp/services/blazemeter_api.py` | manifest, archives, one CSV | download, extract, append, resume, clean up | BlazeMeter, execution agent |
| Bottleneck analysis `perfanalysis-mcp/services/bottleneck_analyzer.py` | none | smooth, detect, classify, summarise | artifacts, reports |
| Report revision `perfreport-mcp/services/report_revision_generator.py` | reports, backups, metadata, section versions, AI template | generate, save a version, revise | the LLM, through tools |
| Script editing `jmeter-mcp/services/jmx_editor.py` | scripts, numbered backups | analyse, add, edit, back up, prune | the LLM, through tools |
| Sessions and identity, secrets, message shapes, MCP client, configuration | rows, caches | | |
| Web UI, other MCP servers, deployment | | | |

The A2A server (port 8101) and the AG-UI server (port 8102) are two processes
over one database. Each has its own event loop, executor, bus and
`_caller_identity`; what they share is the rows.

### What is hard in it

* **Interleaving.** Nothing locks a row: a cancel, a second answer and the end
  of an execution race, and only the `WHERE` clauses decide. A step of the code
  that awaits anything may see a different row afterwards.
* **Ordering.** Who subscribes before or after the event it waits for; events of
  delegated tasks in their parent's queue; queues that drop.
* **Process-wide variables.** Every turn and every specialist writes one
  `_caller_identity` and one `_pending_executions`.
* **Timeouts.** A human's decision and the gate's deadline.
* **Crashes.** No recovery at start-up; a row written but not scheduled; files
  written one after the other, and a call that is cut short between two.
* **Caches of what others decide.** A snapshot of a row, a history loaded before
  another turn stored its own, an AI template made for an earlier configuration.
* **Lost answers.** A vendor that acted and did not say so; a retry that acts
  again.
* **Long sequences.** Rounds of an agent, polls of a run, resumed turns of a
  task, revisions of a report.

`PROJECT.json` lists these hazards at their lines, with the property that covers each
or the reason none does.

## 2. The modules

| Module | Models | State and its code |
|---|---|---|
| `TaskStore` | the writers of `agent_tasks` as operators on a row | a row: `status`, `result` (kind, and from how many answers), `error`, `started_at`, `completed_at`, number of `payload.resume_messages` |
| `TaskContract` | what the A2A surface promises of a task | `status`, `answers` |
| `TaskLifecycle` | requests, `execute_task`, stops and crashes | `rows`; `pc[t][k]`: where execution k of task t stands; `turns`: the snapshot it loaded; `final`: the row it re-read; `log`: broadcasts; `posts`: webhooks; `notes`: messages in the conversation; `answering`: clients between read and write in `try_handle_resume` |
| `MCTaskLifecycle` | `TaskLifecycle` with symmetric clients | |
| `TaskStream` | bus, SSE streams, blocking sends over `TaskLifecycle` | `sub`: requests with stage and queue; `parent`: `_parent_task_cache` |
| `HitlGate` | approval gates and the humans that decide | `approvals`: the table; `gate`: where an execution stands; `late`: deadlines passed; `click`: a decision between owner check and `UPDATE`; `accepted`, `acted`: history |
| `Delegation` | shared identity, pending list, turns, specialists | `caller`: `_caller_identity`; `pending`: `_pending_executions`; `turn`: chat streams or orchestrator executions with the run id of their context; `child`: delegated tasks |
| `AgentRun`, `MCAgentRun` | one task in the hands of an LLM agent: `run_tool_loop` and what its two callers do before and after | `messages`: what the LLM sees, each of a size; `round`, `queue`: calls of the reply not yet handled; `last`, `repeats`: repetition; `freed`: `tokens_freed`; `noted`, `audit`: comparison ids in the round's record and before; `children`: delegated tasks; `captured`: the envelope's id; `transcript`: the stored conversation; `shown`: history |
| `Conversation`, `MCConversation` | a thread, its messages, its tasks' test runs, overlapping and resumed turns | `thread`, `messages`, `tasks` (their `test_run_id`), `open` (delegated tasks that run); `turn`: a request between its awaits: texts, what was loaded, the run; `clock`: the second of the latest mint; `failures` |
| `ExecutionAgent` | start, wait, extract, provision, the pass-through with its retries | `runs`, `tests`: at the vendor; `completed`, `files`: a run's folder; `adopted`: the thread's run; `tool`, `step`, `tries`, `sleeps`, `steps`, `result`: the task in progress; `made`: history |
| `SessionArtifacts` | `process_session_artifacts` | `disk`, `manifest`: the file and the call's copy; `url`: the state of the MCP session; `zip`, `files`, `csv`; `pc`, `at`; `verdict` |
| `ArtifactContract` | what that tool promises whoever calls it | `completed`, `verdict` |
| `Bottleneck` | the analysis, as operators on time series | none |
| `Analysis`, `MCAnalysis` | the analysis being asked for | `case`: a run's time buckets; `detected`: the findings of Phase 1; `answer`: the report |
| `ReportRevision` | generation and revision of one report | `enabled`: configuration; `template`: AI template; `versions`; `text`, `metadata`: files by name; `edition`; `pc`, `call`: the revision in progress; `untold`: history |
| `JmxEditor`, `MCJmxEditor` | the scripts of a run under an LLM that edits them by the ids of its analysis | `scripts`, `newest`: the one modified last; `backups`; `analysis`: what the LLM was told; `change`: the one in progress; `before`, `made`: history |
| `TaskProofs` (of `TaskLifecycle` and `TaskStream`), `HitlGateProofs`, `DelegationProofs`, `AgentRunProofs`, `ConversationProofs`, `ExecutionAgentProofs`, `SessionArtifactsProofs`, `SuiteProofs` (of `ReportRevision`, `JmxEditor` and `Analysis`) | theorems and proofs | |

One action is the stretch of a handler between two awaits at which anything else can
happen. `Load`, `Start`, `SayStarted`, ... `Inject` of `TaskLifecycle` are
the statements of `execute_task` in order; `Raise` may leave its `try` block
at each of them, `CancelAborted` is its `CancelledError` handler, and `Break` is
an error where nothing catches it. A broadcast takes an uncontended lock and
queues without waiting, so in `TaskStream` it is one step with the statement
that makes it. Where a handler only works on files, an action is what it does
between two writes. `Execute` is shared: `TaskStream` conjoins each of its
steps with the event it sends, so both modules run the same executor.
`ExecutionAgent` takes the step that calls `process_session_artifacts` from
`ArtifactContract`, which `SessionArtifacts` is shown to implement.

A definition of the form "Mutated form: ..." is a plausible bug of the
definition after it, used only to show that a property can fail.

### Abstractions

* In `TaskLifecycle` an agent's run is one step with three ends: a result, a
  question, an exception. It may emit any number of progress events. `AgentRun`
  is what that step stands for.
* In `AgentRun` the LLM says anything and a tool returns or raises; a message is
  its size in tokens and a tool call one of a few signatures.
  `compact_tool_results` preserves the latest `compaction_preserve_recent`
  results (5 as shipped), read or not: a reply with more calls than that may
  have its first results compacted before the LLM reads them.
  `SeenBeforeCompacted` says that nothing else is compacted unread.
* `Conversation` numbers the texts of each turn. Messages are stored in the
  order of their `created_at`. A browser sends all it saw of the conversation or
  only the new text. The patterns that find an id or a wish in a text are
  abstracted to what they find. A delegated task may get any id
  (which one is the matter of `Delegation`). `NoRunIsGuessed` is about
  conversations within the window of 50 tasks.
* `SessionArtifacts`: one call runs at a time and the run's sessions do not change
  between calls. An archive is of some session, readable or not, with or
  without its `kpi.jtl`.
* `ExecutionAgent`: one task at a time on a thread; an error of a tool covers
  every reason.
* `Bottleneck`: buckets are given, numbers scaled so that medians and
  percentages are exact; rounding of what is printed is left out, and so are
  the trend classifier, the memory series, the raw mode and the comparison.
  A label has buckets of its own, those of the test it has requests in, with its
  own load; the load at its onset is its own, and its onset is a position in its
  own buckets, which the windows take for one of the test's, as the code does.
  Labels with fewer than ten requests are passed over, and the report has at most
  five that degraded and three that are slow; their order in it is left open.
* `ReportRevision`: one server process, one call at a time, a file is written
  whole or not at all, and the order in which a directory is listed is any.
* `JmxEditor`: an element has a class, a name and a parent; what else it holds is
  left out, and an id is the class, name and path that the code hashes. A script
  appears whole. A backup is made empty, then filled, then the oldest are removed
  one at a time, and a call may end after each of these steps (a stop, a full disk,
  an `os.remove` that raises). `Order` is how the backups of different scripts sort
  in a listing. A dry run changes nothing. Which configurations of a component are
  valid is left out.
* Webhook retries are one step (a post that fails is logged by the code and
  changes nothing); `posts` therefore says what was sent, not what was received.
* In `TaskLifecycle` the gate only passes or refuses; `HitlGate` is the gate.
* `HitlGate` leaves out a prompt that disappears while it is polled: rows go
  only with their task, and nothing calls `delete_task`.
* In `Delegation` a conversation (thread, session, user) is the turn that
  carries it; a run id is the turn or delegated task it was resolved for.
  Draining is one step: copy and clear run on the event loop's thread
  without an await between them.
* `auth_required` and `rejected` are in the types; no code writes them.

## 3. The runs

| Run | Asks | Shows |
|---|---|---|
| `TaskLifecycleSafety` | 1 task, 2 clients, 2 answers, 1 stop or crash | one owner per row and it is the latest; asked rows have none; results see every answer; questions do not outlive theirs; timestamps; no outside notice is taken back; an execution posts the outcome it wrote; the table implements `TaskContract` |
| `TaskStreamFamily` | a parent, a delegated task, a queue of 1 | a stream is ended only on a terminal row of its own task |
| `TaskStreamResume` | 1 task, 1 answer, 1 stop, a queue of 1 | blocking sends are answered, streams end, even with drops and silent cancels; a task settles, unless its execution was lost |
| `HitlGateSafety` | 1 execution, 2 prompts, 2 humans | only approved actions run, one decision stands, gates end |
| `DelegationSafety` | 2 turns, 2 delegated tasks, either surface | queued tasks start once, under their own conversation, unless their turn breaks off |
| `AgentRunLoop` | an orchestrator or a specialist, 3 rounds, 2 calls a reply, 1 answer, 1 delegated task | each call is answered once and in order, only results that more than `PreserveRecent` calls of their own reply crowd out are compacted unread, repetition is bounded across rounds, a delegated task is started on every exit but an exception, runs end |
| `Conversation` | 2 overlapping requests with 3 texts, either surface, 2 tasks, 2 seconds, 1 failure | the LLM is given the conversation with the new text once and last; a run nobody named is the only one known; a task is given one new run however often it is resumed |
| `ExecutionAgent` | 3 tasks, 2 runs, 1 test, 2 sessions | composite tools make one run or test at most; what an extraction reports is in the folder; tasks end |
| `SessionArtifacts` | 2 sessions, calls without end, 1 stop | the manifest claims no rows the CSV lost; the tool implements `ArtifactContract` |
| `Analysis` | some thousand test runs of 6, 8 and 10 buckets | the onset is the earliest sustained degradation; the threshold is the least load at which anything really degraded, labels past the report's cap included, and windows and headline agree with it |
| `ReportRevision` | a run's report or a comparison, 2 sections, 2 versions, 2 editions | backups of a run's report stand; metadata tell what the report shows |
| `JmxEditor` | 2 scripts, 4 elements, 3 changes, 1 backup kept, 1 stop | backups are a script's history, none missing and none too many when the script is written, and the latest holds what a cut write was about to replace, wherever earlier calls were cut; a change moves no id but those it must |

**What the documents say and the code does not keep.** The modules also
state, under this heading, what a docstring or a document says and the code
does not do. None of these is in a configuration: each is violated, which TLC
finds when the property is added to the configuration of its module.
`findings` in `PROJECT.json` quotes the words and names the line that disagrees.

| Module | Configuration | Properties |
|---|---|---|
| `TaskLifecycle`, `TaskStream` | `TaskStreamResume` | `EveryCloseIsBroadcast`, `FollowersEnd`; with `Hooked = {t1}` `EveryTerminalIsPosted` |
| `TaskStream` | `TaskStreamFamily` with `Capacity = 2` | `RepliesAreSettled` |
| `HitlGate` | `HitlGateSafety` | `TimeoutMeansUndecided` |
| `Delegation` | `DelegationSafety` | `RunsStayWithTheirTurn` |
| `AgentRun` | `AgentRunLoop` | `LedgerNeverRaises`, `CaptureIsComplete`; with `MaxTurns = 2` `TurnsAreStoredOnce` |
| `SessionArtifacts` | `SessionArtifacts` | `RowsAreCountedOnce`, `FailedCanBeRetried` |
| `ExecutionAgent` | `ExecutionAgent` | `FailureIsTheTests`, `SuccessIsAllSix`, `StartsAreSingle` |
| `Analysis` | `Analysis` | `LastingDegradationIsReported`, `BaselinesAreHealthy`, `OnsetsAreIndices` |
| `ReportRevision` | `ReportRevision` | `ComparisonBackupsStand`, `RevisedSectionsAreShown`, `NoSectionIsLost` |
| `Conversation` | `Conversation` | `HistoryIsFull`, `MessagesAreReplaced`, `ThreadsAreFoundOrMade`, `MintsAreDistinct`, `KnownRunsAreReused`, `RepliesAreStoredOnce` |
| `JmxEditor` | `JmxEditor` | `IdsAreReliable`, `BackupsAreKeptPerFile` |

**Bounds.** `MaxTurns` (answers of one task), `MaxStops` (stops and crashes),
`Capacity` (64 in the code), `MaxPrompts`, and the sets of tasks, clients,
subscribers, humans, turns and delegated tasks. Rows of different tasks do not
touch, so one task is enough for the row's properties; two clients and two
answers give a duplicate answer, and an answer while an earlier execution is
still notifying. A capacity of 1 makes the queue drop on the second event. Two
turns and two delegated tasks suffice for one turn to overwrite, drain and
clear what the other left; a chain of delegation needs both tasks.
An agent gets one round more than its repeat limit, so that a repetition crosses a
round; two calls a reply let a limit strike between them, and the sizes let
pressure rise before and after the first result. One preserved result is fewer
than the calls of a reply, so that results are compacted unread too. Two turns with three texts give
two requests that overlap and one of them resumed; a history limit and a window of
2 are reached by the third message, while two known runs still make a choice. Two
sessions give a first append that truncates the CSV and one that does not, and
a stop may fall at any step. Three tasks give a start that is repeated, and an
extraction before and after the run's end; limits of three failures are the
code's own. Six buckets hold the warm-up, a sustained onset, an outlier and what
comes after; ten hold two spells. A run of seven labels that all degrade exceeds the
five a report has, and a label without requests in the first bucket has positions
that are not the test's. Two sections tell an enabled one from a disabled
one, and the second version and edition bring a revision of something revised.
Three changes and one backup kept prune twice; of two scripts one has a name that
begins the other's. A call cut between the copy and a removal leaves one backup too many,
which the next change's pruning removes with its own; with a single stop each step of
a change is the one at which it ends.
Deadlock is not checked: clients and humans owe nothing, and finished instances
stop.

**Fairness.** The event loop runs every ready coroutine: weak fairness of
`Run(t, k)`, of the scheduling by a request that wrote its row, `Serve(s)` (a connected reader reads its stream),
`Wait(t)` and `Deadline(t)` (time passes), `Drain(t)` (a turn that neither ends
nor breaks off goes on emitting chunks or rounds) and `Call(c)` (tool calls
return). That `Run` leaves the agent's step assumes that an agent returns or raises;
`RunsEnd` of `AgentRun` shows it, under weak fairness of `Step` (the LLM and the
tools answer or time out, the gate has its deadline) and of `ChildEnds`, but for
the streaming wait for a delegated task that asks its user
(`task_executor.py:731`), which the property names. `ExecutionAgent` assumes weak
fairness of `Work`: a tool call returns or raises, a sleep ends.
Nothing is assumed of clients, humans, delegations or the operator.

## 4. The proofs

Each theorem is about its module's specification without fairness, which is
implied by the one the runs use, and holds for every value of the constants that
meets the module's assumption. Every one rests on an inductive invariant: the
property alone mostly is none, and what had to be added says why the code is
right.

| Module | Theorem | Property |
|---|---|---|
| `TaskProofs` | `TypeCorrect` | `TypeOK` |
| | `OneOwner`, `AskedHasNoOwner` | `OwnerIsLatest`, `AskedIsUnowned` |
| | `ResultsAreCurrent`, `PromptsAreOpen`, `RowsAreStamped` | `ResultSeesEveryTurn`, `PromptIsOpen`, `StampsFollowStatus` |
| | `NoticesTellTheRow`, `OutcomesArePosted` | `NoticesAreTrue`, `OutcomeIsPosted` |
| | `TableImplementsContract` | `ImplementsContract`: the refinement of `TaskContract` |
| | `StreamsEndTruly` | `EndedStreamsAreTerminal` |
| | `StreamTypeCorrect` | `StreamTypeOK` |
| `HitlGateProofs` | `TypeCorrect`, `OnlyApprovedRuns`, `DecidedOnce` | `TypeOK`, `ActedOnApproval`, `AcknowledgedStands` |
| `DelegationProofs` | `TypeCorrect`, `QueueIsExact`, `FamiliesShareConversation` | `TypeOK`, `PendingIsExact`, `ParentsShareConversation` |
| `AgentRunProofs` | `CallsHaveResults`, `ReadBeforeCompacted` | `CallsAreAnswered`, `SeenBeforeCompacted` |
| | `RepeatsStayBounded`, `DelegatedAreStarted` | `RepeatsAreBounded`, `DelegatedIsStarted` |
| `ConversationProofs` | `TypeCorrect`, `PromptsAreRight`, `RunsAreNotGuessed`, `MintsAreSingle` | `TypeOK`, `PromptIsTheConversation`, `NoRunIsGuessed`, `OneMintPerTurn` |
| `ExecutionAgentProofs` | `TypeCorrect`, `OneShotHolds`, `CoreIsExtracted`, `ReportsAreFiled` | `TypeOK`, `OneShot`, `CoreIsThere`, `ReportsAreThere` |
| `SessionArtifactsProofs` | `TypeCorrect`, `NothingIsLost` | `TypeOK`, `NothingIncludedIsLost` |
| | `KeepsContract` | `ImplementsContract`: the refinement of `ArtifactContract` |
| `SuiteProofs` | `RevisionTypeCorrect`, `MetadataAreTrue`, `BackupsAreOriginals` | `TypeOK`, `MetadataTellTheReport`, `BackupsStand` of `ReportRevision` |
| | `EditorTypeCorrect`, `BackupsAreHistory`, `IdsAreKept` | `EditorTypeOK`, `BackupsAreTheHistory`, `ChangesKeepIds` |
| | `IdsAreUnique` | `OneFound`: an id finds at most one element |
| | `OnsetsAreFirst`, `ReportsAreConsistent` | `OnsetsAreEarliest`, `ReportsAgree` |

**The task table.** The invariant is `TypeOK /\ Ownership /\ Contents`.
`OwnerIsLatest` alone is not inductive: that the next answer finds no earlier
owner needs `AskedIsUnowned`; that needs that executions exist only for accepted
turns (`ExecsFollowTurns`), and that one past `mark_running` cannot find its row
pending (`BegunRows`). `ResultSeesEveryTurn` needs `TurnsRead`, the snapshot
of an owner is that of the last answer; `NoticesAreTrue` needs `FinalRead`
and the lemma that a closed row is never changed by any writer.
`OutcomeIsPosted` needs that nobody but the execution of the last answer writes
an outcome (`OutcomeIsOwn`), and that what it posts, which it reads again from
the row, is that outcome (`OutcomeIsReread`). The refinement
then takes one step per action: a writer of `TaskStore` moves the row as a
`TaskContract` action does or leaves it, and every other action stutters.

**Streams.** A stream ends on an event, which is a claim about a row made some
steps earlier. So every event in a queue is true of its row (`Informed`): an
execution announces a closing only when its row is closed (`Announced`), and the
invariants of the table, which hold in `TaskStream` too, keep a closed row closed.

**Gates.** `WaitsOnRow`, `ReportsRow` and `ClicksOnRow` are added; they rest on one
lemma: the table of prompts only grows and a decided row never changes.

**Delegation.** The list is exact because a task is queued once in its life and a
drain takes all of it (`Accounted`). Families agree because the identity that
every turn overwrites names a task only together with that task's conversation,
and in the A2A server names nobody (`OneIdentity`), and because a parent exists
before its children (`ParentsExist`).

**An agent's run.** While a round's calls are handled the conversation is not in
order: `Ordered` says that only the calls in the queue lack results. `Read` says
which results the LLM has not read: those of the reply in hand, and those
compacted out of a crowded reply. `Handling` says that the queue is the rest of
the last reply's calls, and that the repetitions counted are those of the last
results; the lemmas on a row of equal calls do the rest. There is no theorem of
`TypeOK`: that `tokens_freed` is never negative needs that a result is larger than
the reference compaction puts in its place, which the code does not ensure.

**Conversations.** Messages only grow, so a prompt is settled when it is loaded:
until a turn stores its texts the table holds none as late as its own
(`Transcribed`). What a turn knows of its run is settled by its row, which
nobody else writes (`OwnRow`, `NotGuessed`), and a minted run that was written is
found again (`MintedOnce`).

**Execution agent.** Nothing after a critical step of the recipe is reached unless
the step left what it was for (`OnTheWay`); the envelope is made in the step that
ends the task and folders only grow, so it stays true (`Truthful`). `MadeOnce`
says that a task with one attempt has made nothing before it.

**Session artifacts.** There are three copies of the truth: the call's manifest,
the one on disk and the CSV. `Recorded` says that the two manifests agree on who
is completed; `Counted`, that what either counts as included is in the CSV and
was completed, but for the session between its rows and its completion;
`Position`, where a call stands. A stop at any step keeps all three.

**Report revision.** Text and metadata are two files, each with a backup, written
one after the other, and a call may end between any two. `PathsExist` says that
whatever the metadata name is there; `RunKept`, that only the revised text of a
run's report shows versions, and that the metadata are revised only once they have
a backup, so that what is backed up is always the original; `RunTold`, that the
metadata record what the text they name shows. `BackupsStand` is then one
step per action.

**Script editing.** Two invariants. `EditorInv` is about backups. A call may end
with a backup written by half or with more than are to be kept, so the numbers of
a script's backups are not one fixed set: they are the latest ones given without
a gap, at least as many as are to be kept where so many were made (`Numbered`), and while a
change is past its copy, or the script written by half, the latest one is what is
replaced (`History`). It holds of a script whose pattern matches no other's backups
and whose own sort last in every listing they are in (`Lone`): then the highest
number listed is the number given last (`NumbersGoOn`), and what is removed is either
another script's, or the script's own oldest while it has more than are to be
kept (`OldestGoes`). That none is too many when the script is written is
how the pruning ends. `ScriptsInv` is about what is in the files: each
readable script, each backup and the analysis is a tree in which each element has
one number, and a change about to be saved is an addition or a rename of the script
it was made from. The path of an element is recursive. It is computed from the
top down, and a parent's number is lower than its children's; so what holds
of an element where it holds of its parent holds of all (`FromTheTop`), and by this
paths exist, are sequences, differ from one another (`PathsDiffer`), and
are the same in two scripts below everything whose index is the same (`PathsStay`).
What remains is whose index an addition or a rename changes (`Renamed`, `Appended`,
`Prepended`).

**Bottleneck analysis.** The state is a run, its findings and its report, so the
invariant only says that they are those of the run. The work is in the operators.
`Scanned` is the invariant of the scan's loop: it is inside a run of degraded
buckets, outliers aside, and every earlier bucket at which one could have begun is
refuted by a healthy one too soon after it (`NoneBefore`); or it has found a run
long enough, and the same holds. That is the reference definition of the earliest
onset. `IsFound` says of every finding, whichever detector made it, that a real one
persists and carries the load of the bucket it begins in, the test's or its label's.
What the report leaves out is the matter of `LeastLabelIsForemost`: of the labels
that really degraded, one with the least load has no label ahead of it but those of
equal load, so that the cut to five keeps one of these. The threshold of what is
reported is then that of all that degraded; the windows and the headline are
read from the same findings, and capacity risks are none of these.

**Induction.** The library's induction theorems take an operator as a
parameter, which the installed provers cannot instantiate. `SuiteProofs` states
induction over sets instead: a set of naturals has a least element (`LeastNumber`), and
a set that has 0, and i + 1 with each i, has every number up to n (`CountUp`). So what the
recursive functions `Scan` and `Paths` compute is proved too. No module that
is proved about has a `RECURSIVE` operator.

**Assumptions.** `LifecycleAssumption`, `StreamAssumption`, `GateAssumption`,
`DelegationAssumption`, `AgentRunAssumption`, `ConversationAssumption` and
`NSessionsAssumption` say that limits are natural numbers, which sets are parts of
which, and that the value for nobody is not one of somebody.
`NothingAssumption` (in `Conversation` and `SessionArtifacts`) says the same of
`Nothing`, the `None` of the code: no run id and no manifest is it.
`ExecutionAssumption` also says that a run has a session: BlazeMeter starts at
least one load generator, and of none the code would report success.
`RevisionAssumption` bounds a report to at least one edition. `EditorAssumption` says
that names are sequences of their hyphenated parts, that the backups of no two scripts
sort alike, that the generated script is a tree with its elements numbered, and that a
script written by half is none of the others. `AnalysisAssumption` says that every
metric of a run has a number in each of its buckets, that a label's buckets are some
of the test's, in order, and that its load in one is at most the test's there.

**Only model-checked.**

* Liveness (`StreamsEnd`, `BlockingReplies`, `SettlesUnlessLost`, `GatesEnd`,
  `QueuedChildrenStart`, `RunsEnd`, `TasksEnd`): the prover does not handle fairness
  and `ENABLED`.

Every invariant and every action property of the runs is proved, and both refinements.

## 5. Not modelled

Message conversion and card serving (stateless), the LLM and the vendors
(external), sessions and ownership of threads, secrets and bindings, the MCP
client's registry, configuration, the Web UI's own state and its event stream
`/api/events`, titles and archiving of threads, the webhook's retries, SLA
configuration, KPI and correlation analysis, the tables and charts of reports,
the rest of the JMeter server, the Datadog and notification servers, and the deployment files.
`components` in `PROJECT.json` gives each with its reason. Much of the suite is
text in, text out: parsers, table builders and HTTP wrappers with no state that
a property could relate.

## 6. Plan

In order of weight:

1. done: `TaskStore`, `TaskLifecycle`, `TaskContract`, `TaskStream`,
   `HitlGate`, `Delegation`, with the proofs above.
2. done: `AgentRun` (rounds, limits, compaction, the streaming wait),
   `ExecutionAgent`, `SessionArtifacts` with `ArtifactContract`, `Bottleneck`,
   `ReportRevision`, `Conversation`, `JmxEditor`.
3. `WebhookDelivery`: retries, lost answers and ambiguous commits.
4. SLA configuration and the KPI analysis, as operators like `Bottleneck`.
5. Sessions and bindings: ownership, replace-all; the Web UI's event stream, which
   shares the subscription race.
6. Who hears a delegated task that another turn drained (`proxy` in
   `Delegation`), as a property of its own.
7. Proofs: done for the safety of every module; a new module brings its own.
