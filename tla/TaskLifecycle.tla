---------------------------- MODULE TaskLifecycle ----------------------------
(***************************************************************************)
(* The life of a task of the A2A server: the requests that create, answer  *)
(* and cancel it (a2a/server/v1_rest.py, v1_jsonrpc.py, helpers/resume.py) *)
(* and the background executions of services/task_executor.py that run it. *)
(*                                                                         *)
(* A task has one execution per user turn: execution 0 is scheduled by the *)
(* request that creates the row, execution k by the k-th accepted answer   *)
(* to a question.  An execution is a coroutine: every statement sent to    *)
(* the database is atomic, and anything may happen between two of them, so *)
(* each is a step.  pc[t][k] is where execution k of task t stands.        *)
(*                                                                         *)
(* The process may be stopped (running coroutines receive CancelledError)  *)
(* or may crash (they vanish); the rows survive, nothing else does.        *)
(***************************************************************************)
EXTENDS TaskStore, Sequences, FiniteSets

CONSTANTS Tasks,       \* ids of the tasks the clients may submit
          Clients,     \* clients that may answer a question
          Nobody,      \* what a client answers while it answers nothing
          Hooked,      \* tasks submitted with subscriber_endpoints
          MaxTurns,    \* bound: answers accepted by one task
          MaxStops     \* bound: stops and crashes of the process

ASSUME LifecycleAssumption == /\ Hooked \subseteq Tasks
                              /\ Nobody \notin Tasks
                              /\ MaxTurns \in Nat
                              /\ MaxStops \in Nat

VARIABLES rows,       \* the agent_tasks table
          pc,         \* pc[t][k]: where execution k of task t stands
          turns,      \* turns[t][k]: answers execution k read with its row
          final,      \* final[t][k]: status execution k re-read at its end
          log,        \* log[t]: statuses broadcast for t, in order
          posts,      \* posts[t]: webhook payloads sent, by execution and status
          notes,      \* notes[t]: completion messages put in the conversation
          answering,  \* answering[c]: task whose question client c is answering
          up,         \* whether the process serves requests
          stops       \* stops and crashes so far

vars == <<rows, pc, turns, final, log, posts, notes, answering, up, stops>>

Execs == 0..MaxTurns

\* The coroutine inside the try block of execute_task.
TryPhases == {"loaded", "started", "gate", "refused", "sayRefused",
              "dispatch", "succeeded", "sayCompleted"}

\* The coroutine inside one of its except handlers.
HandlerPhases == {"asking", "sayAsk", "failing", "sayFailed"}

AbortPhases == {"aborting", "sayAborted"}

\* After the except handlers: reload the row, notify.
TailPhases == {"reload", "deliver", "inject"}

EndPhases == {"idle", "done", "aborted", "lost"}

Phases == {"handoff", "scheduled"} \cup TryPhases \cup HandlerPhases
            \cup AbortPhases \cup TailPhases \cup EndPhases

Live(t, k) == pc[t][k] \notin EndPhases

\* An execution owns its task until it has made its last write to the row.
\* From the request's write of the row on: the request owes the scheduling.
Owning == {"handoff", "scheduled", "asking", "failing", "aborting"} \cup TryPhases

Owner(t, k) == pc[t][k] \in Owning

Payloads == [by : Execs, status : Statuses]

Init == /\ rows = [t \in Tasks |-> AbsentRow]
        /\ pc = [t \in Tasks |-> [k \in Execs |-> "idle"]]
        /\ turns = [t \in Tasks |-> [k \in Execs |-> 0]]
        /\ final = [t \in Tasks |-> [k \in Execs |-> "absent"]]
        /\ log = [t \in Tasks |-> <<>>]
        /\ posts = [t \in Tasks |-> {}]
        /\ notes = [t \in Tasks |-> {}]
        /\ answering = [c \in Clients |-> Nobody]
        /\ up = TRUE
        /\ stops = 0

-----------------------------------------------------------------------------
(* Requests.                                                               *)

requestVars == <<turns, final, log, posts, notes, up, stops>>

\* The row is inserted; the handler still has to schedule its execution.
Submit(t) ==
    /\ up
    /\ rows[t].status = "absent"
    /\ rows' = [rows EXCEPT ![t] = CreateTask]
    /\ pc' = [pc EXCEPT ![t][0] = "handoff"]
    /\ UNCHANGED <<answering, requestVars>>

\* asyncio.create_task(execute_task(...)), from the handler that wrote the row.
Schedule(t, k) ==
    /\ pc[t][k] = "handoff"
    /\ pc' = [pc EXCEPT ![t][k] = "scheduled"]
    /\ UNCHANGED <<rows, answering, requestVars>>

\* An error nothing catches: in the request, between its write of the row and
\* the scheduling (the re-read after append_resume_message raises, or a
\* delegated child is never drained), or in an await of the execution that is
\* outside the try block.  Nobody will execute the row.
Unguarded == {"handoff", "scheduled", "asking", "failing", "aborting", "reload", "deliver"}

Break(t, k) ==
    /\ pc[t][k] \in Unguarded
    /\ pc' = [pc EXCEPT ![t][k] = "lost"]
    /\ UNCHANGED <<rows, answering, requestVars>>

\* try_handle_resume reads the row and finds it waiting for an answer.
CheckAnswer(c, t) ==
    /\ up
    /\ answering[c] = Nobody
    /\ rows[t].status = "input_required"
    /\ rows[t].resumes < MaxTurns
    /\ answering' = [answering EXCEPT ![c] = t]
    /\ UNCHANGED <<rows, pc, requestVars>>

\* ... and writes its answer: the row may have moved on since it was read.
WriteAnswer(c) ==
    /\ answering[c] # Nobody
    /\ LET t == answering[c]
           new == AppendResumeMessage(rows[t])
       IN  /\ rows[t].resumes < MaxTurns
           /\ rows' = [rows EXCEPT ![t] = new]
           /\ pc' = IF new = rows[t] THEN pc
                    ELSE [pc EXCEPT ![t][new.resumes] = "handoff"]
    /\ answering' = [answering EXCEPT ![c] = Nobody]
    /\ UNCHANGED requestVars

\* A client disconnects, or its request fails, before its answer is written.
DropAnswer(c) ==
    /\ answering[c] # Nobody
    /\ answering' = [answering EXCEPT ![c] = Nobody]
    /\ UNCHANGED <<rows, pc, requestVars>>

\* CancelTask writes the row and nothing else: no event, no signal to the
\* execution.
CancelTask(t) ==
    /\ up
    /\ Open(rows[t])
    /\ rows' = [rows EXCEPT ![t] = MarkCancelled(@)]
    /\ UNCHANGED <<pc, answering, requestVars>>

-----------------------------------------------------------------------------
(* execute_task.                                                           *)

execVars == <<rows, turns, final, log, posts, notes>>

othersVars == <<answering, up, stops>>

Goto(t, k, from, to) == /\ pc[t][k] = from
                        /\ pc' = [pc EXCEPT ![t][k] = to]
                        /\ UNCHANGED othersVars

\* A step that only sends one write to the row.
Write(t, row) == /\ rows' = [rows EXCEPT ![t] = row]
                 /\ UNCHANGED <<turns, final, log, posts, notes>>

\* A step that only broadcasts an event of the task.
Say(t, status) == /\ log' = [log EXCEPT ![t] = Append(@, status)]
                  /\ UNCHANGED <<rows, turns, final, posts, notes>>

\* Mutated form: the execution works from the payload the task was submitted
\* with.
LoadForgetsAnswers(t, k) ==
    /\ Goto(t, k, "scheduled", IF IsTerminal(rows[t]) THEN "done" ELSE "loaded")
    /\ UNCHANGED execVars

\* Mutated form: the answers are counted one too many.
LoadCountsAhead(t, k) ==
    /\ Goto(t, k, "scheduled", IF IsTerminal(rows[t]) THEN "done" ELSE "loaded")
    /\ turns' = [turns EXCEPT ![t][k] = rows[t].resumes + 1]
    /\ UNCHANGED <<rows, final, log, posts, notes>>

\* Mutated form: only a pending row is executed.
LoadOnlyPending(t, k) ==
    /\ Goto(t, k, "scheduled", IF rows[t].status # "pending" THEN "done" ELSE "loaded")
    /\ turns' = [turns EXCEPT ![t][k] = rows[t].resumes]
    /\ UNCHANGED <<rows, final, log, posts, notes>>

\* The snapshot every later step of the execution works from.
Load(t, k) ==
    /\ Goto(t, k, "scheduled", IF IsTerminal(rows[t]) THEN "done" ELSE "loaded")
    /\ turns' = [turns EXCEPT ![t][k] = rows[t].resumes]
    /\ UNCHANGED <<rows, final, log, posts, notes>>

Start(t, k) == /\ Goto(t, k, "loaded", "started")
               /\ Write(t, MarkRunning(rows[t]))

SayStarted(t, k) == Goto(t, k, "started", "gate") /\ Say(t, "running")

\* enforce_at_task_start: no rule applies or a human approved, or a human
\* refused or the approval timed out.
PassGate(t, k) == Goto(t, k, "gate", "dispatch") /\ UNCHANGED execVars

RefuseGate(t, k) == Goto(t, k, "gate", "refused") /\ UNCHANGED execVars

CancelRefused(t, k) == /\ Goto(t, k, "refused", "sayRefused")
                       /\ Write(t, MarkCancelled(rows[t]))

\* The refused execution returns here: no reload, no webhook, no message.
SayRefused(t, k) == Goto(t, k, "sayRefused", "done") /\ Say(t, "cancelled")

\* The agent returns a result, asks its user, or anything awaited in the try
\* block raises.
Succeed(t, k) == Goto(t, k, "dispatch", "succeeded") /\ UNCHANGED execVars

Ask(t, k) == Goto(t, k, "dispatch", "asking") /\ UNCHANGED execVars

Raise(t, k) ==
    /\ pc[t][k] \in TryPhases
    /\ pc' = [pc EXCEPT ![t][k] = "failing"]
    /\ UNCHANGED <<execVars, othersVars>>

WriteCompleted(t, k) == /\ Goto(t, k, "succeeded", "sayCompleted")
                        /\ Write(t, MarkCompleted(rows[t], turns[t][k]))

SayCompleted(t, k) == Goto(t, k, "sayCompleted", "reload") /\ Say(t, "completed")

WriteAsked(t, k) == /\ Goto(t, k, "asking", "sayAsk")
                    /\ Write(t, MarkInputRequired(rows[t], turns[t][k]))

SayAsked(t, k) == Goto(t, k, "sayAsk", "reload") /\ Say(t, "input_required")

WriteFailed(t, k) == /\ Goto(t, k, "failing", "sayFailed")
                     /\ Write(t, MarkFailed(rows[t]))

SayFailed(t, k) == Goto(t, k, "sayFailed", "reload") /\ Say(t, "failed")

\* Mutated form: the tail trusts the outcome it wrote instead of the row.
ReloadOwnOutcome(t, k) ==
    /\ Goto(t, k, "reload", "deliver")
    /\ final' = [final EXCEPT ![t][k] = log[t][Len(log[t])]]
    /\ UNCHANGED <<rows, turns, log, posts, notes>>

\* final = await task_store.get_task(...): the row may have moved on since.
Reload(t, k) ==
    /\ Goto(t, k, "reload", "deliver")
    /\ final' = [final EXCEPT ![t][k] = rows[t].status]
    /\ UNCHANGED <<rows, turns, log, posts, notes>>

\* Mutated form: failures are not worth a webhook.
DeliverSuccessOnly(t, k) ==
    /\ Goto(t, k, "deliver", "inject")
    /\ posts' = IF t \in Hooked /\ final[t][k] # "failed"
                THEN [posts EXCEPT ![t] = @ \cup {[by |-> k, status |-> final[t][k]]}]
                ELSE posts
    /\ UNCHANGED <<rows, turns, final, log, notes>>

\* _deliver_webhooks posts whatever status was re-read, terminal or not.
Deliver(t, k) ==
    /\ Goto(t, k, "deliver", "inject")
    /\ posts' = IF t \in Hooked
                THEN [posts EXCEPT ![t] = @ \cup {[by |-> k, status |-> final[t][k]]}]
                ELSE posts
    /\ UNCHANGED <<rows, turns, final, log, notes>>

\* _inject_completion_message: only of a terminal row; its failure is swallowed.
Inject(t, k) ==
    /\ Goto(t, k, "inject", "done")
    /\ \/ /\ final[t][k] \in TerminalStatuses
          /\ notes' = [notes EXCEPT ![t] = @ \cup {[by |-> k, status |-> final[t][k]]}]
       \/ UNCHANGED notes
    /\ UNCHANGED <<rows, turns, final, log, posts>>

\* except asyncio.CancelledError: the row is closed, the event sent, and the
\* exception re-raised past the tail.
CancelAborted(t, k) == /\ Goto(t, k, "aborting", "sayAborted")
                       /\ Write(t, MarkCancelled(rows[t]))

SayAborted(t, k) == Goto(t, k, "sayAborted", "aborted") /\ Say(t, "cancelled")

-----------------------------------------------------------------------------
(* The process.                                                            *)

Down(after) == /\ stops < MaxStops
               /\ pc' = [t \in Tasks |-> [k \in Execs |-> after[pc[t][k]]]]
               /\ answering' = [c \in Clients |-> Nobody]
               /\ up' = FALSE
               /\ stops' = stops + 1
               /\ UNCHANGED execVars

\* The event loop cancels every coroutine.  One inside the try block goes on
\* to close its row; one that has not begun, or is past the try block, ends.
Cancelled == [p \in Phases |-> IF p \in EndPhases THEN p
                               ELSE IF p \in TryPhases THEN "aborting"
                               ELSE "lost"]

Killed == [p \in Phases |-> IF p \in EndPhases THEN p ELSE "lost"]

Stop == up /\ Down(Cancelled)

\* A crash may also cut a stop short.
Crash == /\ up \/ \E t \in Tasks, k \in Execs : Live(t, k)
         /\ Down(Killed)

\* The new process schedules nothing: no start-up code looks for rows that
\* were left pending or running.
Restart == /\ ~up
           /\ \A t \in Tasks, k \in Execs : ~Live(t, k)
           /\ up' = TRUE
           /\ UNCHANGED <<execVars, pc, answering, stops>>

-----------------------------------------------------------------------------

Execute(t, k) ==
    \/ Load(t, k) \/ Start(t, k) \/ SayStarted(t, k)
    \/ PassGate(t, k) \/ RefuseGate(t, k)
    \/ CancelRefused(t, k) \/ SayRefused(t, k)
    \/ Succeed(t, k) \/ Ask(t, k) \/ Raise(t, k)
    \/ WriteCompleted(t, k) \/ SayCompleted(t, k)
    \/ WriteAsked(t, k) \/ SayAsked(t, k)
    \/ WriteFailed(t, k) \/ SayFailed(t, k)
    \/ Reload(t, k) \/ Deliver(t, k) \/ Inject(t, k)
    \/ CancelAborted(t, k) \/ SayAborted(t, k)

Next ==
    \/ \E t \in Tasks : Submit(t) \/ CancelTask(t)
    \/ \E t \in Tasks, k \in Execs : Schedule(t, k) \/ Break(t, k) \/ Execute(t, k)
    \/ \E c \in Clients, t \in Tasks : CheckAnswer(c, t)
    \/ \E c \in Clients : WriteAnswer(c) \/ DropAnswer(c)
    \/ Stop \/ Crash \/ Restart

Spec == Init /\ [][Next]_vars

-----------------------------------------------------------------------------
(* Properties.                                                             *)

TypeOK ==
    /\ rows \in [Tasks -> Rows(MaxTurns)]
    /\ pc \in [Tasks -> [Execs -> Phases]]
    /\ turns \in [Tasks -> [Execs -> Execs]]
    /\ final \in [Tasks -> [Execs -> Statuses \cup {"absent"}]]
    /\ log \in [Tasks -> Seq(Statuses)]
    /\ posts \in [Tasks -> SUBSET [by : Execs, status : Statuses \cup {"absent"}]]
    /\ notes \in [Tasks -> SUBSET Payloads]
    /\ answering \in [Clients -> Tasks \cup {Nobody}]
    /\ up \in BOOLEAN
    /\ stops \in 0..MaxStops

(* At most one execution may still write a task's row, and it is the one   *)
(* of the latest accepted answer: no duplicate answer, cancellation or     *)
(* late step of an earlier execution ever puts two agents to work on one   *)
(* task.                                                                   *)
OwnerIsLatest ==
    \A t \in Tasks, k \in Execs : Owner(t, k) => k = rows[t].resumes

(* A row that waits for its user has no execution left that could write    *)
(* it: whatever is still running is only notifying.                        *)
AskedIsUnowned ==
    \A t \in Tasks, k \in Execs : rows[t].status = "input_required" => ~Owner(t, k)

(* The result column never answers a shorter conversation than the row     *)
(* holds: a result or question was computed from every accepted answer.    *)
ResultSeesEveryTurn ==
    \A t \in Tasks : rows[t].result.kind # "null" => rows[t].result.turns = rows[t].resumes

(* A question is only found on a row that waits for its answer, or on one  *)
(* that was cancelled while it waited: it never survives its answer.       *)
PromptIsOpen ==
    \A t \in Tasks : rows[t].result.kind = "prompt"
                        => rows[t].status \in {"input_required", "cancelled"}

(* completed_at is stamped exactly on the closed rows, and a row without   *)
(* started_at was never answered nor completed.                            *)
StampsFollowStatus ==
    \A t \in Tasks : /\ rows[t].finished <=> IsTerminal(rows[t])
                     /\ ~rows[t].started =>
                          /\ rows[t].status \in {"absent", "pending", "failed", "cancelled"}
                          /\ rows[t].resumes = 0

(* A final status told to the outside, by webhook or by a message in the   *)
(* conversation, is the status the row keeps, whichever execution told it. *)
NoticesAreTrue ==
    \A t \in Tasks : \A p \in posts[t] \cup notes[t] :
        p.status \in TerminalStatuses => rows[t].status = p.status

(* What the invariants above rest on: an execution exists only once its    *)
(* turn does, and never for a row that was not inserted;                   *)
ExecsFollowTurns ==
    \A t \in Tasks :
        /\ \A k \in Execs : k > rows[t].resumes => pc[t][k] = "idle"
        /\ rows[t].status = "absent" =>
              /\ rows[t] = AbsentRow
              /\ \A k \in Execs : pc[t][k] = "idle"

(* one past mark_running finds its row neither absent nor pending, and no  *)
(* row has the two statuses nothing writes;                                *)
BegunRows ==
    \A t \in Tasks :
        /\ rows[t].status \notin {"auth_required", "rejected"}
        /\ \A k \in Execs :
              pc[t][k] \in (TryPhases \ {"loaded"}) \cup {"asking"}
                => rows[t].status # "pending"

(* it read every answer accepted so far, being the execution of the last;  *)
TurnsRead ==
    \A t \in Tasks, k \in Execs :
        pc[t][k] \in TryPhases \cup {"asking"} => turns[t][k] = k

(* and the final status it re-read, once terminal, is the row's.           *)
FinalRead ==
    \A t \in Tasks, k \in Execs :
        pc[t][k] \in {"deliver", "inject"} /\ final[t][k] \in TerminalStatuses
          => rows[t].status = final[t][k]

(* The table implements the contract of the A2A surface.                   *)
Contract == INSTANCE TaskContract
            WITH status <- [t \in Tasks |-> rows[t].status],
                 answers <- [t \in Tasks |-> rows[t].resumes]

ImplementsContract == Contract!Spec

(* A submitted or answered task settles: its row closes or asks, unless    *)
(* its execution was lost with the process or between the request's two    *)
(* steps, or the process stopped.                                          *)
Unsettled(t) == rows[t].status \in {"pending", "running"}

LostExec(t) == pc[t][rows[t].resumes] \in {"lost", "aborted"}

SettlesUnlessLost ==
    \A t \in Tasks : Unsettled(t) ~> (~Unsettled(t) \/ LostExec(t))

(* Once the execution of the last answer has notified, the outcome it      *)
(* wrote is posted by it, to every subscriber endpoint.                    *)
OutcomeIsPosted ==
    \A t \in Hooked :
        LET k == rows[t].resumes
        IN  rows[t].status \in {"completed", "failed"} /\ pc[t][k] \in {"inject", "done"}
              => [by |-> k, status |-> rows[t].status] \in posts[t]

(* services/task_executor.py:12-16: when a task reaches a terminal state,  *)
(* every subscriber endpoint receives a POST of the final status payload.  *)
EveryTerminalIsPosted ==
    \A t \in Hooked :
        IsTerminal(rows[t]) ~> (LostExec(t) \/ \E p \in posts[t] : p.status = rows[t].status)

(* services/task_executor.py:7-10: while a task runs, every status change  *)
(* is broadcast to the subscribers.  Here: the closing of a running row is *)
(* followed by an event that says how it closed.                           *)
EveryCloseIsBroadcast ==
    \A t \in Tasks :
        IsTerminal(rows[t]) /\ rows[t].started
          ~> (LostExec(t) \/ \E i \in DOMAIN log[t] : log[t][i] = rows[t].status)

=============================================================================
