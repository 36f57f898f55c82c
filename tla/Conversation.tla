---------------------------- MODULE Conversation ----------------------------
(***************************************************************************)
(* One conversation: its thread, the messages stored of it, the tasks it   *)
(* made and the test runs they are about.  A turn is a request of the      *)
(* user: on the Web UI one chat request, on A2A a task, which may ask and  *)
(* be answered.  Turns of a thread may overlap: two tabs, two clients, an  *)
(* impatient user.  Ids of test runs are named by the user, minted from    *)
(* the wall clock, or come from the LLM or a vendor.                       *)
(***************************************************************************)
EXTENDS Integers, Sequences, FiniteSets, SequencesExt, FiniteSetsExt

CONSTANTS
    Surfaces,        \* of {"web_ui", "a2a"}
    Turns,           \* the requests of the user
    RunIds,          \* ids the user, the LLM or a vendor may name
    Requests,        \* what a request may want, each a subset of Intents
    Limit,           \* messages a turn loads: 200
    Window,          \* tasks searched for ids: 50
    MaxTexts,        \* bound on the texts of the conversation
    MaxTasks,        \* bound on the tasks of the thread
    MaxClock,        \* bound on the seconds that pass
    MaxFailures,     \* bound on the reads and writes that fail
    Nothing          \* no id

Intents == {"script", "start", "comparison", "catalog"}

ASSUME ConversationAssumption ==
    /\ Surfaces \subseteq {"web_ui", "a2a"} /\ Requests \subseteq SUBSET Intents
    /\ {Limit, Window, MaxTexts} \subseteq Nat \ {0}
    /\ {MaxTasks, MaxClock, MaxFailures} \subseteq Nat

\* A time is an id.
ASSUME NothingAssumption == Nothing \notin 0 .. MaxClock

VARIABLES
    surface,
    thread,          \* whether agent_threads holds the thread
    messages,        \* conversation_messages, oldest first
    tasks,           \* test_run_id of the thread's agent_tasks, oldest first
    open,            \* the delegated ones that still run
    turn,
    clock,           \* the second of the latest mint
    failures

vars == <<surface, thread, messages, tasks, open, turn, clock, failures>>

\* The n-th text of turn t is Message(t, n); its reply, and what the task
\* executor injects when a task ends, are numbered below.
Message(t, n) == [of |-> t, what |-> n]
Reply == 0
Completion == -1

Unloaded == -1

\* A turn: the row of its task, the texts of its user, the ids they name and
\* what they want; the messages stored when the last of them arrived, sent
\* along by the browser, and loaded; the run it works on, and the ids its
\* thread then knew (recorded where they matter); ids minted for it, and
\* whether one was not written.
Blank == [pc |-> "idle", row |-> 0, texts |-> 0, prose |-> Nothing, wants |-> {},
          arrived |-> 0, carried |-> 0, history |-> Unloaded, run |-> Nothing,
          known |-> {}, minted |-> {}, unwritten |-> FALSE]

Init ==
    /\ surface \in Surfaces
    /\ thread = FALSE /\ messages = <<>> /\ tasks = <<>> /\ open = {}
    /\ clock = 0 /\ failures = 0
    /\ turn = [t \in Turns |-> Blank]

-----------------------------------------------------------------------------
(* The request.                                                            *)

At(t, pc) == turn[t].pc = pc

MayType == MapThenSumSet(LAMBDA t : turn[t].texts, Turns) < MaxTexts

Works == UNCHANGED failures
Fails == failures < MaxFailures /\ failures' = failures + 1

\* What is left of a turn once its request is answered.
Gone(t, pc) == [Blank EXCEPT !.pc = pc, !.texts = turn[t].texts, !.minted = turn[t].minted,
                             !.unwritten = turn[t].unwritten]

\* A task that asks, with the ids it offers.
Asking(t, ids) == [turn[t] EXCEPT !.pc = "asked", !.run = Nothing, !.known = ids,
                                  !.arrived = 0, !.history = Unloaded]

Opened == IF surface = "a2a" THEN "task" ELSE "load"

\* A tab that saw the conversation sends it along; A2A sends one message.
Arrive(t) ==
    /\ At(t, "idle") /\ MayType
    /\ \E id \in RunIds \cup {Nothing}, w \in Requests,
          n \in IF surface = "a2a" THEN {0} ELSE {0, Len(messages)} :
          /\ surface = "web_ui" => "comparison" \notin w
          /\ turn' = [turn EXCEPT ![t].pc = IF thread THEN Opened ELSE "create",
                                  ![t].texts = 1, ![t].prose = id, ![t].wants = w,
                                  ![t].arrived = Len(messages), ![t].carried = n]
    /\ UNCHANGED <<surface, thread, messages, tasks, open, clock, failures>>

\* The insert finds the row of a turn that came between, and fails the request.
CreateThread(t) ==
    /\ At(t, "create")
    /\ turn' = [turn EXCEPT ![t] = IF thread THEN Gone(t, "refused")
                                   ELSE [@ EXCEPT !.pc = Opened]]
    /\ thread' = TRUE
    /\ UNCHANGED <<surface, messages, tasks, open, clock, failures>>

\* The id the message's metadata names goes to the row at once.
CreateTask(t) ==
    /\ At(t, "task") /\ Len(tasks) < MaxTasks
    /\ \E id \in RunIds \cup {Nothing} : tasks' = Append(tasks, id)
    /\ turn' = [turn EXCEPT ![t].pc = "load", ![t].row = Len(tasks')]
    /\ UNCHANGED <<surface, thread, messages, open, clock, failures>>

-----------------------------------------------------------------------------
(* The transcript.                                                         *)

\* ORDER BY created_at ASC LIMIT 200.
Loaded == Min({Limit, Len(messages)})

\* A resumed task stores all its answers, an earlier one again.
NewTexts(t) == IF turn[t].texts = 1 THEN <<Message(t, 1)>>
               ELSE [i \in 1 .. turn[t].texts - 1 |-> Message(t, i + 1)]

\* Mutated form: the question is stored first.
StoreThenLoad(t) ==
    /\ At(t, "load") /\ Works
    /\ messages' = messages \o NewTexts(t)
    /\ turn' = [turn EXCEPT ![t].pc = "resolve", ![t].history = Min({Limit, Len(messages')})]
    /\ UNCHANGED <<surface, thread, tasks, open, clock>>

\* The Web UI goes on with the browser's messages, a task fails.
Load(t) ==
    /\ At(t, "load")
    /\ \/ Works /\ turn' = [turn EXCEPT ![t].pc = "store", ![t].history = Loaded]
       \/ Fails /\ turn' = [turn EXCEPT ![t] =
                               IF surface = "a2a" THEN Gone(t, "ending")
                               ELSE [@ EXCEPT !.pc = "store", !.history = Unloaded]]
    /\ UNCHANGED <<surface, thread, messages, tasks, open, clock>>

\* A write that fails is logged, and ends the writing.
Store(t) ==
    /\ At(t, "store")
    /\ \/ Works /\ messages' = messages \o NewTexts(t)
       \/ Fails /\ \E n \in 0 .. Len(NewTexts(t)) - 1 :
                      messages' = messages \o SubSeq(NewTexts(t), 1, n)
    /\ turn' = [turn EXCEPT ![t].pc = "resolve"]
    /\ UNCHANGED <<surface, thread, tasks, open, clock>>

\* What the LLM is given.
Prompt(t) ==
    SubSeq(messages, 1, turn[t].history) \o SubSeq(messages, 1, turn[t].carried) \o NewTexts(t)

-----------------------------------------------------------------------------
(* The test run a turn is about.                                           *)

\* resolve_test_run_id_outcome.
Outcome(named, wants) ==
    CASE named # Nothing                                  -> "reuse"
      [] named = Nothing /\ "comparison" \in wants         -> "skip_mint"
      [] named = Nothing /\ "comparison" \notin wants
            /\ "script" \in wants /\ "start" \notin wants  -> "mint"
      [] named = Nothing /\ "comparison" \notin wants
            /\ ("script" \notin wants \/ "start" \in wants)
                                   -> IF "catalog" \in wants THEN "skip_mint" ELSE "reject"

Ids(seq) == ToSet(seq) \ {Nothing}

\* list_known_test_run_ids_for_thread.
Recent == Ids(SubSeq(tasks, Len(tasks) - Min({Window, Len(tasks)}) + 1, Len(tasks)))

\* Mutated form: the first candidate is as good as the only one.
AnyOf(known) == IF known # {} THEN CHOOSE id \in known : TRUE ELSE Nothing

\* Implicit reuse, where the thread knows one id.
SoleOf(known) == IF Cardinality(known) = 1 THEN CHOOSE id \in known : TRUE ELSE Nothing

\* Mutated form: what the row holds is not looked at.
NamedInProse(t) == turn[t].prose

\* The id on the task's row, else the one the texts name.
Named(t) == IF turn[t].row # 0 /\ tasks[turn[t].row] # Nothing THEN tasks[turn[t].row]
            ELSE turn[t].prose

\* mint_test_run_id: the second of the wall clock is the id.
Mint == clock' \in clock .. MaxClock

\* The turn works on the id, which its task's row holds or, unwritten, does not.
Minted(t, written) ==
    turn' = [turn EXCEPT ![t].pc = "run", ![t].run = clock',
                         ![t].minted = @ \cup {clock'}, ![t].unwritten = @ \/ ~written]

\* The prefetch of a chat turn may fail, and then knows no id.
ResolveWeb(t) ==
    /\ At(t, "resolve") /\ surface = "web_ui"
    /\ LET outcome == Outcome(Named(t), turn[t].wants)
           to(id) == turn' = [turn EXCEPT ![t].pc = "run", ![t].run = id,
                                          ![t].known = Ids(tasks)]
       IN  \/ outcome = "reuse" /\ Works /\ to(Named(t)) /\ UNCHANGED clock
           \/ outcome = "skip_mint" /\ Works /\ to(Nothing) /\ UNCHANGED clock
           \/ outcome = "mint" /\ Works /\ Mint /\ Minted(t, TRUE)
           \/ /\ outcome = "reject" /\ UNCHANGED clock
              /\ \/ Works /\ to(SoleOf(Recent))
                 \/ Fails /\ to(Nothing)
    /\ UNCHANGED <<surface, thread, messages, tasks, open>>

\* A task whose run is not known asks for it, unless it is to start one.
\* set_test_run_id of its row may fail, and the turn goes on.
ResolveA2A(t) ==
    /\ At(t, "resolve") /\ surface = "a2a"
    /\ LET outcome == Outcome(Named(t), turn[t].wants)
           to(id) == turn' = [turn EXCEPT ![t].pc = "run", ![t].run = id]
       IN  \/ /\ outcome = "mint" /\ Mint
              /\ \/ Works /\ Minted(t, TRUE) /\ tasks' = [tasks EXCEPT ![turn[t].row] = clock']
                 \/ Fails /\ Minted(t, FALSE) /\ UNCHANGED tasks
           \/ /\ Works /\ UNCHANGED <<tasks, clock>>
              /\ \/ outcome = "reuse" /\ to(Named(t))
                 \/ outcome = "skip_mint" /\ to(Nothing)
                 \/ outcome = "reject" /\ "start" \in turn[t].wants /\ to(Nothing)
                 \/ /\ outcome = "reject" /\ "start" \notin turn[t].wants
                    /\ turn' = [turn EXCEPT ![t] = Asking(t, Recent)]
    /\ UNCHANGED <<surface, thread, messages, open>>

-----------------------------------------------------------------------------
(* The agents.                                                             *)

\* Which id a delegated task gets is the matter of Delegation: here, any.
Delegate(t) ==
    /\ At(t, "run") /\ Len(tasks) < MaxTasks
    /\ \E id \in RunIds \cup {turn[t].run, Nothing} : tasks' = Append(tasks, id)
    /\ open' = open \cup {Len(tasks')}
    /\ UNCHANGED <<surface, thread, messages, turn, clock, failures>>

\* A specialist writes back the id a vendor or the report server made.
Adopt(i) == /\ i \in open
            /\ \E id \in RunIds : tasks' = [tasks EXCEPT ![i] = id]
            /\ UNCHANGED <<surface, thread, messages, open, turn, clock, failures>>

\* The message of a write that fails is lost.
Say(m) == \/ Works /\ messages' = Append(messages, m)
          \/ Fails /\ UNCHANGED messages

Finish(i) == /\ i \in open
             /\ open' = open \ {i}
             /\ Say(Message(Nothing, Completion))
             /\ UNCHANGED <<surface, thread, tasks, turn, clock>>

\* The turn replies, unless it fails, says nothing or its client leaves; a
\* task may end by asking.
Answer(t) ==
    /\ At(t, "run")
    /\ \/ Say(Message(t, Reply))
       \/ Works /\ UNCHANGED messages
    /\ \/ turn' = [turn EXCEPT ![t] = Gone(t, IF surface = "a2a" THEN "ending" ELSE "done")]
       \/ surface = "a2a" /\ turn' = [turn EXCEPT ![t] = Asking(t, {})]
    /\ UNCHANGED <<surface, thread, tasks, open, clock>>

\* The end of the task: _inject_completion_message.
Settle(t) == /\ At(t, "ending")
             /\ Say(Message(t, Completion))
             /\ turn' = [turn EXCEPT ![t].pc = "done"]
             /\ UNCHANGED <<surface, thread, tasks, open, clock>>

\* The user answers.  Of two ids in the texts the one with a label is taken.
Resume(t) ==
    /\ At(t, "asked") /\ MayType
    /\ \E id \in RunIds \cup {Nothing}, w \in Requests :
          /\ "comparison" \notin w
          /\ \E named \in IF id = Nothing THEN {turn[t].prose}
                          ELSE {id, turn[t].prose} \ {Nothing} :
                turn' = [turn EXCEPT ![t].pc = "load", ![t].texts = @ + 1, ![t].known = {},
                                     ![t].prose = named, ![t].wants = @ \cup w,
                                     ![t].arrived = Len(messages)]
    /\ UNCHANGED <<surface, thread, messages, tasks, open, clock, failures>>

Next ==
    \/ \E t \in Turns : \/ Arrive(t) \/ CreateThread(t) \/ CreateTask(t)
                        \/ Load(t) \/ Store(t) \/ ResolveWeb(t) \/ ResolveA2A(t)
                        \/ Delegate(t) \/ Answer(t) \/ Settle(t) \/ Resume(t)
    \/ \E i \in open : Adopt(i) \/ Finish(i)

Spec == Init /\ [][Next]_vars

-----------------------------------------------------------------------------
(* Properties.                                                             *)

Occurs(m, seq) == Cardinality({i \in DOMAIN seq : seq[i] = m})

(* However turns overlap, fail to load or to store, or are resumed, the    *)
(* LLM is given what the user just said, once and last, after all that was *)
(* stored when he said it, as far as the limit goes.                       *)
PromptIsTheConversation ==
    \A t \in Turns :
        At(t, "run") =>
            /\ Last(Prompt(t)) = Message(t, turn[t].texts)
            /\ Occurs(Last(Prompt(t)), Prompt(t)) = 1
            /\ turn[t].history # Unloaded =>
                   turn[t].history >= Min({Limit, turn[t].arrived})

(* A turn that works on a run its user did not name, and that was not      *)
(* minted for it, finds no other run in its conversation, as far as the    *)
(* window goes: which of several is meant is never guessed.                *)
NoRunIsGuessed ==
    \A t \in Turns :
        At(t, "run") /\ turn[t].run \notin turn[t].minted \cup {turn[t].prose, Nothing} =>
            \/ turn[t].row # 0 /\ tasks[turn[t].row] = turn[t].run
            \/ turn[t].known = {turn[t].run}
            \/ Len(tasks) > Window

(* A task is given one new run, however often it asks and is resumed,      *)
(* unless the first one could not be written.                              *)
OneMintPerTurn ==
    \A t \in Turns : turn[t].unwritten \/ Cardinality(turn[t].minted) <= 1

-----------------------------------------------------------------------------
(* What the documents say and the code does not keep.                      *)

(* docs/changelogs/CHANGELOG-2026-06.md:162: on thread resumption the      *)
(* orchestrator loads the full conversation history.                       *)
HistoryIsFull ==
    \A t \in Turns : At(t, "run") /\ turn[t].history # Unloaded =>
                        turn[t].history >= turn[t].arrived

(* agui_server.py:260-262: the stored history replaces the messages the    *)
(* browser sent.                                                           *)
MessagesAreReplaced ==
    \A t \in Turns : At(t, "run") /\ surface = "web_ui" /\ turn[t].history # Unloaded =>
                        \A m \in ToSet(Prompt(t)) : Occurs(m, Prompt(t)) = 1

(* sql/008_create_agent_threads.sql:59-62: the label is unique so that     *)
(* lookup-or-create is idempotent.                                         *)
ThreadsAreFoundOrMade == \A t \in Turns : ~At(t, "refused")

(* core/test_run_id.py:3-4: a request that creates a script gets a unique  *)
(* id.                                                                     *)
MintsAreDistinct ==
    \A s, t \in Turns : s # t => turn[s].minted \cap turn[t].minted = {}

(* services/helpers/test_run_id_resolver.py:12-13: a minted id is written  *)
(* to the row so that later turns on the same thread reuse it.             *)
KnownRunsAreReused ==
    \A t \in Turns : At(t, "asked") /\ turn[t].run = Nothing => Cardinality(turn[t].known) # 1

(* services/task_executor.py:132: the completion message persists what a   *)
(* specialist did; the orchestrator's reply is stored already.             *)
RepliesAreStoredOnce ==
    \A i, j \in DOMAIN messages :
        messages[i].what = Reply /\ messages[j].what = Completion =>
            messages[i].of # messages[j].of
=============================================================================
