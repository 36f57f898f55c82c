------------------------------ MODULE AgentRun ------------------------------
(***************************************************************************)
(* One task in the hands of an LLM agent: the orchestrator, resumed with   *)
(* its user's answers, or a specialist.  Both run the tool loop: ask the   *)
(* LLM, execute the tool calls of its reply, feed the results back, until  *)
(* it answers in text or a limit ends the loop.  The LLM and the tools may *)
(* do anything; what they say is abstracted to the size of the messages.   *)
(***************************************************************************)
EXTENDS Integers, FiniteSets, Sequences, FiniteSetsExt, SequencesExt

CONSTANTS
    Tools,           \* of each kind of agent, "orchestrator" and "specialist",
                     \* the signatures of its tool calls: a tool and its arguments
    Polling,         \* calls of the config's polling_tools
    Navigating,      \* calls of browser_navigate
    Delegating,      \* calls of delegate_to_specialist
    Comparing,       \* calls whose result carries a comparison_id
    MaxToolRounds, MaxRepeats, PollingMaxRepeats, PreserveRecent,
    Pressure,        \* compaction_threshold * context_limit, in tokens
    ResultTokens,    \* size of a tool result
    PromptTokens,    \* sizes the user's message may have
    MaxCalls,        \* bound on the tool calls of one reply
    MaxTurns,        \* bound on the answers of one task
    MaxChildren,     \* bound on the tasks one run delegates
    Streaming        \* whether the request was SendStreamingMessage

\* A negative PreserveRecent would protect all but the oldest results.
ASSUME AgentRunAssumption == {PreserveRecent, MaxRepeats, PollingMaxRepeats} \subseteq Nat

VARIABLES
    agent, pc, exit,
    turn,            \* answers given so far
    transcript,      \* the conversation the thread's store holds
    messages,        \* the conversation the LLM sees
    round, queue,    \* the round, and its tool calls not yet handled
    last, repeats,   \* repetition detection
    freed,           \* the local tokens_freed, or Unbound
    noted, audit,    \* comparison ids in the round's audit, and in the rounds' before
    children,        \* statuses of the tasks delegated by this run
    captured,        \* the envelope's comparison id (its call), or Nothing
    shown            \* results the LLM was shown whole (history variable)

loop == <<messages, round, queue, last, repeats, freed, noted, audit>>
vars == <<agent, pc, exit, turn, transcript, loop, children, captured, shown>>

Nothing == "nothing"
Agents == DOMAIN Tools
Calls == UNION {Tools[a] : a \in Agents}
Unbound == -1
Original == 0        \* the user's first message; n > 0 is the n-th answer
Reply == -1          \* an assistant turn of the transcript

Says(who, tokens) == [role |-> who, tokens |-> tokens, calls |-> <<>>, compacted |-> FALSE]

Init == /\ agent \in Agents
        /\ pc = "idle" /\ exit = Nothing
        /\ turn = 0 /\ transcript = <<>>
        /\ messages = <<>> /\ round = 0 /\ queue = <<>>
        /\ last = Nothing /\ repeats = 0 /\ freed = Unbound
        /\ noted = <<>> /\ audit = <<>>
        /\ children = <<>> /\ captured = Nothing /\ shown = {}

-----------------------------------------------------------------------------
(* Token pressure and compaction.                                          *)

Tokens(ms) == MapThenSumSet(LAMBDA i : ms[i].tokens, DOMAIN ms)

Results(ms) == {i \in DOMAIN ms : ms[i].role = "tool"}

\* Mutated form: one result fewer is protected.
ProtectedButOne(ms) ==
    {i \in Results(ms) : Cardinality({j \in Results(ms) : j >= i}) < PreserveRecent}

\* tool_indices[-preserve_recent:], which for 0 is all of them.
Protected(ms) ==
    {i \in Results(ms) : \/ PreserveRecent = 0
                         \/ Cardinality({j \in Results(ms) : j >= i}) <= PreserveRecent}

LastNavigate(ms) ==
    Max({0} \cup {i \in DOMAIN ms : ToSet(ms[i].calls) \cap Navigating # {}})

Compactable(ms) ==
    {i \in Results(ms) \ Protected(ms) :
        ~ms[i].compacted /\ (LastNavigate(ms) = 0 \/ i < LastNavigate(ms))}

Compact(ms) ==
    [i \in DOMAIN ms |-> IF i \in Compactable(ms)
                         THEN [ms[i] EXCEPT !.tokens = 1, !.compacted = TRUE]
                         ELSE ms[i]]

-----------------------------------------------------------------------------
(* Before the loop.                                                        *)

Fresh(ms) == /\ messages' = ms
             /\ round' = 0 /\ queue' = <<>> /\ last' = Nothing /\ repeats' = 0
             /\ freed' = Unbound /\ noted' = <<>> /\ audit' = <<>>
             /\ shown' = {}

\* The user turns this execution adds to the thread: the first message, or
\* on a resumed task every answer given so far.
NewTurns == IF turn = 0 THEN <<Original>> ELSE [i \in 1 .. turn |-> i]

\* A failing append is logged and the rest of the turns are not stored.
Persist(new) == \E n \in 0 .. Len(new) : transcript' = transcript \o SubSeq(new, 1, n)

\* The history is read before the new turns are stored.
Prompt(size) ==
    [i \in 1 .. Len(transcript) + Len(NewTurns) |->
        LET said == (transcript \o NewTurns)[i]
        IN  IF said = Reply THEN Says("assistant", 1)
            ELSE Says("user", IF said = Original THEN size ELSE 1)]

\* The run id cannot be resolved, or the test spec is malformed: the task
\* asks its user.  Otherwise the loop starts.
Prepare == /\ agent = "orchestrator" /\ pc = "idle"
           /\ Persist(NewTurns)
           /\ \E size \in PromptTokens : Fresh(Prompt(size))
           /\ pc' \in {"round", "asked"}
           /\ UNCHANGED <<agent, exit, turn, children, captured>>

\* A specialist's agent is built; if it needs a browser client that does not
\* open, it goes without.
Build == /\ agent = "specialist" /\ pc = "idle"
         /\ \E size \in PromptTokens : Fresh(<<Says("user", size)>>)
         /\ pc' \in {"round", "failed"}
         /\ UNCHANGED <<agent, exit, turn, transcript, children, captured>>

-----------------------------------------------------------------------------
(* The loop.                                                               *)

Outside == <<agent, turn, transcript, captured>>

Leave(reason) == /\ exit' = reason
                 /\ pc' = "left"

Raise == pc' = "raised" /\ UNCHANGED exit

RoundsLeft == round < MaxToolRounds

\* Token pressure, compaction, and the ledger entry.  The entry reads
\* tokens_freed, which pressure without anything to compact leaves unbound
\* in the first round, and stale later.
Weigh(pressed) ==
    LET old == Compactable(messages)
    IN  /\ pc = "round" /\ RoundsLeft
        /\ pressed = (Tokens(messages) >= Pressure)
        /\ round' = round + 1
        /\ messages' = IF pressed THEN Compact(messages) ELSE messages
        /\ freed' = IF ~pressed THEN 0
                    ELSE IF old = {} THEN freed
                    ELSE Tokens(messages) - Tokens(Compact(messages))
        /\ IF freed' = Unbound THEN Raise ELSE pc' = "llm" /\ UNCHANGED exit
        /\ UNCHANGED <<Outside, queue, last, repeats, noted, audit, children, shown>>

OutOfRounds == /\ pc = "round" /\ ~RoundsLeft
               /\ Leave("max_rounds_reached")
               /\ UNCHANGED <<Outside, loop, children, shown>>

Show == shown' = shown \cup {i \in Results(messages) : ~messages[i].compacted}

\* A text, a dict without tool calls, None, or something else.
Answers == /\ pc = "llm"
           /\ \E reason \in {"text_response", "null_reply", "unexpected_reply_type"} :
                  Leave(reason)
           /\ Show
           /\ UNCHANGED <<Outside, loop, children>>

LLMFails == /\ pc = "llm" /\ Raise
            /\ UNCHANGED <<Outside, loop, children, shown>>

\* Mutated form: each round counts its repetitions anew.
CallsToolsAfresh(calls) ==
    /\ pc = "llm" /\ pc' = "call"
    /\ Show
    /\ messages' = Append(messages, [Says("assistant", 1) EXCEPT !.calls = calls])
    /\ queue' = calls
    /\ noted' = <<>> /\ last' = Nothing /\ repeats' = 0
    /\ UNCHANGED <<Outside, exit, round, freed, audit, children>>

CallsTools(calls) ==
    /\ pc = "llm" /\ pc' = "call"
    /\ Show
    /\ messages' = Append(messages, [Says("assistant", 1) EXCEPT !.calls = calls])
    /\ queue' = calls
    /\ noted' = <<>>
    /\ UNCHANGED <<Outside, exit, round, last, repeats, freed, audit, children>>

Repeats(call) == IF call = last THEN repeats + 1 ELSE 1

Limit(call) == IF call \in Polling THEN PollingMaxRepeats ELSE MaxRepeats

\* The call's arguments are not JSON.
BadArguments == /\ pc = "call" /\ queue # <<>> /\ Raise
                /\ UNCHANGED <<Outside, loop, children, shown>>

\* The round is left where it stands: no audit, no drain.
RepeatLimit == /\ pc = "call" /\ queue # <<>>
               /\ Repeats(Head(queue)) >= Limit(Head(queue))
               /\ Leave("consecutive_repeat_limit")
               /\ UNCHANGED <<Outside, loop, children, shown>>

Respond(call, ok) ==
    /\ pc = "call" /\ queue # <<>> /\ call = Head(queue)
    /\ Repeats(call) < Limit(call)
    /\ last' = call /\ repeats' = Repeats(call)
    /\ queue' = Tail(queue)
    /\ messages' = Append(messages, Says("tool", ResultTokens))
    /\ noted' = IF ok /\ call \in Comparing THEN Append(noted, call) ELSE noted
    /\ UNCHANGED <<Outside, pc, exit, round, freed, audit, shown>>

\* Mutated form: the refused call gets no result.
RejectSilently == /\ agent = "specialist" /\ pc = "call" /\ queue # <<>>
                  /\ Repeats(Head(queue)) < Limit(Head(queue))
                  /\ last' = Head(queue) /\ repeats' = Repeats(Head(queue))
                  /\ queue' = Tail(queue)
                  /\ UNCHANGED <<Outside, pc, exit, messages, round, freed, noted, audit, shown, children>>

\* A human refuses the call of a specialist: the refusal is its result.
Reject == /\ agent = "specialist"
          /\ \E call \in Calls : Respond(call, FALSE)
          /\ UNCHANGED children

\* A tool that fails has its error for result.  A delegated task is queued.
ExecuteTool(call, ok) ==
    /\ Respond(call, ok)
    /\ call \in Delegating => Len(children) < MaxChildren \/ ~ok
    /\ children' = IF ok /\ agent = "orchestrator" /\ call \in Delegating
                   THEN Append(children, "queued") ELSE children

\* drain_pending_executions, and a coroutine for each task it returns.
Drained == [c \in DOMAIN children |->
               IF children[c] = "queued" THEN "running" ELSE children[c]]

EndRound == /\ pc = "call" /\ queue = <<>> /\ pc' = "round"
            /\ audit' = audit \o noted
            /\ children' = Drained
            /\ UNCHANGED <<Outside, exit, messages, round, queue, last, repeats, freed, noted, shown>>

-----------------------------------------------------------------------------
(* After the loop.                                                         *)

Finish == /\ transcript' = IF exit = "null_reply" THEN transcript
                           ELSE Append(transcript, Reply)
          /\ pc' \in {"done", "asked"}

\* Mutated form: only the drains between rounds.
NoFinalDrain == /\ agent = "orchestrator" /\ pc = "left"
                /\ IF Streaming /\ children # <<>>
                   THEN pc' = "waiting" /\ UNCHANGED transcript
                   ELSE Finish
                /\ UNCHANGED <<agent, exit, turn, loop, children, captured, shown>>

\* The last drain, then the reply is stored, unless the stream is held open
\* for the delegated tasks.  A reply that asks its user becomes a question.
FinalDrain == /\ agent = "orchestrator" /\ pc = "left"
              /\ children' = Drained
              /\ IF Streaming /\ children # <<>>
                 THEN pc' = "waiting" /\ UNCHANGED transcript
                 ELSE Finish
              /\ UNCHANGED <<agent, exit, turn, loop, captured, shown>>

WaitForChildren == /\ pc = "waiting"
                   /\ \A c \in DOMAIN children : children[c] = "terminal"
                   /\ Finish
                   /\ UNCHANGED <<agent, exit, turn, loop, children, captured, shown>>

\* The reporting agent's comparison id: the first of the audit.
Capture == IF audit = <<>> THEN Nothing ELSE Head(audit)

Close == /\ agent = "specialist" /\ pc = "left" /\ pc' = "done"
          /\ captured' = Capture
          /\ UNCHANGED <<agent, exit, turn, transcript, loop, children, shown>>

\* An exception of the loop fails the task; the last drain is not reached.
Fail == /\ pc = "raised" /\ pc' = "failed"
        /\ UNCHANGED <<agent, exit, turn, transcript, loop, children, captured, shown>>

\* The user answers, and the task is executed again.
UserAnswers == /\ pc = "asked" /\ turn < MaxTurns
               /\ turn' = turn + 1 /\ pc' = "idle"
               /\ UNCHANGED <<agent, exit, transcript, loop, children, captured, shown>>

Child(c, from, to) ==
    /\ children[c] = from
    /\ children' = [children EXCEPT ![c] = to]
    /\ UNCHANGED <<agent, pc, exit, turn, transcript, loop, captured, shown>>

ChildEnds(c) == Child(c, "running", "terminal")
ChildAsks(c) == Child(c, "running", "asking")
ChildIsAnswered(c) == Child(c, "asking", "running")

-----------------------------------------------------------------------------

Step == \/ Prepare \/ Build
        \/ (\E pressed \in BOOLEAN : Weigh(pressed)) \/ OutOfRounds
        \/ Answers \/ LLMFails
        \/ \E n \in 1 .. MaxCalls : \E calls \in [1 .. n -> Tools[agent]] : CallsTools(calls)
        \/ BadArguments \/ RepeatLimit \/ Reject
        \/ \E call \in Calls, ok \in BOOLEAN : ExecuteTool(call, ok)
        \/ EndRound \/ FinalDrain \/ WaitForChildren \/ Close \/ Fail

Next == \/ Step
        \/ UserAnswers
        \/ \E c \in DOMAIN children : ChildEnds(c) \/ ChildAsks(c) \/ ChildIsAnswered(c)

Spec == Init /\ [][Next]_vars

\* The event loop runs the agent and, when started, the tasks it delegated.
FairSpec == /\ Spec
            /\ WF_vars(Step)
            /\ WF_vars(\E c \in DOMAIN children : ChildEnds(c))

-----------------------------------------------------------------------------
(* Properties.                                                             *)

Pcs == {"idle", "round", "llm", "call", "left", "raised", "waiting", "asked", "done", "failed"}

TypeOK == /\ agent \in Agents /\ pc \in Pcs
          /\ turn \in 0 .. MaxTurns
          /\ transcript \in Seq(Reply .. MaxTurns)
          /\ round \in 0 .. MaxToolRounds
          /\ queue \in Seq(Calls)
          /\ last \in Calls \cup {Nothing} /\ repeats \in Nat /\ freed \in {Unbound} \cup Nat
          /\ Range(noted) \cup Range(audit) \subseteq Comparing
          /\ Range(children) \subseteq {"queued", "running", "asking", "terminal"}
          /\ captured \in Calls \cup {Nothing}

\* The tool call whose result message i is: results follow their reply.
CallOf(i) ==
    LET asked == Max({j \in 1 .. i : messages[j].role = "assistant"})
    IN  messages[asked].calls[i - asked]

(* Whenever the LLM is invoked, each tool call of each of its replies has  *)
(* exactly one result, right after the reply and in the calls' order.      *)
CallsAreAnswered ==
    pc = "llm" =>
        \A i \in DOMAIN messages :
            LET n == Len(messages[i].calls)
            IN  /\ \A j \in i + 1 .. i + n : j \in Results(messages)
                /\ n > 0 => i + n + 1 \notin Results(messages)

(* A result that the LLM has not read is only replaced by a reference when *)
(* PreserveRecent more calls of its own reply came after it.               *)
SeenBeforeCompacted ==
    \A i \in Results(messages) :
        messages[i].compacted /\ i \notin shown =>
            \E j \in 1 .. i - 1 : PreserveRecent \in 1 .. j + Len(messages[j].calls) - i

(* The same call is not handled MaxRepeats times in a row, over however    *)
(* many replies and rounds.                                                *)
RepeatsAreBounded ==
    \A first, end \in Results(messages) :
        LET row == {i \in Results(messages) : i \in first .. end}
        IN  first <= end /\ Cardinality(row) >= Limit(CallOf(first))
                => \E i \in row : CallOf(i) # CallOf(first)

(* Unless the loop raised, no delegated task is left queued by its run.    *)
DelegatedIsStarted ==
    pc \in {"waiting", "done"} => "queued" \notin Range(children)

(* Every execution ends or asks, unless it waits for a delegated task that *)
(* itself waits for a user.                                                *)
RunsEnd == pc \notin {"done", "failed", "asked"}
             ~> (pc \in {"done", "failed", "asked"} \/ "asking" \in Range(children))

(* services/helpers/tool_loop.py:163: the ledger entry is fire-and-forget; *)
(* stores/trace_store.py:8-12: persisting traces must not break a run.     *)
LedgerNeverRaises == pc = "raised" => freed # Unbound

(* services/task_executor.py:406-409: on resume the original turn is       *)
(* already stored and only the new answers are.                            *)
TurnsAreStoredOnce ==
    \A i, j \in DOMAIN transcript :
        transcript[i] = transcript[j] => i = j \/ transcript[i] = Reply

(* services/specialist_agents.py:906-908: no captured id means that no     *)
(* comparison report was generated.                                        *)
CaptureIsComplete == pc = "done" /\ captured = Nothing => noted = <<>>

=============================================================================
