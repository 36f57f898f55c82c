----------------------------- MODULE TaskStream -----------------------------
(***************************************************************************)
(* Who hears of a task: the in-process bus of services/subscriptions.py,   *)
(* the SSE streams of message:stream and SubscribeToTask, and the blocking *)
(* SendMessage of a2a/server/helpers/wait.py, on top of TaskLifecycle.     *)
(*                                                                         *)
(* A subscriber is one request.  While it is registered, every event of    *)
(* its task, and of the tasks an orchestrator delegated for it, is put in  *)
(* its queue, unless the queue is full.  Subscribing and broadcasting take *)
(* an uncontended lock and never yield, so each is atomic with the step    *)
(* that calls it.                                                          *)
(***************************************************************************)
EXTENDS TaskLifecycle

CONSTANTS Subs,      \* requests that want to hear of a task
          Children,  \* tasks that only an orchestrator delegates
          Capacity   \* bound: events a queue holds (64 in the code)

ASSUME StreamAssumption == Children \subseteq Tasks /\ Capacity \in Nat \ {0}

VARIABLES sub,       \* the subscribers
          parent     \* _parent_task_cache: whose subscribers also hear a task

allVars == <<vars, sub, parent>>

SettledStatuses == TerminalStatuses \cup {"input_required", "auth_required"}

Settled(t) == rows[t].status \in SettledStatuses

Kinds == {"none", "blocking", "stream", "follow"}

\* A blocking request checks the row, waits for events, polls the row when
\* none comes, and reads it again on an event that settles it.  A stream is
\* "opening" between SubscribeToTask's read of the row and its subscription.
Stages == {"off", "opening", "open", "ended",
           "check", "wait", "poll", "refresh", "replied"}

Registered == {"open", "check", "wait", "poll", "refresh"}

Event(t, status) == [task |-> t, status |-> status]

Nowhere == [kind |-> "none", stage |-> "off", task |-> Nobody, queue |-> <<>>,
            dropped |-> FALSE, reply |-> "absent"]

Request(kind, stage, t) ==
    [Nowhere EXCEPT !.kind = kind, !.stage = stage, !.task = t]

StreamInit == Init /\ sub = [s \in Subs |-> Nowhere]
                   /\ parent = [t \in Tasks |-> Nobody]

-----------------------------------------------------------------------------
(* The bus.                                                                *)

Hears(s, t) == /\ sub[s].stage \in Registered
               /\ sub[s].task \in {t, parent[t]} \ {Nobody}

\* Mutated form: the queue takes whatever comes.
PutAlways(q, event) == [q EXCEPT !.queue = Append(@, event)]

\* put_nowait, dropping silently when the queue is full.
Put(q, event) ==
    IF Len(q.queue) < Capacity
    THEN [q EXCEPT !.queue = Append(@, event)]
    ELSE [q EXCEPT !.dropped = TRUE]

Broadcast(t, status) ==
    sub' = [s \in Subs |-> IF Hears(s, t) THEN Put(sub[s], Event(t, status))
                                          ELSE sub[s]]

\* A step of an execution, with the event it broadcasts if any.
Run(t, k) ==
    /\ Execute(t, k)
    /\ IF log' = log THEN UNCHANGED sub ELSE Broadcast(t, log'[t][Len(log'[t])])
    /\ UNCHANGED parent

\* Progress of the gate or of the agent: a "running" event.
Progress(t, k) ==
    /\ pc[t][k] \in {"gate", "dispatch"}
    /\ Broadcast(t, "running")
    /\ UNCHANGED <<vars, parent>>

-----------------------------------------------------------------------------
(* Requests that start an execution.                                       *)

SubmitByClient(t) == t \notin Children /\ Submit(t) /\ UNCHANGED <<sub, parent>>

\* delegate_to_specialist, called by the agent of an execution of p.
Delegate(p, c) == /\ c \in Children
                  /\ \E k \in Execs : pc[p][k] = "dispatch"
                  /\ Submit(c)
                  /\ UNCHANGED <<sub, parent>>

\* The drain between two tool rounds of p registers the child, if
\* proxy_specialist_sse is on, then schedules it.
Drain(p, c) == /\ c \in Children
               /\ \E k \in Execs : pc[p][k] = "dispatch"
               /\ Schedule(c, 0)
               /\ \/ parent' = [parent EXCEPT ![c] = p]
                  \/ UNCHANGED parent
               /\ UNCHANGED sub

ByClient(t, k) == t \notin Children \/ k > 0

\* returnImmediately, or nobody waits.
ScheduleAlone(t, k) == /\ ByClient(t, k)
                       /\ Schedule(t, k)
                       /\ UNCHANGED <<sub, parent>>

\* Mutated form: the request schedules first and subscribes later.
ScheduleBeforeListening(s, t, k) ==
    /\ ByClient(t, k)
    /\ sub[s].stage = "off"
    /\ Schedule(t, k)
    /\ sub' = [sub EXCEPT ![s] = Request("stream", "opening", t)]
    /\ UNCHANGED parent

\* The request subscribes, then schedules: a blocking one goes on to check
\* the row, a streaming one is open at once.
ScheduleAndListen(s, t, k) ==
    /\ ByClient(t, k)
    /\ sub[s].stage = "off"
    /\ Schedule(t, k)
    /\ \/ sub' = [sub EXCEPT ![s] = Request("blocking", "check", t)]
       \/ sub' = [sub EXCEPT ![s] = Request("stream", "open", t)]
    /\ UNCHANGED parent

\* Steps that neither hear nor tell anything.
Quiet ==
    /\ \/ \E t \in Tasks : CancelTask(t)
       \/ \E t \in Tasks, k \in Execs : Break(t, k)
       \/ \E c \in Clients, t \in Tasks : CheckAnswer(c, t)
       \/ \E c \in Clients : WriteAnswer(c) \/ DropAnswer(c)
       \/ Restart
    /\ UNCHANGED <<sub, parent>>

\* Subscriptions and the parent cache live in the process.
GoDown == /\ Stop \/ Crash
          /\ sub' = [s \in Subs |-> Nowhere]
          /\ parent' = [t \in Tasks |-> Nobody]

-----------------------------------------------------------------------------
(* Subscribers.                                                            *)

Move(s, from, to) == /\ sub[s].stage = from
                     /\ sub' = [sub EXCEPT ![s].stage = to]
                     /\ UNCHANGED <<vars, parent>>

\* SubscribeToTask reads the row and refuses a terminal one ...
Look(s, t) == /\ up
              /\ sub[s].stage = "off"
              /\ rows[t].status # "absent"
              /\ ~IsTerminal(rows[t])
              /\ sub' = [sub EXCEPT ![s] = Request("follow", "opening", t)]
              /\ UNCHANGED <<vars, parent>>

\* ... and subscribes once the read has come back.
Listen(s) == Move(s, "opening", "open")

\* Mutated form: any terminal event ends the stream.
ClosesOnAny(event, t) == event.status \in TerminalStatuses

\* sse_event_closes_stream: a delegated task's end does not close the stream
\* of its parent.
Closes(event, t) == event.status \in TerminalStatuses /\ event.task = t

Dequeue(s, stage) ==
    /\ sub[s].queue # <<>>
    /\ sub' = [sub EXCEPT ![s].queue = Tail(@), ![s].stage = stage]
    /\ UNCHANGED <<vars, parent>>

\* A frame of the stream, which may be its last.
Emit(s) ==
    /\ sub[s].stage = "open"
    /\ sub[s].queue # <<>>
    /\ Dequeue(s, IF Closes(Head(sub[s].queue), sub[s].task) THEN "ended" ELSE "open")

Disconnect(s) == /\ sub[s].stage \in {"opening", "open"}
                 /\ sub' = [sub EXCEPT ![s] = Nowhere]
                 /\ UNCHANGED <<vars, parent>>

Reply(s) == sub' = [sub EXCEPT ![s] = [Nowhere EXCEPT
                       !.kind = "blocking", !.stage = "replied", !.task = sub[s].task,
                       !.reply = rows[sub[s].task].status]]

\* A read of the row that answers the request only if the task has settled.
ReplyIfSettled(s, from) ==
    /\ sub[s].stage = from
    /\ IF Settled(sub[s].task) THEN Reply(s) ELSE sub' = [sub EXCEPT ![s].stage = "wait"]
    /\ UNCHANGED <<vars, parent>>

FirstCheck(s) == ReplyIfSettled(s, "check")

\* An event that settles some task ends the wait; others are ignored.
HearEvent(s) ==
    /\ sub[s].stage = "wait"
    /\ sub[s].queue # <<>>
    /\ Dequeue(s, IF Head(sub[s].queue).status \in SettledStatuses THEN "refresh" ELSE "wait")

\* Mutated form: the wait has no timeout.
NoTimeOut(s) == FALSE /\ Move(s, "wait", "poll")

\* No event for fifteen seconds.
TimeOut(s) == sub[s].queue = <<>> /\ Move(s, "wait", "poll")

Poll(s) == ReplyIfSettled(s, "poll")

\* After the event: whatever the row now holds is the answer.
Refresh(s) == /\ sub[s].stage = "refresh"
              /\ Reply(s)
              /\ UNCHANGED <<vars, parent>>

Serve(s) == \/ Listen(s) \/ Emit(s) \/ FirstCheck(s) \/ HearEvent(s)
            \/ TimeOut(s) \/ Poll(s) \/ Refresh(s)

-----------------------------------------------------------------------------

StreamNext ==
    \/ \E t \in Tasks : SubmitByClient(t)
    \/ \E p, c \in Tasks : Delegate(p, c) \/ Drain(p, c)
    \/ \E t \in Tasks, k \in Execs : ScheduleAlone(t, k) \/ Run(t, k) \/ Progress(t, k)
    \/ \E s \in Subs, t \in Tasks, k \in Execs : ScheduleAndListen(s, t, k)
    \/ \E s \in Subs, t \in Tasks : Look(s, t)
    \/ \E s \in Subs : Serve(s) \/ Disconnect(s)
    \/ Quiet
    \/ GoDown

StreamSpec == StreamInit /\ [][StreamNext]_allVars

\* The event loop runs every ready coroutine: a request that wrote its row
\* goes on to schedule, a gate ends by decision or by its timeout, an agent
\* returns or raises.  Clients that stay connected read their stream.  Nobody
\* owes a request, an answer, a progress event or a drain.
StreamFairSpec ==
    /\ StreamSpec
    /\ \A t \in Tasks, k \in Execs :
          /\ WF_allVars(Run(t, k))
          /\ WF_allVars(\/ ScheduleAlone(t, k)
                        \/ \E s \in Subs : ScheduleAndListen(s, t, k))
    /\ \A s \in Subs : WF_allVars(Serve(s))

-----------------------------------------------------------------------------
(* Properties.                                                             *)

StreamTypeOK ==
    /\ sub \in [Subs -> [kind : Kinds, stage : Stages, task : Tasks \cup {Nobody},
                         queue : Seq([task : Tasks, status : Statuses]),
                         dropped : BOOLEAN, reply : Statuses \cup {"absent"}]]
    /\ \A s \in Subs : Len(sub[s].queue) <= Capacity
    /\ parent \in [Tasks -> Tasks \cup {Nobody}]

(* The server ends a stream only when the row of the task it is about is   *)
(* closed for good, whatever the tasks delegated for it have said.         *)
EndedStreamsAreTerminal ==
    \A s \in Subs : sub[s].stage = "ended" => IsTerminal(rows[sub[s].task])

Waiting(s) == sub[s].stage \in {"check", "wait", "poll", "refresh"}

(* A blocking SendMessage is answered once its task settles, however many  *)
(* events were dropped and whether or not one was broadcast at all.        *)
BlockingReplies ==
    \A s \in Subs : Waiting(s) /\ Settled(sub[s].task)
                      ~> (~Waiting(s) \/ ~Settled(sub[s].task))

Streaming(s, kind) == sub[s].kind = kind /\ sub[s].stage \in {"opening", "open"}

EndsOf(kind) ==
    \A s \in Subs :
        Streaming(s, kind) /\ rows[sub[s].task].status \in {"completed", "failed"}
          ~> (~Streaming(s, kind) \/ sub[s].dropped \/ LostExec(sub[s].task))

(* A stream opened by the request that started or resumed its task ends    *)
(* once that task completes or fails, unless its queue overflowed.         *)
StreamsEnd == EndsOf("stream")

(* docs/a2a/a2a-server-data-contracts.md:48: SubscribeToTask serves a      *)
(* stream of an existing non-terminal task; one it still serves for a task *)
(* that completed or failed has an end.                                    *)
FollowersEnd == EndsOf("follow")

(* a2a/server/helpers/wait.py:3-6: a blocking SendMessage waits until the  *)
(* task is terminal or interrupted before it returns.                      *)
RepliesAreSettled ==
    \A s \in Subs : sub[s].stage = "replied" => sub[s].reply \in SettledStatuses

=============================================================================
