----------------------------- MODULE Delegation -----------------------------
(***************************************************************************)
(* How an orchestrator hands work to specialists: the tools of             *)
(* agents/orchestrator/agent.py, the turns that call them and the          *)
(* specialists they start.  Two module-level variables tie them together,  *)
(* _caller_identity and _pending_executions, and every turn and every      *)
(* specialist of the process shares them.                                  *)
(*                                                                         *)
(* A process serves one surface.  In the AG-UI server a turn is a chat     *)
(* stream: it sets the identity when it opens, drains the pending list     *)
(* after each chunk and clears the identity when it closes.  In the A2A    *)
(* server a turn is an execution of the orchestrator: its identity is in   *)
(* ContextVars, read only where _caller_identity holds nothing, and it     *)
(* drains the list after each tool round.                                  *)
(***************************************************************************)
EXTENDS Naturals, Sequences, FiniteSets, SequencesExt

CONSTANTS Turns,     \* turns of the orchestrator
          Children,  \* tasks delegated to specialists
          Nobody,    \* None
          Surfaces   \* the servers considered, of "web_ui" and "a2a"

ASSUME DelegationAssumption == /\ Nobody \notin Turns \cup Children
                               /\ Turns \cap Children = {}
                               /\ Surfaces \subseteq {"web_ui", "a2a"}

VARIABLES surface,   \* the server this process is
          caller,    \* _caller_identity
          pending,   \* _pending_executions
          turn,      \* the turns, each with the test run its context resolved
          child      \* the delegated tasks

vars == <<surface, caller, pending, turn, child>>

\* A conversation (its thread, session and user) goes by the turn that is in
\* it; a test run by the turn or the delegated task it was resolved for.
Runs == Turns \cup Children \cup {Nobody}

Owners == Turns \cup {Nobody}

\* clear_caller_identity
Cleared == [of |-> Nobody, task |-> Nobody, run |-> Nobody]

NoTurn == [stage |-> "off", run |-> Nobody]

\* by is the turn whose tool call created the task; the row's own columns are
\* of, parent and run.
NoChild == [stage |-> "none", by |-> Nobody, of |-> Nobody, parent |-> Nobody,
            run |-> Nobody, proxy |-> Nobody, restored |-> FALSE, starts |-> 0]

Init == /\ surface \in Surfaces
        /\ caller = Cleared
        /\ pending = <<>>
        /\ turn = [t \in Turns |-> NoTurn]
        /\ child = [c \in Children |-> NoChild]

Web == surface = "web_ui"

First(a, b) == IF a # Nobody THEN a ELSE b

\* What a ContextVar of turn t holds where the tools can read it: AG2 isolates
\* the tools of a chat stream from the context of its request.
Context(value) == IF Web THEN Nobody ELSE value

-----------------------------------------------------------------------------
(* Turns.                                                                  *)

\* Mutated form: the setter forgets the task_id of the last specialist.
OpenKeepsTask(t) ==
    /\ turn[t].stage = "off"
    /\ \E r \in {t, Nobody} :
          /\ turn' = [turn EXCEPT ![t] = [stage |-> "streaming", run |-> r]]
          /\ caller' = IF Web THEN [caller EXCEPT !.of = t, !.run = r] ELSE caller
    /\ UNCHANGED <<surface, pending, child>>

\* The ingress resolves a test run or none.  The AG-UI handler stores the
\* identity for the process; the A2A execution only in its own context.
Open(t) ==
    /\ turn[t].stage = "off"
    /\ \E r \in {t, Nobody} :
          /\ turn' = [turn EXCEPT ![t] = [stage |-> "streaming", run |-> r]]
          /\ caller' = IF Web THEN [of |-> t, task |-> Nobody, run |-> r] ELSE caller
    /\ UNCHANGED <<surface, pending, child>>

Started(c, t) == [child[c] EXCEPT !.stage = "started", !.starts = @ + 1,
                                  !.proxy = Context(t)]

\* Mutated form: the list is copied but not cleared.
DrainKeeping(t) ==
    /\ child' = [c \in Children |-> IF c \in ToSet(pending) THEN Started(c, t) ELSE child[c]]
    /\ UNCHANGED pending

\* drain_pending_executions, then create_task(execute_task) for each: all that
\* is pending in the process, whichever turn queued it.  The A2A drain also
\* registers the turn's task as the parent whose subscribers hear the child.
DrainPending(t) ==
    /\ child' = [c \in Children |-> IF c \in ToSet(pending) THEN Started(c, t) ELSE child[c]]
    /\ pending' = <<>>

\* A chat stream drains after each chunk, an execution between its rounds.
Drain(t) ==
    /\ turn[t].stage \in {"streaming"} \cup (IF Web THEN {"calling"} ELSE {})
    /\ pending # <<>>
    /\ DrainPending(t)
    /\ UNCHANGED <<surface, caller, turn>>

\* Mutated form: the turn ends without the safety-net drain.
CloseWithoutDrain(t) ==
    /\ turn[t].stage = "streaming"
    /\ turn' = [turn EXCEPT ![t].stage = "ended"]
    /\ caller' = IF Web THEN Cleared ELSE caller
    /\ UNCHANGED <<surface, pending, child>>

\* The turn ends by itself: a last drain, and a chat stream clears the
\* identity of the process, whoever's it is by then.
Close(t) ==
    /\ turn[t].stage = "streaming"
    /\ turn' = [turn EXCEPT ![t].stage = "ended"]
    /\ caller' = IF Web THEN Cleared ELSE caller
    /\ DrainPending(t)
    /\ UNCHANGED surface

\* The client disconnects or the agent raises: none of that happens, and the
\* tool call in progress is lost.
Abandon(t) ==
    /\ turn[t].stage \in {"streaming", "calling"}
    /\ turn' = [turn EXCEPT ![t].stage = "dropped"]
    /\ child' = [c \in Children |->
                    IF child[c].by = t /\ child[c].stage \in {"drafted", "inserting"}
                    THEN [child[c] EXCEPT !.stage = "failed"] ELSE child[c]]
    /\ UNCHANGED <<surface, caller, pending>>

-----------------------------------------------------------------------------
(* delegate_to_specialist, which never raises, and check_task_status.      *)

\* Session, thread, user and parent are read together; without a session the
\* tool answers NoSession and nothing happens.  An await follows.
ReadCaller(t, c) ==
    /\ turn[t].stage = "streaming"
    /\ child[c].stage = "none"
    /\ First(caller.of, Context(t)) # Nobody
    /\ turn' = [turn EXCEPT ![t].stage = "calling"]
    /\ child' = [child EXCEPT ![c] = [NoChild EXCEPT
                    !.stage = "drafted", !.by = t,
                    !.of = First(caller.of, Context(t)),
                    !.parent = First(caller.task, Context(t))]]
    /\ UNCHANGED <<surface, caller, pending>>

\* The test run: the process's, else the context's, else one that is minted or
\* given by the model, else none; what is found is stored for the process and,
\* in an A2A execution, for the context.
ResolveRun(c) ==
    /\ child[c].stage = "drafted"
    /\ LET t == child[c].by
           known == First(caller.run, Context(turn[t].run))
       IN  \E r \in IF known = Nobody THEN {c, Nobody} ELSE {known} :
              /\ child' = [child EXCEPT ![c].stage = "inserting", ![c].run = r]
              /\ caller' = [caller EXCEPT !.run = First(r, @)]
              /\ turn' = [turn EXCEPT ![t].run = IF Web THEN @ ELSE First(r, @)]
    /\ UNCHANGED <<surface, pending>>

\* The row is inserted and its id queued, or the tool reports the error.
Queue(c) ==
    /\ child[c].stage = "inserting"
    /\ turn' = [turn EXCEPT ![child[c].by].stage = "streaming"]
    /\ child' = [child EXCEPT ![c].stage = "queued"]
    /\ pending' = Append(pending, c)
    /\ UNCHANGED <<surface, caller>>

InsertFails(c) ==
    /\ child[c].stage = "inserting"
    /\ turn' = [turn EXCEPT ![child[c].by].stage = "streaming"]
    /\ child' = [child EXCEPT ![c].stage = "failed"]
    /\ UNCHANGED <<surface, caller, pending>>

\* check_task_status adopts the vendor's run id of a start that succeeded.
Adopt(t, c) ==
    /\ turn[t].stage = "streaming"
    /\ child[c].stage = "ended"
    /\ caller' = [caller EXCEPT !.run = c]
    /\ turn' = [turn EXCEPT ![t].run = IF Web THEN @ ELSE c]
    /\ UNCHANGED <<surface, pending, child>>

-----------------------------------------------------------------------------
(* Specialists.                                                            *)

\* An agent run for a chat, not one of the execution agent's own tools,
\* restores the identity stamped on its payload and clears it at its end.
Begin(c) ==
    /\ child[c].stage = "started"
    /\ \E restores \in IF Web THEN BOOLEAN ELSE {FALSE} :
          /\ child' = [child EXCEPT ![c].stage = "running", ![c].restored = restores]
          /\ caller' = IF restores
                       THEN [of |-> child[c].of, task |-> c, run |-> child[c].run]
                       ELSE caller
    /\ UNCHANGED <<surface, pending, turn>>

End(c) ==
    /\ child[c].stage = "running"
    /\ child' = [child EXCEPT ![c].stage = "ended"]
    /\ caller' = IF child[c].restored THEN Cleared ELSE caller
    /\ UNCHANGED <<surface, pending, turn>>

-----------------------------------------------------------------------------

Call(c) == ResolveRun(c) \/ Queue(c) \/ InsertFails(c)

Next ==
    \/ \E t \in Turns : Open(t) \/ Drain(t) \/ Close(t) \/ Abandon(t)
    \/ \E t \in Turns, c \in Children : ReadCaller(t, c) \/ Adopt(t, c)
    \/ \E c \in Children : Call(c) \/ Begin(c) \/ End(c)

Spec == Init /\ [][Next]_vars

\* A turn that neither ends nor breaks goes on emitting chunks or rounds, and
\* its tool calls return.
FairSpec == /\ Spec
            /\ \A t \in Turns : WF_vars(Drain(t))
            /\ \A c \in Children : WF_vars(Call(c))

-----------------------------------------------------------------------------
(* Properties.                                                             *)

TypeOK ==
    /\ surface \in Surfaces
    /\ caller \in [of : Owners, task : Children \cup {Nobody}, run : Runs]
    /\ pending \in Seq(Children)
    /\ turn \in [Turns -> [stage : {"off", "streaming", "calling", "ended", "dropped"},
                           run : Runs]]
    /\ child \in [Children ->
                    [stage : {"none", "drafted", "inserting", "queued", "started",
                              "running", "ended", "failed"},
                     by : Owners, of : Owners, parent : Runs, run : Runs,
                     proxy : Owners, restored : BOOLEAN, starts : 0..1]]

(* The pending list holds exactly the tasks that were queued and not yet   *)
(* started, each once, whichever turns drain it: no delegated task is      *)
(* executed twice.                                                         *)
PendingIsExact ==
    /\ ToSet(pending) = {c \in Children : child[c].stage = "queued"}
    /\ IsInjective(pending)
    /\ \A c \in ToSet(pending) : child[c].starts = 0

(* However the identities of turns and specialists overwrite each other, a *)
(* task never hangs under a task or turn of another conversation: its      *)
(* thread and its parent come from one identity.                           *)
ParentsShareConversation ==
    \A c \in Children :
        /\ child[c].parent \in Turns => child[c].of = child[c].parent
        /\ child[c].parent \in Children => child[c].of = child[child[c].parent].of

(* A delegated task starts while its turn is still going on, be it by      *)
(* polling for ever, or when it ends: only a turn that breaks off may      *)
(* leave it behind.                                                        *)
QueuedChildrenStart ==
    \A c \in Children :
        child[c].stage = "queued"
          ~> (child[c].stage # "queued" \/ turn[child[c].by].stage = "dropped")

(* agents/orchestrator/agent.py:138-140: delegate_to_specialist prefers    *)
(* the test run the framework resolved at this ingress.  Here: no task is  *)
(* delegated under the test run resolved for another turn.                 *)
RunsStayWithTheirTurn ==
    \A c \in Children : child[c].run \in Turns => child[c].run = child[c].by

=============================================================================
