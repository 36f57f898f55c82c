------------------------------ MODULE HitlGate ------------------------------
(***************************************************************************)
(* Human approval gates: the hitl_approvals table (stores/hitl_store.py),  *)
(* the gates that wait on it (services/hitl_gates.py) and the humans that  *)
(* decide (/api/hitl/approve and /reject of agui_server.py).               *)
(*                                                                         *)
(* A gate inserts a prompt and then polls its row until a human decides or *)
(* the deadline passes.  The gate at the start of an execution cancels the *)
(* task it refuses; the gate of a tool call skips the call and goes on;    *)
(* the orchestrator's request_human_approval only reports the outcome.     *)
(* Nothing tells the humans that a gate has stopped waiting.               *)
(***************************************************************************)
EXTENDS Naturals, Sequences, FiniteSets

CONSTANTS Tasks,      \* executions that meet gates
          Humans,     \* requests that decide prompts
          Nobody,     \* who decided a prompt nobody decided
          MaxPrompts  \* bound: prompts ever inserted

ASSUME GateAssumption == Nobody \notin Humans /\ MaxPrompts \in Nat

VARIABLES approvals,  \* the table: row i is prompt i
          gate,       \* where each execution stands
          late,       \* prompts whose deadline has passed
          click,      \* click[h]: the decision human h is sending
          accepted,   \* decisions the server acknowledged
          acted       \* prompts on whose approval a gated action ran

vars == <<approvals, gate, late, click, accepted, acted>>

Decisions == {"approved", "rejected"}

Places == {"start", "tool", "llm"}

Prompts == 1..MaxPrompts

Outcomes == Decisions \cup {"timeout", "failed"}

\* "fresh" before the start gate, "working" in the agent's loop, "check" and
\* "read" inside wait_for_decision, "decided" with its outcome, "over".
Stages == {"fresh", "working", "check", "read", "decided", "over"}

NoGate == [stage |-> "fresh", place |-> "start", id |-> 0, outcome |-> "failed"]

NoClick == [id |-> 0, decision |-> "approved"]

Init == /\ approvals = <<>>
        /\ gate = [t \in Tasks |-> NoGate]
        /\ late = {}
        /\ click = [h \in Humans |-> NoClick]
        /\ accepted = {}
        /\ acted = {}

-----------------------------------------------------------------------------
(* The gate.                                                               *)

humanVars == <<click, accepted>>

At(t, stage) == gate[t].stage = stage

Become(t, g) == gate' = [gate EXCEPT ![t] = g]

\* Where a gate of each place may be met.
Meets(t, place) == IF place = "start" THEN At(t, "fresh") ELSE At(t, "working")

\* A rule matches: the prompt is inserted and the wait begins.
OpenPrompt(t, place) ==
    /\ Meets(t, place)
    /\ Len(approvals) < MaxPrompts
    /\ approvals' = Append(approvals, [decision |-> "pending", by |-> Nobody, early |-> FALSE])
    /\ Become(t, [NoGate EXCEPT !.stage = "check", !.place = place, !.id = Len(approvals) + 1])
    /\ UNCHANGED <<late, acted, humanVars>>

\* The insert fails: the gate refuses without a prompt.
OpenFails(t, place) ==
    /\ Meets(t, place)
    /\ Become(t, [NoGate EXCEPT !.stage = "decided", !.place = place])
    /\ UNCHANGED <<approvals, late, acted, humanVars>>

\* No rule matches the start of the execution.
NoRule(t) == /\ At(t, "fresh")
             /\ Become(t, [NoGate EXCEPT !.stage = "working"])
             /\ UNCHANGED <<approvals, late, acted, humanVars>>

Decided(t, outcome) == [gate[t] EXCEPT !.stage = "decided", !.outcome = outcome]

\* Mutated form: the deadline is computed anew for each poll.
CheckMovingDeadline(t) ==
    /\ At(t, "check")
    /\ Become(t, [gate[t] EXCEPT !.stage = "read"])
    /\ UNCHANGED <<approvals, late, acted, humanVars>>

\* while time() < deadline: the row is not read once more after it.
CheckDeadline(t) ==
    /\ At(t, "check")
    /\ Become(t, IF gate[t].id \in late THEN Decided(t, "timeout")
                                       ELSE [gate[t] EXCEPT !.stage = "read"])
    /\ UNCHANGED <<approvals, late, acted, humanVars>>

\* Mutated form: anything but a rejection lets the caller go on.
ReadRowNotRejected(t) ==
    /\ At(t, "read")
    /\ Become(t, IF approvals[gate[t].id].decision = "rejected" THEN Decided(t, "rejected")
                                                              ELSE Decided(t, "approved"))
    /\ UNCHANGED <<approvals, late, acted, humanVars>>

\* A poll: a decision ends the wait, otherwise sleep and check again.
ReadRow(t) ==
    /\ At(t, "read")
    /\ LET decision == approvals[gate[t].id].decision
       IN  Become(t, IF decision \in Decisions THEN Decided(t, decision)
                                               ELSE [gate[t] EXCEPT !.stage = "check"])
    /\ UNCHANGED <<approvals, late, acted, humanVars>>

\* A poll that raises is retried after a sleep, deadline first.
ReadError(t) ==
    /\ At(t, "read")
    /\ Become(t, [gate[t] EXCEPT !.stage = "check"])
    /\ UNCHANGED <<approvals, late, acted, humanVars>>

\* The deadline of a prompt that is being waited on passes.
Deadline(t) == /\ gate[t].stage \in {"check", "read"}
               /\ gate[t].id \notin late
               /\ late' = late \cup {gate[t].id}
               /\ UNCHANGED <<approvals, gate, acted, humanVars>>

\* An approved start or call runs the gated action; an approved request of
\* the orchestrator's is only told to its model.
Proceed(t) ==
    /\ At(t, "decided")
    /\ gate[t].outcome = "approved"
    /\ acted' = IF gate[t].place = "llm" THEN acted ELSE acted \cup {gate[t].id}
    /\ Become(t, [NoGate EXCEPT !.stage = "working"])
    /\ UNCHANGED <<approvals, late, humanVars>>

\* Any other outcome cancels the task at its start, and skips the call.
Refuse(t) ==
    /\ At(t, "decided")
    /\ gate[t].outcome # "approved"
    /\ Become(t, [NoGate EXCEPT !.stage = IF gate[t].place = "start" THEN "over" ELSE "working"])
    /\ UNCHANGED <<approvals, late, acted, humanVars>>

\* The agent finishes, or asks its user and is executed anew with the answer.
Finish(t) == /\ At(t, "working")
             /\ Become(t, [NoGate EXCEPT !.stage = "over"])
             /\ UNCHANGED <<approvals, late, acted, humanVars>>

Resume(t) == /\ At(t, "working")
             /\ Become(t, NoGate)
             /\ UNCHANGED <<approvals, late, acted, humanVars>>

\* The process stops or the execution is cancelled: the row stays pending.
Lose(t) == /\ gate[t].stage \in {"check", "read", "decided"}
           /\ Become(t, [NoGate EXCEPT !.stage = "over"])
           /\ UNCHANGED <<approvals, late, acted, humanVars>>

-----------------------------------------------------------------------------
(* The humans.                                                             *)

\* /approve or /reject: the owner check reads the row and only asks that it
\* exists.
Click(h, i, decision) ==
    /\ click[h] = NoClick
    /\ i \in DOMAIN approvals
    /\ click' = [click EXCEPT ![h] = [id |-> i, decision |-> decision]]
    /\ UNCHANGED <<approvals, gate, late, accepted, acted>>

\* Mutated form: the UPDATE has no "AND decision = 'pending'".
RecordAnyway(row, decision, h, early) ==
    [row EXCEPT !.decision = decision, !.by = h, !.early = early]

\* Mutated form: a decision that comes late is recorded as a timeout.
RecordExpiry(row, decision, h, early) ==
    IF row.decision = "pending"
    THEN [row EXCEPT !.decision = IF early THEN decision ELSE "timeout",
                     !.by = h, !.early = early]
    ELSE row

\* record_decision: a conditional UPDATE.
RecordDecision(row, decision, h, early) ==
    IF row.decision = "pending"
    THEN [row EXCEPT !.decision = decision, !.by = h, !.early = early]
    ELSE row

\* ... whose effect is acknowledged, or answered 404 when it had none.
\* early: decided before the deadline the gate computed.
Record(h) ==
    /\ click[h] # NoClick
    /\ LET i == click[h].id
           new == RecordDecision(approvals[i], click[h].decision, h, i \notin late)
       IN  /\ approvals' = [approvals EXCEPT ![i] = new]
           /\ accepted' = IF new = approvals[i] THEN accepted
                          ELSE accepted \cup {[id |-> i, by |-> h,
                                               decision |-> click[h].decision]}
    /\ click' = [click EXCEPT ![h] = NoClick]
    /\ UNCHANGED <<gate, late, acted>>

-----------------------------------------------------------------------------

Wait(t) == CheckDeadline(t) \/ ReadRow(t) \/ ReadError(t)

Next ==
    \/ \E t \in Tasks, place \in Places : OpenPrompt(t, place) \/ OpenFails(t, place)
    \/ \E t \in Tasks : \/ NoRule(t) \/ Wait(t) \/ Deadline(t) \/ Proceed(t)
                        \/ Refuse(t) \/ Finish(t) \/ Resume(t) \/ Lose(t)
    \/ \E h \in Humans, i \in Prompts, d \in Decisions : Click(h, i, d)
    \/ \E h \in Humans : Record(h)

Spec == Init /\ [][Next]_vars

\* The event loop runs a gate that has slept, and time passes.  Humans owe
\* no decision.
FairSpec == Spec /\ \A t \in Tasks : WF_vars(Wait(t)) /\ WF_vars(Deadline(t))

-----------------------------------------------------------------------------
(* Properties.                                                             *)

TypeOK ==
    /\ approvals \in Seq([decision : Decisions \cup {"pending"},
                          by : Humans \cup {Nobody}, early : BOOLEAN])
    /\ Len(approvals) <= MaxPrompts
    /\ gate \in [Tasks -> [stage : Stages, place : Places, id : 0..MaxPrompts,
                           outcome : Outcomes]]
    /\ late \subseteq Prompts
    /\ click \in [Humans -> [id : 0..MaxPrompts, decision : Decisions]]
    /\ accepted \subseteq [id : Prompts, by : Humans, decision : Decisions]
    /\ acted \subseteq Prompts

(* A gated action ran only on a prompt whose row says approved, and says   *)
(* so for ever, whoever clicks what afterwards.                            *)
ActedOnApproval ==
    \A i \in acted : i \in DOMAIN approvals /\ approvals[i].decision = "approved"

(* A decision the server acknowledged is the decision of the row: of two   *)
(* humans that decide the same prompt one is told that it was too late.    *)
AcknowledgedStands ==
    \A a \in accepted : /\ approvals[a.id].decision = a.decision
                        /\ approvals[a.id].by = a.by

(* What the two invariants above rest on: a gate only waits on a prompt    *)
(* that was inserted, it only reports the decision of its row, and a human *)
(* only decides an existing prompt.                                        *)
WaitsOnRow ==
    \A t \in Tasks : gate[t].stage \in {"check", "read"} => gate[t].id \in DOMAIN approvals

ReportsRow ==
    \A t \in Tasks :
        At(t, "decided") /\ gate[t].outcome \in Decisions =>
            /\ gate[t].id \in DOMAIN approvals
            /\ approvals[gate[t].id].decision = gate[t].outcome

ClicksOnRow ==
    /\ \A h \in Humans : click[h] # NoClick => click[h].id \in DOMAIN approvals
    /\ \A a \in accepted : a.id \in DOMAIN approvals

(* A gate never waits for ever, whatever the database answers.             *)
GatesEnd ==
    \A t \in Tasks : gate[t].stage \in {"check", "read"}
                       ~> gate[t].stage \notin {"check", "read"}

(* services/hitl_gates.py:604: a gate times out when its deadline elapses  *)
(* without decision.                                                       *)
TimeoutMeansUndecided ==
    \A t \in Tasks : At(t, "decided") /\ gate[t].outcome = "timeout"
                       => ~approvals[gate[t].id].early

=============================================================================
