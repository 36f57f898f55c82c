------------------------------ MODULE TaskStore ------------------------------
(***************************************************************************)
(* The rows of the agent_tasks table and the statements of                 *)
(* stores/task_store.py that write them.  Each writer is one conditional   *)
(* UPDATE, so it is an operator from the row to the row it leaves: the     *)
(* same row when the WHERE clause matches nothing.                         *)
(*                                                                         *)
(* A row keeps what the rest of the system tells apart: its status, what   *)
(* the result column holds and from how many user turns it was computed,   *)
(* whether the error, started_at and completed_at columns are set, and how *)
(* many messages payload.resume_messages holds.                            *)
(***************************************************************************)
EXTENDS Naturals

Statuses == {"pending", "running", "input_required", "auth_required",
             "completed", "failed", "cancelled", "rejected"}

TerminalStatuses == {"completed", "failed", "cancelled", "rejected"}

\* The statuses the WHERE clauses of mark_completed, mark_failed and
\* mark_cancelled exclude; "rejected" is terminal but absent from them.
ClosedStatuses == {"completed", "failed", "cancelled"}

NullResult == [kind |-> "null", turns |-> 0]

Results(maxTurns) == [kind : {"null", "prompt", "final"}, turns : 0..maxTurns]

Rows(maxTurns) ==
    [status   : Statuses \cup {"absent"},
     result   : Results(maxTurns),
     error    : BOOLEAN,
     started  : BOOLEAN,
     finished : BOOLEAN,
     resumes  : 0..maxTurns]

\* The place of a row that was never inserted: no UPDATE matches it.
AbsentRow == [status |-> "absent", result |-> NullResult, error |-> FALSE,
              started |-> FALSE, finished |-> FALSE, resumes |-> 0]

CreateTask == [AbsentRow EXCEPT !.status = "pending"]

IsTerminal(row) == row.status \in TerminalStatuses

Open(row) == row.status \notin ClosedStatuses \cup {"absent"}

MarkRunning(row) ==
    IF row.status = "pending"
    THEN [row EXCEPT !.status = "running", !.started = TRUE]
    ELSE row

MarkCompleted(row, turns) ==
    IF Open(row)
    THEN [row EXCEPT !.status = "completed", !.finished = TRUE,
                     !.result = [kind |-> "final", turns |-> turns]]
    ELSE row

MarkFailed(row) ==
    IF Open(row)
    THEN [row EXCEPT !.status = "failed", !.finished = TRUE, !.error = TRUE]
    ELSE row

\* Mutated form: completed_at is left unset on a cancelled row.
MarkCancelledUnstamped(row) ==
    IF Open(row) THEN [row EXCEPT !.status = "cancelled", !.error = TRUE] ELSE row

MarkCancelled(row) ==
    IF Open(row)
    THEN [row EXCEPT !.status = "cancelled", !.finished = TRUE, !.error = TRUE]
    ELSE row

\* Mutated form: a question reopens a row that is already closed.
MarkInputRequiredAlways(row, turns) ==
    [row EXCEPT !.status = "input_required",
                !.result = [kind |-> "prompt", turns |-> turns]]

MarkInputRequired(row, turns) ==
    IF Open(row) /\ ~IsTerminal(row)
    THEN [row EXCEPT !.status = "input_required",
                     !.result = [kind |-> "prompt", turns |-> turns]]
    ELSE row

\* Mutated form: the answered question stays in the result column.
AppendResumeKeepsPrompt(row) ==
    IF row.status = "input_required"
    THEN [row EXCEPT !.status = "running", !.resumes = @ + 1]
    ELSE row

\* Mutated form: the UPDATE relies on the status the handler read before it.
AppendResumeUnguarded(row) ==
    [row EXCEPT !.status = "running", !.result = NullResult, !.resumes = @ + 1]

AppendResumeMessage(row) ==
    IF row.status = "input_required"
    THEN [row EXCEPT !.status = "running", !.result = NullResult,
                     !.resumes = @ + 1]
    ELSE row

=============================================================================
