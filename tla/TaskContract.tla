---------------------------- MODULE TaskContract ----------------------------
(***************************************************************************)
(* What the A2A surface promises about one task, whoever executes it and   *)
(* whatever races whom: a task is started once, asks only while running,   *)
(* each question takes exactly one answer, a task that waits for its       *)
(* user's answer can only be answered or cancelled, and a closed task      *)
(* never changes again.                                                    *)
(***************************************************************************)
EXTENDS Naturals

CONSTANTS Tasks,     \* task ids
          MaxTurns   \* bound on the answers of one task

VARIABLES status,    \* status of each task, "absent" before it is submitted
          answers    \* answers accepted by each task so far

vars == <<status, answers>>

Init == /\ status = [t \in Tasks |-> "absent"]
        /\ answers = [t \in Tasks |-> 0]

Move(t, from, to) == /\ status[t] \in from
                     /\ status' = [status EXCEPT ![t] = to]

Submit(t) == Move(t, {"absent"}, "pending") /\ UNCHANGED answers

Start(t) == Move(t, {"pending"}, "running") /\ UNCHANGED answers

Ask(t) == Move(t, {"running"}, "input_required") /\ UNCHANGED answers

Answer(t) == /\ answers[t] < MaxTurns
             /\ Move(t, {"input_required"}, "running")
             /\ answers' = [answers EXCEPT ![t] = @ + 1]

Complete(t) == Move(t, {"running"}, "completed") /\ UNCHANGED answers

Fail(t) == Move(t, {"pending", "running"}, "failed") /\ UNCHANGED answers

Cancel(t) == /\ Move(t, {"pending", "running", "input_required"}, "cancelled")
             /\ UNCHANGED answers

Next == \E t \in Tasks : \/ Submit(t) \/ Start(t) \/ Ask(t) \/ Answer(t)
                         \/ Complete(t) \/ Fail(t) \/ Cancel(t)

Spec == Init /\ [][Next]_vars

=============================================================================
