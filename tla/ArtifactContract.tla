-------------------------- MODULE ArtifactContract --------------------------
(***************************************************************************)
(* What process_session_artifacts promises whoever calls it: a session     *)
(* once completed is never worked on again, and the status it returns says *)
(* whether all, some or none of the sessions are completed.  Only cleaning *)
(* up after all of them are completed forgets it.                          *)
(***************************************************************************)
EXTENDS Naturals

CONSTANTS Sessions
VARIABLES completed, verdict

vars == <<completed, verdict>>

Reply(done) == IF done = Sessions THEN "success"
               ELSE IF done # {} THEN "partial" ELSE "error"

Init == completed = {} /\ verdict = "nothing"

Call == verdict' = "nothing" /\ UNCHANGED completed

Progress == \E s \in Sessions \ completed :
               completed' = completed \cup {s} /\ UNCHANGED verdict

Forget == completed = Sessions /\ completed' = {} /\ UNCHANGED verdict

Return == /\ completed' \in {completed, Sessions}
          /\ verdict' = Reply(completed')

Raise == verdict' = "raised" /\ UNCHANGED completed

Next == Call \/ Progress \/ Forget \/ Return \/ Raise

Spec == Init /\ [][Next]_vars
=============================================================================
