--------------------------- MODULE HitlGateProofs ---------------------------
(***************************************************************************)
(* Proofs about HitlGate, for every set of executions and humans and every *)
(* bound on prompts.  The inductive invariant is TypeOK together with the  *)
(* facts that tie a gate, a click and an acknowledgement to the row of its *)
(* prompt; it is preserved because a decided row never changes.            *)
(***************************************************************************)
EXTENDS HitlGate, TLAPS

Row == [decision : Decisions \cup {"pending"}, by : Humans \cup {Nobody}, early : BOOLEAN]

Gates == [stage : Stages, place : Places, id : 0..MaxPrompts, outcome : Outcomes]

Clicks == [id : 0..MaxPrompts, decision : Decisions]

Acknowledgements == [id : Prompts, by : Humans, decision : Decisions]

Grounded == WaitsOnRow /\ ReportsRow /\ ClicksOnRow /\ ActedOnApproval /\ AcknowledgedStands

IInv == TypeOK /\ Grounded

\* The table only grows, and a decided row stays as it is.
TableKeeps == /\ DOMAIN approvals \subseteq DOMAIN approvals'
              /\ \A i \in DOMAIN approvals :
                    approvals[i].decision # "pending" => approvals'[i] = approvals[i]

-----------------------------------------------------------------------------

(* Recording a decision leaves a row; it leaves a decided row as it was,   *)
(* and a change is the decision of a pending row.                          *)
LEMMA RecordedRow ==
    ASSUME NEW row \in Row, NEW decision \in Decisions, NEW h \in Humans, NEW early \in BOOLEAN
    PROVE  LET new == RecordDecision(row, decision, h, early)
           IN  /\ new \in Row
               /\ row.decision # "pending" => new = row
               /\ new # row => new.decision = decision /\ new.by = h
BY DEF Row, RecordDecision

(* TypeOK, in the vocabulary of this module.                               *)
LEMMA Types ==
    TypeOK <=> /\ approvals \in Seq(Row)
               /\ Len(approvals) <= MaxPrompts
               /\ gate \in [Tasks -> Gates]
               /\ late \subseteq Prompts
               /\ click \in [Humans -> Clicks]
               /\ accepted \subseteq Acknowledgements
               /\ acted \subseteq Prompts
BY DEF TypeOK, Row, Gates, Clicks, Acknowledgements

(* The prompts of the table are numbered within the bound.                 *)
LEMMA RowsArePrompts == TypeOK => DOMAIN approvals \subseteq Prompts
<1> SUFFICES ASSUME TypeOK PROVE DOMAIN approvals \subseteq Prompts
  OBVIOUS
<1>1. approvals \in Seq(Row) /\ Len(approvals) <= MaxPrompts
  BY Types
<1> QED
  BY <1>1, GateAssumption DEF Prompts

(* The states a gate is put in are of the type of gates.                   *)
LEMMA GateForms ==
    ASSUME TypeOK, NEW t \in Tasks
    PROVE  /\ NoGate \in Gates
           /\ \A stage \in Stages : [NoGate EXCEPT !.stage = stage] \in Gates
           /\ \A stage \in Stages, place \in Places :
                 [NoGate EXCEPT !.stage = stage, !.place = place] \in Gates
           /\ \A stage \in Stages : [gate[t] EXCEPT !.stage = stage] \in Gates
           /\ \A outcome \in Outcomes : Decided(t, outcome) \in Gates
<1>1. NoGate \in Gates
  BY GateAssumption DEF NoGate, Gates, Stages, Places, Outcomes
<1>2. gate[t] \in Gates
  BY Types
<1> QED
  BY <1>1, <1>2 DEF Gates, Decided, Stages

(* One gate moves and neither the table nor a human does: what remains to  *)
(* show is about that gate alone.                                          *)
LEMMA GateStep ==
    ASSUME IInv, NEW t \in Tasks, NEW g \in Gates, Become(t, g),
           UNCHANGED <<approvals, click, accepted>>, late' = late,
           g.stage \in {"check", "read"} => g.id \in DOMAIN approvals,
           g.stage = "decided" /\ g.outcome \in Decisions =>
              g.id \in DOMAIN approvals /\ approvals[g.id].decision = g.outcome,
           \A i \in acted' \ acted : i \in DOMAIN approvals /\ approvals[i].decision = "approved"
    PROVE  IInv'
<1>1. gate \in [Tasks -> Gates] /\ gate' = [gate EXCEPT ![t] = g]
  BY Types DEF IInv, Become
<1>2. gate' \in [Tasks -> Gates]
  BY <1>1
<1>3. acted' \subseteq Prompts
  BY RowsArePrompts, Types DEF IInv
<1>4. TypeOK'
  BY <1>2, <1>3, Types DEF TypeOK, IInv, Row, Gates
<1>5. WaitsOnRow' /\ ReportsRow'
  BY <1>1 DEF IInv, Grounded, WaitsOnRow, ReportsRow, At
<1>6. ClicksOnRow' /\ ActedOnApproval' /\ AcknowledgedStands'
  BY DEF IInv, Grounded, ClicksOnRow, ActedOnApproval, AcknowledgedStands
<1> QED
  BY <1>4, <1>5, <1>6 DEF IInv, Grounded

(* The table grows or decides a pending row: whatever was tied to a        *)
(* decided row still is.                                                   *)
LEMMA TableStep ==
    ASSUME IInv, TableKeeps
    PROVE  /\ \A i \in DOMAIN approvals : i \in DOMAIN approvals'
           /\ \A d \in Decisions, i \in DOMAIN approvals :
                 approvals[i].decision = d => approvals'[i] = approvals[i]
BY DEF TableKeeps, Decisions

-----------------------------------------------------------------------------

(* The inductive invariant holds initially.                                *)
LEMMA InitInvariant == Init => IInv
<1> SUFFICES ASSUME Init PROVE IInv
  OBVIOUS
<1>1. TypeOK
  BY GateAssumption
  DEF Init, TypeOK, NoGate, NoClick, Stages, Places, Outcomes, Decisions, Prompts
<1>2. Grounded
  BY DEF Init, Grounded, WaitsOnRow, ReportsRow, ClicksOnRow, ActedOnApproval,
         AcknowledgedStands, NoGate, NoClick, At
<1> QED
  BY <1>1, <1>2 DEF IInv

(* A prompt is inserted and its gate begins to wait.                       *)
LEMMA OpenPromptInvariant ==
    ASSUME IInv, NEW t \in Tasks, NEW place \in Places, OpenPrompt(t, place)
    PROVE  IInv'
<1> DEFINE row == [decision |-> "pending", by |-> Nobody, early |-> FALSE]
           g == [NoGate EXCEPT !.stage = "check", !.place = place, !.id = Len(approvals) + 1]
<1>1. /\ approvals \in Seq(Row) /\ Len(approvals) < MaxPrompts
      /\ approvals' = Append(approvals, row)
      /\ gate \in [Tasks -> Gates] /\ gate' = [gate EXCEPT ![t] = g]
      /\ UNCHANGED <<late, acted, click, accepted>>
  BY Types DEF IInv, OpenPrompt, Become, humanVars
<1>2. row \in Row
  BY DEF Row
<1>3. g \in Gates /\ g.stage = "check" /\ g.id = Len(approvals) + 1
  <2>1. Len(approvals) + 1 \in 0..MaxPrompts
    BY <1>1, GateAssumption
  <2>2. NoGate \in Gates
    BY GateForms DEF IInv
  <2> QED
    BY <2>1, <2>2 DEF Gates, Stages
<1> HIDE DEF row, g
<1>4. approvals' \in Seq(Row) /\ Len(approvals') <= MaxPrompts
  BY <1>1, <1>2, GateAssumption
<1>5. /\ TableKeeps
      /\ Len(approvals) + 1 \in DOMAIN approvals'
  BY <1>1, <1>2 DEF TableKeeps
<1>6. gate' \in [Tasks -> Gates]
  BY <1>1, <1>3
<1>7. TypeOK'
  BY <1>1, <1>4, <1>6, Types DEF IInv, TypeOK, Row, Gates
<1>8. WaitsOnRow' /\ ReportsRow'
  BY <1>1, <1>3, <1>5, TableStep DEF IInv, Grounded, WaitsOnRow, ReportsRow, At
<1>9. ClicksOnRow' /\ ActedOnApproval' /\ AcknowledgedStands'
  <2>1. ClicksOnRow'
    BY <1>1, <1>5, TableStep DEF IInv, Grounded, ClicksOnRow
  <2>2. ActedOnApproval'
    BY <1>1, <1>5, TableStep DEF IInv, Grounded, ActedOnApproval, Decisions
  <2>3. \A a \in accepted : a.decision \in Decisions /\ a.id \in DOMAIN approvals
    BY Types DEF IInv, Grounded, ClicksOnRow, Acknowledgements
  <2>4. AcknowledgedStands'
    BY <1>1, <1>5, <2>3, TableStep DEF IInv, Grounded, AcknowledgedStands
  <2> QED
    BY <2>1, <2>2, <2>4
<1> QED
  BY <1>7, <1>8, <1>9 DEF IInv, Grounded

(* A human's decision reaches the row.                                     *)
LEMMA RecordInvariant ==
    ASSUME IInv, NEW h \in Humans, Record(h)
    PROVE  IInv'
<1> DEFINE i == click[h].id
           d == click[h].decision
           new == RecordDecision(approvals[i], d, h, i \notin late)
           ack == [id |-> i, by |-> h, decision |-> d]
<1>1. /\ approvals \in Seq(Row) /\ Len(approvals) <= MaxPrompts
      /\ click \in [Humans -> Clicks]
      /\ accepted \subseteq Acknowledgements
  BY Types DEF IInv
<1>2. /\ i \in DOMAIN approvals /\ i \in Prompts /\ d \in Decisions
      /\ approvals[i] \in Row
  BY <1>1, RowsArePrompts DEF IInv, Grounded, ClicksOnRow, Record, Clicks
<1>3. /\ new \in Row
      /\ approvals[i].decision # "pending" => new = approvals[i]
      /\ new # approvals[i] => new.decision = d /\ new.by = h
  BY <1>2, RecordedRow
<1>4. /\ approvals' = [approvals EXCEPT ![i] = new]
      /\ accepted' = IF new = approvals[i] THEN accepted ELSE accepted \cup {ack}
      /\ click' = [click EXCEPT ![h] = NoClick]
      /\ UNCHANGED <<gate, late, acted>>
  BY DEF Record
<1>5. ack \in Acknowledgements /\ ack.id = i /\ ack.by = h /\ ack.decision = d
  BY <1>2 DEF Acknowledgements
<1>6. NoClick \in Clicks
  BY GateAssumption DEF NoClick, Clicks, Decisions
<1> HIDE DEF new, ack
<1>7. approvals' \in Seq(Row) /\ Len(approvals') = Len(approvals)
  BY <1>1, <1>2, <1>3, <1>4
<1>8. TableKeeps /\ approvals'[i] = new
  BY <1>1, <1>2, <1>3, <1>4 DEF TableKeeps
<1>9. TypeOK'
  <2>1. click' \in [Humans -> Clicks] /\ accepted' \subseteq Acknowledgements
    BY <1>1, <1>4, <1>5, <1>6
  <2> QED
    BY <1>1, <1>4, <1>7, <2>1 DEF IInv, TypeOK, Row, Clicks, Acknowledgements
<1>10. WaitsOnRow' /\ ReportsRow' /\ ActedOnApproval'
  BY <1>4, <1>8, TableStep DEF IInv, Grounded, WaitsOnRow, ReportsRow, ActedOnApproval, At,
     Decisions
<1>11. ClicksOnRow'
  BY <1>1, <1>2, <1>4, <1>5, <1>8, TableStep DEF IInv, Grounded, ClicksOnRow
<1>12. \A a \in accepted : a.decision \in Decisions /\ a.id \in DOMAIN approvals
  BY <1>1 DEF IInv, Grounded, ClicksOnRow, Acknowledgements
<1>13. AcknowledgedStands'
  BY <1>3, <1>4, <1>5, <1>8, <1>12, TableStep DEF IInv, Grounded, AcknowledgedStands
<1> QED
  BY <1>9, <1>10, <1>11, <1>13 DEF IInv, Grounded

(* Every step preserves the inductive invariant.                           *)
LEMMA StepInvariant == IInv /\ [Next]_vars => IInv'
<1> SUFFICES ASSUME IInv, [Next]_vars PROVE IInv'
  OBVIOUS
<1>1. CASE UNCHANGED vars
  BY <1>1 DEF vars, IInv, TypeOK, Grounded, WaitsOnRow, ReportsRow, ClicksOnRow,
     ActedOnApproval, AcknowledgedStands, At
<1>2. ASSUME NEW t \in Tasks, NEW place \in Places, OpenPrompt(t, place) PROVE IInv'
  BY <1>2, OpenPromptInvariant
<1>3. ASSUME NEW t \in Tasks, NEW place \in Places, OpenFails(t, place) PROVE IInv'
  <2> DEFINE g == [NoGate EXCEPT !.stage = "decided", !.place = place]
  <2>1. g \in Gates
    BY GateForms DEF IInv, Stages
  <2>2. g.stage = "decided" /\ g.outcome = "failed"
    BY DEF NoGate
  <2>3. /\ Become(t, g)
        /\ UNCHANGED <<approvals, click, accepted>> /\ late' = late /\ acted' = acted
    BY <1>3 DEF OpenFails, humanVars
  <2> HIDE DEF g
  <2> QED
    BY <2>1, <2>2, <2>3, GateStep DEF Decisions
<1>4. ASSUME NEW t \in Tasks, NoRule(t) \/ Finish(t) \/ Resume(t) \/ Lose(t) \/ Refuse(t)
      PROVE  IInv'
  <2>1. PICK g \in {NoGate} \cup {[NoGate EXCEPT !.stage = stage] : stage \in {"working", "over"}} :
           Become(t, g)
    BY <1>4 DEF NoRule, Finish, Resume, Lose, Refuse
  <2>2. NoGate \in Gates /\ NoGate.stage = "fresh"
    BY GateForms DEF IInv, NoGate
  <2>3. g \in Gates /\ g.stage \in {"fresh", "working", "over"}
    BY <2>1, <2>2 DEF Gates, Stages
  <2>4. UNCHANGED <<approvals, click, accepted>> /\ late' = late /\ acted' = acted
    BY <1>4 DEF NoRule, Finish, Resume, Lose, Refuse, humanVars
  <2> QED
    BY <2>1, <2>3, <2>4, GateStep
<1>5. ASSUME NEW t \in Tasks, CheckDeadline(t) PROVE IInv'
  <2> DEFINE g == IF gate[t].id \in late THEN Decided(t, "timeout")
                                         ELSE [gate[t] EXCEPT !.stage = "read"]
  <2>1. gate[t] \in Gates /\ gate[t].id \in DOMAIN approvals
    BY <1>5, Types DEF IInv, Grounded, WaitsOnRow, CheckDeadline, At
  <2>2. g \in Gates
    BY GateForms DEF IInv, Stages, Outcomes
  <2>3. /\ g.id = gate[t].id
        /\ g.stage = "decided" => g.outcome = "timeout"
    BY <2>1 DEF Decided, Gates
  <2>4. /\ Become(t, g)
        /\ UNCHANGED <<approvals, click, accepted>> /\ late' = late /\ acted' = acted
    BY <1>5 DEF CheckDeadline, humanVars
  <2> HIDE DEF g
  <2> QED
    BY <2>1, <2>2, <2>3, <2>4, GateStep DEF Decisions
<1>6. ASSUME NEW t \in Tasks, ReadRow(t) PROVE IInv'
  <2> DEFINE d == approvals[gate[t].id].decision
             g == IF d \in Decisions THEN Decided(t, d) ELSE [gate[t] EXCEPT !.stage = "check"]
  <2>1. gate[t] \in Gates /\ gate[t].id \in DOMAIN approvals
    BY <1>6, Types DEF IInv, Grounded, WaitsOnRow, ReadRow, At
  <2>2. g \in Gates
    BY GateForms DEF IInv, Stages, Outcomes
  <2>3. /\ g.id = gate[t].id
        /\ g.stage = "decided" /\ g.outcome \in Decisions => g.outcome = d
    BY <2>1 DEF Decided, Gates
  <2>4. /\ Become(t, g)
        /\ UNCHANGED <<approvals, click, accepted>> /\ late' = late /\ acted' = acted
    BY <1>6 DEF ReadRow, humanVars
  <2> HIDE DEF g
  <2> QED
    BY <2>1, <2>2, <2>3, <2>4, GateStep
<1>7. ASSUME NEW t \in Tasks, ReadError(t) PROVE IInv'
  <2> DEFINE g == [gate[t] EXCEPT !.stage = "check"]
  <2>1. gate[t] \in Gates /\ gate[t].id \in DOMAIN approvals
    BY <1>7, Types DEF IInv, Grounded, WaitsOnRow, ReadError, At
  <2>2. g \in Gates /\ g.stage = "check" /\ g.id = gate[t].id
    BY <2>1 DEF Stages, Gates
  <2>3. /\ Become(t, g)
        /\ UNCHANGED <<approvals, click, accepted>> /\ late' = late /\ acted' = acted
    BY <1>7 DEF ReadError, humanVars
  <2> HIDE DEF g
  <2> QED
    BY <2>1, <2>2, <2>3, GateStep
<1>8. ASSUME NEW t \in Tasks, Deadline(t) PROVE IInv'
  <2>1. gate[t].id \in Prompts
    BY <1>8, RowsArePrompts DEF IInv, Grounded, WaitsOnRow, Deadline
  <2>2. /\ late' = late \cup {gate[t].id}
        /\ UNCHANGED <<approvals, gate, acted, click, accepted>>
    BY <1>8 DEF Deadline, humanVars
  <2>3. TypeOK'
    BY <2>1, <2>2 DEF IInv, TypeOK
  <2>4. Grounded'
    BY <2>2 DEF IInv, Grounded, WaitsOnRow, ReportsRow, ClicksOnRow, ActedOnApproval,
       AcknowledgedStands, At
  <2> QED
    BY <2>3, <2>4 DEF IInv
<1>9. ASSUME NEW t \in Tasks, Proceed(t) PROVE IInv'
  <2> DEFINE g == [NoGate EXCEPT !.stage = "working"]
  <2>1. /\ gate[t].id \in DOMAIN approvals
        /\ approvals[gate[t].id].decision = "approved"
    BY <1>9 DEF IInv, Grounded, ReportsRow, Proceed, At, Decisions
  <2>2. g \in Gates /\ g.stage = "working"
    BY GateForms DEF IInv, Stages, NoGate
  <2>3. /\ Become(t, g)
        /\ UNCHANGED <<approvals, click, accepted>> /\ late' = late
        /\ acted' \subseteq acted \cup {gate[t].id}
    BY <1>9 DEF Proceed, humanVars
  <2> HIDE DEF g
  <2> QED
    BY <2>1, <2>2, <2>3, GateStep
<1>10. ASSUME NEW h \in Humans, NEW i \in Prompts, NEW d \in Decisions, Click(h, i, d)
       PROVE  IInv'
  <2>1. /\ i \in DOMAIN approvals
        /\ click' = [click EXCEPT ![h] = [id |-> i, decision |-> d]]
        /\ UNCHANGED <<approvals, gate, late, accepted, acted>>
    BY <1>10 DEF Click
  <2>2. click \in [Humans -> Clicks] /\ [id |-> i, decision |-> d] \in Clicks
    BY Types, GateAssumption DEF IInv, Clicks, Prompts
  <2>3. TypeOK'
    BY <2>1, <2>2 DEF IInv, TypeOK, Clicks
  <2>4. ClicksOnRow'
    BY <2>1, <2>2 DEF IInv, Grounded, ClicksOnRow
  <2>5. WaitsOnRow' /\ ReportsRow' /\ ActedOnApproval' /\ AcknowledgedStands'
    BY <2>1 DEF IInv, Grounded, WaitsOnRow, ReportsRow, ActedOnApproval, AcknowledgedStands, At
  <2> QED
    BY <2>3, <2>4, <2>5 DEF IInv, Grounded
<1>11. ASSUME NEW h \in Humans, Record(h) PROVE IInv'
  BY <1>11, RecordInvariant
<1> QED
  BY <1>1, <1>2, <1>3, <1>4, <1>5, <1>6, <1>7, <1>8, <1>9, <1>10, <1>11 DEF Next, Wait

LEMMA Invariant == Spec => []IInv
BY InitInvariant, StepInvariant, PTL DEF Spec

-----------------------------------------------------------------------------

(* Every variable stays in its type.                                       *)
THEOREM TypeCorrect == Spec => []TypeOK
<1>1. IInv => TypeOK
  BY DEF IInv
<1> QED
  BY <1>1, Invariant, PTL

(* However many gates poll and humans click, a gated action ran only on a  *)
(* prompt that is approved in the table, and stays so.                     *)
THEOREM OnlyApprovedRuns == Spec => []ActedOnApproval
<1>1. IInv => ActedOnApproval
  BY DEF IInv, Grounded
<1> QED
  BY <1>1, Invariant, PTL

(* record_decision decides each prompt at most once: what a human was told *)
(* is recorded is what the row says from then on.                          *)
THEOREM DecidedOnce == Spec => []AcknowledgedStands
<1>1. IInv => AcknowledgedStands
  BY DEF IInv, Grounded
<1> QED
  BY <1>1, Invariant, PTL

=============================================================================
