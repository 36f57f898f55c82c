------------------------------ MODULE TaskProofs ------------------------------
(***************************************************************************)
(* Proofs about TaskLifecycle and TaskStream, for every set of tasks,      *)
(* clients, subscribers and delegated tasks, every capacity of a queue and *)
(* every bound on turns and stops.                                         *)
(*                                                                         *)
(* The first part is about the table of the life cycle alone, the second   *)
(* about the streams over it: a stream ends on an event, and an event is a *)
(* claim about a row made some steps earlier.  So the inductive invariant  *)
(* of the second part says that every event still in a queue tells the     *)
(* truth of its row, which holds because an execution announces a closing  *)
(* only when it finds its row closed, and a closed row stays closed.       *)
(***************************************************************************)
EXTENDS TaskStream, SequenceTheorems, TLAPS

-----------------------------------------------------------------------------
(* The life cycle.                                                         *)

(* A submitted row is a row.                                               *)
LEMMA CreatedRow == CreateTask \in Rows(MaxTurns)
<1> USE LifecycleAssumption DEF Rows, Results, Statuses
<1>1. AbsentRow \in Rows(MaxTurns)
  BY DEF AbsentRow, NullResult
<1> QED
  BY <1>1 DEF CreateTask

(* Each statement of the store that takes only the row leaves a row.       *)
LEMMA StoreTypes ==
    ASSUME NEW row \in Rows(MaxTurns)
    PROVE  /\ MarkRunning(row) \in Rows(MaxTurns)
           /\ MarkFailed(row) \in Rows(MaxTurns)
           /\ MarkCancelled(row) \in Rows(MaxTurns)
           /\ row.resumes < MaxTurns => AppendResumeMessage(row) \in Rows(MaxTurns)
<1> USE LifecycleAssumption DEF Rows, Results, Statuses
<1>1. MarkRunning(row) \in Rows(MaxTurns)
  BY DEF MarkRunning
<1>2. MarkFailed(row) \in Rows(MaxTurns)
  BY DEF MarkFailed
<1>3. MarkCancelled(row) \in Rows(MaxTurns)
  BY DEF MarkCancelled
<1>4. row.resumes < MaxTurns => AppendResumeMessage(row) \in Rows(MaxTurns)
  <2> SUFFICES ASSUME row.resumes < MaxTurns
               PROVE  AppendResumeMessage(row) \in Rows(MaxTurns)
    OBVIOUS
  <2>1. NullResult \in Results(MaxTurns)
    BY DEF NullResult
  <2>2. row.resumes + 1 \in 0..MaxTurns
    OBVIOUS
  <2> QED
    BY <2>1, <2>2 DEF AppendResumeMessage
<1> QED
  BY <1>1, <1>2, <1>3, <1>4

(* ... and so do the two that store an answer or a question.               *)
LEMMA StoreResultTypes ==
    ASSUME NEW row \in Rows(MaxTurns), NEW n \in Execs
    PROVE  /\ MarkCompleted(row, n) \in Rows(MaxTurns)
           /\ MarkInputRequired(row, n) \in Rows(MaxTurns)
<1> USE LifecycleAssumption DEF Rows, Results, Statuses, Execs
<1>1. MarkCompleted(row, n) \in Rows(MaxTurns)
  BY DEF MarkCompleted
<1>2. MarkInputRequired(row, n) \in Rows(MaxTurns)
  BY DEF MarkInputRequired
<1> QED
  BY <1>1, <1>2

-----------------------------------------------------------------------------

(* Every step of an execution keeps the types.                             *)
LEMMA ExecuteTypes ==
    ASSUME TypeOK, NEW t \in Tasks, NEW k \in Execs, Execute(t, k)
    PROVE  TypeOK'
<1> USE LifecycleAssumption DEF TypeOK, Goto, othersVars, Phases
<1>1. CASE Load(t, k)
  BY <1>1 DEF Load, EndPhases, TryPhases, Execs, Rows
<1>2. CASE Start(t, k)
  BY <1>2, StoreTypes DEF Start, Write, TryPhases
<1>3. CASE SayStarted(t, k)
  BY <1>3 DEF SayStarted, Say, TryPhases, Statuses
<1>4. CASE PassGate(t, k)
  BY <1>4 DEF PassGate, execVars, TryPhases
<1>5. CASE RefuseGate(t, k)
  BY <1>5 DEF RefuseGate, execVars, TryPhases
<1>6. CASE CancelRefused(t, k)
  BY <1>6, StoreTypes DEF CancelRefused, Write, TryPhases
<1>7. CASE SayRefused(t, k)
  BY <1>7 DEF SayRefused, Say, EndPhases, Statuses
<1>8. CASE Succeed(t, k)
  BY <1>8 DEF Succeed, execVars, TryPhases
<1>9. CASE Ask(t, k)
  BY <1>9 DEF Ask, execVars, HandlerPhases
<1>10. CASE Raise(t, k)
  BY <1>10 DEF Raise, execVars, HandlerPhases
<1>11. CASE WriteCompleted(t, k)
  BY <1>11, StoreResultTypes DEF WriteCompleted, Write, TryPhases
<1>12. CASE SayCompleted(t, k)
  BY <1>12 DEF SayCompleted, Say, TailPhases, Statuses
<1>13. CASE WriteAsked(t, k)
  BY <1>13, StoreResultTypes DEF WriteAsked, Write, HandlerPhases
<1>14. CASE SayAsked(t, k)
  BY <1>14 DEF SayAsked, Say, TailPhases, Statuses
<1>15. CASE WriteFailed(t, k)
  BY <1>15, StoreTypes DEF WriteFailed, Write, HandlerPhases
<1>16. CASE SayFailed(t, k)
  BY <1>16 DEF SayFailed, Say, TailPhases, Statuses
<1>17. CASE Reload(t, k)
  BY <1>17 DEF Reload, TailPhases, Rows
<1>18. CASE Deliver(t, k)
  BY <1>18 DEF Deliver, TailPhases
<1>19. CASE Inject(t, k)
  <2>1. pc' \in [Tasks -> [Execs -> Phases]]
    BY <1>19 DEF Inject, EndPhases
  <2>2. notes' \in [Tasks -> SUBSET Payloads]
    <3> DEFINE note == [by |-> k, status |-> final[t][k]]
    <3>1. final[t][k] \in TerminalStatuses => note \in Payloads
      BY DEF Payloads, TerminalStatuses, Statuses
    <3>2. \/ /\ final[t][k] \in TerminalStatuses
             /\ notes' = [notes EXCEPT ![t] = @ \cup {note}]
          \/ notes' = notes
      BY <1>19 DEF Inject
    <3> HIDE DEF note
    <3>3. CASE notes' = notes
      BY <3>3
    <3>4. CASE /\ final[t][k] \in TerminalStatuses
               /\ notes' = [notes EXCEPT ![t] = @ \cup {note}]
      <4>1. notes[t] \cup {note} \in SUBSET Payloads
        BY <3>1, <3>4
      <4> QED
        BY <3>4, <4>1
    <3> QED
      BY <3>2, <3>3, <3>4
  <2> QED
    BY <1>19, <2>1, <2>2 DEF Inject
<1>20. CASE CancelAborted(t, k)
  BY <1>20, StoreTypes DEF CancelAborted, Write, AbortPhases
<1>21. CASE SayAborted(t, k)
  BY <1>21 DEF SayAborted, Say, EndPhases, Statuses
<1> QED
  BY <1>1, <1>2, <1>3, <1>4, <1>5, <1>6, <1>7, <1>8, <1>9, <1>10, <1>11, <1>12,
     <1>13, <1>14, <1>15, <1>16, <1>17, <1>18, <1>19, <1>20, <1>21 DEF Execute

(* Going down leads every execution to a phase.                            *)
LEMMA DownPhases == /\ Cancelled \in [Phases -> Phases]
                    /\ Killed \in [Phases -> Phases]
BY DEF Cancelled, Killed, Phases, EndPhases, AbortPhases

(* ... and keeps the types.                                                *)
LEMMA DownTypes ==
    ASSUME TypeOK, NEW after \in [Phases -> Phases], Down(after)
    PROVE  TypeOK'
<1> USE LifecycleAssumption DEF TypeOK
<1>1. pc' \in [Tasks -> [Execs -> Phases]]
  <2>1. \A t \in Tasks, k \in Execs : after[pc[t][k]] \in Phases
    OBVIOUS
  <2>2. pc' = [t \in Tasks |-> [k \in Execs |-> after[pc[t][k]]]]
    BY DEF Down
  <2> QED
    BY <2>1, <2>2
<1>2. answering' \in [Clients -> Tasks \cup {Nobody}]
  BY DEF Down
<1>3. stops' \in 0..MaxStops
  BY DEF Down
<1> QED
  BY <1>1, <1>2, <1>3 DEF Down, execVars

(* Every variable stays in its type.                                       *)
THEOREM TypeCorrect == Spec => []TypeOK
<1> USE LifecycleAssumption
<1>1. Init => TypeOK
  BY DEF Init, TypeOK, Rows, Results, AbsentRow, NullResult, Execs, Phases,
         EndPhases, Statuses
<1>2. TypeOK /\ [Next]_vars => TypeOK'
  <2> SUFFICES ASSUME TypeOK, [Next]_vars PROVE TypeOK'
    OBVIOUS
  <2> USE DEF TypeOK
  <2>1. ASSUME NEW t \in Tasks, Submit(t) PROVE TypeOK'
    BY <2>1, CreatedRow DEF Submit, requestVars, Execs, Phases
  <2>2. ASSUME NEW t \in Tasks, CancelTask(t) PROVE TypeOK'
    BY <2>2, StoreTypes DEF CancelTask, requestVars
  <2>3. ASSUME NEW t \in Tasks, NEW k \in Execs, Schedule(t, k) PROVE TypeOK'
    BY <2>3 DEF Schedule, requestVars, Phases
  <2>4. ASSUME NEW t \in Tasks, NEW k \in Execs, Break(t, k) PROVE TypeOK'
    BY <2>4 DEF Break, requestVars, Phases, EndPhases
  <2>5. ASSUME NEW c \in Clients, NEW t \in Tasks, CheckAnswer(c, t) PROVE TypeOK'
    BY <2>5 DEF CheckAnswer, requestVars
  <2>6. ASSUME NEW c \in Clients, WriteAnswer(c) PROVE TypeOK'
    <3> DEFINE t == answering[c]
               new == AppendResumeMessage(rows[t])
    <3>1. t \in Tasks /\ rows[t].resumes < MaxTurns
      BY <2>6 DEF WriteAnswer
    <3>2. new \in Rows(MaxTurns) /\ new.resumes \in Execs
      BY <3>1, StoreTypes DEF Rows, Execs
    <3>3. pc' = pc \/ pc' = [pc EXCEPT ![t][new.resumes] = "handoff"]
      BY <2>6 DEF WriteAnswer
    <3>4. rows' = [rows EXCEPT ![t] = new]
      BY <2>6 DEF WriteAnswer
    <3>5. /\ UNCHANGED requestVars
          /\ answering' = [answering EXCEPT ![c] = Nobody]
      BY <2>6 DEF WriteAnswer
    <3> HIDE DEF t, new
    <3>6. pc' \in [Tasks -> [Execs -> Phases]]
      <4>1. "handoff" \in Phases
        BY DEF Phases
      <4>2. CASE pc' = pc
        BY <4>2
      <4>3. CASE pc' = [pc EXCEPT ![t][new.resumes] = "handoff"]
        BY <3>1, <3>2, <4>1, <4>3
      <4> QED
        BY <3>3, <4>2, <4>3
    <3> QED
      BY <3>1, <3>2, <3>4, <3>5, <3>6 DEF requestVars
  <2>7. ASSUME NEW c \in Clients, DropAnswer(c) PROVE TypeOK'
    BY <2>7 DEF DropAnswer, requestVars
  <2>8. CASE Stop
    BY <2>8, DownPhases, DownTypes DEF Stop
  <2>9. CASE Crash
    BY <2>9, DownPhases, DownTypes DEF Crash
  <2>10. CASE Restart
    BY <2>10 DEF Restart, execVars
  <2>11. CASE UNCHANGED vars
    BY <2>11 DEF vars
  <2> QED
    BY <2>1, <2>2, <2>3, <2>4, <2>5, <2>6, <2>7, <2>8, <2>9, <2>10, <2>11,
       ExecuteTypes DEF Next
<1> QED
  BY <1>1, <1>2, PTL DEF Spec

-----------------------------------------------------------------------------
(* Ownership: at most one execution of a task may still write its row.     *)

\* What a step of execution k of task t may do to the executions and to the
\* rows: it moves alone, never becomes an owner, keeps the answers, and
\* writes a new status only while it owns the task - giving the task up when
\* the status it writes is a question.
Effect(t, k) ==
    /\ \A u \in Tasks, j \in Execs : u # t \/ j # k => pc'[u][j] = pc[u][j]
    /\ \A u \in Tasks : u # t => rows'[u] = rows[u]
    /\ pc[t][k] # "idle" /\ pc'[t][k] # "idle"
    /\ pc'[t][k] \in Owning => Owner(t, k)
    /\ rows'[t].resumes = rows[t].resumes
    /\ rows'[t].status = "absent" => rows[t].status = "absent"
    /\ rows'[t].status # rows[t].status => Owner(t, k)
    /\ rows'[t].status = "input_required" /\ rows[t].status # "input_required"
         => pc'[t][k] \notin Owning

(* The statements of the store, as far as ownership is concerned.          *)
LEMMA StoreStatus ==
    ASSUME NEW row \in Rows(MaxTurns), NEW n \in Execs
    PROVE  /\ \A new \in {MarkRunning(row), MarkFailed(row), MarkCancelled(row),
                          MarkCompleted(row, n)} :
                 /\ new.resumes = row.resumes
                 /\ new.status = "absent" => row.status = "absent"
                 /\ new.status = "input_required" => row.status = "input_required"
           /\ MarkInputRequired(row, n).resumes = row.resumes
           /\ MarkInputRequired(row, n).status = "absent" => row.status = "absent"
BY DEF Rows, MarkRunning, MarkFailed, MarkCancelled, MarkCompleted, MarkInputRequired

LEMMA ExecuteEffect ==
    ASSUME TypeOK, NEW t \in Tasks, NEW k \in Execs, Execute(t, k)
    PROVE  Effect(t, k)
<1> USE LifecycleAssumption
        DEF TypeOK, Effect, Goto, Owner, Owning
<1>1. CASE Load(t, k)
  BY <1>1 DEF Load, TryPhases, EndPhases
<1>2. CASE Start(t, k)
  BY <1>2, StoreStatus DEF Start, Write, TryPhases
<1>3. CASE SayStarted(t, k)
  BY <1>3 DEF SayStarted, Say, TryPhases
<1>4. CASE PassGate(t, k)
  BY <1>4 DEF PassGate, execVars, TryPhases
<1>5. CASE RefuseGate(t, k)
  BY <1>5 DEF RefuseGate, execVars, TryPhases
<1>6. CASE CancelRefused(t, k)
  BY <1>6, StoreStatus DEF CancelRefused, Write, TryPhases
<1>7. CASE SayRefused(t, k)
  BY <1>7 DEF SayRefused, Say, TryPhases
<1>8. CASE Succeed(t, k)
  BY <1>8 DEF Succeed, execVars, TryPhases
<1>9. CASE Ask(t, k)
  BY <1>9 DEF Ask, execVars, TryPhases
<1>10. CASE Raise(t, k)
  BY <1>10 DEF Raise, execVars, TryPhases
<1>11. CASE WriteCompleted(t, k)
  BY <1>11, StoreStatus DEF WriteCompleted, Write, TryPhases
<1>12. CASE SayCompleted(t, k)
  BY <1>12 DEF SayCompleted, Say, TryPhases
<1>13. CASE WriteAsked(t, k)
  BY <1>13, StoreStatus DEF WriteAsked, Write, TryPhases
<1>14. CASE SayAsked(t, k)
  BY <1>14 DEF SayAsked, Say, TryPhases
<1>15. CASE WriteFailed(t, k)
  BY <1>15, StoreStatus DEF WriteFailed, Write, TryPhases
<1>16. CASE SayFailed(t, k)
  BY <1>16 DEF SayFailed, Say, TryPhases
<1>17. CASE Reload(t, k)
  BY <1>17 DEF Reload, execVars, TryPhases
<1>18. CASE Deliver(t, k)
  BY <1>18 DEF Deliver, execVars, TryPhases
<1>19. CASE Inject(t, k)
  BY <1>19 DEF Inject, execVars, TryPhases
<1>20. CASE CancelAborted(t, k)
  BY <1>20, StoreStatus DEF CancelAborted, Write, TryPhases
<1>21. CASE SayAborted(t, k)
  BY <1>21 DEF SayAborted, Say, TryPhases
<1> QED
  BY <1>1, <1>2, <1>3, <1>4, <1>5, <1>6, <1>7, <1>8, <1>9, <1>10, <1>11,
     <1>12, <1>13, <1>14, <1>15, <1>16, <1>17, <1>18, <1>19, <1>20, <1>21 DEF Execute

Ownership == OwnerIsLatest /\ AskedIsUnowned /\ ExecsFollowTurns

(* A step with such an effect keeps the ownership invariants.              *)
LEMMA EffectOwnership ==
    ASSUME TypeOK, Ownership, NEW t \in Tasks, NEW k \in Execs, Effect(t, k)
    PROVE  Ownership'
<1> USE DEF Effect, Ownership, OwnerIsLatest, AskedIsUnowned, ExecsFollowTurns, Owner
<1>1. OwnerIsLatest'
  OBVIOUS
<1>2. AskedIsUnowned'
  OBVIOUS
<1>3. ExecsFollowTurns'
  OBVIOUS
<1> QED
  BY <1>1, <1>2, <1>3

(* Every step keeps the ownership invariants.                              *)
LEMMA OwnershipStep == TypeOK /\ Ownership /\ [Next]_vars => Ownership'
<1> SUFFICES ASSUME TypeOK, Ownership, [Next]_vars PROVE Ownership'
  OBVIOUS
<1> USE LifecycleAssumption
<1>1. ASSUME NEW t \in Tasks, NEW k \in Execs, Execute(t, k) PROVE Ownership'
  BY <1>1, ExecuteEffect, EffectOwnership
<1>2. ASSUME NEW t \in Tasks, Submit(t) PROVE Ownership'
  BY <1>2 DEF Submit, CreateTask, AbsentRow, TypeOK, Ownership, OwnerIsLatest,
              AskedIsUnowned, ExecsFollowTurns, Owner, Owning, TryPhases, Execs
<1>3. ASSUME NEW t \in Tasks, CancelTask(t) PROVE Ownership'
  BY <1>3 DEF CancelTask, MarkCancelled, Open, TypeOK, Rows, Ownership, OwnerIsLatest,
              AskedIsUnowned, ExecsFollowTurns, Owner
<1>4. ASSUME NEW t \in Tasks, NEW k \in Execs, Schedule(t, k) PROVE Ownership'
  <2>1. Effect(t, k)
    BY <1>4 DEF Schedule, Effect, TypeOK, Owner, Owning
  <2> QED
    BY <2>1, EffectOwnership
<1>5. ASSUME NEW t \in Tasks, NEW k \in Execs, Break(t, k) PROVE Ownership'
  <2>1. Effect(t, k)
    BY <1>5 DEF Break, Unguarded, Effect, TypeOK, Owner, Owning, TryPhases
  <2> QED
    BY <2>1, EffectOwnership
<1>6. ASSUME NEW c \in Clients, WriteAnswer(c) PROVE Ownership'
  <2> DEFINE t == answering[c]
             new == AppendResumeMessage(rows[t])
  <2>1. /\ t \in Tasks
        /\ rows[t].resumes < MaxTurns
        /\ rows' = [rows EXCEPT ![t] = new]
        /\ pc' = IF new = rows[t] THEN pc ELSE [pc EXCEPT ![t][new.resumes] = "handoff"]
    BY <1>6 DEF WriteAnswer, TypeOK
  <2>2. CASE new = rows[t]
    <3>1. rows' = rows /\ pc' = pc
      BY <2>1, <2>2 DEF TypeOK
    <3> QED
      BY <3>1 DEF Ownership, OwnerIsLatest, AskedIsUnowned, ExecsFollowTurns, Owner
  <2>3. CASE new # rows[t]
    <3>1. /\ rows[t].status = "input_required"
          /\ new.status = "running"
          /\ new.resumes = rows[t].resumes + 1
          /\ new.resumes \in Execs
      BY <2>1, <2>3 DEF AppendResumeMessage, TypeOK, Rows, Execs
    <3>2. \A k \in Execs : ~Owner(t, k)
      BY <2>1, <3>1 DEF Ownership, AskedIsUnowned
    <3>3. pc' = [pc EXCEPT ![t][new.resumes] = "handoff"]
      BY <2>1, <2>3
    <3>4. rows[t].resumes \in Nat /\ \A u \in Tasks : rows[u].resumes \in Nat
      BY <2>1 DEF TypeOK, Rows
    <3> HIDE DEF t, new
    <3>5. \A u \in Tasks : rows'[u] = IF u = t THEN new ELSE rows[u]
      BY <2>1 DEF TypeOK
    <3>6. \A u \in Tasks, k \in Execs :
             pc'[u][k] = IF u = t /\ k = new.resumes THEN "handoff" ELSE pc[u][k]
      BY <2>1, <3>1, <3>3 DEF TypeOK
    <3> USE DEF Ownership, Owner
    <3>7. OwnerIsLatest'
      BY <3>1, <3>2, <3>5, <3>6 DEF OwnerIsLatest
    <3>8. AskedIsUnowned'
      BY <3>1, <3>5, <3>6 DEF AskedIsUnowned
    <3>9. ExecsFollowTurns'
      BY <3>1, <3>4, <3>5, <3>6 DEF ExecsFollowTurns, Execs
    <3> QED
      BY <3>7, <3>8, <3>9
  <2> QED
    BY <2>2, <2>3
<1>7. ASSUME Stop \/ Crash PROVE Ownership'
  <2>1. PICK after \in {Cancelled, Killed} : Down(after)
    BY <1>7 DEF Stop, Crash
  <2>2. \A p \in Phases : /\ after[p] \in Owning => p \in Owning
                          /\ p = "idle" => after[p] = "idle"
    BY <2>1 DEF Cancelled, Killed, Owning, TryPhases, EndPhases, Phases
  <2>3. \A t \in Tasks, k \in Execs : pc'[t][k] = after[pc[t][k]] /\ pc[t][k] \in Phases
    BY <2>1 DEF Down, TypeOK
  <2>4. rows' = rows
    BY <2>1 DEF Down, execVars
  <2> QED
    BY <2>2, <2>3, <2>4
       DEF Ownership, OwnerIsLatest, AskedIsUnowned, ExecsFollowTurns, Owner
<1>8. ASSUME UNCHANGED <<rows, pc>> PROVE Ownership'
  BY <1>8 DEF Ownership, OwnerIsLatest, AskedIsUnowned, ExecsFollowTurns, Owner
<1> QED
  <2>1. ASSUME NEW c \in Clients, NEW t \in Tasks, CheckAnswer(c, t)
        PROVE  UNCHANGED <<rows, pc>>
    BY <2>1 DEF CheckAnswer
  <2>2. ASSUME NEW c \in Clients, DropAnswer(c) PROVE UNCHANGED <<rows, pc>>
    BY <2>2 DEF DropAnswer
  <2>3. ASSUME Restart PROVE UNCHANGED <<rows, pc>>
    BY <2>3 DEF Restart, execVars
  <2>4. UNCHANGED vars => UNCHANGED <<rows, pc>>
    BY DEF vars
  <2> QED
    BY <1>1, <1>2, <1>3, <1>4, <1>5, <1>6, <1>7, <1>8, <2>1, <2>2, <2>3, <2>4 DEF Next

LEMMA OwnershipHolds == Spec => []Ownership
<1>1. Init => Ownership
  BY DEF Init, Ownership, OwnerIsLatest, AskedIsUnowned, ExecsFollowTurns, Owner,
         Owning, TryPhases, AbsentRow
<1> QED
  BY <1>1, OwnershipStep, TypeCorrect, PTL DEF Spec

(* No task ever has two executions that may write its row.                 *)
THEOREM OneOwner == Spec => []OwnerIsLatest
<1>1. Ownership => OwnerIsLatest
  BY DEF Ownership
<1> QED
  BY <1>1, OwnershipHolds, PTL

(* None may write it while it waits for its user.                          *)
THEOREM AskedHasNoOwner == Spec => []AskedIsUnowned
<1>1. Ownership => AskedIsUnowned
  BY DEF Ownership
<1> QED
  BY <1>1, OwnershipHolds, PTL

-----------------------------------------------------------------------------
(* What the rows hold and what is told about them.                         *)

RowContents == ResultSeesEveryTurn /\ PromptIsOpen /\ StampsFollowStatus

Contents == BegunRows /\ TurnsRead /\ RowContents /\ FinalRead /\ NoticesAreTrue

(* The only message an Inject step may add tells the status it re-read.     *)
LEMMA InjectNotes ==
    ASSUME TypeOK, NEW t \in Tasks, NEW k \in Execs, Inject(t, k)
    PROVE  \A u \in Tasks : \A p \in notes'[u] :
              \/ p \in notes[u]
              \/ u = t /\ p.status = final[t][k] /\ final[t][k] \in TerminalStatuses
<1> DEFINE note == [by |-> k, status |-> final[t][k]]
<1>1. note.status = final[t][k]
  OBVIOUS
<1>2. \/ /\ final[t][k] \in TerminalStatuses
         /\ notes' = [notes EXCEPT ![t] = @ \cup {note}]
      \/ notes' = notes
  BY DEF Inject
<1>3. notes \in [Tasks -> SUBSET Payloads]
  BY DEF TypeOK
<1> HIDE DEF note
<1>4. CASE notes' = notes
  BY <1>4
<1>5. CASE /\ final[t][k] \in TerminalStatuses
           /\ notes' = [notes EXCEPT ![t] = @ \cup {note}]
  <2>1. \A u \in Tasks : notes'[u] = IF u = t THEN notes[t] \cup {note} ELSE notes[u]
    BY <1>3, <1>5
  <2>2. \A u \in Tasks : \A p \in notes'[u] : p \in notes[u] \/ (u = t /\ p = note)
    BY <2>1
  <2> QED
    BY <1>1, <1>5, <2>2
<1> QED
  BY <1>2, <1>4, <1>5

LEMMA ExecuteContents ==
    ASSUME TypeOK, Ownership, Contents, NEW t \in Tasks, NEW k \in Execs, Execute(t, k)
    PROVE  Contents'
<1>0. ASSUME Inject(t, k)
      PROVE  \A u \in Tasks : \A p \in notes'[u] :
                \/ p \in notes[u]
                \/ u = t /\ p.status = final[t][k] /\ final[t][k] \in TerminalStatuses
  BY <1>0, InjectNotes
<1> USE DEF TypeOK, Rows, Goto, Contents, RowContents, BegunRows, TurnsRead, FinalRead,
            NoticesAreTrue, ResultSeesEveryTurn, PromptIsOpen, StampsFollowStatus,
            IsTerminal, TerminalStatuses, TryPhases
<1>1. CASE Load(t, k)
  BY <1>1 DEF Load, Ownership, OwnerIsLatest, AskedIsUnowned, ExecsFollowTurns, Owner, Owning, Open, ClosedStatuses
<1>2. CASE Start(t, k)
  BY <1>2 DEF Start, Write, MarkRunning, Ownership, OwnerIsLatest, AskedIsUnowned, ExecsFollowTurns, Owner, Owning, Open, ClosedStatuses
<1>3. CASE SayStarted(t, k)
  BY <1>3 DEF SayStarted, Say
<1>4. CASE PassGate(t, k)
  BY <1>4 DEF PassGate, execVars
<1>5. CASE RefuseGate(t, k)
  BY <1>5 DEF RefuseGate, execVars
<1>6. CASE CancelRefused(t, k)
  BY <1>6 DEF CancelRefused, Write, MarkCancelled, Ownership, OwnerIsLatest, AskedIsUnowned, ExecsFollowTurns, Owner, Owning, Open, ClosedStatuses
<1>7. CASE SayRefused(t, k)
  BY <1>7 DEF SayRefused, Say
<1>8. CASE Succeed(t, k)
  BY <1>8 DEF Succeed, execVars
<1>9. CASE Ask(t, k)
  BY <1>9 DEF Ask, execVars
<1>10. CASE Raise(t, k)
  BY <1>10 DEF Raise, execVars
<1>11. CASE WriteCompleted(t, k)
  BY <1>11 DEF WriteCompleted, Write, MarkCompleted, Ownership, OwnerIsLatest, AskedIsUnowned, ExecsFollowTurns, Owner, Owning, Open, ClosedStatuses
<1>12. CASE SayCompleted(t, k)
  BY <1>12 DEF SayCompleted, Say
<1>13. CASE WriteAsked(t, k)
  BY <1>13 DEF WriteAsked, Write, MarkInputRequired, Ownership, OwnerIsLatest, AskedIsUnowned, ExecsFollowTurns, Owner, Owning, Open, ClosedStatuses
<1>14. CASE SayAsked(t, k)
  BY <1>14 DEF SayAsked, Say
<1>15. CASE WriteFailed(t, k)
  BY <1>15 DEF WriteFailed, Write, MarkFailed, Ownership, OwnerIsLatest, AskedIsUnowned, ExecsFollowTurns, Owner, Owning, Open, ClosedStatuses
<1>16. CASE SayFailed(t, k)
  BY <1>16 DEF SayFailed, Say
<1>17. CASE Reload(t, k)
  BY <1>17 DEF Reload, execVars
<1>18. CASE Deliver(t, k)
  BY <1>18 DEF Deliver, execVars
<1>19. CASE Inject(t, k)
  <2>1. /\ pc[t][k] = "inject"
        /\ pc' = [pc EXCEPT ![t][k] = "done"]
        /\ UNCHANGED <<rows, turns, final, posts>>
    BY <1>19 DEF Inject
  <2>2. final[t][k] \in TerminalStatuses => rows[t].status = final[t][k]
    BY <2>1
  <2>3. NoticesAreTrue'
    BY <1>0, <1>19, <2>1, <2>2
  <2>4. (BegunRows /\ TurnsRead /\ RowContents /\ FinalRead)'
    BY <2>1
  <2> QED
    BY <2>3, <2>4
<1>20. CASE CancelAborted(t, k)
  BY <1>20 DEF CancelAborted, Write, MarkCancelled, Ownership, OwnerIsLatest, AskedIsUnowned, ExecsFollowTurns, Owner, Owning, Open, ClosedStatuses
<1>21. CASE SayAborted(t, k)
  BY <1>21 DEF SayAborted, Say
<1> QED
  BY <1>1, <1>2, <1>3, <1>4, <1>5, <1>6, <1>7, <1>8, <1>9, <1>10, <1>11,
     <1>12, <1>13, <1>14, <1>15, <1>16, <1>17, <1>18, <1>19, <1>20, <1>21 DEF Execute

LEMMA ContentsStep == TypeOK /\ Ownership /\ Contents /\ [Next]_vars => Contents'
<1> SUFFICES ASSUME TypeOK, Ownership, Contents, [Next]_vars PROVE Contents'
  OBVIOUS
<1> USE DEF Contents, RowContents, BegunRows, TurnsRead, FinalRead, NoticesAreTrue,
            ResultSeesEveryTurn, PromptIsOpen, StampsFollowStatus
<1>1. ASSUME NEW t \in Tasks, NEW k \in Execs, Execute(t, k) PROVE Contents'
  BY <1>1, ExecuteContents
<1>2. ASSUME NEW t \in Tasks, Submit(t) PROVE Contents'
  <2>1. /\ \A u \in Tasks : rows'[u] = IF u = t THEN CreateTask ELSE rows[u]
        /\ \A u \in Tasks, k \in Execs :
              pc'[u][k] = IF u = t /\ k = 0 THEN "handoff" ELSE pc[u][k]
        /\ UNCHANGED <<turns, final, posts, notes>>
    BY <1>2 DEF Submit, requestVars, TypeOK
  <2>2. /\ rows[t].status = "absent"
        /\ \A k \in Execs : pc[t][k] = "idle"
    BY <1>2 DEF Submit, Ownership, ExecsFollowTurns
  <2> QED
    BY <2>1, <2>2 DEF CreateTask, AbsentRow, NullResult, IsTerminal, TerminalStatuses, TryPhases
<1>3. ASSUME NEW t \in Tasks, CancelTask(t) PROVE Contents'
  BY <1>3 DEF CancelTask, requestVars, MarkCancelled, Open, ClosedStatuses, IsTerminal,
              TerminalStatuses, TypeOK, Rows
<1>4. ASSUME NEW t \in Tasks, NEW k \in Execs, Schedule(t, k) \/ Break(t, k)
      PROVE  Contents'
  <2>1. \A u \in Tasks, j \in Execs :
           pc'[u][j] = pc[u][j] \/ pc'[u][j] \in {"scheduled", "lost"}
    <3>1. pc \in [Tasks -> [Execs -> Phases]]
      BY DEF TypeOK
    <3>2. PICK to \in {"scheduled", "lost"} : pc' = [pc EXCEPT ![t][k] = to]
      BY <1>4 DEF Schedule, Break
    <3> QED
      BY <3>1, <3>2
  <2>2. UNCHANGED <<rows, turns, final, posts, notes>>
    BY <1>4 DEF Schedule, Break, requestVars
  <2> QED
    BY <2>1, <2>2 DEF TryPhases
<1>5. ASSUME NEW c \in Clients, WriteAnswer(c) PROVE Contents'
  <2> DEFINE t == answering[c]
             new == AppendResumeMessage(rows[t])
  <2>1. /\ t \in Tasks
        /\ rows' = [rows EXCEPT ![t] = new]
        /\ pc' = IF new = rows[t] THEN pc ELSE [pc EXCEPT ![t][new.resumes] = "handoff"]
        /\ UNCHANGED <<turns, final, posts, notes>>
    BY <1>5 DEF WriteAnswer, requestVars, TypeOK
  <2>2. CASE new = rows[t]
    <3>1. rows' = rows /\ pc' = pc
      BY <2>1, <2>2 DEF TypeOK
    <3> QED
      BY <2>1, <3>1
  <2>3. CASE new # rows[t]
    <3>1. /\ rows[t].status = "input_required"
          /\ new = [rows[t] EXCEPT !.status = "running", !.result = NullResult,
                                   !.resumes = @ + 1]
      BY <2>1, <2>3 DEF AppendResumeMessage
    <3>2. \A u \in Tasks : rows'[u] = IF u = t THEN new ELSE rows[u]
      BY <2>1 DEF TypeOK
    <3>3. \A u \in Tasks, k \in Execs : pc'[u][k] = pc[u][k] \/ pc'[u][k] = "handoff"
      BY <2>1, <2>3 DEF TypeOK
    <3>4. /\ new.status = "running" /\ new.result.kind = "null"
          /\ new.finished = rows[t].finished /\ new.started = rows[t].started
      <4>1. DOMAIN rows[t] = {"status", "result", "error", "started", "finished", "resumes"}
        BY <2>1 DEF TypeOK, Rows
      <4> HIDE DEF t, new
      <4> QED
        BY <3>1, <4>1 DEF NullResult
    <3>5. rows[t].started
      BY <2>1, <3>1
    <3> HIDE DEF t, new
    <3> QED
      BY <2>1, <3>1, <3>2, <3>3, <3>4, <3>5 DEF IsTerminal, TerminalStatuses, TryPhases
  <2> QED
    BY <2>2, <2>3
<1>6. ASSUME Stop \/ Crash PROVE Contents'
  <2>1. PICK after \in {Cancelled, Killed} : Down(after)
    BY <1>6 DEF Stop, Crash
  <2>2. \A p \in Phases : after[p] = p \/ after[p] \in {"aborting", "lost"}
    BY <2>1 DEF Cancelled, Killed
  <2>3. \A t \in Tasks, k \in Execs : pc'[t][k] = after[pc[t][k]] /\ pc[t][k] \in Phases
    BY <2>1 DEF Down, TypeOK
  <2>4. UNCHANGED execVars
    BY <2>1 DEF Down
  <2> QED
    BY <2>2, <2>3, <2>4 DEF execVars, TryPhases
<1>7. ASSUME UNCHANGED <<execVars, pc>> PROVE Contents'
  BY <1>7 DEF execVars
<1> QED
  <2>1. ASSUME NEW c \in Clients, NEW t \in Tasks, CheckAnswer(c, t)
        PROVE  UNCHANGED <<execVars, pc>>
    BY <2>1 DEF CheckAnswer, requestVars, execVars
  <2>2. ASSUME NEW c \in Clients, DropAnswer(c) PROVE UNCHANGED <<execVars, pc>>
    BY <2>2 DEF DropAnswer, requestVars, execVars
  <2>3. ASSUME Restart PROVE UNCHANGED <<execVars, pc>>
    BY <2>3 DEF Restart
  <2>4. UNCHANGED vars => UNCHANGED <<execVars, pc>>
    BY DEF vars, execVars
  <2> QED
    BY <1>1, <1>2, <1>3, <1>4, <1>5, <1>6, <1>7, <2>1, <2>2, <2>3, <2>4 DEF Next

\* The inductive invariant of the module.
IInv == TypeOK /\ Ownership /\ Contents

LEMMA Inductive == Spec => []IInv
<1>1. Init => Ownership
  BY DEF Init, Ownership, OwnerIsLatest, AskedIsUnowned, ExecsFollowTurns, Owner,
         Owning, TryPhases, AbsentRow
<1>2. Init => Contents
  BY DEF Init, Contents, RowContents, BegunRows, TurnsRead, FinalRead, NoticesAreTrue,
         ResultSeesEveryTurn, PromptIsOpen, StampsFollowStatus, AbsentRow, NullResult,
         TryPhases, IsTerminal, TerminalStatuses
<1>3. IInv <=> TypeOK /\ Ownership /\ Contents
  BY DEF IInv
<1> QED
  BY <1>1, <1>2, <1>3, TypeCorrect, OwnershipStep, ContentsStep, PTL DEF Spec

(* A result or question was computed from every accepted answer.           *)
THEOREM ResultsAreCurrent == Spec => []ResultSeesEveryTurn
<1>1. IInv => ResultSeesEveryTurn
  BY DEF IInv, Contents, RowContents
<1> QED
  BY <1>1, Inductive, PTL

(* A question is found only where it is still to be answered, or the task  *)
(* was cancelled before it was.                                            *)
THEOREM PromptsAreOpen == Spec => []PromptIsOpen
<1>1. IInv => PromptIsOpen
  BY DEF IInv, Contents, RowContents
<1> QED
  BY <1>1, Inductive, PTL

(* The timestamps of a row fit its status.                                 *)
THEOREM RowsAreStamped == Spec => []StampsFollowStatus
<1>1. IInv => StampsFollowStatus
  BY DEF IInv, Contents, RowContents
<1> QED
  BY <1>1, Inductive, PTL

(* A final status told by webhook or in the conversation is the row's, for *)
(* ever.                                                                   *)
THEOREM NoticesTellTheRow == Spec => []NoticesAreTrue
<1>1. IInv => NoticesAreTrue
  BY DEF IInv, Contents
<1> QED
  BY <1>1, Inductive, PTL

-----------------------------------------------------------------------------
(* What an execution wrote is what it posts.                               *)

\* The executions that have not written an outcome to their row.
Unwritten == {"handoff", "scheduled", "loaded", "started", "gate", "refused",
              "sayRefused", "dispatch", "succeeded"}

Outcomes == {"completed", "failed"}

\* Only the execution of the last answer writes an outcome, ...
OutcomeIsOwn ==
    \A t \in Tasks : pc[t][rows[t].resumes] \in Unwritten => rows[t].status \notin Outcomes

\* ... reads it again ...
OutcomeIsReread ==
    \A t \in Tasks :
        LET k == rows[t].resumes
        IN  pc[t][k] = "deliver" /\ rows[t].status \in Outcomes => final[t][k] = rows[t].status

\* ... and posts what it read.
Posting == OutcomeIsOwn /\ OutcomeIsReread /\ OutcomeIsPosted

(* A step that leaves the rows and the notices alone, and puts executions  *)
(* only where nothing is owed, keeps all three.                            *)
LEMMA QuietPosting ==
    ASSUME TypeOK, Posting, UNCHANGED <<rows, final, posts>>,
           \A t \in Tasks, k \in Execs :
              \/ pc'[t][k] = pc[t][k]
              \/ pc'[t][k] \in Phases \ (Unwritten \cup {"deliver", "inject", "done"})
              \/ pc'[t][k] \in Unwritten /\ pc[t][k] \in Unwritten
    PROVE  Posting'
<1>1. \A t \in Tasks : rows[t].resumes \in Execs
  BY DEF TypeOK, Rows, Execs
<1> QED
  BY <1>1, LifecycleAssumption
     DEF Posting, OutcomeIsOwn, OutcomeIsReread, OutcomeIsPosted, Unwritten

(* A step of an execution keeps them.                                      *)
LEMMA ExecutePosting ==
    ASSUME TypeOK, Ownership, Contents, Posting, NEW t \in Tasks, NEW k \in Execs, Execute(t, k)
    PROVE  Posting'
<1>0. /\ \A u \in Tasks : rows[u].resumes \in Execs
      /\ Owner(t, k) => k = rows[t].resumes
  BY DEF TypeOK, Rows, Execs, Ownership, OwnerIsLatest
<1> USE <1>0, LifecycleAssumption
        DEF TypeOK, Posting, OutcomeIsOwn, OutcomeIsReread, OutcomeIsPosted, Unwritten,
            Outcomes, Goto, Owner, Owning, TryPhases
<1>1. CASE Load(t, k)
  BY <1>1 DEF Load, IsTerminal, TerminalStatuses, Outcomes
<1>2. CASE Start(t, k)
  BY <1>2 DEF Start, Write, MarkRunning, Rows, Open, ClosedStatuses
<1>3. CASE SayStarted(t, k)
  BY <1>3 DEF SayStarted, Say
<1>4. CASE PassGate(t, k)
  BY <1>4 DEF PassGate, execVars
<1>5. CASE RefuseGate(t, k)
  BY <1>5 DEF RefuseGate, execVars
<1>6. CASE CancelRefused(t, k)
  BY <1>6 DEF CancelRefused, Write, MarkCancelled, Rows, Open, ClosedStatuses
<1>7. CASE SayRefused(t, k)
  BY <1>7 DEF SayRefused, Say
<1>8. CASE Succeed(t, k)
  BY <1>8 DEF Succeed, execVars
<1>9. CASE Ask(t, k)
  BY <1>9 DEF Ask, execVars
<1>10. CASE Raise(t, k)
  BY <1>10 DEF Raise, execVars
<1>11. CASE WriteCompleted(t, k)
  BY <1>11 DEF WriteCompleted, Write, MarkCompleted, Rows, Open, ClosedStatuses
<1>12. CASE SayCompleted(t, k)
  BY <1>12 DEF SayCompleted, Say
<1>13. CASE WriteAsked(t, k)
  BY <1>13 DEF WriteAsked, Write, MarkInputRequired, Rows, Open, ClosedStatuses
<1>14. CASE SayAsked(t, k)
  BY <1>14 DEF SayAsked, Say
<1>15. CASE WriteFailed(t, k)
  BY <1>15 DEF WriteFailed, Write, MarkFailed, Rows, Open, ClosedStatuses
<1>16. CASE SayFailed(t, k)
  BY <1>16 DEF SayFailed, Say
<1>17. CASE Reload(t, k)
  BY <1>17 DEF Reload
<1>18. CASE Deliver(t, k)
  BY <1>18 DEF Deliver
<1>19. CASE Inject(t, k)
  BY <1>19 DEF Inject
<1>20. CASE CancelAborted(t, k)
  BY <1>20 DEF CancelAborted, Write, MarkCancelled, Rows, Open, ClosedStatuses
<1>21. CASE SayAborted(t, k)
  BY <1>21 DEF SayAborted, Say
<1> QED
  BY <1>1, <1>2, <1>3, <1>4, <1>5, <1>6, <1>7, <1>8, <1>9, <1>10, <1>11, <1>12, <1>13, <1>14, <1>15, <1>16, <1>17, <1>18, <1>19, <1>20, <1>21 DEF Execute

(* ... and so does every other step.                                       *)
LEMMA PostingStep == TypeOK /\ Ownership /\ Contents /\ Posting /\ [Next]_vars => Posting'
<1> SUFFICES ASSUME TypeOK, Ownership, Contents, Posting, [Next]_vars PROVE Posting'
  OBVIOUS
<1>0. \A t \in Tasks : rows[t].resumes \in Execs
  BY DEF TypeOK, Rows, Execs
<1> USE DEF Posting, OutcomeIsOwn, OutcomeIsReread, OutcomeIsPosted, Unwritten, Outcomes
<1>1. ASSUME NEW t \in Tasks, NEW k \in Execs, Execute(t, k) PROVE Posting'
  BY <1>1, ExecutePosting
<1>2. ASSUME NEW t \in Tasks, Submit(t) PROVE Posting'
  <2>1. /\ \A u \in Tasks : rows'[u] = IF u = t THEN CreateTask ELSE rows[u]
        /\ \A u \in Tasks, k \in Execs :
              pc'[u][k] = IF u = t /\ k = 0 THEN "handoff" ELSE pc[u][k]
        /\ UNCHANGED <<final, posts>>
    BY <1>2 DEF Submit, requestVars, TypeOK
  <2>2. CreateTask.status = "pending"
    BY DEF CreateTask, AbsentRow
  <2> QED
    BY <1>0, <2>1, <2>2, LifecycleAssumption
<1>3. ASSUME NEW t \in Tasks, CancelTask(t) PROVE Posting'
  BY <1>0, <1>3, LifecycleAssumption
     DEF CancelTask, requestVars, MarkCancelled, TypeOK, Rows
<1>4. ASSUME NEW t \in Tasks, NEW k \in Execs, Schedule(t, k) \/ Break(t, k)
      PROVE  Posting'
  <2>1. UNCHANGED <<rows, final, posts>>
    BY <1>4 DEF Schedule, Break, requestVars
  <2>2. \A u \in Tasks, j \in Execs :
           \/ pc'[u][j] = pc[u][j]
           \/ pc'[u][j] = "lost"
           \/ pc'[u][j] = "scheduled" /\ pc[u][j] = "handoff"
    <3>1. CASE Schedule(t, k)
      BY <3>1 DEF Schedule, TypeOK
    <3>2. CASE Break(t, k)
      BY <3>2 DEF Break, TypeOK
    <3> QED
      BY <1>4, <3>1, <3>2
  <2> QED
    BY <2>1, <2>2, QuietPosting DEF Phases, EndPhases
<1>5. ASSUME NEW c \in Clients, WriteAnswer(c) PROVE Posting'
  <2> DEFINE t == answering[c]
             new == AppendResumeMessage(rows[t])
  <2>1. /\ t \in Tasks
        /\ rows' = [rows EXCEPT ![t] = new]
        /\ pc' = IF new = rows[t] THEN pc ELSE [pc EXCEPT ![t][new.resumes] = "handoff"]
        /\ UNCHANGED <<final, posts>>
    BY <1>5 DEF WriteAnswer, requestVars, TypeOK
  <2>2. CASE new = rows[t]
    <3>1. rows' = rows /\ pc' = pc
      BY <2>1, <2>2 DEF TypeOK
    <3> QED
      BY <2>1, <3>1
  <2>3. CASE new # rows[t]
    <3>1. new = [rows[t] EXCEPT !.status = "running", !.result = NullResult, !.resumes = @ + 1]
      BY <2>1, <2>3 DEF AppendResumeMessage
    <3>2. new.status = "running"
      <4>1. "status" \in DOMAIN rows[t]
        BY <2>1 DEF TypeOK, Rows
      <4> HIDE DEF t, new
      <4> QED
        BY <3>1, <4>1
    <3>3. \A u \in Tasks : rows'[u] = IF u = t THEN new ELSE rows[u]
      BY <2>1 DEF TypeOK
    <3>4. \A u \in Tasks, k \in Execs : u # t => pc'[u][k] = pc[u][k]
      BY <2>1, <2>3 DEF TypeOK
    <3> HIDE DEF t, new
    <3> QED
      BY <1>0, <2>1, <3>2, <3>3, <3>4, LifecycleAssumption
  <2> QED
    BY <2>2, <2>3
<1>6. ASSUME Stop \/ Crash PROVE Posting'
  <2>1. PICK after \in {Cancelled, Killed} : Down(after)
    BY <1>6 DEF Stop, Crash
  <2>2. \A p \in Phases : after[p] = p \/ after[p] \in {"aborting", "lost"}
    BY <2>1 DEF Cancelled, Killed
  <2>3. \A t \in Tasks, k \in Execs : pc'[t][k] = after[pc[t][k]] /\ pc[t][k] \in Phases
    BY <2>1 DEF Down, TypeOK
  <2>4. UNCHANGED execVars
    BY <2>1 DEF Down
  <2>5. {"aborting", "lost"} \subseteq Phases
    BY DEF Phases, AbortPhases, EndPhases
  <2> QED
    BY <2>2, <2>3, <2>4, <2>5, QuietPosting DEF execVars
<1>7. ASSUME UNCHANGED <<execVars, pc>> PROVE Posting'
  BY <1>7 DEF execVars
<1> QED
  <2>1. ASSUME NEW c \in Clients, NEW t \in Tasks, CheckAnswer(c, t)
        PROVE  UNCHANGED <<execVars, pc>>
    BY <2>1 DEF CheckAnswer, requestVars, execVars
  <2>2. ASSUME NEW c \in Clients, DropAnswer(c) PROVE UNCHANGED <<execVars, pc>>
    BY <2>2 DEF DropAnswer, requestVars, execVars
  <2>3. ASSUME Restart PROVE UNCHANGED <<execVars, pc>>
    BY <2>3 DEF Restart
  <2>4. UNCHANGED vars => UNCHANGED <<execVars, pc>>
    BY DEF vars, execVars
  <2> QED
    BY <1>1, <1>2, <1>3, <1>4, <1>5, <1>6, <1>7, <2>1, <2>2, <2>3, <2>4 DEF Next

(* Once the execution of the last answer has notified, the outcome in the  *)
(* row is the one it posted.                                               *)
THEOREM OutcomesArePosted == Spec => []OutcomeIsPosted
<1>1. Init => Posting
  BY LifecycleAssumption
     DEF Init, Posting, OutcomeIsOwn, OutcomeIsReread, OutcomeIsPosted, Unwritten, Outcomes,
         AbsentRow, Execs
<1>2. Posting => OutcomeIsPosted
  BY DEF Posting
<1>3. IInv <=> TypeOK /\ Ownership /\ Contents
  BY DEF IInv
<1> QED
  BY <1>1, <1>2, <1>3, Inductive, PostingStep, PTL DEF Spec

-----------------------------------------------------------------------------
(* The table implements the contract of the A2A surface.                   *)

\* The changes of status the contract allows without an answer.
Allowed(from, to) ==
    \/ from = to
    \/ from = "absent" /\ to = "pending"
    \/ from = "pending" /\ to = "running"
    \/ from = "running" /\ to \in {"input_required", "completed"}
    \/ from \in {"pending", "running"} /\ to = "failed"
    \/ from \in {"pending", "running", "input_required"} /\ to = "cancelled"

(* A write of one row that keeps its answers and changes its status as     *)
(* allowed is a step of the contract, or no step.                          *)
LEMMA WriteIsContractStep ==
    ASSUME TypeOK, NEW t \in Tasks, NEW new,
           rows' = [rows EXCEPT ![t] = new],
           new.resumes = rows[t].resumes,
           Allowed(rows[t].status, new.status)
    PROVE  [Contract!Next]_(Contract!vars)
<1> DEFINE status == [u \in Tasks |-> rows[u].status]
           answers == [u \in Tasks |-> rows[u].resumes]
<1>1. \A u \in Tasks : rows'[u] = IF u = t THEN new ELSE rows[u]
  BY DEF TypeOK
<1>2. answers' = answers
  BY <1>1
<1>3. status' = [status EXCEPT ![t] = new.status]
  <2>1. \A u \in Tasks : rows'[u].status = IF u = t THEN new.status ELSE rows[u].status
    BY <1>1
  <2> QED
    BY <2>1
<1>4. status[t] = rows[t].status
  OBVIOUS
<1>5. CASE rows[t].status = new.status
  <2>1. status' = status
    BY <1>3, <1>5
  <2> QED
    BY <1>2, <2>1 DEF Contract!vars
<1>6. CASE rows[t].status # new.status
  <2>1. \A from : status[t] \in from => Contract!Move(t, from, new.status)
    BY <1>3 DEF Contract!Move
  <2>2. UNCHANGED answers
    BY <1>2
  <2> HIDE DEF status, answers
  <2>3. \/ status[t] = "absent" /\ new.status = "pending"
        \/ status[t] = "pending" /\ new.status = "running"
        \/ status[t] = "running" /\ new.status = "input_required"
        \/ status[t] = "running" /\ new.status = "completed"
        \/ status[t] \in {"pending", "running"} /\ new.status = "failed"
        \/ status[t] \in {"pending", "running", "input_required"} /\ new.status = "cancelled"
    BY <1>4, <1>6 DEF Allowed
  <2>4. \/ Contract!Submit(t) \/ Contract!Start(t) \/ Contract!Ask(t)
        \/ Contract!Complete(t) \/ Contract!Fail(t) \/ Contract!Cancel(t)
    BY <2>1, <2>2, <2>3
       DEF status, answers, Contract!Submit, Contract!Start, Contract!Ask,
           Contract!Complete, Contract!Fail, Contract!Cancel
  <2> QED
    BY <2>4 DEF Contract!Next
<1> QED
  BY <1>5, <1>6

(* An execution changes a status only as allowed: it owns the task, so the *)
(* row is neither absent nor waiting for its user.                         *)
LEMMA ExecuteIsContractStep ==
    ASSUME IInv, NEW t \in Tasks, NEW k \in Execs, Execute(t, k)
    PROVE  [Contract!Next]_(Contract!vars)
<1>1. TypeOK
  BY DEF IInv
<1>2. /\ rows[t].status \notin {"auth_required", "rejected"}
      /\ rows[t].status \in Statuses \cup {"absent"}
      /\ rows[t].resumes \in Nat
  BY LifecycleAssumption DEF IInv, Contents, BegunRows, TypeOK, Rows
<1>3. Owner(t, k) => rows[t].status \notin {"absent", "input_required"}
  BY DEF IInv, Ownership, AskedIsUnowned, ExecsFollowTurns, Owner, Owning, TryPhases
<1>4. pc[t][k] \in {"refused", "succeeded", "asking"} => rows[t].status # "pending"
  BY DEF IInv, Contents, BegunRows, TryPhases
<1>5. ASSUME rows' = rows PROVE [Contract!Next]_(Contract!vars)
  BY <1>5 DEF Contract!vars
<1> USE DEF Owner, Owning, TryPhases, Goto, Statuses
<1>6. CASE Start(t, k)
  <2>1. /\ MarkRunning(rows[t]).resumes = rows[t].resumes
        /\ Allowed(rows[t].status, MarkRunning(rows[t]).status)
    BY <1>1 DEF MarkRunning, Allowed, TypeOK, Rows
  <2> QED
    BY <1>1, <1>6, <2>1, WriteIsContractStep DEF Start, Write
<1>7. CASE CancelRefused(t, k) \/ CancelAborted(t, k)
  <2>1. pc[t][k] \in {"refused", "aborting"} /\ rows' = [rows EXCEPT ![t] = MarkCancelled(rows[t])]
    BY <1>7 DEF CancelRefused, CancelAborted, Write
  <2>2. /\ MarkCancelled(rows[t]).resumes = rows[t].resumes
        /\ Allowed(rows[t].status, MarkCancelled(rows[t]).status)
    BY <1>1, <1>2, <1>3, <2>1 DEF MarkCancelled, Open, ClosedStatuses, Allowed, TypeOK, Rows
  <2> QED
    BY <1>1, <2>1, <2>2, WriteIsContractStep
<1>8. CASE WriteCompleted(t, k)
  <2>1. /\ MarkCompleted(rows[t], turns[t][k]).resumes = rows[t].resumes
        /\ Allowed(rows[t].status, MarkCompleted(rows[t], turns[t][k]).status)
    BY <1>1, <1>2, <1>3, <1>4, <1>8
       DEF WriteCompleted, MarkCompleted, Open, ClosedStatuses, Allowed, TypeOK, Rows
  <2> QED
    BY <1>1, <1>8, <2>1, WriteIsContractStep DEF WriteCompleted, Write
<1>9. CASE WriteAsked(t, k)
  <2>1. /\ MarkInputRequired(rows[t], turns[t][k]).resumes = rows[t].resumes
        /\ Allowed(rows[t].status, MarkInputRequired(rows[t], turns[t][k]).status)
    BY <1>1, <1>2, <1>3, <1>4, <1>9
       DEF WriteAsked, MarkInputRequired, Open, ClosedStatuses, IsTerminal,
           TerminalStatuses, Allowed, TypeOK, Rows
  <2> QED
    BY <1>1, <1>9, <2>1, WriteIsContractStep DEF WriteAsked, Write
<1>10. CASE WriteFailed(t, k)
  <2>1. /\ MarkFailed(rows[t]).resumes = rows[t].resumes
        /\ Allowed(rows[t].status, MarkFailed(rows[t]).status)
    BY <1>1, <1>2, <1>3, <1>10
       DEF WriteFailed, MarkFailed, Open, ClosedStatuses, Allowed, TypeOK, Rows
  <2> QED
    BY <1>1, <1>10, <2>1, WriteIsContractStep DEF WriteFailed, Write
<1>11. CASE \/ Load(t, k) \/ SayStarted(t, k) \/ PassGate(t, k) \/ RefuseGate(t, k)
            \/ SayRefused(t, k) \/ Succeed(t, k) \/ Ask(t, k) \/ Raise(t, k)
            \/ SayCompleted(t, k) \/ SayAsked(t, k) \/ SayFailed(t, k) \/ Reload(t, k)
            \/ Deliver(t, k) \/ Inject(t, k) \/ SayAborted(t, k)
  <2>1. rows' = rows
    BY <1>11 DEF Load, SayStarted, PassGate, RefuseGate, SayRefused, Succeed, Ask, Raise,
                 SayCompleted, SayAsked, SayFailed, Reload, Deliver, Inject, SayAborted,
                 Say, execVars
  <2> QED
    BY <1>5, <2>1
<1> QED
  BY <1>6, <1>7, <1>8, <1>9, <1>10, <1>11 DEF Execute

(* Every step of the module is a step of the contract, or leaves its       *)
(* variables alone.                                                        *)
LEMMA NextIsContractStep == IInv /\ [Next]_vars => [Contract!Next]_(Contract!vars)
<1> SUFFICES ASSUME IInv, [Next]_vars PROVE [Contract!Next]_(Contract!vars)
  OBVIOUS
<1>1. TypeOK
  BY DEF IInv
<1>2. ASSUME rows' = rows PROVE [Contract!Next]_(Contract!vars)
  BY <1>2 DEF Contract!vars
<1>3. ASSUME NEW t \in Tasks, Submit(t) PROVE [Contract!Next]_(Contract!vars)
  <2>1. rows[t].resumes = 0 /\ rows[t].status = "absent"
    BY <1>3 DEF Submit, IInv, Ownership, ExecsFollowTurns, AbsentRow
  <2>2. CreateTask.resumes = 0 /\ CreateTask.status = "pending"
    BY DEF CreateTask, AbsentRow
  <2> QED
    BY <1>1, <1>3, <2>1, <2>2, WriteIsContractStep DEF Submit, Allowed
<1>4. ASSUME NEW t \in Tasks, CancelTask(t) PROVE [Contract!Next]_(Contract!vars)
  <2>1. rows' = [rows EXCEPT ![t] = MarkCancelled(rows[t])]
    BY <1>4 DEF CancelTask
  <2>2. /\ MarkCancelled(rows[t]).resumes = rows[t].resumes
        /\ Allowed(rows[t].status, MarkCancelled(rows[t]).status)
    BY <1>4 DEF CancelTask, MarkCancelled, Open, ClosedStatuses, Allowed, Statuses,
                IInv, Contents, BegunRows, TypeOK, Rows
  <2> QED
    BY <1>1, <2>1, <2>2, WriteIsContractStep
<1>5. ASSUME NEW c \in Clients, WriteAnswer(c) PROVE [Contract!Next]_(Contract!vars)
  <2>1. PICK t \in Tasks : t = answering[c]
    BY <1>1, <1>5 DEF WriteAnswer, TypeOK
  <2> DEFINE new == AppendResumeMessage(rows[t])
             status == [u \in Tasks |-> rows[u].status]
             answers == [u \in Tasks |-> rows[u].resumes]
  <2>2. /\ rows[t].resumes < MaxTurns
        /\ rows' = [rows EXCEPT ![t] = new]
    BY <1>5, <2>1 DEF WriteAnswer
  <2>3. CASE rows[t].status # "input_required"
    <3>1. rows' = rows
      BY <1>1, <2>2, <2>3 DEF AppendResumeMessage, TypeOK
    <3> QED
      BY <1>2, <3>1
  <2>4. CASE rows[t].status = "input_required"
    <3>1. new.status = "running" /\ new.resumes = rows[t].resumes + 1
      BY <1>1, <2>4 DEF AppendResumeMessage, TypeOK, Rows
    <3>2. \A u \in Tasks : rows'[u] = IF u = t THEN new ELSE rows[u]
      BY <1>1, <2>2 DEF TypeOK
    <3> HIDE DEF new
    <3>3. status' = [status EXCEPT ![t] = "running"]
      BY <3>1, <3>2
    <3>4. answers' = [answers EXCEPT ![t] = @ + 1]
      BY <3>1, <3>2
    <3>5. Contract!Answer(t)
      BY <2>2, <2>4, <3>3, <3>4 DEF Contract!Answer, Contract!Move
    <3> HIDE DEF status, answers
    <3> QED
      BY <3>5 DEF Contract!Next
  <2> QED
    BY <2>3, <2>4
<1> QED
  <2>1. ASSUME NEW t \in Tasks, NEW k \in Execs, Schedule(t, k) \/ Break(t, k)
        PROVE  rows' = rows
    BY <2>1 DEF Schedule, Break
  <2>2. ASSUME NEW c \in Clients, NEW t \in Tasks, CheckAnswer(c, t) PROVE rows' = rows
    BY <2>2 DEF CheckAnswer
  <2>3. ASSUME NEW c \in Clients, DropAnswer(c) PROVE rows' = rows
    BY <2>3 DEF DropAnswer
  <2>4. Stop \/ Crash \/ Restart => rows' = rows
    BY DEF Stop, Crash, Down, Restart, execVars
  <2>5. UNCHANGED vars => rows' = rows
    BY DEF vars
  <2> QED
    BY <1>2, <1>3, <1>4, <1>5, <2>1, <2>2, <2>3, <2>4, <2>5, ExecuteIsContractStep DEF Next

(* The status column follows the contract of the A2A surface: whatever     *)
(* races whatever, each row starts once, takes one answer per question and *)
(* never leaves a closed status.                                           *)
THEOREM TableImplementsContract == Spec => ImplementsContract
<1>1. Init => Contract!Init
  BY DEF Init, Contract!Init, AbsentRow
<1> QED
  BY <1>1, Inductive, NextIsContractStep, PTL DEF Spec, ImplementsContract, Contract!Spec

-----------------------------------------------------------------------------
(* The streams.                                                            *)

\* The tasks whose row is closed.
Closed == {t \in Tasks : IsTerminal(rows[t])}

Events == [task : Tasks, status : Statuses]

\* The events that are true once the tasks in closed are.
TrueEvents(closed) == {e \in Events : e.status \in TerminalStatuses => e.task \in closed}

Subscribers == [kind : Kinds, stage : Stages, task : Tasks \cup {Nobody},
                queue : Seq(Events), dropped : BOOLEAN, reply : Statuses \cup {"absent"}]

\* A subscriber that hears nothing but the truth.
WellInformed(q, closed) ==
    /\ q \in Subscribers
    /\ Len(q.queue) <= Capacity
    /\ q.queue \in Seq(TrueEvents(closed))
    /\ q.stage # "off" => q.task \in Tasks
    /\ q.stage = "ended" => q.task \in closed

Informed == /\ sub \in [Subs -> Subscribers]
            /\ \A s \in Subs : WellInformed(sub[s], Closed)
            /\ parent \in [Tasks -> Tasks \cup {Nobody}]

\* Where an execution is about to announce that its task is closed.
Announcing == {"sayCompleted", "sayFailed", "sayRefused", "sayAborted"}

Announced == \A t \in Tasks, k \in Execs : pc[t][k] \in Announcing => t \in Closed

StreamInv == IInv /\ Announced /\ Informed

-----------------------------------------------------------------------------
(* The table under the streams.                                            *)

(* Every step of the streams is a step of the table, or leaves it alone.   *)
LEMMA StreamStepIsTableStep == [StreamNext]_allVars => [Next]_vars
<1> SUFFICES ASSUME [StreamNext]_allVars PROVE [Next]_vars
  OBVIOUS
<1> USE DEF Next
<1>1. ASSUME NEW t \in Tasks, SubmitByClient(t) PROVE Next
  BY <1>1 DEF SubmitByClient
<1>2. ASSUME NEW p \in Tasks, NEW c \in Tasks, Delegate(p, c) \/ Drain(p, c) PROVE Next
  <2>1. 0 \in Execs
    BY LifecycleAssumption DEF Execs
  <2> QED
    BY <1>2, <2>1 DEF Delegate, Drain
<1>3. ASSUME NEW t \in Tasks, NEW k \in Execs, ScheduleAlone(t, k) \/ Run(t, k) PROVE Next
  BY <1>3 DEF ScheduleAlone, Run
<1>4. ASSUME NEW s \in Subs, NEW t \in Tasks, NEW k \in Execs, ScheduleAndListen(s, t, k)
      PROVE  Next
  BY <1>4 DEF ScheduleAndListen
<1>5. ASSUME NEW t \in Tasks, NEW k \in Execs, Progress(t, k) PROVE UNCHANGED vars
  BY <1>5 DEF Progress
<1>6. ASSUME NEW s \in Subs, NEW t \in Tasks, Look(s, t) PROVE UNCHANGED vars
  BY <1>6 DEF Look
<1>7. ASSUME NEW s \in Subs, Serve(s) \/ Disconnect(s) PROVE UNCHANGED vars
  BY <1>7 DEF Serve, Disconnect, Listen, Emit, FirstCheck, HearEvent, TimeOut, Poll,
              Refresh, Move, Dequeue, ReplyIfSettled
<1>8. ASSUME Quiet PROVE Next
  BY <1>8 DEF Quiet
<1>9. ASSUME GoDown PROVE Next
  BY <1>9 DEF GoDown
<1> QED
  BY <1>1, <1>2, <1>3, <1>4, <1>5, <1>6, <1>7, <1>8, <1>9 DEF StreamNext, allVars

(* A closed row stays closed, as the contract of the table demands.        *)
LEMMA ClosedStaysClosed == IInv /\ [Next]_vars => Closed \subseteq Closed'
<1> SUFFICES ASSUME IInv, [Next]_vars, NEW t \in Closed PROVE t \in Closed'
  OBVIOUS
<1> DEFINE status == [u \in Tasks |-> rows[u].status]
<1>1. t \in Tasks /\ status[t] \in {"completed", "failed", "cancelled"}
  BY DEF Closed, IsTerminal, TerminalStatuses, IInv, Contents, BegunRows
<1>2. [Contract!Next]_(Contract!vars)
  BY NextIsContractStep
<1>3. status'[t] = rows'[t].status
  BY <1>1
<1>4. status'[t] = status[t]
  <2>1. CASE Contract!Next
    <3>1. PICK u \in Tasks, from \in {{"absent"}, {"pending"}, {"running"}, {"input_required"},
                  {"pending", "running"}, {"pending", "running", "input_required"}},
                  to \in {"pending", "running", "input_required", "completed", "failed", "cancelled"} :
             Contract!Move(u, from, to)
      BY <2>1 DEF Contract!Next, Contract!Submit, Contract!Start, Contract!Ask, Contract!Answer,
                  Contract!Complete, Contract!Fail, Contract!Cancel
    <3>2. status[u] \in from /\ status' = [status EXCEPT ![u] = to]
      BY <3>1 DEF Contract!Move
    <3> HIDE DEF status
    <3> QED
      BY <1>1, <3>2
  <2>2. CASE UNCHANGED (Contract!vars)
    BY <2>2 DEF Contract!vars
  <2> QED
    BY <1>2, <2>1, <2>2
<1> QED
  BY <1>1, <1>3, <1>4 DEF Closed, IsTerminal, TerminalStatuses

(* Whatever inserted row they are given, the writers of an outcome leave a *)
(* closed one.                                                             *)
LEMMA StoreCloses ==
    ASSUME NEW row \in Rows(MaxTurns), row.status # "absent", NEW n \in Execs
    PROVE  /\ MarkCompleted(row, n).status \in TerminalStatuses
           /\ MarkFailed(row).status \in TerminalStatuses
           /\ MarkCancelled(row).status \in TerminalStatuses
<1> USE DEF Rows, Open, ClosedStatuses, TerminalStatuses
<1>1. MarkCompleted(row, n).status \in TerminalStatuses
  BY DEF MarkCompleted
<1>2. MarkFailed(row).status \in TerminalStatuses
  BY DEF MarkFailed
<1>3. MarkCancelled(row).status \in TerminalStatuses
  BY DEF MarkCancelled
<1> QED
  BY <1>1, <1>2, <1>3

(* An execution that comes to announce a closing has found or made its row *)
(* closed: it exists, so its row was inserted, and its write closes every  *)
(* row that was not.                                                       *)
LEMMA ExecuteAnnounces ==
    ASSUME IInv, NEW t \in Tasks, NEW k \in Execs, Execute(t, k), pc'[t][k] \in Announcing
    PROVE  t \in Closed'
<1>1. TypeOK
  BY DEF IInv
<1>2. pc[t][k] # "idle" => rows[t].status # "absent"
  BY DEF IInv, Ownership, ExecsFollowTurns
<1>3. ASSUME NEW row, rows' = [rows EXCEPT ![t] = row], row.status \in TerminalStatuses
      PROVE  t \in Closed'
  BY <1>1, <1>3 DEF Closed, IsTerminal, TypeOK
<1>4. rows[t].status # "absent" =>
        /\ MarkCompleted(rows[t], turns[t][k]).status \in TerminalStatuses
        /\ MarkFailed(rows[t]).status \in TerminalStatuses
        /\ MarkCancelled(rows[t]).status \in TerminalStatuses
  BY <1>1, StoreCloses DEF TypeOK
<1> USE DEF Announcing, Goto, TypeOK
<1>5. CASE WriteCompleted(t, k)
  BY <1>2, <1>3, <1>4, <1>5 DEF WriteCompleted, Write
<1>6. CASE WriteFailed(t, k)
  BY <1>2, <1>3, <1>4, <1>6 DEF WriteFailed, Write
<1>7. CASE CancelRefused(t, k)
  BY <1>2, <1>3, <1>4, <1>7 DEF CancelRefused, Write
<1>8. CASE CancelAborted(t, k)
  BY <1>2, <1>3, <1>4, <1>8 DEF CancelAborted, Write
<1>9. CASE \/ Load(t, k) \/ Start(t, k) \/ SayStarted(t, k) \/ PassGate(t, k) \/ RefuseGate(t, k)
           \/ SayRefused(t, k) \/ Succeed(t, k) \/ Ask(t, k) \/ Raise(t, k) \/ SayCompleted(t, k)
           \/ WriteAsked(t, k) \/ SayAsked(t, k) \/ SayFailed(t, k) \/ Reload(t, k)
           \/ Deliver(t, k) \/ Inject(t, k) \/ SayAborted(t, k)
  <2>1. PICK to \in {"done", "loaded", "started", "gate", "dispatch", "refused", "succeeded",
                     "asking", "failing", "reload", "sayAsk", "deliver", "inject", "aborted"} :
           pc' = [pc EXCEPT ![t][k] = to]
    BY <1>9 DEF Load, Start, SayStarted, PassGate, RefuseGate, SayRefused, Succeed, Ask, Raise,
                SayCompleted, WriteAsked, SayAsked, SayFailed, Reload, Deliver, Inject, SayAborted
  <2> QED
    BY <1>1, <2>1
<1> QED
  BY <1>5, <1>6, <1>7, <1>8, <1>9 DEF Execute

(* What is about to be announced is true, ...                              *)
LEMMA AnnouncedStep == IInv /\ Announced /\ [Next]_vars => Announced'
<1> SUFFICES ASSUME IInv, Announced, [Next]_vars PROVE Announced'
  OBVIOUS
<1>0. TypeOK /\ Closed \subseteq Closed'
  BY ClosedStaysClosed DEF IInv
<1>1. ASSUME \A t \in Tasks, k \in Execs :
                \/ pc'[t][k] = pc[t][k]
                \/ pc'[t][k] \notin Announcing
                \/ Execute(t, k)
      PROVE  Announced'
  BY <1>0, <1>1, ExecuteAnnounces DEF Announced
<1>2. ASSUME NEW t \in Tasks, Submit(t) PROVE Announced'
  BY <1>0, <1>1, <1>2 DEF Submit, TypeOK, Announcing
<1>3. ASSUME NEW t \in Tasks, NEW k \in Execs, Schedule(t, k) PROVE Announced'
  BY <1>0, <1>1, <1>3 DEF Schedule, TypeOK, Announcing
<1>4. ASSUME NEW t \in Tasks, NEW k \in Execs, Break(t, k) PROVE Announced'
  BY <1>0, <1>1, <1>4 DEF Break, TypeOK, Announcing
<1>5. ASSUME NEW t \in Tasks, NEW k \in Execs, Execute(t, k) PROVE Announced'
  <2>1. \A u \in Tasks, j \in Execs : u # t \/ j # k => pc'[u][j] = pc[u][j]
    BY <1>0, <1>5, ExecuteEffect DEF Effect
  <2> QED
    BY <1>1, <1>5, <2>1
<1>6. ASSUME NEW c \in Clients, WriteAnswer(c) PROVE Announced'
  <2>1. \/ pc' = pc
        \/ pc' = [pc EXCEPT ![answering[c]][AppendResumeMessage(rows[answering[c]]).resumes] = "handoff"]
    BY <1>6 DEF WriteAnswer
  <2>2. \A t \in Tasks, k \in Execs : pc'[t][k] = pc[t][k] \/ pc'[t][k] = "handoff"
    <3>1. pc \in [Tasks -> [Execs -> Phases]]
      BY <1>0 DEF TypeOK
    <3> QED
      BY <2>1, <3>1
  <2> QED
    BY <1>1, <2>2 DEF Announcing
<1>7. ASSUME Stop \/ Crash PROVE Announced'
  <2>1. PICK after \in {Cancelled, Killed} : Down(after)
    BY <1>7 DEF Stop, Crash
  <2>2. \A p \in Phases : after[p] = p \/ after[p] \in {"aborting", "lost"}
    BY <2>1 DEF Cancelled, Killed
  <2>3. \A t \in Tasks, k \in Execs : pc'[t][k] = after[pc[t][k]] /\ pc[t][k] \in Phases
    BY <1>0, <2>1 DEF Down, TypeOK
  <2> QED
    BY <1>1, <2>2, <2>3 DEF Announcing
<1>8. ASSUME pc' = pc PROVE Announced'
  BY <1>1, <1>8
<1> QED
  <2>1. ASSUME NEW t \in Tasks, CancelTask(t) PROVE pc' = pc
    BY <2>1 DEF CancelTask
  <2>2. ASSUME NEW c \in Clients, NEW t \in Tasks, CheckAnswer(c, t) PROVE pc' = pc
    BY <2>2 DEF CheckAnswer
  <2>3. ASSUME NEW c \in Clients, DropAnswer(c) PROVE pc' = pc
    BY <2>3 DEF DropAnswer
  <2>4. ASSUME Restart PROVE pc' = pc
    BY <2>4 DEF Restart
  <2>5. UNCHANGED vars => pc' = pc
    BY DEF vars
  <2> QED
    BY <1>2, <1>3, <1>4, <1>5, <1>6, <1>7, <1>8, <2>1, <2>2, <2>3, <2>4, <2>5 DEF Next

(* ... and the event an execution broadcasts is what it came to announce.  *)
LEMMA ExecuteTells ==
    ASSUME IInv, Announced, NEW t \in Tasks, NEW k \in Execs, Execute(t, k), log' # log
    PROVE  Event(t, log'[t][Len(log'[t])]) \in TrueEvents(Closed)
<1>1. ASSUME NEW status \in Statuses, Say(t, status),
             status \in TerminalStatuses => t \in Closed
      PROVE  Event(t, log'[t][Len(log'[t])]) \in TrueEvents(Closed)
  <2>1. log[t] \in Seq(Statuses)
    BY DEF IInv, TypeOK
  <2>2. log'[t] = Append(log[t], status)
    BY <1>1 DEF Say, IInv, TypeOK
  <2>3. log'[t][Len(log'[t])] = status
    BY <2>1, <2>2
  <2> QED
    BY <1>1, <2>3 DEF Event, Events, TrueEvents
<1>2. pc[t][k] \in Announcing => t \in Closed
  BY DEF Announced
<1> USE DEF Goto, Announcing, Statuses, TerminalStatuses
<1>3. CASE SayStarted(t, k)
  BY <1>1, <1>3 DEF SayStarted
<1>4. CASE SayRefused(t, k)
  BY <1>1, <1>2, <1>4 DEF SayRefused
<1>5. CASE SayCompleted(t, k)
  BY <1>1, <1>2, <1>5 DEF SayCompleted
<1>6. CASE SayAsked(t, k)
  BY <1>1, <1>6 DEF SayAsked
<1>7. CASE SayFailed(t, k)
  BY <1>1, <1>2, <1>7 DEF SayFailed
<1>8. CASE SayAborted(t, k)
  BY <1>1, <1>2, <1>8 DEF SayAborted
<1> QED
  <2>1. \/ Load(t, k) \/ Start(t, k) \/ PassGate(t, k) \/ RefuseGate(t, k) \/ CancelRefused(t, k)
        \/ Succeed(t, k) \/ Ask(t, k) \/ Raise(t, k) \/ WriteCompleted(t, k) \/ WriteAsked(t, k)
        \/ WriteFailed(t, k) \/ Reload(t, k) \/ Deliver(t, k) \/ Inject(t, k) \/ CancelAborted(t, k)
        => log' = log
    BY DEF Load, Start, PassGate, RefuseGate, CancelRefused, Succeed, Ask, Raise, WriteCompleted,
           WriteAsked, WriteFailed, Reload, Deliver, Inject, CancelAborted, Write, execVars
  <2> QED
    BY <1>3, <1>4, <1>5, <1>6, <1>7, <1>8, <2>1 DEF Execute

-----------------------------------------------------------------------------
(* The subscribers.                                                        *)

(* What was true of fewer closed tasks is true of more.                    *)
LEMMA TruthGrows ==
    ASSUME NEW closed, NEW more \in SUBSET Tasks, closed \subseteq more,
           NEW q, WellInformed(q, closed)
    PROVE  WellInformed(q, more)
<1>1. TrueEvents(closed) \subseteq TrueEvents(more)
  BY DEF TrueEvents
<1>2. q.queue \in Seq(TrueEvents(more))
  BY <1>1, SeqMonotonic DEF WellInformed
<1> QED
  BY <1>2 DEF WellInformed

(* A true event does not misinform the subscriber it is put before.        *)
LEMMA PutInforms ==
    ASSUME NEW closed, NEW q, WellInformed(q, closed), NEW event \in TrueEvents(closed)
    PROVE  WellInformed(Put(q, event), closed)
<1> DEFINE longer == Append(q.queue, event)
<1>1. event \in Events /\ q \in Subscribers /\ q.queue \in Seq(TrueEvents(closed))
  BY DEF WellInformed, TrueEvents
<1>2. /\ longer \in Seq(Events)
      /\ longer \in Seq(TrueEvents(closed))
      /\ Len(longer) = Len(q.queue) + 1
      /\ Len(q.queue) \in Nat
  BY <1>1, AppendProperties DEF Subscribers
<1> HIDE DEF longer
<1>3. CASE Len(q.queue) < Capacity
  <2>1. Put(q, event) = [q EXCEPT !.queue = longer]
    BY <1>3 DEF Put, longer
  <2> QED
    BY <1>1, <1>2, <1>3, <2>1, StreamAssumption DEF WellInformed, Subscribers
<1>4. CASE ~(Len(q.queue) < Capacity)
  <2>1. Put(q, event) = [q EXCEPT !.dropped = TRUE]
    BY <1>4 DEF Put
  <2> QED
    BY <1>1, <2>1 DEF WellInformed, Subscribers
<1> QED
  BY <1>3, <1>4

(* A request that begins to listen has heard nothing.                      *)
LEMMA RequestInforms ==
    ASSUME NEW closed, NEW t \in Tasks, NEW kind \in Kinds, NEW stage \in Stages,
           stage # "ended"
    PROVE  /\ WellInformed(Request(kind, stage, t), closed)
           /\ WellInformed(Nowhere, closed)
<1>1. /\ <<>> \in Seq(Events)
      /\ <<>> \in Seq(TrueEvents(closed))
      /\ Len(<<>>) = 0
  BY EmptySeq
<1>2. Nowhere \in Subscribers
  BY <1>1 DEF Nowhere, Subscribers, Kinds, Stages
<1>3. Request(kind, stage, t) = [Nowhere EXCEPT !.kind = kind, !.stage = stage, !.task = t]
  BY DEF Request
<1>4. Nowhere.queue = <<>> /\ Nowhere.stage = "off"
  BY DEF Nowhere
<1> HIDE DEF Nowhere
<1>5. /\ Request(kind, stage, t) \in Subscribers
      /\ Request(kind, stage, t).queue = <<>>
      /\ Request(kind, stage, t).stage = stage
      /\ Request(kind, stage, t).task = t
  BY <1>2, <1>3, <1>4 DEF Subscribers
<1> QED
  BY <1>1, <1>2, <1>4, <1>5, StreamAssumption DEF WellInformed

(* A step of one subscriber, which stays well informed, keeps them all so. *)
LEMMA OneInformed ==
    ASSUME Informed, UNCHANGED <<vars, parent>>, NEW s \in Subs, NEW q, WellInformed(q, Closed),
           sub' = [sub EXCEPT ![s] = q]
    PROVE  Informed'
<1>1. Closed' = Closed
  BY DEF Closed, vars, IsTerminal
<1>2. q \in Subscribers
  BY DEF WellInformed
<1> QED
  BY <1>1, <1>2 DEF Informed

(* A step of the table leaves every subscriber that did not move informed. *)
LEMMA QuietInformed ==
    ASSUME IInv, Informed, [Next]_vars, UNCHANGED <<sub, parent>>
    PROVE  Informed'
<1>1. Closed \subseteq Closed' /\ Closed' \in SUBSET Tasks
  BY ClosedStaysClosed DEF Closed
<1> QED
  BY <1>1, TruthGrows DEF Informed

(* A broadcast of a true event by a step of the table misinforms nobody.   *)
LEMMA BroadcastInforms ==
    ASSUME IInv, Informed, [Next]_vars, NEW t, NEW status,
           Event(t, status) \in TrueEvents(Closed), Broadcast(t, status), UNCHANGED parent
    PROVE  Informed'
<1>1. Closed \subseteq Closed' /\ Closed' \in SUBSET Tasks
  BY ClosedStaysClosed DEF Closed
<1>2. \A s \in Subs : /\ sub'[s] \in {sub[s], Put(sub[s], Event(t, status))}
                      /\ WellInformed(sub'[s], Closed)
  BY PutInforms DEF Broadcast, Informed
<1>3. sub' \in [Subs -> Subscribers]
  <2>1. \A s \in Subs : sub'[s] \in Subscribers
    BY <1>2 DEF WellInformed
  <2>2. sub' = [s \in Subs |-> sub'[s]]
    BY DEF Broadcast
  <2> QED
    BY <2>1, <2>2
<1> QED
  BY <1>1, <1>2, <1>3, TruthGrows DEF Informed

(* The event a stream takes from its queue is true, so the one that ends   *)
(* it - a closing of its own task - found the row closed.                  *)
LEMMA DequeueInforms ==
    ASSUME Informed, NEW s \in Subs, NEW stage \in Stages, Dequeue(s, stage),
           sub[s].stage # "off",
           stage = "ended" => Closes(Head(sub[s].queue), sub[s].task)
    PROVE  Informed'
<1> DEFINE q == [sub[s] EXCEPT !.queue = Tail(@), !.stage = stage]
<1>1. /\ sub[s] \in Subscribers /\ WellInformed(sub[s], Closed)
      /\ sub[s].queue # <<>> /\ sub[s].queue \in Seq(TrueEvents(Closed))
      /\ sub[s].queue \in Seq(Events)
  BY DEF Informed, WellInformed, Dequeue, Subscribers
<1>2. /\ Head(sub[s].queue) \in TrueEvents(Closed)
      /\ Tail(sub[s].queue) \in Seq(TrueEvents(Closed))
      /\ Tail(sub[s].queue) \in Seq(Events)
      /\ Len(Tail(sub[s].queue)) = Len(sub[s].queue) - 1
      /\ Len(sub[s].queue) \in Nat
  BY <1>1, HeadTailProperties, LenProperties
<1>3. sub[s].task \in Tasks /\ Len(sub[s].queue) <= Capacity
  BY <1>1 DEF WellInformed
<1>4. stage = "ended" => sub[s].task \in Closed
  BY <1>2 DEF Closes, TrueEvents
<1>5. q \in Subscribers /\ q.queue = Tail(sub[s].queue) /\ q.stage = stage /\ q.task = sub[s].task
  BY <1>1, <1>2 DEF Subscribers
<1>6. sub' = [sub EXCEPT ![s] = q] /\ UNCHANGED <<vars, parent>>
  BY DEF Dequeue
<1> HIDE DEF q
<1>7. WellInformed(q, Closed)
  BY <1>2, <1>3, <1>4, <1>5, StreamAssumption DEF WellInformed
<1> QED
  BY <1>6, <1>7, OneInformed

(* A change of stage that is not an end.                                   *)
LEMMA MoveInforms ==
    ASSUME Informed, NEW s \in Subs, NEW stage \in Stages \ {"ended"}, sub[s].stage # "off",
           sub' = [sub EXCEPT ![s].stage = stage], UNCHANGED <<vars, parent>>
    PROVE  Informed'
<1> DEFINE q == [sub[s] EXCEPT !.stage = stage]
<1>1. WellInformed(q, Closed)
  BY DEF Informed, WellInformed, Subscribers
<1> QED
  BY <1>1, OneInformed

(* The answer of a blocking request.                                       *)
LEMMA ReplyInforms ==
    ASSUME IInv, Informed, NEW s \in Subs, sub[s].stage # "off", Reply(s), UNCHANGED <<vars, parent>>
    PROVE  Informed'
<1> DEFINE t == sub[s].task
           q == [Nowhere EXCEPT !.kind = "blocking", !.stage = "replied", !.task = t,
                                !.reply = rows[t].status]
<1>1. t \in Tasks /\ rows[t].status \in Statuses \cup {"absent"}
  BY DEF Informed, WellInformed, IInv, TypeOK, Rows
<1>2. WellInformed(Request("blocking", "replied", t), Closed)
  BY <1>1, RequestInforms DEF Kinds, Stages
<1>3. q = [Request("blocking", "replied", t) EXCEPT !.reply = rows[t].status]
  BY DEF Request, Nowhere
<1>4. Request("blocking", "replied", t).stage = "replied"
  BY DEF Request, Nowhere
<1>5. WellInformed(q, Closed)
  BY <1>1, <1>2, <1>3, <1>4 DEF WellInformed, Subscribers
<1> QED
  BY <1>5, OneInformed DEF Reply

(* Every step keeps the subscribers well informed.                         *)
LEMMA InformedStep == IInv /\ Announced /\ Informed /\ [StreamNext]_allVars => Informed'
<1> SUFFICES ASSUME IInv, Announced, Informed, [StreamNext]_allVars PROVE Informed'
  OBVIOUS
<1>0. [Next]_vars
  BY StreamStepIsTableStep
<1>1. ASSUME UNCHANGED <<sub, parent>> PROVE Informed'
  BY <1>0, <1>1, QuietInformed
<1>2. ASSUME NEW t \in Tasks, NEW k \in Execs, Run(t, k) PROVE Informed'
  <2>1. CASE log' = log
    BY <1>1, <1>2, <2>1 DEF Run
  <2>2. CASE log' # log
    <3>1. Event(t, log'[t][Len(log'[t])]) \in TrueEvents(Closed)
      BY <1>2, <2>2, ExecuteTells DEF Run
    <3> QED
      BY <1>0, <1>2, <2>2, <3>1, BroadcastInforms DEF Run
  <2> QED
    BY <2>1, <2>2
<1>3. ASSUME NEW t \in Tasks, NEW k \in Execs, Progress(t, k) PROVE Informed'
  <2>1. Event(t, "running") \in TrueEvents(Closed)
    BY DEF Event, TrueEvents, Events, Statuses, TerminalStatuses
  <2> QED
    BY <1>0, <1>3, <2>1, BroadcastInforms DEF Progress
<1>4. ASSUME NEW p \in Tasks, NEW c \in Tasks, Drain(p, c) PROVE Informed'
  <2>1. sub' = sub /\ (parent' = parent \/ parent' = [parent EXCEPT ![c] = p])
    BY <1>4 DEF Drain
  <2>2. \A s \in Subs : WellInformed(sub'[s], Closed')
    <3>1. Closed \subseteq Closed' /\ Closed' \in SUBSET Tasks
      BY <1>0, ClosedStaysClosed DEF Closed
    <3> QED
      BY <2>1, <3>1, TruthGrows DEF Informed
  <2> QED
    BY <2>1, <2>2 DEF Informed
<1>5. ASSUME NEW s \in Subs, NEW t \in Tasks, NEW k \in Execs, ScheduleAndListen(s, t, k)
      PROVE  Informed'
  <2>1. PICK q \in {Request("blocking", "check", t), Request("stream", "open", t)} :
           sub' = [sub EXCEPT ![s] = q]
    BY <1>5 DEF ScheduleAndListen
  <2>2. WellInformed(q, Closed)
    BY <2>1, RequestInforms DEF Kinds, Stages
  <2>3. Closed' = Closed /\ parent' = parent
    BY <1>5 DEF ScheduleAndListen, Schedule, Closed, IsTerminal
  <2>4. q \in Subscribers
    BY <2>2 DEF WellInformed
  <2> QED
    BY <2>1, <2>2, <2>3, <2>4 DEF Informed
<1>6. ASSUME NEW s \in Subs, NEW t \in Tasks, Look(s, t) PROVE Informed'
  <2>1. WellInformed(Request("follow", "opening", t), Closed)
    BY RequestInforms DEF Kinds, Stages
  <2> QED
    BY <1>6, <2>1, OneInformed DEF Look
<1>7. ASSUME NEW s \in Subs, Disconnect(s) PROVE Informed'
  <2>1. sub[s].task \in Tasks
    BY <1>7 DEF Disconnect, Informed, WellInformed
  <2>2. WellInformed(Nowhere, Closed)
    BY <2>1, RequestInforms DEF Kinds, Stages
  <2> QED
    BY <1>7, <2>2, OneInformed DEF Disconnect
<1>8. ASSUME NEW s \in Subs, Serve(s) PROVE Informed'
  <2> USE DEF Stages
  <2>1. CASE Listen(s)
    BY <2>1, MoveInforms DEF Listen, Move
  <2>2. CASE Emit(s)
    BY <2>2, DequeueInforms DEF Emit
  <2>3. CASE HearEvent(s)
    BY <2>3, DequeueInforms DEF HearEvent
  <2>4. CASE TimeOut(s)
    BY <2>4, MoveInforms DEF TimeOut, Move
  <2>5. ASSUME NEW from \in {"check", "poll"}, ReplyIfSettled(s, from) PROVE Informed'
    BY <2>5, MoveInforms, ReplyInforms DEF ReplyIfSettled
  <2>6. CASE Refresh(s)
    BY <2>6, ReplyInforms DEF Refresh
  <2> QED
    BY <1>8, <2>1, <2>2, <2>3, <2>4, <2>5, <2>6 DEF Serve, FirstCheck, Poll
<1>9. ASSUME GoDown PROVE Informed'
  <2>1. sub' = [s \in Subs |-> Nowhere] /\ parent' = [t \in Tasks |-> Nobody]
    BY <1>9 DEF GoDown
  <2>2. WellInformed(Nowhere, Closed')
    BY EmptySeq, StreamAssumption
       DEF WellInformed, Nowhere, Subscribers, Kinds, Stages
  <2>3. Nowhere \in Subscribers
    BY <2>2 DEF WellInformed
  <2> HIDE DEF Nowhere
  <2> QED
    BY <2>1, <2>2, <2>3 DEF Informed
<1> QED
  <2>1. ASSUME NEW t \in Tasks, NEW k \in Execs, ScheduleAlone(t, k)
        PROVE  UNCHANGED <<sub, parent>>
    BY <2>1 DEF ScheduleAlone
  <2>2. ASSUME NEW t \in Tasks, SubmitByClient(t) PROVE UNCHANGED <<sub, parent>>
    BY <2>2 DEF SubmitByClient
  <2>3. ASSUME NEW p \in Tasks, NEW c \in Tasks, Delegate(p, c) PROVE UNCHANGED <<sub, parent>>
    BY <2>3 DEF Delegate
  <2>4. Quiet \/ UNCHANGED allVars => UNCHANGED <<sub, parent>>
    BY DEF Quiet, allVars
  <2> QED
    BY <1>1, <1>2, <1>3, <1>4, <1>5, <1>6, <1>7, <1>8, <1>9, <2>1, <2>2, <2>3, <2>4
       DEF StreamNext

(* The streams run on the table as specified: what is proved of it holds   *)
(* under them.                                                             *)
LEMMA StreamsRunTheTable == StreamSpec => Spec
<1>1. StreamInit => Init
  BY DEF StreamInit
<1> QED
  BY <1>1, StreamStepIsTableStep, PTL DEF StreamSpec, Spec

LEMMA StreamInductive == StreamSpec => []StreamInv
<1>1. StreamInit => Announced /\ Informed
  <2> SUFFICES ASSUME StreamInit PROVE Announced /\ Informed
    OBVIOUS
  <2>1. WellInformed(Nowhere, Closed)
    BY EmptySeq, StreamAssumption
       DEF WellInformed, Nowhere, Subscribers, Kinds, Stages
  <2>2. Nowhere \in Subscribers
    BY <2>1 DEF WellInformed
  <2>3. Announced
    BY DEF StreamInit, Init, Announced, Announcing
  <2> HIDE DEF Nowhere
  <2> QED
    BY <2>1, <2>2, <2>3 DEF StreamInit, Informed
<1>2. StreamInv <=> IInv /\ Announced /\ Informed
  BY DEF StreamInv
<1> QED
  BY <1>1, <1>2, StreamsRunTheTable, Inductive, StreamStepIsTableStep, AnnouncedStep,
     InformedStep, PTL DEF StreamSpec

(* The server ends a stream only when the row of its task is closed for    *)
(* good, whatever the tasks delegated for it have said.                    *)
THEOREM StreamsEndTruly == StreamSpec => []EndedStreamsAreTerminal
<1>1. StreamInv => EndedStreamsAreTerminal
  BY DEF StreamInv, Informed, WellInformed, Closed, EndedStreamsAreTerminal
<1> QED
  BY <1>1, StreamInductive, PTL

(* A queue never holds more than its capacity, and every variable stays in *)
(* its type.                                                               *)
THEOREM StreamTypeCorrect == StreamSpec => []StreamTypeOK
<1>1. StreamInv => StreamTypeOK
  BY DEF StreamInv, Informed, WellInformed, Subscribers, Events, StreamTypeOK
<1> QED
  BY <1>1, StreamInductive, PTL

=============================================================================
