--------------------------- MODULE DelegationProofs ---------------------------
(***************************************************************************)
(* Proofs about Delegation, for every set of turns and delegated tasks and *)
(* whichever server the process is.                                        *)
(*                                                                         *)
(* Two arguments run side by side.  The pending list is exact because a    *)
(* task is queued at most once in its life and every drain takes all of    *)
(* the list.  A task's thread and its parent agree, although they are read *)
(* from variables every turn overwrites, because whoever writes the        *)
(* identity writes both at once: the identity names a task only together   *)
(* with the conversation of that task, and in the A2A server it names      *)
(* nobody.                                                                 *)
(***************************************************************************)
EXTENDS Delegation, SequenceTheorems, TLAPS

\* A delegated task has the turn that called the tool and a conversation,
\* and it was started if it is past the queue.
Accounted ==
    \A c \in Children :
        /\ child[c].stage # "none" => child[c].by \in Turns /\ child[c].of \in Turns
        /\ child[c].stage \in {"none", "drafted", "inserting", "queued"} => child[c].starts = 0

\* A parent is a task that exists, so its conversation is settled.
ParentsExist ==
    \A c \in Children :
        child[c].parent \in Children => child[child[c].parent].stage # "none"

\* The identity of the process is of one conversation.
OneIdentity ==
    /\ ~Web => caller.of = Nobody /\ caller.task = Nobody
    /\ caller.task \in Children => /\ child[caller.task].stage # "none"
                                   /\ caller.of = child[caller.task].of

IInv == /\ TypeOK /\ PendingIsExact /\ Accounted
        /\ ParentsExist /\ ParentsShareConversation /\ OneIdentity

-----------------------------------------------------------------------------
(* Putting a task at the end of the list adds it, and only it, and keeps   *)
(* the list free of duplicates when it was not there.                      *)
LEMMA QueuedSet ==
    ASSUME NEW s \in Seq(Children), NEW c \in Children
    PROVE  /\ ToSet(Append(s, c)) = ToSet(s) \cup {c}
           /\ c \notin ToSet(s) /\ IsInjective(s) => IsInjective(Append(s, c))
<1>1. /\ Append(s, c) \in Seq(Children)
      /\ Len(Append(s, c)) = Len(s) + 1
      /\ \A i \in 1..Len(s) : Append(s, c)[i] = s[i]
      /\ Append(s, c)[Len(s) + 1] = c
      /\ Len(s) \in Nat
  BY AppendProperties, LenProperties
<1>2. DOMAIN s = 1..Len(s) /\ DOMAIN Append(s, c) = 1..(Len(s) + 1)
  BY <1>1, LenProperties
<1>3. 1..(Len(s) + 1) = 1..Len(s) \cup {Len(s) + 1} /\ Len(s) + 1 \notin 1..Len(s)
  BY <1>1
<1> DEFINE n == Len(s)
           longer == Append(s, c)
<1> HIDE DEF n, longer
<1>4. /\ DOMAIN s = 1..n /\ DOMAIN longer = 1..n \cup {n + 1}
      /\ n + 1 \notin 1..n
      /\ \A i \in 1..n : longer[i] = s[i]
      /\ longer[n + 1] = c
  BY <1>1, <1>2, <1>3 DEF n, longer
<1>5. ToSet(longer) = ToSet(s) \cup {c}
  BY <1>4 DEF ToSet
<1>6. c \notin ToSet(s) /\ IsInjective(s) => IsInjective(longer)
  BY <1>4 DEF ToSet, IsInjective
<1> QED
  BY <1>5, <1>6 DEF longer

(* The empty list holds nothing, once.                                     *)
LEMMA NothingQueued == /\ <<>> \in Seq(Children)
                       /\ ToSet(<<>>) = {}
                       /\ IsInjective(<<>>)
<1>1. <<>> \in Seq(Children) /\ DOMAIN <<>> = {}
  BY EmptySeq
<1> QED
  BY <1>1 DEF ToSet, IsInjective

\* What every step but the reading of the caller leaves as it was.
SameFamily ==
    \A c \in Children : /\ child'[c].by = child[c].by
                        /\ child'[c].of = child[c].of
                        /\ child'[c].parent = child[c].parent
                        /\ child'[c].stage = "none" <=> child[c].stage = "none"

(* Such a step keeps every task under its parent.                          *)
LEMMA FamiliesKept ==
    ASSUME ParentsExist, ParentsShareConversation, SameFamily
    PROVE  ParentsExist' /\ ParentsShareConversation'
BY DEF ParentsExist, ParentsShareConversation, SameFamily

(* The identity stays of one conversation when the step that keeps the     *)
(* families changes its test run at most, or clears it.                    *)
LEMMA IdentityKept ==
    ASSUME OneIdentity, SameFamily, UNCHANGED surface,
           \/ caller'.of = caller.of /\ caller'.task = caller.task
           \/ caller'.of = Nobody /\ caller'.task = Nobody
    PROVE  OneIdentity'
BY DelegationAssumption DEF OneIdentity, SameFamily, Web

(* Neither the turns nor the test runs matter to the list: only the stages *)
(* and the starts of the tasks do.                                         *)
LEMMA ListKept ==
    ASSUME PendingIsExact, UNCHANGED pending,
           \A c \in Children : /\ child'[c].stage = "queued" <=> child[c].stage = "queued"
                               /\ child'[c].starts = child[c].starts
    PROVE  PendingIsExact'
BY DEF PendingIsExact

Callers == [of : Owners, task : Children \cup {Nobody}, run : Runs]

TurnRows == [stage : {"off", "streaming", "calling", "ended", "dropped"}, run : Runs]

ChildRows == [stage : {"none", "drafted", "inserting", "queued", "started", "running",
                       "ended", "failed"},
              by : Owners, of : Owners, parent : Runs, run : Runs,
              proxy : Owners, restored : BOOLEAN, starts : 0..1]

Typed == /\ surface \in Surfaces
         /\ caller \in Callers
         /\ pending \in Seq(Children)
         /\ turn \in [Turns -> TurnRows]
         /\ child \in [Children -> ChildRows]

(* The types, by the names the proofs use.                                 *)
LEMMA Types == (TypeOK <=> Typed) /\ (TypeOK' <=> Typed')
BY DEF TypeOK, Typed, Callers, TurnRows, ChildRows

(* A task that is started is a task, with the same family.                 *)
LEMMA StartedRow ==
    ASSUME NEW c \in Children, NEW t \in Turns, child[c] \in ChildRows, child[c].starts = 0
    PROVE  /\ Started(c, t) \in ChildRows
           /\ Started(c, t).stage = "started"
           /\ Started(c, t).by = child[c].by
           /\ Started(c, t).of = child[c].of
           /\ Started(c, t).parent = child[c].parent
<1>1. Context(t) \in Owners
  BY DEF Context, Owners
<1> DEFINE row == child[c]
           new == [row EXCEPT !.stage = "started", !.starts = @ + 1, !.proxy = Context(t)]
<1>2. Started(c, t) = new
  BY DEF Started
<1>3. row \in ChildRows /\ row.starts = 0
  OBVIOUS
<1> HIDE DEF row
<1>4. new \in ChildRows
  <2>1. row.starts + 1 \in 0..1
    BY <1>3
  <2>2. "started" \in {"none", "drafted", "inserting", "queued", "started", "running", "ended",
                       "failed"}
    OBVIOUS
  <2> QED
    BY <1>1, <1>3, <2>1, <2>2 DEF ChildRows
<1>5. new.stage = "started" /\ new.by = row.by /\ new.of = row.of /\ new.parent = row.parent
  BY <1>3 DEF ChildRows
<1> QED
  BY <1>2, <1>4, <1>5 DEF row

-----------------------------------------------------------------------------
(* Turns.                                                                  *)

(* A turn that opens stores one identity, whole, or none.                  *)
LEMMA OpenInvariant == ASSUME IInv, NEW t \in Turns, Open(t) PROVE IInv'
<1> USE DEF IInv
<1>1. PICK r \in {t, Nobody} :
         /\ turn' = [turn EXCEPT ![t] = [stage |-> "streaming", run |-> r]]
         /\ caller' = IF Web THEN [of |-> t, task |-> Nobody, run |-> r] ELSE caller
  BY DEF Open
<1>2. UNCHANGED <<surface, pending, child>>
  BY DEF Open
<1>3. SameFamily
  BY <1>2 DEF SameFamily
<1>4. TypeOK'
  <2>1. r \in Runs /\ t \in Owners
    BY DEF Runs, Owners
  <2> QED
    BY <1>1, <1>2, <2>1, Types DEF Typed, Callers, TurnRows
<1>5. OneIdentity'
  BY <1>1, <1>2, DelegationAssumption DEF OneIdentity, Web
<1> QED
  BY <1>2, <1>3, <1>4, <1>5, FamiliesKept, ListKept DEF Accounted

(* A drain starts what is queued, each task once.                          *)
LEMMA DrainInvariant ==
    ASSUME IInv, NEW t \in Turns, DrainPending(t), UNCHANGED surface,
           caller' = caller \/ caller' = Cleared,
           turn' \in [Turns -> TurnRows]
    PROVE  IInv'
<1> USE DEF IInv
<1>1. \A c \in Children : child'[c] = IF child[c].stage = "queued" THEN Started(c, t) ELSE child[c]
  BY DEF DrainPending, PendingIsExact
<1>2. \A c \in Children : child[c] \in ChildRows
  BY Types DEF Typed
<1>3. \A c \in Children : child[c].stage = "queued" => child[c].starts = 0
  BY DEF Accounted
<1>4. \A c \in Children :
         child[c].stage = "queued" =>
            /\ child'[c] \in ChildRows
            /\ child'[c].stage = "started"
            /\ child'[c].by = child[c].by
            /\ child'[c].of = child[c].of
            /\ child'[c].parent = child[c].parent
  BY <1>1, <1>2, <1>3, StartedRow
<1>5. \A c \in Children : child[c].stage # "queued" => child'[c] = child[c]
  BY <1>1
<1>6. TypeOK'
  <2>1. child' \in [Children -> ChildRows]
    BY <1>4, <1>5, Types DEF Typed, DrainPending
  <2>2. Cleared \in Callers
    BY DEF Cleared, Callers, Owners, Runs
  <2> QED
    BY <2>1, <2>2, NothingQueued, Types DEF Typed, DrainPending
<1>7. SameFamily
  BY <1>4, <1>5 DEF SameFamily
<1>8. PendingIsExact'
  BY <1>4, <1>5, NothingQueued DEF PendingIsExact, DrainPending
<1>9. Accounted'
  BY <1>4, <1>5 DEF Accounted
<1> QED
  BY <1>6, <1>7, <1>8, <1>9, FamiliesKept, IdentityKept DEF Cleared

(* A turn that breaks off loses the tool call in progress, and no more.    *)
LEMMA AbandonInvariant == ASSUME IInv, NEW t \in Turns, Abandon(t) PROVE IInv'
<1> USE DEF IInv
<1>1. \A c \in Children :
         child'[c] = IF child[c].by = t /\ child[c].stage \in {"drafted", "inserting"}
                     THEN [child[c] EXCEPT !.stage = "failed"] ELSE child[c]
  BY DEF Abandon
<1>2. \A c \in Children : child[c] \in ChildRows
  BY Types DEF Typed
<1>3. \A c \in Children :
         /\ child'[c] \in ChildRows
         /\ \/ child'[c].stage = child[c].stage
            \/ child'[c].stage = "failed" /\ child[c].stage \in {"drafted", "inserting"}
         /\ child'[c].by = child[c].by
         /\ child'[c].of = child[c].of
         /\ child'[c].parent = child[c].parent
         /\ child'[c].starts = child[c].starts
  <2> SUFFICES ASSUME NEW c \in Children
               PROVE  /\ child'[c] \in ChildRows
                      /\ \/ child'[c].stage = child[c].stage
                         \/ child'[c].stage = "failed" /\ child[c].stage \in {"drafted", "inserting"}
                      /\ child'[c].by = child[c].by
                      /\ child'[c].of = child[c].of
                      /\ child'[c].parent = child[c].parent
                      /\ child'[c].starts = child[c].starts
    OBVIOUS
  <2> QED
    BY <1>1, <1>2, ZenonT(40) DEF ChildRows
<1>4. UNCHANGED <<surface, caller, pending>>
  BY DEF Abandon
<1>5. TypeOK'
  <2>1. child' \in [Children -> ChildRows]
    BY <1>3 DEF Abandon
  <2>2. turn' \in [Turns -> TurnRows]
    BY Types DEF Typed, Abandon, TurnRows
  <2> QED
    BY <1>4, <2>1, <2>2, Types DEF Typed
<1>6. SameFamily
  BY <1>3 DEF SameFamily
<1>7. PendingIsExact'
  BY <1>3, <1>4, ListKept
<1>8. Accounted'
  BY <1>3 DEF Accounted
<1> QED
  BY <1>4, <1>5, <1>6, <1>7, <1>8, FamiliesKept, IdentityKept

-----------------------------------------------------------------------------
(* The tools.                                                              *)

(* What is read from the identity and the context is a conversation and,   *)
(* with it, a task or turn of that conversation or nobody.                 *)
LEMMA ReadIdentity ==
    ASSUME IInv, NEW t \in Turns, First(caller.of, Context(t)) # Nobody
    PROVE  LET of == First(caller.of, Context(t))
               parent == First(caller.task, Context(t))
           IN  /\ of \in Turns
               /\ parent \in Runs
               /\ parent \in Turns => of = parent
               /\ parent \in Children => child[parent].stage # "none" /\ of = child[parent].of
<1>1. caller.of \in Owners /\ caller.task \in Children \cup {Nobody}
  BY Types DEF IInv, Typed, Callers
<1>2. \A c \in Children : child[c].stage # "none" => child[c].of \in Turns
  BY DEF IInv, Accounted
<1> USE DelegationAssumption DEF First, Context, Owners, Runs
<1>3. CASE caller.task \in Children
  BY <1>1, <1>2, <1>3 DEF IInv, OneIdentity
<1>4. CASE caller.task = Nobody
  BY <1>1, <1>4 DEF IInv, OneIdentity
<1> QED
  BY <1>1, <1>3, <1>4

(* A task is drafted under a parent of its own conversation.               *)
LEMMA ReadCallerInvariant ==
    ASSUME IInv, NEW t \in Turns, NEW c \in Children, ReadCaller(t, c)
    PROVE  IInv'
<1> DEFINE of == First(caller.of, Context(t))
           parent == First(caller.task, Context(t))
           new == [NoChild EXCEPT !.stage = "drafted", !.by = t, !.of = of, !.parent = parent]
<1> USE DEF IInv
<1>1. /\ of # Nobody
      /\ child[c].stage = "none"
      /\ turn' = [turn EXCEPT ![t].stage = "calling"]
      /\ child' = [child EXCEPT ![c] = new]
      /\ UNCHANGED <<surface, caller, pending>>
  BY DEF ReadCaller
<1>2. /\ of \in Turns
      /\ parent \in Runs
      /\ parent \in Turns => of = parent
      /\ parent \in Children => child[parent].stage # "none" /\ of = child[parent].of
  BY <1>1, ReadIdentity
<1> HIDE DEF of, parent
<1>3. /\ new \in ChildRows
      /\ new.stage = "drafted" /\ new.by = t /\ new.of = of /\ new.parent = parent
      /\ new.starts = 0
  <2>1. NoChild \in ChildRows /\ NoChild.starts = 0
    BY DEF NoChild, ChildRows, Owners, Runs
  <2>2. t \in Owners /\ of \in Owners /\ parent \in Runs
    BY <1>2 DEF Owners
  <2> HIDE DEF NoChild
  <2> QED
    BY <2>1, <2>2 DEF ChildRows
<1> HIDE DEF new
<1>4. \A d \in Children : child'[d] = IF d = c THEN new ELSE child[d]
  BY <1>1, Types DEF Typed
<1>5. TypeOK'
  <2>1. child' \in [Children -> ChildRows]
    BY <1>1, <1>3, Types DEF Typed
  <2>2. turn' \in [Turns -> TurnRows]
    BY <1>1, Types DEF Typed, TurnRows
  <2> QED
    BY <1>1, <2>1, <2>2, Types DEF Typed
<1>6. PendingIsExact'
  <2>1. \A d \in Children : child'[d].stage = "queued" <=> child[d].stage = "queued"
    BY <1>1, <1>3, <1>4
  <2>2. c \notin ToSet(pending)
    BY <1>1 DEF PendingIsExact
  <2> QED
    BY <1>1, <1>4, <2>1, <2>2 DEF PendingIsExact
<1>7. Accounted'
  BY <1>2, <1>3, <1>4 DEF Accounted
<1>8. ParentsExist'
  BY <1>2, <1>3, <1>4 DEF ParentsExist
<1>9. ParentsShareConversation'
  <2>1. \A d \in Children : child[d].parent = c => c \notin Children
    BY <1>1 DEF ParentsExist
  <2> QED
    BY <1>1, <1>2, <1>3, <1>4, <2>1 DEF ParentsShareConversation
<1>10. OneIdentity'
  BY <1>1, <1>3, <1>4 DEF OneIdentity, Web
<1> QED
  BY <1>5, <1>6, <1>7, <1>8, <1>9, <1>10

(* The test run of a task is settled without touching whose task it is.    *)
LEMMA ResolveRunInvariant == ASSUME IInv, NEW c \in Children, ResolveRun(c) PROVE IInv'
<1> USE DEF IInv
<1>1. PICK r \in Runs :
         /\ child' = [child EXCEPT ![c].stage = "inserting", ![c].run = r]
         /\ caller' = [caller EXCEPT !.run = First(r, @)]
         /\ turn' = [turn EXCEPT ![child[c].by].run = IF Web THEN @ ELSE First(r, @)]
  <2>1. turn[child[c].by].run \in Runs
    BY Types DEF Typed, TurnRows, ResolveRun, Accounted
  <2>2. First(caller.run, Context(turn[child[c].by].run)) \in Runs
    BY <2>1, Types DEF Typed, Callers, First, Context, Runs
  <2> QED
    BY <2>2 DEF ResolveRun, Runs
<1>2. child[c].stage = "drafted" /\ UNCHANGED <<surface, pending>>
  BY DEF ResolveRun
<1>3. child[c] \in ChildRows /\ caller \in Callers
  BY Types DEF Typed
<1>4. \A d \in Children : /\ child'[d] \in ChildRows
                          /\ d # c => child'[d] = child[d]
  <2>1. [child[c] EXCEPT !.stage = "inserting", !.run = r] \in ChildRows
    BY <1>1, <1>3 DEF ChildRows
  <2> QED
    BY <1>1, <2>1, Types DEF Typed
<1>5. /\ child'[c].stage = "inserting" /\ child'[c].by = child[c].by
      /\ child'[c].of = child[c].of /\ child'[c].parent = child[c].parent
      /\ child'[c].starts = child[c].starts
  <2>1. child'[c] = [child[c] EXCEPT !.stage = "inserting", !.run = r]
    BY <1>1, Types DEF Typed
  <2> QED
    BY <1>3, <2>1 DEF ChildRows
<1>6. caller' \in Callers /\ caller'.of = caller.of /\ caller'.task = caller.task
  BY <1>1, <1>3 DEF Callers, First
<1>7. turn' \in [Turns -> TurnRows]
  <2>1. \A t \in Turns : First(r, turn[t].run) \in Runs
    BY <1>1, Types DEF Typed, TurnRows, First
  <2>2. child[c].by \in Turns
    BY <1>2 DEF Accounted
  <2>3. \A run \in Runs : [turn[child[c].by] EXCEPT !.run = run] \in TurnRows
    BY <2>2, Types DEF Typed, TurnRows
  <2>4. turn' = [turn EXCEPT ![child[c].by] = [turn[child[c].by] EXCEPT !.run = IF Web THEN @ ELSE First(r, @)]]
    BY <1>1
  <2>5. (IF Web THEN turn[child[c].by].run ELSE First(r, turn[child[c].by].run)) \in Runs
    BY <2>1, <2>2, Types DEF Typed, TurnRows
  <2> QED
    BY <2>2, <2>3, <2>4, <2>5, Types DEF Typed
<1>8. TypeOK'
  <2>1. child' \in [Children -> ChildRows]
    BY <1>1, <1>4, Types DEF Typed
  <2> QED
    BY <1>2, <1>6, <1>7, <2>1, Types DEF Typed
<1>9. SameFamily
  BY <1>2, <1>4, <1>5 DEF SameFamily
<1>10. PendingIsExact'
  BY <1>2, <1>4, <1>5, ListKept
<1>11. Accounted'
  BY <1>2, <1>4, <1>5 DEF Accounted
<1> QED
  BY <1>2, <1>6, <1>8, <1>9, <1>10, <1>11, FamiliesKept, IdentityKept

(* A step of one task that keeps its family, and the list unless it is     *)
(* about to queue it.                                                      *)
LEMMA StageInvariant ==
    ASSUME IInv, NEW c \in Children, NEW new \in ChildRows, child[c].stage # "none",
           new.stage \in {"failed", "running", "ended"},
           child[c].stage # "queued",
           new.by = child[c].by, new.of = child[c].of, new.parent = child[c].parent,
           child' = [child EXCEPT ![c] = new], UNCHANGED <<surface, pending>>,
           turn' \in [Turns -> TurnRows], caller' \in Callers,
           \/ caller'.of = caller.of /\ caller'.task = caller.task
           \/ caller'.of = Nobody /\ caller'.task = Nobody
    PROVE  IInv'
<1> USE DEF IInv
<1>1. \A d \in Children : child'[d] = IF d = c THEN new ELSE child[d]
  BY Types DEF Typed
<1>2. TypeOK'
  BY Types DEF Typed
<1>3. SameFamily
  BY <1>1 DEF SameFamily
<1>4. PendingIsExact'
  <2>1. \A d \in ToSet(pending) : child'[d] = child[d]
    BY <1>1 DEF PendingIsExact
  <2>2. \A d \in Children : child'[d].stage = "queued" <=> child[d].stage = "queued"
    BY <1>1
  <2> QED
    BY <2>1, <2>2 DEF PendingIsExact
<1>5. Accounted'
  BY <1>1 DEF Accounted
<1> QED
  BY <1>2, <1>3, <1>4, <1>5, FamiliesKept, IdentityKept

(* A task enters the list when its row is inserted, and never again.       *)
LEMMA QueueInvariant == ASSUME IInv, NEW c \in Children, Queue(c) PROVE IInv'
<1> USE DEF IInv
<1>1. /\ child[c].stage = "inserting"
      /\ turn' = [turn EXCEPT ![child[c].by].stage = "streaming"]
      /\ child' = [child EXCEPT ![c].stage = "queued"]
      /\ pending' = Append(pending, c)
      /\ UNCHANGED <<surface, caller>>
  BY DEF Queue
<1>2. child[c] \in ChildRows
  BY Types DEF Typed
<1>3. \A d \in Children : d # c => child'[d] = child[d]
  BY <1>1, Types DEF Typed
<1>4. /\ child'[c] \in ChildRows /\ child'[c].stage = "queued" /\ child'[c].by = child[c].by
      /\ child'[c].of = child[c].of /\ child'[c].parent = child[c].parent
      /\ child'[c].starts = child[c].starts
  <2>1. child'[c] = [child[c] EXCEPT !.stage = "queued"]
    BY <1>1, Types DEF Typed
  <2> QED
    BY <1>2, <2>1 DEF ChildRows
<1>5. TypeOK'
  <2>1. child' \in [Children -> ChildRows]
    BY <1>1, <1>3, <1>4, Types DEF Typed
  <2>2. turn' \in [Turns -> TurnRows]
    BY <1>1, Types DEF Typed, TurnRows
  <2>3. pending' \in Seq(Children)
    BY <1>1, Types, AppendProperties DEF Typed
  <2> QED
    BY <1>1, <2>1, <2>2, <2>3, Types DEF Typed
<1>6. SameFamily
  BY <1>1, <1>3, <1>4 DEF SameFamily
<1>7. PendingIsExact'
  <2>1. pending \in Seq(Children)
    BY Types DEF Typed
  <2>2. c \notin ToSet(pending)
    BY <1>1 DEF PendingIsExact
  <2>3. ToSet(pending') = ToSet(pending) \cup {c} /\ IsInjective(pending')
    BY <1>1, <2>1, <2>2, QueuedSet DEF PendingIsExact
  <2>4. \A d \in ToSet(pending') : child'[d].starts = 0
    BY <1>1, <1>3, <1>4, <2>3 DEF PendingIsExact, Accounted
  <2>5. \A d \in Children : child'[d].stage = "queued" <=> d \in ToSet(pending')
    BY <1>3, <1>4, <2>3 DEF PendingIsExact
  <2>6. ToSet(pending') \subseteq Children
    BY <2>3 DEF PendingIsExact
  <2> QED
    BY <2>3, <2>4, <2>5, <2>6 DEF PendingIsExact
<1>8. Accounted'
  BY <1>1, <1>3, <1>4 DEF Accounted
<1> QED
  BY <1>1, <1>5, <1>6, <1>7, <1>8, FamiliesKept, IdentityKept

(* check_task_status changes the test run and nothing else.                *)
LEMMA AdoptInvariant ==
    ASSUME IInv, NEW t \in Turns, NEW c \in Children, Adopt(t, c) PROVE IInv'
<1> USE DEF IInv
<1>1. /\ caller' = [caller EXCEPT !.run = c]
      /\ turn' = [turn EXCEPT ![t].run = IF Web THEN @ ELSE c]
      /\ UNCHANGED <<surface, pending, child>>
  BY DEF Adopt
<1>2. caller' \in Callers /\ caller'.of = caller.of /\ caller'.task = caller.task
  BY <1>1, Types DEF Typed, Callers, Runs
<1>3. turn' \in [Turns -> TurnRows]
  BY <1>1, Types DEF Typed, TurnRows, Runs
<1>4. TypeOK'
  BY <1>1, <1>2, <1>3, Types DEF Typed
<1>5. SameFamily
  BY <1>1 DEF SameFamily
<1> QED
  BY <1>1, <1>2, <1>4, <1>5, FamiliesKept, IdentityKept, ListKept DEF Accounted

-----------------------------------------------------------------------------
(* Specialists.                                                            *)

(* A specialist that restores an identity restores that of its own row.    *)
LEMMA BeginInvariant == ASSUME IInv, NEW c \in Children, Begin(c) PROVE IInv'
<1> USE DEF IInv
<1>1. PICK restores \in BOOLEAN :
         /\ restores => Web
         /\ child' = [child EXCEPT ![c].stage = "running", ![c].restored = restores]
         /\ caller' = IF restores THEN [of |-> child[c].of, task |-> c, run |-> child[c].run]
                      ELSE caller
  BY DEF Begin
<1>2. child[c].stage = "started" /\ UNCHANGED <<surface, pending, turn>>
  BY DEF Begin
<1> DEFINE new == [child[c] EXCEPT !.stage = "running", !.restored = restores]
<1>3. child[c] \in ChildRows
  BY Types DEF Typed
<1>4. /\ new \in ChildRows /\ new.stage = "running" /\ new.by = child[c].by
      /\ new.of = child[c].of /\ new.parent = child[c].parent
  BY <1>3 DEF ChildRows
<1>5. child' = [child EXCEPT ![c] = new]
  BY <1>1
<1> HIDE DEF new
<1>6. CASE ~restores
  BY <1>1, <1>2, <1>4, <1>5, <1>6, Types, StageInvariant, ZenonT(40) DEF Typed
<1>7. CASE restores
  <2>1. caller' = [of |-> child[c].of, task |-> c, run |-> child[c].run] /\ Web
    BY <1>1, <1>7
  <2>2. \A d \in Children : child'[d] = IF d = c THEN new ELSE child[d]
    BY <1>5, Types DEF Typed
  <2>3. TypeOK'
    <3>1. caller' \in Callers
      BY <1>3, <2>1 DEF Callers, ChildRows
    <3>2. child' \in [Children -> ChildRows]
      BY <1>4, <1>5, Types DEF Typed
    <3> QED
      BY <1>2, <3>1, <3>2, Types DEF Typed
  <2>4. SameFamily
    BY <1>2, <1>4, <2>2 DEF SameFamily
  <2>5. PendingIsExact'
    <3>1. \A d \in ToSet(pending) : child'[d] = child[d]
      BY <1>2, <2>2 DEF PendingIsExact
    <3>2. \A d \in Children : child'[d].stage = "queued" <=> child[d].stage = "queued"
      BY <1>2, <1>4, <2>2
    <3> QED
      BY <1>2, <3>1, <3>2 DEF PendingIsExact
  <2>6. Accounted'
    BY <1>2, <1>4, <2>2 DEF Accounted
  <2>7. OneIdentity'
    BY <1>2, <1>4, <2>1, <2>2 DEF OneIdentity, Web
  <2> QED
    BY <2>3, <2>4, <2>5, <2>6, <2>7, FamiliesKept
<1> QED
  BY <1>6, <1>7

(* At its end it clears the identity, whole.                               *)
LEMMA EndInvariant == ASSUME IInv, NEW c \in Children, End(c) PROVE IInv'
<1> DEFINE new == [child[c] EXCEPT !.stage = "ended"]
<1>1. /\ child[c].stage = "running"
      /\ child' = [child EXCEPT ![c] = new]
      /\ caller' = IF child[c].restored THEN Cleared ELSE caller
      /\ UNCHANGED <<surface, pending, turn>>
  BY DEF End
<1>2. child[c] \in ChildRows
  BY Types DEF IInv, Typed
<1>3. /\ new \in ChildRows /\ new.stage = "ended" /\ new.by = child[c].by
      /\ new.of = child[c].of /\ new.parent = child[c].parent
  BY <1>2 DEF ChildRows
<1> HIDE DEF new
<1>4. Cleared \in Callers /\ Cleared.of = Nobody /\ Cleared.task = Nobody
  BY DEF Cleared, Callers, Owners, Runs
<1>5. caller \in Callers /\ turn \in [Turns -> TurnRows]
  BY Types DEF IInv, Typed
<1> QED
  BY <1>1, <1>3, <1>4, <1>5, StageInvariant

-----------------------------------------------------------------------------
(* The specification.                                                      *)

LEMMA InitInvariant == Init => IInv
<1> SUFFICES ASSUME Init PROVE IInv
  OBVIOUS
<1>1. TypeOK
  BY EmptySeq, Types DEF Init, Typed, Callers, TurnRows, ChildRows, Cleared, NoTurn, NoChild, Owners, Runs
<1>2. PendingIsExact
  BY NothingQueued DEF Init, PendingIsExact, NoChild
<1>3. Accounted /\ ParentsExist /\ ParentsShareConversation /\ OneIdentity
  BY DelegationAssumption
     DEF Init, Accounted, ParentsExist, ParentsShareConversation, OneIdentity, NoChild, Cleared
<1> QED
  BY <1>1, <1>2, <1>3 DEF IInv

LEMMA StepInvariant == IInv /\ [Next]_vars => IInv'
<1> SUFFICES ASSUME IInv, [Next]_vars PROVE IInv'
  OBVIOUS
<1>1. ASSUME NEW t \in Turns, Drain(t) PROVE IInv'
  <2>1. turn' \in [Turns -> TurnRows]
    BY <1>1, Types DEF Drain, IInv, Typed
  <2> QED
    BY <1>1, <2>1, DrainInvariant DEF Drain
<1>2. ASSUME NEW t \in Turns, Close(t) PROVE IInv'
  <2>1. turn' \in [Turns -> TurnRows]
    BY <1>2, Types DEF Close, IInv, Typed, TurnRows
  <2> QED
    BY <1>2, <2>1, DrainInvariant DEF Close
<1>3. ASSUME NEW c \in Children, InsertFails(c) PROVE IInv'
  <2> DEFINE new == [child[c] EXCEPT !.stage = "failed"]
  <2>1. /\ child[c].stage = "inserting" /\ child' = [child EXCEPT ![c] = new]
        /\ UNCHANGED <<surface, pending, caller>>
    BY <1>3 DEF InsertFails
  <2>2. /\ new \in ChildRows /\ new.stage = "failed" /\ new.by = child[c].by
        /\ new.of = child[c].of /\ new.parent = child[c].parent
    BY Types DEF IInv, Typed, ChildRows
  <2> HIDE DEF new
  <2>3. turn' \in [Turns -> TurnRows] /\ caller \in Callers
    BY <1>3, Types DEF InsertFails, IInv, Typed, TurnRows
  <2> QED
    BY <2>1, <2>2, <2>3, StageInvariant
<1>4. CASE UNCHANGED vars
  BY <1>4 DEF vars, IInv, TypeOK, PendingIsExact, Accounted, ParentsExist,
              ParentsShareConversation, OneIdentity, Web
<1> QED
  BY <1>1, <1>2, <1>3, <1>4, OpenInvariant, AbandonInvariant, ReadCallerInvariant,
     ResolveRunInvariant, QueueInvariant, AdoptInvariant, BeginInvariant, EndInvariant
     DEF Next, Call

LEMMA Invariant == Spec => []IInv
BY InitInvariant, StepInvariant, PTL DEF Spec

(* Every variable stays in its type.                                       *)
THEOREM TypeCorrect == Spec => []TypeOK
<1>1. IInv => TypeOK
  BY DEF IInv
<1> QED
  BY <1>1, Invariant, PTL

(* The pending list holds exactly the tasks queued and not started, each   *)
(* once: no delegated task is executed twice.                              *)
THEOREM QueueIsExact == Spec => []PendingIsExact
<1>1. IInv => PendingIsExact
  BY DEF IInv
<1> QED
  BY <1>1, Invariant, PTL

(* A task never hangs under a task or turn of another conversation.        *)
THEOREM FamiliesShareConversation == Spec => []ParentsShareConversation
<1>1. IInv => ParentsShareConversation
  BY DEF IInv
<1> QED
  BY <1>1, Invariant, PTL

=============================================================================
