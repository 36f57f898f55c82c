------------------------- MODULE ConversationProofs -------------------------
(***************************************************************************)
(* Proofs about Conversation, for every set of turns and of ids and every  *)
(* limit, window and bound.                                                *)
(*                                                                         *)
(* The table of messages only grows, so a prompt is settled by what the    *)
(* table held when it was loaded: until a turn stores its texts, the table *)
(* holds none as late as its last one (Transcribed).  What a turn knows of *)
(* its run is settled by its row, which nobody else writes (Rows), and a   *)
(* run minted and written there is found again (Minting).                  *)
(***************************************************************************)
EXTENDS Conversation, FiniteSetTheorems, SequenceTheorems, TLAPS

Pcs == {"idle", "create", "task", "load", "store", "resolve", "run", "asked",
        "ending", "done", "refused"}

\* Where a turn has not stored its latest text yet, and where it has loaded
\* the transcript.
Unstored == {"create", "task", "load", "store"}
LoadedPcs == {"store", "resolve", "run"}
Over == {"ending", "done", "refused"}

Messages == [of : Turns \cup {Nothing}, what : Int]
Names == RunIds \cup (0 .. MaxClock) \cup {Nothing}

TurnStates == [pc : Pcs, row : Nat, texts : Nat, prose : Names, wants : SUBSET Intents,
               arrived : Nat, carried : Nat, history : Nat \cup {Unloaded}, run : Names,
               known : SUBSET Names, minted : SUBSET (0 .. MaxClock), unwritten : BOOLEAN]

TypeOK == /\ surface \in {"web_ui", "a2a"} /\ thread \in BOOLEAN
          /\ messages \in Seq(Messages)
          /\ tasks \in Seq(Names) /\ open \in SUBSET DOMAIN tasks
          /\ turn \in [Turns -> TurnStates]
          /\ clock \in 0 .. MaxClock

\* The texts of turn t that the table holds, and those its prompt starts with.
Transcribed(t) ==
    /\ turn[t].pc = "idle" => turn[t].texts = 0
    /\ turn[t].pc \notin Over \cup {"idle"} => turn[t].texts >= 1
    /\ \A j \in DOMAIN messages :
          messages[j].of = t =>
              /\ messages[j].what <= turn[t].texts
              /\ turn[t].pc \in Unstored => messages[j].what < turn[t].texts
    /\ turn[t].arrived \in 0 .. Len(messages) /\ turn[t].carried \in 0 .. Len(messages)
    /\ turn[t].history \in {Unloaded} \cup 0 .. Len(messages)
    /\ turn[t].pc \in LoadedPcs =>
          /\ turn[t].history # Unloaded =>
                 turn[t].history >= Limit \/ turn[t].history >= turn[t].arrived
          /\ \A j \in 1 .. turn[t].history : messages[j] # Message(t, turn[t].texts)
          /\ \A j \in 1 .. turn[t].carried : messages[j] # Message(t, turn[t].texts)

\* Where a turn has no row yet.
Early == {"idle", "create", "task"}

\* The row of a turn is its own.
OwnRow(t) ==
    /\ turn[t].row \in {0} \cup DOMAIN tasks
    /\ turn[t].row \notin open
    /\ \A u \in Turns \ {t} : turn[u].row = turn[t].row => turn[t].row = 0
    /\ turn[t].pc \in Early => turn[t].row = 0
    /\ surface = "a2a" /\ turn[t].pc \in {"load", "store", "resolve", "run", "asked"}
          => turn[t].row # 0

Guessed(t) ==
    /\ turn[t].run \notin turn[t].minted \cup {turn[t].prose, Nothing}
    /\ turn[t].row = 0 \/ tasks[turn[t].row] # turn[t].run
    /\ turn[t].known # {turn[t].run}
    /\ Len(tasks) <= Window

NotGuessed(t) == turn[t].pc = "run" => ~Guessed(t)

\* A turn that minted a run and goes on finds it in its row, unless it was
\* not written; the Web UI writes none, and does not go on.
MintedOnce(t) ==
    /\ turn[t].unwritten \/ turn[t].minted = {} \/ \E c \in Int : turn[t].minted = {c}
    /\ /\ turn[t].minted # {} /\ ~turn[t].unwritten /\ turn[t].pc \notin Over
       /\ surface = "a2a" \/ turn[t].pc # "run"
       => turn[t].row # 0 /\ tasks[turn[t].row] # Nothing

IInv == /\ TypeOK
        /\ \A t \in Turns : Transcribed(t)
        /\ \A t \in Turns : OwnRow(t)
        /\ \A t \in Turns : NotGuessed(t)
        /\ \A t \in Turns : MintedOnce(t)

-----------------------------------------------------------------------------
(* The operators.                                                          *)

LEMMA MinOfTwo ==
    ASSUME NEW a \in Nat, NEW b \in Nat
    PROVE  Min({a, b}) \in {a, b} /\ Min({a, b}) <= a /\ Min({a, b}) <= b
<1>1. \E x \in {a, b} : \A y \in {a, b} : x <= y
  OBVIOUS
<1> QED
  BY <1>1 DEF Min

\* What a turn stores: texts of its own, the last of them last.
LEMMA NewTextsAreOwn ==
    ASSUME TypeOK, NEW t \in Turns, turn[t].texts >= 1
    PROVE  /\ NewTexts(t) \in Seq(Messages) /\ Len(NewTexts(t)) \in Nat \ {0}
           /\ \A k \in 1 .. Len(NewTexts(t)) :
                 /\ NewTexts(t)[k].of = t /\ NewTexts(t)[k].what <= turn[t].texts
                 /\ NewTexts(t)[k] = Message(t, turn[t].texts) <=> k = Len(NewTexts(t))
<1> DEFINE n == turn[t].texts
<1>1. n \in Nat \ {0}
  BY DEF TypeOK, TurnStates
<1>2. \A k \in Nat : Message(t, k) \in Messages /\ Message(t, k).of = t /\ Message(t, k).what = k
  BY DEF Message, Messages
<1>3. CASE n = 1
  <2>1. NewTexts(t) = <<Message(t, 1)>>
    BY <1>3 DEF NewTexts
  <2> QED
    BY <1>2, <1>3, <2>1
<1>4. CASE n # 1
  <2>1. NewTexts(t) = [i \in 1 .. n - 1 |-> Message(t, i + 1)]
    BY <1>4 DEF NewTexts
  <2>2. NewTexts(t) \in Seq(Messages) /\ Len(NewTexts(t)) = n - 1
    BY <1>1, <1>2, <1>4, <2>1
  <2>3. \A k \in 1 .. n - 1 : NewTexts(t)[k] = Message(t, k + 1)
    BY <2>1
  <2> QED
    BY <1>1, <1>2, <1>4, <2>2, <2>3, SMTT(20)
<1> QED
  BY <1>3, <1>4

-----------------------------------------------------------------------------
(* What each action does to the turn it is of.                             *)

Fields == {"pc", "row", "texts", "prose", "wants", "arrived", "carried", "history", "run",
           "known", "minted", "unwritten"}

\* Only turn t moves, and of it only the fields in changed.
Moves(t, changed) ==
    /\ turn' \in [Turns -> TurnStates]
    /\ \A u \in Turns \ {t} : turn'[u] = turn[u]
    /\ \A f \in Fields \ changed : turn'[t][f] = turn[t][f]

\* Turn t becomes the record r.
Becomes(t, r) == turn' = [turn EXCEPT ![t] = r]

LEMMA BecomesMoves ==
    ASSUME TypeOK, NEW t \in Turns, NEW r \in TurnStates, Becomes(t, r)
    PROVE  Moves(t, Fields) /\ turn'[t] = r
BY DEF TypeOK, Becomes, Moves

LEMMA GoneFields ==
    ASSUME ConversationAssumption, TypeOK, NEW t \in Turns, NEW pc \in Over
    PROVE  /\ Gone(t, pc) \in TurnStates
           /\ Gone(t, pc).pc = pc /\ Gone(t, pc).row = 0 /\ Gone(t, pc).texts = turn[t].texts
           /\ Gone(t, pc).minted = turn[t].minted /\ Gone(t, pc).unwritten = turn[t].unwritten
           /\ Gone(t, pc).arrived = 0 /\ Gone(t, pc).carried = 0
           /\ Gone(t, pc).history = Unloaded
<1>1. turn[t] \in TurnStates
  BY DEF TypeOK
<1>2. PICK r : r = Gone(t, pc)
  OBVIOUS
<1>3. r = [pc |-> pc, row |-> 0, texts |-> turn[t].texts, prose |-> Nothing, wants |-> {},
           arrived |-> 0, carried |-> 0, history |-> Unloaded, run |-> Nothing, known |-> {},
           minted |-> turn[t].minted, unwritten |-> turn[t].unwritten]
  BY <1>2 DEF Gone, Blank
<1>4. r \in TurnStates
  BY <1>1, <1>3 DEF TurnStates, Names, Pcs, Over
<1> QED
  BY <1>2, <1>3, <1>4

LEMMA AskingFields ==
    ASSUME ConversationAssumption, TypeOK, NEW t \in Turns, NEW ids \in SUBSET Names
    PROVE  /\ Asking(t, ids) \in TurnStates
           /\ Asking(t, ids).pc = "asked"
           /\ \A f \in Fields \ {"pc", "run", "known", "arrived", "history"} :
                 Asking(t, ids)[f] = turn[t][f]
           /\ Asking(t, ids).arrived = 0 /\ Asking(t, ids).history = Unloaded
<1>1. turn[t] \in TurnStates
  BY DEF TypeOK
<1>2. PICK r : r = Asking(t, ids)
  OBVIOUS
<1>3. r = [pc |-> "asked", row |-> turn[t].row, texts |-> turn[t].texts,
           prose |-> turn[t].prose, wants |-> turn[t].wants, arrived |-> 0,
           carried |-> turn[t].carried, history |-> Unloaded, run |-> Nothing, known |-> ids,
           minted |-> turn[t].minted, unwritten |-> turn[t].unwritten]
  BY <1>1, <1>2, ZenonT(40) DEF Asking, TurnStates
<1>4. r \in TurnStates
  BY <1>1, <1>3 DEF TurnStates, Names, Pcs
<1> QED
  BY <1>2, <1>3, <1>4 DEF Fields

LEMMA OnlyPcMoves ==
    ASSUME TypeOK, NEW t \in Turns, NEW to \in Pcs, turn' = [turn EXCEPT ![t].pc = to]
    PROVE  Moves(t, {"pc"}) /\ turn'[t].pc = to
<1>1. turn[t] \in TurnStates
  BY DEF TypeOK
<1>2. turn'[t] = [turn[t] EXCEPT !.pc = to]
  BY DEF TypeOK
<1>3. turn'[t] \in TurnStates
  BY <1>1, <1>2, SMTT(20) DEF TurnStates
<1> QED
  BY <1>1, <1>2, <1>3 DEF Moves, TypeOK, TurnStates, Fields

LEMMA ArriveMoves ==
    ASSUME ConversationAssumption, TypeOK, NEW t \in Turns, Arrive(t)
    PROVE  /\ Moves(t, {"pc", "texts", "prose", "wants", "arrived", "carried"})
           /\ turn[t].pc = "idle" /\ turn'[t].pc \in {"create", "task", "load"}
           /\ turn'[t].pc = "load" => surface = "web_ui"
           /\ turn'[t].texts = 1 /\ turn'[t].arrived = Len(messages)
           /\ turn'[t].carried \in {0, Len(messages)}
<1>1. PICK id \in RunIds \cup {Nothing}, w \in Requests,
           n \in IF surface = "a2a" THEN {0} ELSE {0, Len(messages)} :
        /\ surface = "web_ui" => "comparison" \notin w
        /\ turn' = [turn EXCEPT ![t].pc = IF thread THEN Opened ELSE "create",
                                ![t].texts = 1, ![t].prose = id, ![t].wants = w,
                                ![t].arrived = Len(messages), ![t].carried = n]
  BY Zenon DEF Arrive
<1>2. turn[t] \in TurnStates /\ turn[t].pc = "idle"
  BY DEF TypeOK, Arrive, At
<1> DEFINE to == IF thread THEN Opened ELSE "create"
<1>3. to \in {"create", "task", "load"} /\ (to = "load" => surface = "web_ui")
  BY DEF Opened, TypeOK
<1>4. turn' = [turn EXCEPT ![t] = [turn[t] EXCEPT !.pc = to, !.texts = 1, !.prose = id,
                                     !.wants = w, !.arrived = Len(messages), !.carried = n]]
  BY <1>1, <1>2 DEF TypeOK
<1> HIDE DEF to
<1>5. w \in SUBSET Intents /\ n \in {0, Len(messages)} /\ Len(messages) \in Nat /\ id \in Names
      /\ to \in Pcs
  BY <1>3 DEF ConversationAssumption, TypeOK, Names, Pcs
<1>6. turn'[t] = [turn[t] EXCEPT !.pc = to, !.texts = 1, !.prose = id,
                                 !.wants = w, !.arrived = Len(messages), !.carried = n]
  BY <1>4 DEF TypeOK
<1>7. turn'[t] = [pc |-> to, row |-> turn[t].row, texts |-> 1, prose |-> id, wants |-> w,
                 arrived |-> Len(messages), carried |-> n, history |-> turn[t].history,
                 run |-> turn[t].run, known |-> turn[t].known, minted |-> turn[t].minted,
                 unwritten |-> turn[t].unwritten]
  BY <1>2, <1>6, ZenonT(40) DEF TurnStates
<1>8. turn'[t] \in TurnStates
  BY <1>2, <1>5, <1>7, SMTT(20) DEF TurnStates
<1>9. turn' \in [Turns -> TurnStates] /\ \A u \in Turns \ {t} : turn'[u] = turn[u]
  BY <1>4, <1>8 DEF TypeOK
<1>10. \A f \in Fields \ {"pc", "texts", "prose", "wants", "arrived", "carried"} : turn'[t][f] = turn[t][f]
  BY <1>7 DEF Fields
<1> QED
  BY <1>2, <1>3, <1>5, <1>7, <1>9, <1>10 DEF Moves

LEMMA CreateThreadMoves ==
    ASSUME ConversationAssumption, TypeOK, NEW t \in Turns, CreateThread(t)
    PROVE  /\ turn[t].pc = "create"
           /\ \/ Becomes(t, Gone(t, "refused"))
              \/ /\ Moves(t, {"pc"}) /\ turn'[t].pc \in {"task", "load"}
                 /\ turn'[t].pc = "load" => surface = "web_ui"
<1>1. turn[t].pc = "create"
  BY DEF CreateThread, At
<1>2. CASE thread
  <2>1. Becomes(t, Gone(t, "refused"))
    BY <1>2 DEF CreateThread, Becomes
  <2> QED
    BY <1>1, <2>1
<1>3. CASE ~thread
  <2>1. Opened \in {"task", "load"} /\ (Opened = "load" => surface = "web_ui") /\ Opened \in Pcs
    BY DEF Opened, TypeOK, Pcs
  <2>2. turn' = [turn EXCEPT ![t].pc = Opened]
    BY <1>3 DEF CreateThread
  <2> QED
    BY <1>1, <2>1, <2>2, OnlyPcMoves
<1> QED
  BY <1>2, <1>3

LEMMA CreateTaskMoves ==
    ASSUME ConversationAssumption, TypeOK, NEW t \in Turns, CreateTask(t)
    PROVE  /\ Moves(t, {"pc", "row"})
           /\ turn[t].pc = "task" /\ turn'[t].pc = "load" /\ turn'[t].row = Len(tasks) + 1
           /\ \E id \in Names : tasks' = Append(tasks, id)
<1>1. \E id \in Names : tasks' = Append(tasks, id)
  BY DEF CreateTask, Names
<1>2. Len(tasks') = Len(tasks) + 1 /\ Len(tasks) \in Nat
  BY <1>1 DEF TypeOK
<1>3. turn[t] \in TurnStates /\ turn[t].pc = "task"
  BY DEF TypeOK, CreateTask, At
<1>4. turn'[t] = [turn[t] EXCEPT !.pc = "load", !.row = Len(tasks')]
  BY <1>3 DEF TypeOK, CreateTask
<1>5. turn'[t] \in TurnStates
  <2>1. turn'[t] = [pc |-> "load", row |-> Len(tasks'), texts |-> turn[t].texts,
                    prose |-> turn[t].prose, wants |-> turn[t].wants,
                    arrived |-> turn[t].arrived, carried |-> turn[t].carried,
                    history |-> turn[t].history, run |-> turn[t].run, known |-> turn[t].known,
                    minted |-> turn[t].minted, unwritten |-> turn[t].unwritten]
    BY <1>3, <1>4, ZenonT(40) DEF TurnStates
  <2> QED
    BY <1>2, <1>3, <2>1 DEF TurnStates, Pcs
<1>6. turn' \in [Turns -> TurnStates] /\ \A u \in Turns \ {t} : turn'[u] = turn[u]
  BY <1>5 DEF TypeOK, CreateTask
<1>7. \A f \in Fields \ {"pc", "row"} : turn'[t][f] = turn[t][f]
  BY <1>3, <1>4 DEF TurnStates, Fields
<1>8. turn'[t].pc = "load" /\ turn'[t].row = Len(tasks')
  BY <1>3, <1>4 DEF TurnStates
<1> QED
  BY <1>1, <1>2, <1>3, <1>6, <1>7, <1>8 DEF Moves

LEMMA LoadMoves ==
    ASSUME ConversationAssumption, TypeOK, NEW t \in Turns, Load(t)
    PROVE  /\ turn[t].pc = "load"
           /\ \/ Becomes(t, Gone(t, "ending"))
              \/ /\ Moves(t, {"pc", "history"}) /\ turn'[t].pc = "store"
                 /\ turn'[t].history \in {Loaded, Unloaded}
<1>1. turn[t] \in TurnStates /\ turn[t].pc = "load"
  BY DEF TypeOK, Load, At
<1>2. Loaded \in Nat
  <2>1. Limit \in Nat /\ Len(messages) \in Nat
    BY DEF ConversationAssumption, TypeOK
  <2> QED
    BY <2>1, MinOfTwo DEF Loaded
<1>3. ASSUME NEW h \in {Loaded, Unloaded},
             turn' = [turn EXCEPT ![t] = [turn[t] EXCEPT !.pc = "store", !.history = h]]
      PROVE  /\ Moves(t, {"pc", "history"}) /\ turn'[t].pc = "store"
             /\ turn'[t].history \in {Loaded, Unloaded}
  <2>1. turn'[t] = [turn[t] EXCEPT !.pc = "store", !.history = h]
    BY <1>3 DEF TypeOK
  <2>2. turn'[t] \in TurnStates
    <3>1. turn'[t] = [pc |-> "store", row |-> turn[t].row, texts |-> turn[t].texts,
                      prose |-> turn[t].prose, wants |-> turn[t].wants,
                      arrived |-> turn[t].arrived, carried |-> turn[t].carried, history |-> h,
                      run |-> turn[t].run, known |-> turn[t].known, minted |-> turn[t].minted,
                      unwritten |-> turn[t].unwritten]
      BY <1>1, <2>1, ZenonT(40) DEF TurnStates
    <3> QED
      BY <1>1, <1>2, <3>1 DEF TurnStates, Pcs
  <2>3. turn' \in [Turns -> TurnStates] /\ \A u \in Turns \ {t} : turn'[u] = turn[u]
    BY <1>3, <2>2 DEF TypeOK
  <2>4. \A f \in Fields \ {"pc", "history"} : turn'[t][f] = turn[t][f]
    BY <1>1, <2>1 DEF TurnStates, Fields
  <2>5. turn'[t].pc = "store" /\ turn'[t].history = h
    BY <1>1, <2>1 DEF TurnStates
  <2> QED
    BY <2>3, <2>4, <2>5 DEF Moves
<1>4. \/ turn' = [turn EXCEPT ![t].pc = "store", ![t].history = Loaded]
      \/ turn' = [turn EXCEPT ![t] = IF surface = "a2a" THEN Gone(t, "ending")
                                     ELSE [@ EXCEPT !.pc = "store", !.history = Unloaded]]
  BY Zenon DEF Load
<1>5. CASE turn' = [turn EXCEPT ![t].pc = "store", ![t].history = Loaded]
  <2>1. turn' = [turn EXCEPT ![t] = [turn[t] EXCEPT !.pc = "store", !.history = Loaded]]
    BY <1>1, <1>5 DEF TypeOK
  <2> QED
    BY <1>1, <1>3, <2>1
<1>6. CASE turn' = [turn EXCEPT ![t] = IF surface = "a2a" THEN Gone(t, "ending")
                                     ELSE [@ EXCEPT !.pc = "store", !.history = Unloaded]]
  <2>1. CASE surface = "a2a"
    BY <1>1, <1>6, <2>1 DEF Becomes
  <2>2. CASE surface # "a2a"
    BY <1>1, <1>3, <1>6, <2>2
  <2> QED
    BY <2>1, <2>2
<1> QED
  BY <1>4, <1>5, <1>6

LEMMA StoreMoves ==
    ASSUME TypeOK, NEW t \in Turns, Store(t)
    PROVE  /\ turn[t].pc = "store" /\ Moves(t, {"pc"}) /\ turn'[t].pc = "resolve"
BY OnlyPcMoves DEF Store, At, Pcs

LEMMA NamedIsName ==
    ASSUME TypeOK, NEW t \in Turns, OwnRow(t)
    PROVE  Named(t) \in Names
BY DEF TypeOK, TurnStates, OwnRow, Named

LEMMA IdsAreNames == ASSUME TypeOK PROVE Ids(tasks) \in SUBSET Names
BY DEF TypeOK, Ids, ToSet

LEMMA RecentAreIds ==
    ASSUME ConversationAssumption, TypeOK
    PROVE  /\ Recent \subseteq Ids(tasks)
           /\ Len(tasks) <= Window => Recent = Ids(tasks)
<1> DEFINE n == Len(tasks)
           from == n - Min({Window, n}) + 1
           part == SubSeq(tasks, from, n)
<1>1. n \in Nat /\ Window \in Nat \ {0} /\ tasks \in Seq(Names)
  BY DEF TypeOK, ConversationAssumption
<1>2. Min({Window, n}) \in {Window, n} /\ Min({Window, n}) <= n
      /\ (n <= Window => Min({Window, n}) = n)
  BY <1>1, MinOfTwo, SMTT(20)
<1>3. from \in Int /\ 1 <= from /\ from <= n + 1 /\ (n <= Window => from = 1)
  BY <1>1, <1>2
<1> HIDE DEF from
<1>4. /\ Len(part) = n - from + 1
      /\ \A i \in 1 .. Len(part) : part[i] = tasks[from + i - 1]
      /\ part \in Seq(Names)
  BY <1>1, <1>3
<1>5. ToSet(part) \subseteq ToSet(tasks)
  BY <1>1, <1>3, <1>4 DEF ToSet
<1>6. ASSUME n <= Window PROVE ToSet(tasks) \subseteq ToSet(part)
  <2>1. from = 1
    BY <1>3, <1>6
  <2>2. Len(part) = n
    BY <1>1, <1>4, <2>1
  <2>3. \A i \in 1 .. n : part[i] = tasks[i]
    BY <1>1, <1>4, <2>1, <2>2
  <2>4. DOMAIN part = 1 .. n /\ DOMAIN tasks = 1 .. n
    BY <1>1, <1>4, <2>2
  <2> QED
    BY <2>3, <2>4 DEF ToSet
<1>7. Recent = ToSet(part) \ {Nothing}
  BY DEF Recent, Ids, from
<1> QED
  BY <1>5, <1>6, <1>7 DEF Ids

LEMMA IdsAreFinite == ASSUME TypeOK PROVE IsFiniteSet(Ids(tasks))
<1>1. tasks \in Seq(Names) /\ Len(tasks) \in Nat /\ DOMAIN tasks = 1 .. Len(tasks)
  BY DEF TypeOK
<1>2. IsFiniteSet(1 .. Len(tasks))
  BY <1>1, FS_Interval
<1>3. tasks \in Surjection(1 .. Len(tasks), ToSet(tasks))
  BY <1>1 DEF Surjection, ToSet
<1>4. IsFiniteSet(ToSet(tasks))
  BY <1>2, <1>3, FS_Surjection DEF ExistsSurjection
<1> QED
  BY <1>4, FS_Subset DEF Ids

\* The sole id of the recent ones is the sole id of the thread, unless there
\* are more tasks than the window holds.
LEMMA SoleIsSole ==
    ASSUME ConversationAssumption, TypeOK
    PROVE  /\ SoleOf(Recent) \in Names
           /\ SoleOf(Recent) # Nothing /\ Len(tasks) <= Window
                 => Ids(tasks) = {SoleOf(Recent)}
<1>1. IsFiniteSet(Recent)
  BY RecentAreIds, IdsAreFinite, FS_Subset
<1>2. CASE Cardinality(Recent) = 1
  <2>1. PICK x : Recent = {x}
    BY <1>1, <1>2, FS_Singleton
  <2>2. SoleOf(Recent) = x
    BY <1>2, <2>1 DEF SoleOf
  <2> QED
    BY <2>1, <2>2, RecentAreIds, IdsAreNames
<1>3. CASE Cardinality(Recent) # 1
  BY <1>3 DEF SoleOf, Names
<1> QED
  BY <1>2, <1>3

\* Turn t goes on with a run it was given.
Given(t, id) ==
    /\ Moves(t, {"pc", "run", "known"})
    /\ turn'[t].pc = "run" /\ turn'[t].run = id

GivenAnd(t, id, ids) ==
    turn' = [turn EXCEPT ![t].pc = "run", ![t].run = id, ![t].known = ids]
GivenAlone(t, id) == turn' = [turn EXCEPT ![t].pc = "run", ![t].run = id]

LEMMA GivenMoves ==
    ASSUME TypeOK, NEW t \in Turns, NEW id \in Names, NEW ids \in SUBSET Names,
           GivenAnd(t, id, ids)
    PROVE  Given(t, id) /\ turn'[t].known = ids
<1>1. turn[t] \in TurnStates
  BY DEF TypeOK
<1>2. turn'[t] = [turn[t] EXCEPT !.pc = "run", !.run = id, !.known = ids]
  BY <1>1 DEF TypeOK, TurnStates, GivenAnd
<1>3. turn'[t] = [pc |-> "run", row |-> turn[t].row, texts |-> turn[t].texts,
                  prose |-> turn[t].prose, wants |-> turn[t].wants,
                  arrived |-> turn[t].arrived, carried |-> turn[t].carried,
                  history |-> turn[t].history, run |-> id, known |-> ids,
                  minted |-> turn[t].minted, unwritten |-> turn[t].unwritten]
  BY <1>1, <1>2, ZenonT(40) DEF TurnStates
<1>4. turn'[t] \in TurnStates
  BY <1>1, <1>3 DEF TurnStates, Pcs
<1>5. turn' \in [Turns -> TurnStates] /\ \A u \in Turns \ {t} : turn'[u] = turn[u]
  BY <1>4 DEF TypeOK, GivenAnd
<1>6. \A f \in Fields \ {"pc", "run", "known"} : turn'[t][f] = turn[t][f]
  BY <1>3 DEF Fields
<1> QED
  BY <1>3, <1>5, <1>6 DEF Given, Moves

LEMMA GivenAloneMoves ==
    ASSUME TypeOK, NEW t \in Turns, NEW id \in Names,
           GivenAlone(t, id)
    PROVE  Given(t, id)
<1>1. turn[t] \in TurnStates
  BY DEF TypeOK
<1>2. turn'[t] = [turn[t] EXCEPT !.pc = "run", !.run = id]
  BY <1>1 DEF TypeOK, TurnStates, GivenAlone
<1>3. turn'[t] = [pc |-> "run", row |-> turn[t].row, texts |-> turn[t].texts,
                  prose |-> turn[t].prose, wants |-> turn[t].wants,
                  arrived |-> turn[t].arrived, carried |-> turn[t].carried,
                  history |-> turn[t].history, run |-> id, known |-> turn[t].known,
                  minted |-> turn[t].minted, unwritten |-> turn[t].unwritten]
  BY <1>1, <1>2, ZenonT(40) DEF TurnStates
<1>4. turn'[t] \in TurnStates
  BY <1>1, <1>3 DEF TurnStates, Pcs
<1>5. turn' \in [Turns -> TurnStates] /\ \A u \in Turns \ {t} : turn'[u] = turn[u]
  BY <1>4 DEF TypeOK, GivenAlone
<1>6. \A f \in Fields \ {"pc", "run", "known"} : turn'[t][f] = turn[t][f]
  BY <1>3 DEF Fields
<1> QED
  BY <1>3, <1>5, <1>6 DEF Given, Moves

\* Turn t goes on with a run minted for it.
Mints(t, written) ==
    /\ Moves(t, {"pc", "run", "minted", "unwritten"})
    /\ turn'[t].pc = "run" /\ turn'[t].run = clock'
    /\ turn'[t].minted = turn[t].minted \cup {clock'}
    /\ turn'[t].unwritten = (turn[t].unwritten \/ ~written)

LEMMA MintedMoves ==
    ASSUME ConversationAssumption, TypeOK, NEW t \in Turns, NEW written \in BOOLEAN,
           Mint, Minted(t, written)
    PROVE  Mints(t, written) /\ clock' \in 0 .. MaxClock
<1>1. turn[t] \in TurnStates
  BY DEF TypeOK
<1>2. clock' \in 0 .. MaxClock
  BY DEF Mint, TypeOK, ConversationAssumption
<1> DEFINE lost == turn[t].unwritten \/ ~written
           ids == turn[t].minted \cup {clock'}
<1>3. turn'[t] = [turn[t] EXCEPT !.pc = "run", !.run = clock', !.minted = ids, !.unwritten = lost]
  BY <1>1 DEF TypeOK, Minted, TurnStates
<1>4. lost \in BOOLEAN /\ ids \in SUBSET (0 .. MaxClock) /\ clock' \in Names
  BY <1>1, <1>2, ZenonT(40) DEF TurnStates, Names
<1> HIDE DEF lost, ids
<1>5. turn'[t] = [pc |-> "run", row |-> turn[t].row, texts |-> turn[t].texts,
                  prose |-> turn[t].prose, wants |-> turn[t].wants,
                  arrived |-> turn[t].arrived, carried |-> turn[t].carried,
                  history |-> turn[t].history, run |-> clock', known |-> turn[t].known,
                  minted |-> ids, unwritten |-> lost]
  BY <1>1, <1>3 DEF TurnStates
<1>6. turn'[t] \in TurnStates
  BY <1>1, <1>4, <1>5 DEF TurnStates, Pcs
<1>7. turn' \in [Turns -> TurnStates] /\ \A u \in Turns \ {t} : turn'[u] = turn[u]
  BY <1>6 DEF TypeOK, Minted
<1>8. \A f \in Fields \ {"pc", "run", "minted", "unwritten"} : turn'[t][f] = turn[t][f]
  BY <1>5 DEF Fields
<1> QED
  BY <1>2, <1>5, <1>7, <1>8, SMTT(20) DEF Moves, Mints, lost, ids

LEMMA OutcomeMints ==
    ASSUME NEW id, NEW w, Outcome(id, w) = "mint"
    PROVE  id = Nothing
BY DEF Outcome

LEMMA OutcomeReuses ==
    ASSUME NEW id, NEW w
    PROVE  Outcome(id, w) \in {"reuse", "skip_mint", "mint", "reject"}
BY DEF Outcome

LEMMA ResolveWebMoves ==
    ASSUME ConversationAssumption, TypeOK, NEW t \in Turns, OwnRow(t), ResolveWeb(t)
    PROVE  /\ turn[t].pc = "resolve" /\ surface = "web_ui"
           /\ \/ /\ \E id \in {Named(t), Nothing, SoleOf(Recent)} : Given(t, id)
                 /\ turn'[t].known = Ids(tasks) /\ clock' = clock
              \/ /\ Mints(t, TRUE) /\ clock' \in 0 .. MaxClock
                 /\ Named(t) = Nothing
<1>1. turn[t].pc = "resolve" /\ surface = "web_ui"
  BY DEF ResolveWeb, At
<1> DEFINE outcome == Outcome(Named(t), turn[t].wants)
           to(id) == turn' = [turn EXCEPT ![t].pc = "run", ![t].run = id, ![t].known = Ids(tasks)]
<1>2. \/ outcome = "mint" /\ Mint /\ Minted(t, TRUE)
      \/ clock' = clock /\ \E id \in {Named(t), Nothing, SoleOf(Recent)} : to(id)
  BY Zenon DEF ResolveWeb
<1>3. CASE outcome = "mint" /\ Mint /\ Minted(t, TRUE)
  BY <1>1, <1>3, MintedMoves, OutcomeMints
<1>4. ASSUME clock' = clock, NEW id \in {Named(t), Nothing, SoleOf(Recent)}, to(id)
      PROVE  Given(t, id) /\ turn'[t].known = Ids(tasks)
  <2>1. id \in Names
    BY <1>4, NamedIsName, SoleIsSole DEF Names
  <2>2. Ids(tasks) \in SUBSET Names
    BY IdsAreNames
  <2>3. GivenAnd(t, id, Ids(tasks))
    BY Zenon, <1>4 DEF GivenAnd
  <2> QED
    BY <2>1, <2>2, <2>3, GivenMoves
<1> HIDE DEF to, outcome
<1> QED
  BY <1>1, <1>2, <1>3, <1>4

LEMMA ResolveA2AMoves ==
    ASSUME ConversationAssumption, TypeOK, NEW t \in Turns, OwnRow(t), ResolveA2A(t)
    PROVE  /\ turn[t].pc = "resolve" /\ surface = "a2a"
           /\ \/ /\ \E id \in {Named(t), Nothing} : Given(t, id)
                 /\ tasks' = tasks /\ clock' = clock
              \/ /\ Becomes(t, Asking(t, Recent))
                 /\ tasks' = tasks /\ clock' = clock
              \/ /\ Mints(t, TRUE) /\ clock' \in 0 .. MaxClock /\ Named(t) = Nothing
                 /\ tasks' = [tasks EXCEPT ![turn[t].row] = clock']
              \/ /\ Mints(t, FALSE) /\ clock' \in 0 .. MaxClock /\ Named(t) = Nothing
                 /\ tasks' = tasks
<1>1. turn[t].pc = "resolve" /\ surface = "a2a"
  BY DEF ResolveA2A, At
<1> DEFINE outcome == Outcome(Named(t), turn[t].wants)
           to(id) == turn' = [turn EXCEPT ![t].pc = "run", ![t].run = id]
<1>2. \/ /\ outcome = "mint" /\ Mint /\ Minted(t, TRUE)
         /\ tasks' = [tasks EXCEPT ![turn[t].row] = clock']
      \/ /\ outcome = "mint" /\ Mint /\ Minted(t, FALSE)
         /\ tasks' = tasks
      \/ tasks' = tasks /\ clock' = clock /\ \E id \in {Named(t), Nothing} : to(id)
      \/ tasks' = tasks /\ clock' = clock /\ turn' = [turn EXCEPT ![t] = Asking(t, Recent)]
  BY Zenon DEF ResolveA2A
<1>3. ASSUME outcome = "mint", Mint, NEW w \in BOOLEAN, Minted(t, w)
      PROVE  Mints(t, w) /\ clock' \in 0 .. MaxClock /\ Named(t) = Nothing
  BY <1>3, MintedMoves, OutcomeMints
<1>4. ASSUME NEW id \in {Named(t), Nothing}, to(id)
      PROVE  Given(t, id)
  <2>1. id \in Names
    BY <1>4, NamedIsName DEF Names
  <2>2. GivenAlone(t, id)
    BY Zenon, <1>4 DEF GivenAlone
  <2> QED
    BY <2>1, <2>2, GivenAloneMoves
<1>5. turn' = [turn EXCEPT ![t] = Asking(t, Recent)] <=> Becomes(t, Asking(t, Recent))
  BY DEF Becomes
<1> HIDE DEF to, outcome
<1> QED
  BY <1>1, <1>2, <1>3, <1>4, <1>5

LEMMA AnswerMoves ==
    ASSUME ConversationAssumption, TypeOK, NEW t \in Turns, Answer(t)
    PROVE  /\ turn[t].pc = "run"
           /\ \/ Becomes(t, Gone(t, IF surface = "a2a" THEN "ending" ELSE "done"))
              \/ surface = "a2a" /\ Becomes(t, Asking(t, {}))
BY DEF Answer, At, Becomes

LEMMA SettleMoves ==
    ASSUME ConversationAssumption, TypeOK, NEW t \in Turns, Settle(t)
    PROVE  turn[t].pc = "ending" /\ Moves(t, {"pc"}) /\ turn'[t].pc = "done"
BY OnlyPcMoves DEF Settle, At, Pcs

LEMMA ResumeMoves ==
    ASSUME ConversationAssumption, TypeOK, NEW t \in Turns, Resume(t)
    PROVE  /\ Moves(t, {"pc", "texts", "known", "prose", "wants", "arrived"})
           /\ turn[t].pc = "asked" /\ turn'[t].pc = "load"
           /\ turn'[t].texts = turn[t].texts + 1 /\ turn'[t].arrived = Len(messages)
<1>1. PICK id \in RunIds \cup {Nothing}, w \in Requests :
        /\ "comparison" \notin w
        /\ \E named \in IF id = Nothing THEN {turn[t].prose}
                        ELSE {id, turn[t].prose} \ {Nothing} :
              turn' = [turn EXCEPT ![t].pc = "load", ![t].texts = @ + 1, ![t].known = {},
                                   ![t].prose = named, ![t].wants = @ \cup w,
                                   ![t].arrived = Len(messages)]
  BY Zenon DEF Resume
<1>2. PICK named \in IF id = Nothing THEN {turn[t].prose}
                     ELSE {id, turn[t].prose} \ {Nothing} :
              turn' = [turn EXCEPT ![t].pc = "load", ![t].texts = @ + 1, ![t].known = {},
                                   ![t].prose = named, ![t].wants = @ \cup w,
                                   ![t].arrived = Len(messages)]
  BY Zenon, <1>1
<1>3. turn[t] \in TurnStates /\ turn[t].pc = "asked"
  BY DEF TypeOK, Resume, At
<1>4. named \in Names /\ Len(messages) \in Nat /\ w \in SUBSET Intents
  BY <1>1, <1>3, SMTT(20) DEF TypeOK, TurnStates, Names, ConversationAssumption
<1> DEFINE wanted == turn[t].wants \cup w
           said == turn[t].texts + 1
<1>5. turn'[t] = [turn[t] EXCEPT !.pc = "load", !.texts = said, !.known = {}, !.prose = named,
                                 !.wants = wanted, !.arrived = Len(messages)]
  BY <1>2, <1>3 DEF TypeOK, TurnStates
<1>6. wanted \in SUBSET Intents /\ said \in Nat /\ {} \in SUBSET Names
  <2>1. turn[t].wants \in SUBSET Intents /\ turn[t].texts \in Nat
    BY <1>3 DEF TurnStates
  <2> QED
    BY <1>4, <2>1
<1> HIDE DEF wanted, said
<1>7. turn'[t] = [pc |-> "load", row |-> turn[t].row, texts |-> said, prose |-> named,
                  wants |-> wanted, arrived |-> Len(messages), carried |-> turn[t].carried,
                  history |-> turn[t].history, run |-> turn[t].run, known |-> {},
                  minted |-> turn[t].minted, unwritten |-> turn[t].unwritten]
  BY <1>3, <1>5, ZenonT(40) DEF TurnStates
<1>8. turn'[t] \in TurnStates
  BY <1>3, <1>4, <1>6, <1>7, SMTT(20) DEF TurnStates, Pcs
<1>9. turn' \in [Turns -> TurnStates] /\ \A u \in Turns \ {t} : turn'[u] = turn[u]
  BY <1>2, <1>8 DEF TypeOK
<1>10. \A f \in Fields \ {"pc", "texts", "known", "prose", "wants", "arrived"} :
            turn'[t][f] = turn[t][f]
  BY <1>7 DEF Fields
<1>11. Moves(t, {"pc", "texts", "known", "prose", "wants", "arrived"})
  BY <1>9, <1>10 DEF Moves
<1>12. turn'[t].pc = "load" /\ turn'[t].texts = said /\ turn'[t].arrived = Len(messages)
  BY <1>7
<1> QED
  BY <1>3, <1>11, <1>12 DEF said

-----------------------------------------------------------------------------
(* The table of messages.                                                  *)

\* Messages are added at its end only.
Grown == /\ messages' \in Seq(Messages) /\ Len(messages) <= Len(messages')
         /\ \A j \in 1 .. Len(messages) : messages'[j] = messages[j]

New == Len(messages) + 1 .. Len(messages')

LEMMA MessagesTyped ==
    ASSUME TypeOK
    PROVE  /\ Len(messages) \in Nat /\ DOMAIN messages = 1 .. Len(messages)
           /\ \A j \in DOMAIN messages : messages[j].what \in Int
<1>1. messages \in Seq(Messages)
  BY DEF TypeOK
<1>2. \A j \in DOMAIN messages : messages[j] \in Messages
  BY <1>1
<1> QED
  BY <1>1, <1>2 DEF Messages

LEMMA GrownMessages ==
    ASSUME TypeOK, Grown
    PROVE  /\ Len(messages) \in Nat /\ Len(messages') \in Nat /\ Len(messages) <= Len(messages')
           /\ DOMAIN messages = 1 .. Len(messages) /\ DOMAIN messages' = 1 .. Len(messages')
           /\ \A j \in DOMAIN messages : messages'[j] = messages[j]
           /\ \A j \in DOMAIN messages' \ DOMAIN messages : j \in New
           /\ \A j \in New : messages'[j] \in Messages
<1>1. /\ Len(messages) \in Nat /\ DOMAIN messages = 1 .. Len(messages)
      /\ Len(messages') \in Nat /\ DOMAIN messages' = 1 .. Len(messages')
  BY DEF TypeOK, Grown
<1>2. \A j \in 1 .. Len(messages') : messages'[j] \in Messages
  BY DEF Grown
<1> QED
  BY <1>1, <1>2 DEF Grown, New

LEMMA StaysGrown == ASSUME TypeOK, messages' = messages PROVE Grown /\ New = {}
BY DEF TypeOK, Grown, New

LEMMA SayGrows ==
    ASSUME TypeOK, NEW m \in Messages, Say(m) \/ (Works /\ messages' = messages)
    PROVE  Grown /\ \A j \in New : messages'[j] = m
<1>1. CASE messages' = Append(messages, m)
  BY <1>1 DEF TypeOK, Grown, New
<1>2. CASE messages' = messages
  BY <1>2 DEF TypeOK, Grown, New
<1> QED
  BY <1>1, <1>2 DEF Say

LEMMA StoreGrows ==
    ASSUME TypeOK, NEW t \in Turns, Store(t), turn[t].texts >= 1
    PROVE  Grown /\ \A j \in New : messages'[j].of = t /\ messages'[j].what <= turn[t].texts
<1>1. PICK n \in 0 .. Len(NewTexts(t)) : messages' = messages \o SubSeq(NewTexts(t), 1, n)
  <2>1. CASE messages' = messages \o NewTexts(t)
    <3>1. NewTexts(t) \in Seq(Messages) /\ Len(NewTexts(t)) \in 0 .. Len(NewTexts(t))
      BY NewTextsAreOwn
    <3>2. SubSeq(NewTexts(t), 1, Len(NewTexts(t))) = NewTexts(t)
      BY <3>1
    <3> QED
      BY Zenon, <2>1, <3>1, <3>2
  <2>2. CASE \E n \in 0 .. Len(NewTexts(t)) - 1 :
                messages' = messages \o SubSeq(NewTexts(t), 1, n)
    <3>1. \A n \in 0 .. Len(NewTexts(t)) - 1 : n \in 0 .. Len(NewTexts(t))
      BY NewTextsAreOwn
    <3> QED
      BY Zenon, <2>2, <3>1
  <2> QED
    BY Zenon, <2>1, <2>2 DEF Store
<1> DEFINE new == SubSeq(NewTexts(t), 1, n)
<1>2. /\ new \in Seq(Messages) /\ Len(new) = n /\ n \in Nat
      /\ \A k \in 1 .. n : new[k].of = t /\ new[k].what <= turn[t].texts
  BY NewTextsAreOwn
<1>3. messages \in Seq(Messages) /\ messages' = messages \o new
  BY <1>1 DEF TypeOK
<1> HIDE DEF new
<1>4. /\ messages' \in Seq(Messages) /\ Len(messages') = Len(messages) + n
      /\ \A j \in 1 .. Len(messages) : messages'[j] = messages[j]
      /\ \A j \in Len(messages) + 1 .. Len(messages) + n :
            messages'[j] = new[j - Len(messages)]
  <2>1. Len(messages) \in Nat
    BY <1>3
  <2>2. /\ messages' \in Seq(Messages) /\ Len(messages') = Len(messages) + n
        /\ \A j \in 1 .. Len(messages) + n :
              messages'[j] = IF j <= Len(messages) THEN messages[j] ELSE new[j - Len(messages)]
    BY <1>2, <1>3, ConcatProperties
  <2> QED
    BY <1>2, <2>1, <2>2
<1>5. /\ New = Len(messages) + 1 .. Len(messages) + n
      /\ \A j \in New : j - Len(messages) \in 1 .. n
      /\ Len(messages) <= Len(messages')
  BY <1>2, <1>3, <1>4 DEF New
<1> QED
  BY <1>2, <1>3, <1>4, <1>5 DEF Grown

-----------------------------------------------------------------------------
(* Types.                                                                  *)

LEMMA InitInv == ConversationAssumption /\ Init => IInv
<1> SUFFICES ASSUME ConversationAssumption, Init PROVE IInv
  OBVIOUS
<1>1. Blank \in TurnStates
  BY DEF Blank, TurnStates, Pcs, Names
<1>2. TypeOK
  <2>1. surface \in {"web_ui", "a2a"} /\ thread \in BOOLEAN /\ open \in SUBSET DOMAIN tasks
    BY DEF ConversationAssumption, Init
  <2>2. messages \in Seq(Messages) /\ tasks \in Seq(Names)
    BY DEF Init
  <2>3. turn \in [Turns -> TurnStates]
    BY <1>1 DEF Init
  <2>4. clock \in 0 .. MaxClock
    BY DEF ConversationAssumption, Init
  <2> QED
    BY <2>1, <2>2, <2>3, <2>4 DEF TypeOK
<1>3. ASSUME NEW t \in Turns PROVE turn[t] = Blank
  BY <1>3 DEF Init
<1>4. ASSUME NEW t \in Turns PROVE Transcribed(t)
  BY <1>3 DEF Init, Blank, Transcribed, Over, Unstored, LoadedPcs
<1>5. ASSUME NEW t \in Turns PROVE OwnRow(t) /\ NotGuessed(t) /\ MintedOnce(t)
  BY <1>3 DEF Init, Blank, OwnRow, NotGuessed, MintedOnce, Over, Early
<1> QED
  BY <1>2, <1>4, <1>5 DEF IInv

LEMMA TypeStep == ConversationAssumption /\ IInv /\ [Next]_vars => TypeOK'
<1> SUFFICES ASSUME ConversationAssumption, IInv, [Next]_vars PROVE TypeOK'
  OBVIOUS
<1> USE ConversationAssumption
<1>0. TypeOK
  BY DEF IInv
<1> DEFINE Rest == /\ surface' = surface /\ thread' \in BOOLEAN
                   /\ messages' \in Seq(Messages)
                   /\ tasks' \in Seq(Names) /\ open' \in SUBSET DOMAIN tasks'
                   /\ clock' \in 0 .. MaxClock
<1>1. ASSUME NEW t \in Turns, NEW changed, Moves(t, changed), Rest PROVE TypeOK'
  BY <1>0, <1>1 DEF TypeOK, Moves
<1>2. ASSUME NEW t \in Turns, NEW r \in TurnStates, Becomes(t, r), Rest PROVE TypeOK'
  BY <1>0, <1>1, <1>2, BecomesMoves
<1>3. ASSUME UNCHANGED turn, Rest PROVE TypeOK'
  BY <1>0, <1>3 DEF TypeOK
<1>4. ASSUME NEW t \in Turns, Arrive(t) PROVE TypeOK'
  BY <1>0, <1>1, <1>4, ArriveMoves DEF Arrive, TypeOK
<1>5. ASSUME NEW t \in Turns, CreateThread(t) PROVE TypeOK'
  <2>1. Rest
    BY <1>0, <1>5 DEF CreateThread, TypeOK
  <2>2. "refused" \in Over
    BY DEF Over
  <2> QED
    BY <1>0, <1>1, <1>2, <1>5, <2>1, <2>2, CreateThreadMoves, GoneFields
<1>6. ASSUME NEW t \in Turns, CreateTask(t) PROVE TypeOK'
  <2>1. PICK id \in Names : tasks' = Append(tasks, id)
    BY <1>0, <1>6, CreateTaskMoves
  <2>2. tasks' \in Seq(Names) /\ DOMAIN tasks \subseteq DOMAIN tasks'
    BY <1>0, <2>1 DEF TypeOK
  <2>3. Rest
    BY <1>0, <1>6, <2>2 DEF CreateTask, TypeOK
  <2> QED
    BY <1>0, <1>1, <1>6, <2>3, CreateTaskMoves
<1>7. ASSUME NEW t \in Turns, Load(t) PROVE TypeOK'
  <2>1. Rest
    BY <1>0, <1>7 DEF Load, TypeOK
  <2>2. "ending" \in Over
    BY DEF Over
  <2> QED
    BY <1>0, <1>1, <1>2, <1>7, <2>1, <2>2, LoadMoves, GoneFields
<1>8. ASSUME NEW t \in Turns, Store(t) PROVE TypeOK'
  <2>1. turn[t].texts >= 1
    BY <1>0, <1>8, StoreMoves DEF IInv, Transcribed, Over
  <2>2. messages' \in Seq(Messages)
    BY <1>0, <1>8, <2>1, StoreGrows DEF Grown
  <2>3. Rest
    BY <1>0, <1>8, <2>2 DEF Store, TypeOK
  <2> QED
    BY <1>0, <1>1, <1>8, <2>3, StoreMoves
<1>9. ASSUME NEW t \in Turns, ResolveWeb(t) PROVE TypeOK'
  <2>1. OwnRow(t)
    BY DEF IInv
  <2>2. clock' \in 0 .. MaxClock
    BY <1>0, <1>9, <2>1, ResolveWebMoves DEF TypeOK
  <2>3. Rest
    BY <1>0, <1>9, <2>2 DEF ResolveWeb, TypeOK
  <2> QED
    BY <1>0, <1>1, <1>9, <2>1, <2>3, ResolveWebMoves DEF Given, Mints
<1>10. ASSUME NEW t \in Turns, ResolveA2A(t) PROVE TypeOK'
  <2>1. OwnRow(t)
    BY DEF IInv
  <2>2. clock' \in 0 .. MaxClock
    BY <1>0, <1>10, <2>1, ResolveA2AMoves DEF TypeOK
  <2>3. tasks' = tasks \/ tasks' = [tasks EXCEPT ![turn[t].row] = clock']
    BY <1>0, <1>10, <2>1, ResolveA2AMoves
  <2>4. tasks' \in Seq(Names) /\ Len(tasks') = Len(tasks)
    <3>1. clock' \in Names /\ tasks \in Seq(Names)
      BY <1>0, <2>2 DEF TypeOK, Names
    <3>2. turn[t].row \in 1 .. Len(tasks)
      <4>1. turn[t].pc = "resolve" /\ surface = "a2a"
        BY <1>10 DEF ResolveA2A, At
      <4> QED
        BY <2>1, <3>1, <4>1 DEF OwnRow
    <3>3. CASE tasks' = [tasks EXCEPT ![turn[t].row] = clock']
      BY <3>1, <3>2, <3>3, ExceptSeq
    <3> QED
      BY <2>3, <3>1, <3>3
  <2>5. Rest
    BY <1>0, <1>10, <2>2, <2>4 DEF ResolveA2A, TypeOK
  <2>6. Recent \in SUBSET Names
    BY <1>0, RecentAreIds, IdsAreNames
  <2> QED
    BY <1>0, <1>1, <1>2, <1>10, <2>1, <2>5, <2>6, ResolveA2AMoves, AskingFields
       DEF Given, Mints
<1>11. ASSUME NEW t \in Turns, Delegate(t) PROVE TypeOK'
  <2>1. PICK id \in RunIds \cup {turn[t].run, Nothing} : tasks' = Append(tasks, id)
    BY <1>11 DEF Delegate
  <2>2. turn[t].run \in Names
    BY <1>0 DEF TypeOK, TurnStates
  <2>3. id \in Names
    BY <2>2 DEF Names
  <2>4. tasks' \in Seq(Names) /\ DOMAIN tasks' = DOMAIN tasks \cup {Len(tasks')}
    BY <1>0, <2>1, <2>3 DEF TypeOK
  <2> QED
    BY <1>0, <1>3, <1>11, <2>4 DEF Delegate, TypeOK
<1>12. ASSUME NEW t \in Turns, Answer(t) PROVE TypeOK'
  <2>1. Message(t, Reply) \in Messages
    BY DEF Message, Messages, Reply
  <2>2. messages' \in Seq(Messages)
    BY <1>0, <1>12, <2>1, SayGrows DEF Answer, Grown
  <2>3. Rest
    BY <1>0, <1>12, <2>2 DEF Answer, TypeOK
  <2>4. {"ending", "done"} \subseteq Over /\ {} \in SUBSET Names
    BY DEF Over
  <2> QED
    BY <1>0, <1>2, <1>12, <2>3, <2>4, AnswerMoves, GoneFields, AskingFields
<1>13. ASSUME NEW t \in Turns, Settle(t) PROVE TypeOK'
  <2>1. Message(t, Completion) \in Messages
    BY DEF Message, Messages, Completion
  <2>2. messages' \in Seq(Messages)
    BY <1>0, <1>13, <2>1, SayGrows DEF Settle, Grown
  <2>3. Rest
    BY <1>0, <1>13, <2>2 DEF Settle, TypeOK
  <2> QED
    BY <1>0, <1>1, <1>13, <2>3, SettleMoves
<1>14. ASSUME NEW t \in Turns, Resume(t) PROVE TypeOK'
  <2>1. Rest
    BY <1>0, <1>14 DEF Resume, TypeOK
  <2> QED
    BY <1>0, <1>1, <1>14, <2>1, ResumeMoves
<1>15. ASSUME NEW i \in open, Adopt(i) PROVE TypeOK'
  <2>1. tasks' \in Seq(Names) /\ DOMAIN tasks' = DOMAIN tasks
    BY <1>0, <1>15 DEF Adopt, TypeOK, Names
  <2> QED
    BY <1>0, <1>3, <1>15, <2>1 DEF Adopt, TypeOK
<1>16. ASSUME NEW i \in open, Finish(i) PROVE TypeOK'
  <2>1. Message(Nothing, Completion) \in Messages
    BY DEF Message, Messages, Completion
  <2>2. messages' \in Seq(Messages)
    BY <1>0, <1>16, <2>1, SayGrows DEF Finish, Grown
  <2> QED
    BY <1>0, <1>3, <1>16, <2>2 DEF Finish, TypeOK
<1>17. CASE UNCHANGED vars
  BY <1>0, <1>3, <1>17 DEF vars, TypeOK
<1> QED
  BY <1>4, <1>5, <1>6, <1>7, <1>8, <1>9, <1>10, <1>11, <1>12, <1>13, <1>14, <1>15, <1>16,
     <1>17 DEF Next

-----------------------------------------------------------------------------
(* The transcript.                                                         *)

\* A turn that keeps its texts and what it loaded.
LEMMA TranscribedKeeps ==
    ASSUME TypeOK, TypeOK', NEW u \in Turns, Transcribed(u), Grown,
           turn'[u].texts = turn[u].texts, turn'[u].arrived = turn[u].arrived,
           turn'[u].carried = turn[u].carried, turn'[u].history = turn[u].history,
           turn'[u].pc = "idle" => turn[u].pc = "idle",
           turn'[u].pc \notin Over \cup {"idle"} => turn[u].pc \notin Over \cup {"idle"},
           turn'[u].pc \in Unstored => turn[u].pc \in Unstored,
           turn'[u].pc \in LoadedPcs => turn[u].pc \in LoadedPcs,
           \A j \in New : messages'[j].of = u =>
              /\ messages'[j].what <= turn[u].texts
              /\ turn'[u].pc \in Unstored => messages'[j].what < turn[u].texts
    PROVE  Transcribed(u)'
<1> DEFINE r == turn[u]
           q == turn'[u]
<1>1. /\ Len(messages) \in Nat /\ Len(messages') \in Nat /\ Len(messages) <= Len(messages')
      /\ DOMAIN messages = 1 .. Len(messages) /\ DOMAIN messages' = 1 .. Len(messages')
      /\ \A j \in DOMAIN messages : messages'[j] = messages[j]
  BY GrownMessages
<1>2. r \in TurnStates /\ r.arrived \in Nat /\ r.carried \in Nat
  BY DEF TypeOK, TurnStates
<1>3. \A j \in DOMAIN messages' \ DOMAIN messages : j \in New
  BY GrownMessages
<1>4. (q.pc = "idle" => q.texts = 0) /\ (q.pc \notin Over \cup {"idle"} => q.texts >= 1)
  BY DEF Transcribed
<1>5. \A j \in DOMAIN messages' :
          messages'[j].of = u =>
              /\ messages'[j].what <= q.texts
              /\ q.pc \in Unstored => messages'[j].what < q.texts
  <2> SUFFICES ASSUME NEW j \in DOMAIN messages', messages'[j].of = u
               PROVE  /\ messages'[j].what <= q.texts
                      /\ q.pc \in Unstored => messages'[j].what < q.texts
    OBVIOUS
  <2>1. CASE j \in DOMAIN messages
    BY <1>1, <2>1 DEF Transcribed
  <2>2. CASE j \notin DOMAIN messages
    BY <1>3, <2>2
  <2> QED
    BY <2>1, <2>2
<1>6. q.arrived \in 0 .. Len(messages') /\ q.carried \in 0 .. Len(messages')
      /\ q.history \in {Unloaded} \cup 0 .. Len(messages')
  BY <1>1, <1>2 DEF Transcribed
<1>7. ASSUME q.pc \in LoadedPcs
      PROVE  /\ q.history # Unloaded => q.history >= Limit \/ q.history >= q.arrived
             /\ \A j \in 1 .. q.history : messages'[j] # Message(u, q.texts)
             /\ \A j \in 1 .. q.carried : messages'[j] # Message(u, q.texts)
  <2>1. /\ r.history # Unloaded => r.history >= Limit \/ r.history >= r.arrived
        /\ \A j \in 1 .. r.history : messages[j] # Message(u, r.texts)
        /\ \A j \in 1 .. r.carried : messages[j] # Message(u, r.texts)
    BY <1>7 DEF Transcribed
  <2>2. 1 .. r.history \subseteq DOMAIN messages /\ 1 .. r.carried \subseteq DOMAIN messages
    BY <1>1, <1>2 DEF Transcribed, Unloaded
  <2> QED
    BY <1>1, <2>1, <2>2
<1> QED
  BY <1>4, <1>5, <1>6, <1>7 DEF Transcribed

\* A turn that is over, or has asked, keeps its texts and forgets the rest.
LEMMA TranscribedForgets ==
    ASSUME TypeOK, TypeOK', NEW t \in Turns, Transcribed(t), Grown,
           turn'[t].texts = turn[t].texts, turn'[t].arrived = 0,
           turn'[t].carried \in {0, turn[t].carried}, turn'[t].history = Unloaded,
           turn'[t].pc \in Over \cup {"asked"},
           turn'[t].pc = "asked" => turn[t].texts >= 1,
           \A j \in New : messages'[j].of = t => messages'[j].what <= turn[t].texts
    PROVE  Transcribed(t)'
<1>1. /\ Len(messages) \in Nat /\ Len(messages') \in Nat /\ Len(messages) <= Len(messages')
      /\ DOMAIN messages = 1 .. Len(messages) /\ DOMAIN messages' = 1 .. Len(messages')
      /\ \A j \in DOMAIN messages : messages'[j] = messages[j]
  BY GrownMessages
<1>2. \A j \in DOMAIN messages' \ DOMAIN messages : j \in New
  BY GrownMessages
<1>3. \A j \in DOMAIN messages' :
          messages'[j].of = t => messages'[j].what <= turn'[t].texts
  BY <1>1, <1>2 DEF Transcribed
<1>4. turn'[t].arrived \in 0 .. Len(messages') /\ turn'[t].carried \in 0 .. Len(messages')
  BY <1>1 DEF Transcribed
<1>5. turn'[t].pc \notin Unstored \cup LoadedPcs \cup {"idle"}
  BY DEF Over, Unstored, LoadedPcs
<1> QED
  BY <1>3, <1>4, <1>5 DEF Transcribed

\* A turn that somebody else's step leaves alone.
LEMMA TranscribedStays ==
    ASSUME TypeOK, TypeOK', NEW u \in Turns, Transcribed(u), turn'[u] = turn[u], Grown,
           \A j \in New : messages'[j].of = u => messages'[j].what <= 0
    PROVE  Transcribed(u)'
<1>1. turn[u].texts \in Nat /\ (turn[u].pc \in Unstored => turn[u].texts >= 1)
  BY DEF TypeOK, TurnStates, Transcribed, Unstored, Over
<1>2. \A j \in New : messages'[j].what \in Int
  BY GrownMessages DEF Messages
<1>3. \A j \in New : messages'[j].of = u =>
            /\ messages'[j].what <= turn[u].texts
            /\ turn'[u].pc \in Unstored => messages'[j].what < turn[u].texts
  BY <1>1, <1>2
<1> QED
  BY <1>3, TranscribedKeeps

LEMMA TranscribedArrive ==
    ASSUME ConversationAssumption, IInv, TypeOK', NEW t \in Turns, Arrive(t)
    PROVE  Transcribed(t)'
<1>0. TypeOK /\ Transcribed(t) /\ messages' = messages
  BY DEF IInv, Arrive
<1>1. /\ turn[t].pc = "idle" /\ turn'[t].pc \in {"create", "task", "load"}
      /\ turn'[t].texts = 1 /\ turn'[t].arrived = Len(messages)
      /\ turn'[t].carried \in {0, Len(messages)}
      /\ turn'[t].history = turn[t].history
  BY <1>0, ArriveMoves DEF Moves, Fields
<1>2. Len(messages) \in Nat /\ turn[t].texts = 0
  BY <1>0, <1>1 DEF TypeOK, Transcribed
<1>3. \A j \in DOMAIN messages : messages[j].what \in Int /\ (messages[j].of = t => messages[j].what < 1)
  <2>1. \A j \in DOMAIN messages : messages[j].what \in Int
    BY <1>0, MessagesTyped
  <2>2. \A j \in DOMAIN messages : messages[j].of = t => messages[j].what <= 0
    BY <1>0, <1>2 DEF Transcribed
  <2> QED
    BY <2>1, <2>2
<1>4. turn'[t].history \in {Unloaded} \cup 0 .. Len(messages)
  BY <1>0, <1>1 DEF Transcribed
<1>5. turn'[t].pc \notin LoadedPcs \cup {"idle"}
  BY <1>1 DEF LoadedPcs
<1> QED
  BY <1>0, <1>1, <1>2, <1>3, <1>4, <1>5, SMTT(20) DEF Transcribed

LEMMA TranscribedResume ==
    ASSUME ConversationAssumption, IInv, TypeOK', NEW t \in Turns, Resume(t)
    PROVE  Transcribed(t)'
<1>0. TypeOK /\ Transcribed(t) /\ messages' = messages
  BY DEF IInv, Resume
<1>1. /\ turn[t].pc = "asked" /\ turn'[t].pc = "load"
      /\ turn'[t].texts = turn[t].texts + 1 /\ turn'[t].arrived = Len(messages)
      /\ turn'[t].carried = turn[t].carried /\ turn'[t].history = turn[t].history
  BY <1>0, ResumeMoves DEF Moves, Fields
<1>2. Len(messages) \in Nat /\ turn[t].texts \in Nat
  <2>1. turn[t].texts \in Nat
    BY <1>0 DEF TypeOK, TurnStates
  <2> QED
    BY <1>0, <2>1, MessagesTyped
<1>3. \A j \in DOMAIN messages : messages[j].of = t => messages[j].what < turn[t].texts + 1
  <2>1. \A j \in DOMAIN messages : messages[j].what \in Int
    BY <1>0, MessagesTyped
  <2>2. \A j \in DOMAIN messages : messages[j].of = t => messages[j].what <= turn[t].texts
    BY <1>0 DEF Transcribed
  <2> QED
    BY <1>2, <2>1, <2>2, SMTT(20)
<1>4. /\ turn'[t].history \in {Unloaded} \cup 0 .. Len(messages)
      /\ turn'[t].arrived \in 0 .. Len(messages) /\ turn'[t].carried \in 0 .. Len(messages)
  BY <1>0, <1>1, <1>2 DEF Transcribed
<1>5. turn'[t].pc \notin LoadedPcs \cup {"idle"}
  BY <1>1 DEF LoadedPcs
<1>6. \A j \in DOMAIN messages' :
          messages'[j].of = t =>
              /\ messages'[j].what <= turn'[t].texts
              /\ turn'[t].pc \in Unstored => messages'[j].what < turn'[t].texts
  <2>1. \A j \in DOMAIN messages : messages[j].what \in Int
    BY <1>0, MessagesTyped
  <2> QED
    BY <1>0, <1>1, <1>2, <1>3, <2>1, SMTT(20)
<1> QED
  BY <1>0, <1>1, <1>2, <1>4, <1>5, <1>6 DEF Transcribed

LEMMA TranscribedLoad ==
    ASSUME ConversationAssumption, IInv, TypeOK', NEW t \in Turns, Load(t),
           Moves(t, {"pc", "history"}), turn'[t].pc = "store",
           turn'[t].history \in {Loaded, Unloaded}
    PROVE  Transcribed(t)'
<1>0. TypeOK /\ Transcribed(t) /\ messages' = messages /\ turn[t].pc = "load"
  BY DEF IInv, Load, At
<1>1. /\ turn'[t].texts = turn[t].texts /\ turn'[t].arrived = turn[t].arrived
      /\ turn'[t].carried = turn[t].carried
  BY DEF Moves, Fields
<1>2. Len(messages) \in Nat /\ Limit \in Nat /\ turn[t].texts \in Nat /\ turn[t].texts >= 1
  <2>1. Len(messages) \in Nat /\ Limit \in Nat
    BY <1>0, MessagesTyped DEF ConversationAssumption
  <2>2. turn[t].texts \in Nat
    BY <1>0 DEF TypeOK, TurnStates
  <2>3. turn[t].texts >= 1
    BY <1>0 DEF Transcribed, Over
  <2> QED
    BY <2>1, <2>2, <2>3
<1>3. \A j \in DOMAIN messages : messages[j].of = t => messages[j].what < turn[t].texts
  BY <1>0 DEF Transcribed, Unstored
<1>4. /\ Loaded \in 0 .. Len(messages)
      /\ Loaded = Limit \/ Loaded = Len(messages)
  <2>1. Loaded \in {Limit, Len(messages)} /\ Loaded <= Limit /\ Loaded <= Len(messages)
    BY <1>2, MinOfTwo DEF Loaded
  <2> QED
    BY <1>2, <2>1
<1>5. turn[t].arrived \in 0 .. Len(messages) /\ turn[t].carried \in 0 .. Len(messages)
  BY <1>0 DEF Transcribed
<1>6. \A j \in DOMAIN messages : messages[j] # Message(t, turn[t].texts)
  BY <1>2, <1>3 DEF Message
<1>7. DOMAIN messages = 1 .. Len(messages)
  BY <1>0 DEF TypeOK
<1>8. /\ turn'[t].history \in {Unloaded} \cup 0 .. Len(messages)
      /\ turn'[t].history # Unloaded =>
             turn'[t].history >= Limit \/ turn'[t].history >= turn'[t].arrived
      /\ \A j \in 1 .. turn'[t].history : messages[j] # Message(t, turn[t].texts)
      /\ \A j \in 1 .. turn'[t].carried : messages[j] # Message(t, turn[t].texts)
  <2>1. CASE turn'[t].history = Loaded
    <3>1. 1 .. Loaded \subseteq DOMAIN messages /\ 1 .. turn[t].carried \subseteq DOMAIN messages
      <4>1. 1 .. Loaded \subseteq 1 .. Len(messages)
        BY <1>2, <1>4
      <4>2. 1 .. turn[t].carried \subseteq 1 .. Len(messages)
        BY <1>2, <1>5
      <4> QED
        BY <1>7, <4>1, <4>2
    <3>2. Loaded >= Limit \/ Loaded >= turn[t].arrived
      BY <1>2, <1>4, <1>5
    <3> QED
      BY <1>1, <1>4, <1>6, <2>1, <3>1, <3>2
  <2>2. CASE turn'[t].history = Unloaded
    <3>1. 1 .. Unloaded = {} /\ 1 .. turn[t].carried \subseteq DOMAIN messages
      BY <1>2, <1>5, <1>7 DEF Unloaded
    <3> QED
      BY <1>1, <1>6, <2>2, <3>1
  <2> QED
    BY <2>1, <2>2
<1>9. \A j \in DOMAIN messages : messages[j].what \in Int
  BY <1>0, MessagesTyped
<1> QED
  BY <1>0, <1>1, <1>2, <1>3, <1>5, <1>8, <1>9 DEF Transcribed

\* A turn that goes on and neither says nor loads anything.
LEMMA TranscribedGoesOn ==
    ASSUME TypeOK, TypeOK', NEW t \in Turns, Transcribed(t), Grown,
           NEW changed \in SUBSET {"pc", "row", "run", "known", "minted", "unwritten"},
           Moves(t, changed),
           turn'[t].pc # "idle", turn[t].pc # "idle",
           turn'[t].pc \notin Over => turn[t].pc \notin Over,
           turn'[t].pc \in Unstored => turn[t].pc \in Unstored,
           turn'[t].pc \in LoadedPcs => turn[t].pc \in LoadedPcs,
           \A j \in New : messages'[j].of = t =>
              /\ messages'[j].what <= turn[t].texts
              /\ turn'[t].pc \in Unstored => messages'[j].what < turn[t].texts
    PROVE  Transcribed(t)'
<1>1. /\ turn'[t].texts = turn[t].texts /\ turn'[t].arrived = turn[t].arrived
      /\ turn'[t].carried = turn[t].carried /\ turn'[t].history = turn[t].history
  <2>1. {"texts", "arrived", "carried", "history"} \subseteq Fields \ changed
    BY DEF Fields
  <2> QED
    BY <2>1 DEF Moves
<1> QED
  BY <1>1, TranscribedKeeps

LEMMA TranscribedGone ==
    ASSUME ConversationAssumption, TypeOK, TypeOK', NEW t \in Turns, Transcribed(t), Grown,
           NEW to \in Over, Becomes(t, Gone(t, to)),
           \A j \in New : messages'[j].what <= 0
    PROVE  Transcribed(t)'
<1>1. turn'[t] = Gone(t, to)
  BY GoneFields, BecomesMoves
<1>2. /\ turn'[t].texts = turn[t].texts /\ turn'[t].arrived = 0
      /\ turn'[t].carried = 0 /\ turn'[t].history = Unloaded /\ turn'[t].pc \in Over
  BY <1>1, GoneFields
<1>3. turn[t].texts \in Nat
  BY DEF TypeOK, TurnStates
<1>4. \A j \in New : messages'[j].what \in Int
  BY GrownMessages DEF Messages
<1>5. \A j \in New : messages'[j].what <= turn[t].texts
  BY <1>3, <1>4
<1>6. turn'[t].pc # "asked"
  BY <1>2 DEF Over
<1> QED
  BY <1>2, <1>5, <1>6, TranscribedForgets

LEMMA TranscribedAsking ==
    ASSUME ConversationAssumption, TypeOK, TypeOK', NEW t \in Turns, Transcribed(t), Grown,
           NEW ids \in SUBSET Names, Becomes(t, Asking(t, ids)),
           turn[t].pc \in {"resolve", "run"},
           \A j \in New : messages'[j].what <= 0
    PROVE  Transcribed(t)'
<1>1. turn'[t] = Asking(t, ids)
  BY AskingFields, BecomesMoves
<1>2. /\ turn'[t].arrived = 0 /\ turn'[t].history = Unloaded /\ turn'[t].pc = "asked"
  BY <1>1, AskingFields
<1>3. turn'[t].texts = turn[t].texts /\ turn'[t].carried = turn[t].carried
  BY <1>1, AskingFields DEF Fields
<1>4. turn[t].texts \in Nat
  BY DEF TypeOK, TurnStates
<1>5. turn[t].texts >= 1
  BY DEF Transcribed, Over
<1>6. \A j \in New : messages'[j].what \in Int
  BY GrownMessages DEF Messages
<1>7. \A j \in New : messages'[j].what <= turn[t].texts
  BY <1>4, <1>6
<1> QED
  BY <1>2, <1>3, <1>5, <1>7, TranscribedForgets

LEMMA TranscribedStep ==
    ASSUME ConversationAssumption, IInv, [Next]_vars, TypeOK', NEW u \in Turns
    PROVE  Transcribed(u)'
<1>0. TypeOK /\ \A t \in Turns : Transcribed(t) /\ OwnRow(t)
  BY DEF IInv
<1>1. messages' = messages => Grown /\ New = {}
  BY <1>0, StaysGrown
<1>2. ASSUME NEW t \in Turns, \A v \in Turns \ {t} : turn'[v] = turn[v], Grown,
             \A j \in New : messages'[j].of = t \/ messages'[j].what <= 0,
             Transcribed(t)'
      PROVE  Transcribed(u)'
  BY <1>0, <1>2, TranscribedStays
<1>3. ASSUME NEW t \in Turns, NEW changed, Moves(t, changed), Grown,
             \A j \in New : messages'[j].of = t \/ messages'[j].what <= 0,
             Transcribed(t)'
      PROVE  Transcribed(u)'
  BY <1>2, <1>3 DEF Moves
<1>4. ASSUME NEW t \in Turns, NEW r \in TurnStates, Becomes(t, r), Grown,
             \A j \in New : messages'[j].of = t \/ messages'[j].what <= 0,
             Transcribed(t)'
      PROVE  Transcribed(u)'
  BY <1>0, <1>3, <1>4, BecomesMoves
<1> USE DEF Over, Unstored, LoadedPcs
<1>5. ASSUME NEW t \in Turns, Arrive(t) PROVE Transcribed(u)'
  <2>1. Grown /\ New = {}
    BY <1>1, <1>5 DEF Arrive
  <2> QED
    BY <1>0, <1>3, <1>5, <2>1, ArriveMoves, TranscribedArrive
<1>6. ASSUME NEW t \in Turns, CreateThread(t) PROVE Transcribed(u)'
  <2>1. Grown /\ New = {}
    BY <1>1, <1>6 DEF CreateThread
  <2>2. CASE Becomes(t, Gone(t, "refused"))
    BY <1>0, <1>4, <2>1, <2>2, GoneFields, TranscribedGone
  <2>3. CASE Moves(t, {"pc"}) /\ turn'[t].pc \in {"task", "load"}
    BY <1>0, <1>3, <1>6, <2>1, <2>3, CreateThreadMoves, TranscribedGoesOn
  <2> QED
    BY <1>0, <1>6, <2>2, <2>3, CreateThreadMoves
<1>7. ASSUME NEW t \in Turns, CreateTask(t) PROVE Transcribed(u)'
  <2>1. Grown /\ New = {}
    BY <1>1, <1>7 DEF CreateTask
  <2> QED
    BY <1>0, <1>3, <1>7, <2>1, CreateTaskMoves, TranscribedGoesOn
<1>8. ASSUME NEW t \in Turns, Load(t) PROVE Transcribed(u)'
  <2>1. Grown /\ New = {}
    BY <1>1, <1>8 DEF Load
  <2>2. CASE Becomes(t, Gone(t, "ending"))
    BY <1>0, <1>4, <2>1, <2>2, GoneFields, TranscribedGone
  <2>3. CASE /\ Moves(t, {"pc", "history"}) /\ turn'[t].pc = "store"
             /\ turn'[t].history \in {Loaded, Unloaded}
    BY <1>3, <1>8, <2>1, <2>3, TranscribedLoad
  <2> QED
    BY <1>0, <1>8, <2>2, <2>3, LoadMoves
<1>9. ASSUME NEW t \in Turns, Store(t) PROVE Transcribed(u)'
  <2>1. turn[t].pc = "store" /\ Moves(t, {"pc"}) /\ turn'[t].pc = "resolve"
    BY <1>0, <1>9, StoreMoves
  <2>2. turn[t].texts >= 1
    BY <1>0, <2>1 DEF Transcribed
  <2>3. Grown /\ \A j \in New : messages'[j].of = t /\ messages'[j].what <= turn[t].texts
    BY <1>0, <1>9, <2>2, StoreGrows
  <2>4. Transcribed(t)'
    BY <1>0, <2>1, <2>3, TranscribedGoesOn
  <2> QED
    BY <1>3, <2>1, <2>3, <2>4
<1>10. ASSUME NEW t \in Turns, turn[t].pc = "resolve",
              (\E id : Given(t, id)) \/ (\E w : Mints(t, w)), messages' = messages
       PROVE  Transcribed(u)'
  <2>1. Grown /\ New = {}
    BY <1>1, <1>10
  <2>2. CASE \E id : Given(t, id)
    BY <1>0, <1>3, <1>10, <2>1, <2>2, TranscribedGoesOn DEF Given
  <2>3. CASE \E w : Mints(t, w)
    BY <1>0, <1>3, <1>10, <2>1, <2>3, TranscribedGoesOn DEF Mints
  <2> QED
    BY <1>10, <2>2, <2>3
<1>11. ASSUME NEW t \in Turns, ResolveWeb(t) PROVE Transcribed(u)'
  BY <1>0, <1>10, <1>11, ResolveWebMoves DEF ResolveWeb
<1>12. ASSUME NEW t \in Turns, ResolveA2A(t) PROVE Transcribed(u)'
  <2>1. Grown /\ New = {} /\ messages' = messages
    BY <1>1, <1>12 DEF ResolveA2A
  <2>2. CASE Becomes(t, Asking(t, Recent))
    <3>1. Recent \in SUBSET Names
      BY <1>0, RecentAreIds, IdsAreNames
    <3>2. turn[t].pc \in {"resolve", "run"}
      BY <1>0, <1>12, ResolveA2AMoves
    <3> QED
      BY <1>0, <1>4, <2>1, <2>2, <3>1, <3>2, AskingFields, TranscribedAsking
  <2> QED
    BY <1>0, <1>10, <1>12, <2>1, <2>2, ResolveA2AMoves
<1>13. ASSUME NEW t \in Turns, Delegate(t) PROVE Transcribed(u)'
  BY <1>0, <1>1, <1>13, TranscribedStays DEF Delegate
<1>14. ASSUME NEW t \in Turns, Answer(t) PROVE Transcribed(u)'
  <2>1. Message(t, Reply) \in Messages /\ Message(t, Reply).what = 0
    BY DEF Message, Messages, Reply
  <2>2. Grown /\ \A j \in New : messages'[j].what <= 0
    BY <1>0, <1>14, <2>1, SayGrows DEF Answer
  <2>3. CASE Becomes(t, Gone(t, IF surface = "a2a" THEN "ending" ELSE "done"))
    BY <1>0, <1>4, <2>2, <2>3, GoneFields, TranscribedGone
  <2>4. CASE Becomes(t, Asking(t, {}))
    <3>1. {} \in SUBSET Names /\ turn[t].pc \in {"resolve", "run"}
      BY <1>0, <1>14, AnswerMoves
    <3> QED
      BY <1>0, <1>4, <2>2, <2>4, <3>1, AskingFields, TranscribedAsking
  <2> QED
    BY <1>0, <1>14, <2>3, <2>4, AnswerMoves
<1>15. ASSUME NEW t \in Turns, Settle(t) PROVE Transcribed(u)'
  <2>1. Message(t, Completion) \in Messages /\ Message(t, Completion).what = -1
    BY DEF Message, Messages, Completion
  <2>2. Grown /\ \A j \in New : messages'[j].what = -1
    BY <1>0, <1>15, <2>1, SayGrows DEF Settle
  <2>3. turn[t].texts \in Nat
    BY <1>0 DEF TypeOK, TurnStates
  <2>4. turn[t].pc = "ending" /\ Moves(t, {"pc"}) /\ turn'[t].pc = "done"
    BY <1>0, <1>15, SettleMoves
  <2>5. Transcribed(t)'
    BY <1>0, <2>2, <2>3, <2>4, TranscribedGoesOn
  <2> QED
    BY <1>3, <2>2, <2>4, <2>5
<1>16. ASSUME NEW t \in Turns, Resume(t) PROVE Transcribed(u)'
  <2>1. Grown /\ New = {}
    BY <1>1, <1>16 DEF Resume
  <2> QED
    BY <1>0, <1>3, <1>16, <2>1, ResumeMoves, TranscribedResume
<1>17. ASSUME NEW i \in open, Adopt(i) PROVE Transcribed(u)'
  BY <1>0, <1>1, <1>17, TranscribedStays DEF Adopt
<1>18. ASSUME NEW i \in open, Finish(i) PROVE Transcribed(u)'
  <2>1. Message(Nothing, Completion) \in Messages /\ Message(Nothing, Completion).what = -1
    BY DEF Message, Messages, Completion
  <2>2. Grown /\ \A j \in New : messages'[j].what = -1
    BY <1>0, <1>18, <2>1, SayGrows DEF Finish
  <2> QED
    BY <1>0, <1>18, <2>2, TranscribedStays DEF Finish
<1>19. CASE UNCHANGED vars
  BY <1>0, <1>1, <1>19, TranscribedStays DEF vars
<1> QED
  BY <1>5, <1>6, <1>7, <1>8, <1>9, <1>11, <1>12, <1>13, <1>14, <1>15, <1>16, <1>17, <1>18,
     <1>19 DEF Next

-----------------------------------------------------------------------------
(* The rows of the tasks.                                                  *)

\* Nobody writes the row of turn u.
Untouched(u) ==
    /\ DOMAIN tasks \subseteq DOMAIN tasks' /\ Len(tasks) <= Len(tasks')
    /\ turn[u].row # 0 => tasks'[turn[u].row] = tasks[turn[u].row]

LEMMA TasksTyped ==
    ASSUME TypeOK
    PROVE  tasks \in Seq(Names) /\ Len(tasks) \in Nat /\ DOMAIN tasks = 1 .. Len(tasks)
BY DEF TypeOK

LEMMA AppendLeaves ==
    ASSUME TypeOK, NEW u \in Turns, OwnRow(u), NEW id \in Names, tasks' = Append(tasks, id)
    PROVE  /\ Untouched(u) /\ Len(tasks') = Len(tasks) + 1
           /\ DOMAIN tasks' = DOMAIN tasks \cup {Len(tasks) + 1}
<1>1. tasks \in Seq(Names) /\ Len(tasks) \in Nat /\ DOMAIN tasks = 1 .. Len(tasks)
  BY TasksTyped
<1>2. /\ Len(tasks') = Len(tasks) + 1 /\ DOMAIN tasks' = 1 .. Len(tasks) + 1
      /\ \A i \in 1 .. Len(tasks) : tasks'[i] = tasks[i]
  BY <1>1
<1>3. turn[u].row # 0 => turn[u].row \in 1 .. Len(tasks)
  BY <1>1 DEF OwnRow
<1> QED
  BY <1>1, <1>2, <1>3 DEF Untouched

LEMMA WriteLeaves ==
    ASSUME TypeOK, NEW u \in Turns, OwnRow(u), NEW i, i # turn[u].row, NEW id,
           tasks' = [tasks EXCEPT ![i] = id], TypeOK'
    PROVE  Untouched(u) /\ DOMAIN tasks' = DOMAIN tasks /\ Len(tasks') = Len(tasks)
<1>1. tasks \in Seq(Names) /\ Len(tasks) \in Nat /\ DOMAIN tasks = 1 .. Len(tasks)
  BY TasksTyped
<1>2. DOMAIN tasks' = DOMAIN tasks
  BY <1>1
<1>3. tasks' \in Seq(Names)
  BY DEF TypeOK
<1>4. Len(tasks') = Len(tasks)
  BY <1>1, <1>2, <1>3
<1>5. turn[u].row # 0 => turn[u].row \in DOMAIN tasks
  BY DEF OwnRow
<1> QED
  BY <1>1, <1>2, <1>4, <1>5 DEF Untouched

LEMMA SameLeaves ==
    ASSUME TypeOK, NEW u, tasks' = tasks
    PROVE  Untouched(u)
BY TasksTyped DEF Untouched

LEMMA ResolveLeaves ==
    ASSUME ConversationAssumption, IInv, TypeOK', NEW t \in Turns, NEW u \in Turns,
           ResolveA2A(t)
    PROVE  \/ Untouched(u)
           \/ /\ t = u /\ Mints(u, TRUE) /\ turn[u].row # 0
              /\ tasks' = [tasks EXCEPT ![turn[u].row] = clock'] /\ clock' \in 0 .. MaxClock
<1>0. TypeOK /\ \A v \in Turns : OwnRow(v)
  BY DEF IInv
<1>1. CASE tasks' = tasks
  BY <1>0, <1>1, SameLeaves
<1>2. CASE /\ Mints(t, TRUE) /\ clock' \in 0 .. MaxClock
           /\ tasks' = [tasks EXCEPT ![turn[t].row] = clock']
  <2>1. turn[t].row # 0
    BY <1>0, ResolveA2AMoves DEF OwnRow
  <2>2. CASE t = u
    BY <1>2, <2>1, <2>2
  <2>3. CASE t # u
    <3>1. turn[t].row # turn[u].row
      BY <1>0, <2>1, <2>3 DEF OwnRow
    <3> QED
      BY <1>0, <1>2, <3>1, WriteLeaves
  <2> QED
    BY <2>2, <2>3
<1> QED
  BY <1>0, <1>1, <1>2, ResolveA2AMoves

LEMMA TasksStep ==
    ASSUME ConversationAssumption, IInv, [Next]_vars, TypeOK', NEW u \in Turns
    PROVE  \/ Untouched(u)
           \/ /\ ResolveA2A(u) /\ Mints(u, TRUE) /\ turn[u].row # 0
              /\ tasks' = [tasks EXCEPT ![turn[u].row] = clock'] /\ clock' \in 0 .. MaxClock
<1>0. TypeOK /\ \A t \in Turns : OwnRow(t)
  BY DEF IInv
<1>1. ASSUME tasks' = tasks PROVE Untouched(u)
  BY <1>0, <1>1, SameLeaves
<1>2. ASSUME NEW t \in Turns,
             \/ Arrive(t) \/ CreateThread(t) \/ Load(t) \/ Store(t) \/ ResolveWeb(t)
             \/ Answer(t) \/ Settle(t) \/ Resume(t)
      PROVE  Untouched(u)
  <2>1. tasks' = tasks
    BY <1>2 DEF Arrive, CreateThread, Load, Store, ResolveWeb, Answer, Settle, Resume
  <2> QED
    BY <1>1, <2>1
<1>3. ASSUME NEW t \in Turns, CreateTask(t) PROVE Untouched(u)
  BY <1>0, <1>3, CreateTaskMoves, AppendLeaves
<1>4. ASSUME NEW t \in Turns, Delegate(t) PROVE Untouched(u)
  <2>1. PICK id \in RunIds \cup {turn[t].run, Nothing} : tasks' = Append(tasks, id)
    BY <1>4 DEF Delegate
  <2>2. turn[t].run \in Names
    BY <1>0 DEF TypeOK, TurnStates
  <2>3. id \in Names
    BY <2>2 DEF Names
  <2> QED
    BY <1>0, <2>1, <2>3, AppendLeaves
<1>5. ASSUME NEW i \in open, Adopt(i) PROVE Untouched(u)
  <2>1. i # turn[u].row
    BY <1>0 DEF OwnRow
  <2>2. PICK id \in RunIds : tasks' = [tasks EXCEPT ![i] = id]
    BY <1>5 DEF Adopt
  <2> QED
    BY <1>0, <2>1, <2>2, WriteLeaves
<1>6. ASSUME NEW i \in open, Finish(i) PROVE Untouched(u)
  BY <1>1, <1>6 DEF Finish
<1>7. CASE UNCHANGED vars
  BY <1>1, <1>7 DEF vars
<1>8. ASSUME NEW t \in Turns, ResolveA2A(t)
      PROVE  \/ Untouched(u)
             \/ /\ t = u /\ Mints(u, TRUE) /\ turn[u].row # 0
                /\ tasks' = [tasks EXCEPT ![turn[u].row] = clock'] /\ clock' \in 0 .. MaxClock
  BY <1>8, ResolveLeaves
<1> QED
  BY <1>2, <1>3, <1>4, <1>5, <1>6, <1>7, <1>8 DEF Next

Rowed == {"load", "store", "resolve", "run", "asked"}

\* Rows are kept or given up, and none of them is delegated.
LEMMA OwnRowKeeps ==
    ASSUME TypeOK, NEW u \in Turns, OwnRow(u), DOMAIN tasks \subseteq DOMAIN tasks',
           surface' = surface, turn[u].row \notin open',
           \A v \in Turns : turn'[v].row \in {0, turn[v].row},
           turn'[u].pc \in Early => turn'[u].row = 0,
           surface = "a2a" /\ turn'[u].pc \in Rowed
               => turn[u].pc \in Rowed /\ turn'[u].row = turn[u].row,
           0 \notin open'
    PROVE  OwnRow(u)'
BY DEF OwnRow, Rowed

LEMMA OwnRowStep ==
    ASSUME ConversationAssumption, IInv, [Next]_vars, TypeOK', NEW u \in Turns
    PROVE  OwnRow(u)'
<1>0. TypeOK /\ \A t \in Turns : OwnRow(t)
  BY DEF IInv
<1>1. /\ Len(tasks) \in Nat /\ DOMAIN tasks = 1 .. Len(tasks) /\ open \subseteq DOMAIN tasks
      /\ 0 \notin open
  BY <1>0, TasksTyped DEF TypeOK
<1>2. DOMAIN tasks' = 1 .. Len(tasks') /\ Len(tasks') \in Nat /\ open' \subseteq DOMAIN tasks'
  BY DEF TypeOK
<1>3. DOMAIN tasks \subseteq DOMAIN tasks' /\ surface' = surface
  <2>1. ASSUME NEW t \in Turns,
               \/ Arrive(t) \/ CreateThread(t) \/ CreateTask(t) \/ Load(t) \/ Store(t)
               \/ ResolveWeb(t) \/ ResolveA2A(t) \/ Delegate(t) \/ Answer(t) \/ Settle(t)
               \/ Resume(t)
        PROVE  surface' = surface
    BY Zenon, <2>1 DEF Arrive, CreateThread, CreateTask, Load, Store, ResolveWeb, ResolveA2A,
                       Delegate, Answer, Settle, Resume
  <2>2. ASSUME NEW i \in open, Adopt(i) \/ Finish(i) PROVE surface' = surface
    BY <2>2 DEF Adopt, Finish
  <2>3. surface' = surface
    BY <2>1, <2>2 DEF Next, vars
  <2>4. CASE Untouched(u)
    BY <2>3, <2>4 DEF Untouched
  <2>5. CASE tasks' = [tasks EXCEPT ![turn[u].row] = clock']
    BY <1>1, <2>3, <2>5
  <2> QED
    BY <2>4, <2>5, TasksStep
\* A step of turn t that keeps the rows.
<1>4. ASSUME NEW t \in Turns, NEW changed, Moves(t, changed), "row" \notin changed,
             open' = open, surface = "a2a" /\ turn'[t].pc \in Rowed => turn[t].pc \in Rowed,
             turn'[t].pc \in Early => turn[t].pc \in Early
      PROVE  OwnRow(u)'
  <2>1. \A v \in Turns : turn'[v].row = turn[v].row
    BY <1>4 DEF Moves, Fields
  <2>2. /\ surface = "a2a" /\ turn'[u].pc \in Rowed => turn[u].pc \in Rowed
        /\ turn'[u].pc \in Early => turn[u].pc \in Early
    BY <1>4 DEF Moves
  <2> QED
    BY <1>0, <1>1, <1>3, <1>4, <2>1, <2>2, OwnRowKeeps DEF OwnRow
<1>5. ASSUME NEW t \in Turns, NEW to \in Over, Becomes(t, Gone(t, to)), open' = open
      PROVE  OwnRow(u)'
  <2>1. /\ turn'[t] = Gone(t, to) /\ turn'[t].row = 0 /\ turn'[t].pc \in Over
        /\ \A v \in Turns \ {t} : turn'[v] = turn[v]
    BY <1>0, <1>5, GoneFields, BecomesMoves DEF Moves
  <2> QED
    BY <1>0, <1>1, <1>3, <1>5, <2>1, OwnRowKeeps DEF OwnRow, Rowed, Over, Early
<1>6. ASSUME NEW t \in Turns, NEW ids \in SUBSET Names, Becomes(t, Asking(t, ids)), open' = open,
             turn[t].pc \in Rowed
      PROVE  OwnRow(u)'
  <2>1. /\ turn'[t] = Asking(t, ids) /\ turn'[t].row = turn[t].row
        /\ \A v \in Turns \ {t} : turn'[v] = turn[v]
    BY <1>0, <1>6, AskingFields, BecomesMoves DEF Moves, Fields
  <2> QED
    <3>1. turn'[t].pc = "asked"
      BY <1>0, <1>6, <2>1, AskingFields
    <3> QED
      BY <1>0, <1>1, <1>3, <1>6, <2>1, <3>1, OwnRowKeeps, SMTT(20) DEF OwnRow, Early
<1>7. ASSUME UNCHANGED turn, open' \subseteq open PROVE OwnRow(u)'
  BY <1>0, <1>1, <1>3, <1>7, OwnRowKeeps DEF OwnRow
<1>8. ASSUME NEW t \in Turns, Arrive(t) PROVE OwnRow(u)'
  BY <1>0, <1>4, <1>8, ArriveMoves, ZenonT(40) DEF Arrive, Rowed, Early
<1>9. ASSUME NEW t \in Turns, CreateThread(t) PROVE OwnRow(u)'
  BY <1>0, <1>4, <1>5, <1>9, CreateThreadMoves DEF CreateThread, Rowed, Over, Early
<1>10. ASSUME NEW t \in Turns, CreateTask(t) PROVE OwnRow(u)'
  <2>1. PICK id \in Names : tasks' = Append(tasks, id)
    BY <1>0, <1>10, CreateTaskMoves
  <2>2. Len(tasks') = Len(tasks) + 1
    BY <1>0, <2>1, AppendLeaves
  <2>3. /\ turn'[t].row = Len(tasks') /\ open' = open
        /\ \A v \in Turns \ {t} : turn'[v] = turn[v]
    BY <1>0, <1>10, <2>2, CreateTaskMoves DEF Moves, CreateTask
  <2>4. \A v \in Turns : turn[v].row # Len(tasks')
    BY <1>0, <1>1, <2>2 DEF OwnRow
  <2>5. Len(tasks') \in DOMAIN tasks' /\ Len(tasks') \notin open /\ Len(tasks') # 0
    BY <1>1, <1>2, <2>2
  <2> QED
    <3>1. turn'[t].pc = "load"
      BY <1>0, <1>10, CreateTaskMoves
    <3>2. CASE t = u
      BY <1>3, <2>3, <2>4, <2>5, <3>1, <3>2 DEF OwnRow, Early
    <3>3. CASE t # u
      BY <1>0, <1>3, <2>3, <2>4, <2>5, <3>3 DEF OwnRow, Early
    <3> QED
      BY <3>2, <3>3
<1>11. ASSUME NEW t \in Turns, Load(t) PROVE OwnRow(u)'
  BY <1>0, <1>4, <1>5, <1>11, LoadMoves DEF Load, Rowed, Over, Early
<1>12. ASSUME NEW t \in Turns, Store(t) PROVE OwnRow(u)'
  BY <1>0, <1>4, <1>12, StoreMoves DEF Store, Rowed, Early
<1>13. ASSUME NEW t \in Turns, ResolveWeb(t) PROVE OwnRow(u)'
  BY <1>0, <1>4, <1>13, ResolveWebMoves DEF ResolveWeb, Rowed, Early, Given, Mints
<1>14. ASSUME NEW t \in Turns, ResolveA2A(t) PROVE OwnRow(u)'
  <2>1. Recent \in SUBSET Names
    BY <1>0, RecentAreIds, IdsAreNames
  <2>2. turn[t].pc \in Rowed /\ open' = open
    BY <1>14 DEF ResolveA2A, At, Rowed
  <2> QED
    BY <1>0, <1>4, <1>6, <1>14, <2>1, <2>2, ResolveA2AMoves DEF Given, Mints, Early
<1>15. ASSUME NEW t \in Turns, Delegate(t) PROVE OwnRow(u)'
  <2>1. PICK id \in RunIds \cup {turn[t].run, Nothing} : tasks' = Append(tasks, id)
    BY <1>15 DEF Delegate
  <2>2. turn[t].run \in Names
    BY <1>0 DEF TypeOK, TurnStates
  <2>3. id \in Names
    BY <2>2 DEF Names
  <2>4. Len(tasks') = Len(tasks) + 1
    BY <1>0, <2>1, <2>3, AppendLeaves
  <2>5. open' = open \cup {Len(tasks')} /\ turn' = turn
    BY <1>15 DEF Delegate
  <2>6. turn[u].row # Len(tasks')
    BY <1>0, <1>1, <2>4 DEF OwnRow
  <2> QED
    BY <1>0, <1>3, <2>5, <2>6 DEF OwnRow
<1>16. ASSUME NEW t \in Turns, Answer(t) PROVE OwnRow(u)'
  <2>1. {} \in SUBSET Names /\ {"ending", "done"} \subseteq Over
    BY DEF Over
  <2>2. turn[t].pc \in Rowed /\ open' = open
    BY <1>16 DEF Answer, At, Rowed
  <2> QED
    BY <1>0, <1>5, <1>6, <1>16, <2>1, <2>2, AnswerMoves
<1>17. ASSUME NEW t \in Turns, Settle(t) PROVE OwnRow(u)'
  BY <1>0, <1>4, <1>17, SettleMoves DEF Settle, Rowed, Early
<1>18. ASSUME NEW t \in Turns, Resume(t) PROVE OwnRow(u)'
  BY <1>0, <1>4, <1>18, ResumeMoves DEF Resume, Rowed, Early
<1>19. ASSUME NEW i \in open, Adopt(i) PROVE OwnRow(u)'
  BY <1>7, <1>19 DEF Adopt
<1>20. ASSUME NEW i \in open, Finish(i) PROVE OwnRow(u)'
  BY <1>7, <1>20 DEF Finish
<1>21. CASE UNCHANGED vars
  BY <1>7, <1>21 DEF vars
<1> QED
  BY <1>8, <1>9, <1>10, <1>11, <1>12, <1>13, <1>14, <1>15, <1>16, <1>17, <1>18, <1>19, <1>20,
     <1>21 DEF Next

-----------------------------------------------------------------------------
(* The test runs.                                                          *)

LEMMA NotGuessedStays ==
    ASSUME ConversationAssumption, NEW u, NotGuessed(u), turn'[u] = turn[u], Untouched(u), TypeOK, TypeOK'
    PROVE  NotGuessed(u)'
<1>1. Len(tasks) \in Nat /\ Len(tasks') \in Nat /\ Window \in Nat
  BY DEF TypeOK, ConversationAssumption
<1> SUFFICES ASSUME turn'[u].pc = "run", Guessed(u)' PROVE FALSE
  BY DEF NotGuessed
<1>2. ~Guessed(u)
  BY DEF NotGuessed
<1>3. Len(tasks) <= Window
  BY <1>1 DEF Guessed, Untouched
<1> QED
  BY <1>2, <1>3 DEF Guessed, Untouched

LEMMA NotGuessedStep ==
    ASSUME ConversationAssumption, IInv, [Next]_vars, TypeOK', NEW u \in Turns
    PROVE  NotGuessed(u)'
<1>0. TypeOK /\ NotGuessed(u) /\ \A t \in Turns : OwnRow(t)
  BY DEF IInv
<1>1. ASSUME turn'[u].pc # "run" PROVE NotGuessed(u)'
  BY <1>1 DEF NotGuessed
\* A step that does not send turn u to work.
<1>2. ASSUME NEW t \in Turns, \A v \in Turns \ {t} : turn'[v] = turn[v], turn'[t].pc # "run",
             tasks' = tasks \/ Untouched(u)
      PROVE  NotGuessed(u)'
  <2>1. Untouched(u)
    BY <1>0, <1>2, SameLeaves
  <2> QED
    BY <1>0, <1>1, <1>2, <2>1, NotGuessedStays
<1>3. ASSUME NEW t \in Turns, NEW r \in TurnStates, Becomes(t, r), r.pc # "run", tasks' = tasks
      PROVE  NotGuessed(u)'
  BY <1>0, <1>2, <1>3, BecomesMoves DEF Moves
<1>4. ASSUME UNCHANGED turn, tasks' = tasks \/ Untouched(u) PROVE NotGuessed(u)'
  BY <1>0, <1>4, SameLeaves, NotGuessedStays
<1>5. ASSUME NEW t \in Turns, Arrive(t) PROVE NotGuessed(u)'
  BY <1>0, <1>2, <1>5, ArriveMoves DEF Moves, Arrive
<1>6. ASSUME NEW t \in Turns, CreateThread(t) PROVE NotGuessed(u)'
  BY <1>0, <1>2, <1>3, <1>6, CreateThreadMoves, GoneFields DEF Moves, CreateThread, Over
<1>7. ASSUME NEW t \in Turns, CreateTask(t) PROVE NotGuessed(u)'
  BY <1>0, <1>2, <1>7, CreateTaskMoves, AppendLeaves DEF Moves
<1>8. ASSUME NEW t \in Turns, Load(t) PROVE NotGuessed(u)'
  BY <1>0, <1>2, <1>3, <1>8, LoadMoves, GoneFields DEF Moves, Load, Over
<1>9. ASSUME NEW t \in Turns, Store(t) PROVE NotGuessed(u)'
  BY <1>0, <1>2, <1>9, StoreMoves DEF Moves, Store
\* A run that was given is one that was named, or the only one known.
<1>10. ASSUME NEW t \in Turns, NEW id \in {Named(t), Nothing}, Given(t, id), tasks' = tasks
       PROVE  NotGuessed(u)'
  <2>1. CASE t = u
    <3>1. /\ turn'[t].run = id /\ turn'[t].row = turn[t].row /\ turn'[t].prose = turn[t].prose
      BY <1>10 DEF Given, Moves, Fields
    <3>2. id = Nothing \/ id = turn[t].prose \/ (turn[t].row # 0 /\ tasks[turn[t].row] = id)
      BY <1>10 DEF Named
    <3> QED
      BY <1>10, <2>1, <3>1, <3>2 DEF NotGuessed, Guessed
  <2>2. CASE t # u
    BY <1>0, <1>10, <2>2, SameLeaves, NotGuessedStays DEF Given, Moves
  <2> QED
    BY <2>1, <2>2
<1>11. ASSUME NEW t \in Turns, Given(t, SoleOf(Recent)), turn'[t].known = Ids(tasks),
              tasks' = tasks
       PROVE  NotGuessed(u)'
  <2>1. CASE t = u
    BY <1>0, <1>11, <2>1, SoleIsSole DEF NotGuessed, Guessed, Given
  <2>2. CASE t # u
    BY <1>0, <1>11, <2>2, SameLeaves, NotGuessedStays DEF Given, Moves
  <2> QED
    BY <2>1, <2>2
<1>12. ASSUME NEW t \in Turns, NEW w, Mints(t, w), t = u \/ Untouched(u) PROVE NotGuessed(u)'
  <2>1. CASE t = u
    BY <1>12, <2>1 DEF NotGuessed, Guessed, Mints
  <2>2. CASE t # u
    BY <1>0, <1>12, <2>2, NotGuessedStays DEF Mints, Moves
  <2> QED
    BY <2>1, <2>2
<1>13. ASSUME NEW t \in Turns, ResolveWeb(t) PROVE NotGuessed(u)'
  <2>1. tasks' = tasks
    BY <1>13 DEF ResolveWeb
  <2> QED
    BY <1>0, <1>10, <1>11, <1>12, <1>13, <2>1, SameLeaves, ResolveWebMoves
<1>14. ASSUME NEW t \in Turns, ResolveA2A(t) PROVE NotGuessed(u)'
  <2>1. t = u \/ Untouched(u)
    BY <1>14, ResolveLeaves
  <2>2. Recent \in SUBSET Names
    BY <1>0, RecentAreIds, IdsAreNames
  <2> QED
    BY <1>0, <1>3, <1>10, <1>12, <1>14, <2>1, <2>2, ResolveA2AMoves, AskingFields
<1>15. ASSUME NEW t \in Turns, Delegate(t) PROVE NotGuessed(u)'
  <2>1. Untouched(u)
    BY <1>0, <1>15, TasksStep DEF Delegate, Mints, ResolveA2A, At
  <2> QED
    BY <1>4, <1>15, <2>1 DEF Delegate
<1>16. ASSUME NEW t \in Turns, Answer(t) PROVE NotGuessed(u)'
  <2>1. {} \in SUBSET Names /\ {"ending", "done"} \subseteq Over /\ tasks' = tasks
    BY <1>16 DEF Over, Answer
  <2>2. (IF surface = "a2a" THEN "ending" ELSE "done") # "run"
    OBVIOUS
  <2> QED
    BY <1>0, <1>3, <1>16, <2>1, <2>2, AnswerMoves, GoneFields, AskingFields
<1>17. ASSUME NEW t \in Turns, Settle(t) PROVE NotGuessed(u)'
  BY <1>0, <1>2, <1>17, SettleMoves DEF Moves, Settle
<1>18. ASSUME NEW t \in Turns, Resume(t) PROVE NotGuessed(u)'
  BY <1>0, <1>2, <1>18, ResumeMoves DEF Moves, Resume
<1>19. ASSUME NEW i \in open, Adopt(i) PROVE NotGuessed(u)'
  <2>1. Untouched(u)
    BY <1>0, <1>19, TasksStep DEF Adopt, Mints, ResolveA2A, At
  <2> QED
    BY <1>4, <1>19, <2>1 DEF Adopt
<1>20. ASSUME NEW i \in open, Finish(i) PROVE NotGuessed(u)'
  BY <1>4, <1>20 DEF Finish
<1>21. CASE UNCHANGED vars
  BY <1>4, <1>21 DEF vars
<1> QED
  BY <1>5, <1>6, <1>7, <1>8, <1>9, <1>13, <1>14, <1>15, <1>16, <1>17, <1>18, <1>19, <1>20,
     <1>21 DEF Next

LEMMA MintedOnceStays ==
    ASSUME NEW u, MintedOnce(u), turn'[u] = turn[u], Untouched(u), surface' = surface
    PROVE  MintedOnce(u)'
BY DEF MintedOnce, Untouched

\* A turn that goes on in its row, or is over.
LEMMA MintedOnceKeeps ==
    ASSUME NEW t, MintedOnce(t), Untouched(t), surface' = surface,
           turn'[t].minted = turn[t].minted, turn'[t].unwritten = turn[t].unwritten,
           turn'[t].pc \notin Over =>
               /\ turn'[t].row = turn[t].row
               /\ turn[t].pc \notin Over
               /\ surface = "a2a" \/ turn[t].pc # "run"
    PROVE  MintedOnce(t)'
BY DEF MintedOnce, Untouched

LEMMA MintedOnceStep ==
    ASSUME ConversationAssumption, NothingAssumption, IInv, [Next]_vars, TypeOK', NEW u \in Turns
    PROVE  MintedOnce(u)'
<1>0. TypeOK /\ MintedOnce(u) /\ \A t \in Turns : OwnRow(t)
  BY DEF IInv
<1>1. surface' = surface
  <2>1. ASSUME NEW t \in Turns,
               \/ Arrive(t) \/ CreateThread(t) \/ CreateTask(t) \/ Load(t) \/ Store(t)
               \/ ResolveWeb(t) \/ ResolveA2A(t) \/ Delegate(t) \/ Answer(t) \/ Settle(t)
               \/ Resume(t)
        PROVE  surface' = surface
    BY Zenon, <2>1 DEF Arrive, CreateThread, CreateTask, Load, Store, ResolveWeb, ResolveA2A,
                       Delegate, Answer, Settle, Resume
  <2>2. ASSUME NEW i \in open, Adopt(i) \/ Finish(i) PROVE surface' = surface
    BY <2>2 DEF Adopt, Finish
  <2> QED
    BY <2>1, <2>2 DEF Next, vars
<1>2. Untouched(u) \/ ResolveA2A(u)
  BY TasksStep
\* A step of another turn, or of none.
<1>3. ASSUME turn'[u] = turn[u], Untouched(u) PROVE MintedOnce(u)'
  BY <1>0, <1>1, <1>3, MintedOnceStays
<1>4. ASSUME NEW t \in Turns, NEW changed, Moves(t, changed), Untouched(u),
             {"row", "minted", "unwritten"} \cap changed = {},
             turn'[t].pc \notin Over =>
                 turn[t].pc \notin Over /\ (surface = "a2a" \/ turn[t].pc # "run")
      PROVE  MintedOnce(u)'
  <2>1. CASE t = u
    <3>1. /\ turn'[t].minted = turn[t].minted /\ turn'[t].unwritten = turn[t].unwritten
          /\ turn'[t].row = turn[t].row
      BY <1>4 DEF Moves, Fields
    <3> QED
      BY <1>0, <1>1, <1>4, <2>1, <3>1, MintedOnceKeeps
  <2>2. CASE t # u
    BY <1>3, <1>4, <2>2 DEF Moves
  <2> QED
    BY <2>1, <2>2
<1>5. ASSUME NEW t \in Turns, NEW to \in Over, Becomes(t, Gone(t, to)), Untouched(u)
      PROVE  MintedOnce(u)'
  <2>1. turn'[t] = Gone(t, to) /\ \A v \in Turns \ {t} : turn'[v] = turn[v]
    BY <1>0, <1>5, GoneFields, BecomesMoves DEF Moves
  <2>2. /\ turn'[t].pc \in Over /\ turn'[t].minted = turn[t].minted
        /\ turn'[t].unwritten = turn[t].unwritten
    BY <1>0, <2>1, GoneFields
  <2> QED
    BY <1>0, <1>1, <1>3, <1>5, <2>1, <2>2, MintedOnceKeeps
<1>6. ASSUME NEW t \in Turns, NEW ids \in SUBSET Names, Becomes(t, Asking(t, ids)), Untouched(u),
             surface = "a2a", turn[t].pc \notin Over
      PROVE  MintedOnce(u)'
  <2>1. turn'[t] = Asking(t, ids) /\ \A v \in Turns \ {t} : turn'[v] = turn[v]
    BY <1>0, <1>6, AskingFields, BecomesMoves DEF Moves
  <2>2. /\ turn'[t].minted = turn[t].minted /\ turn'[t].unwritten = turn[t].unwritten
        /\ turn'[t].row = turn[t].row
    BY <1>0, <2>1, AskingFields DEF Fields
  <2> QED
    BY <1>0, <1>1, <1>3, <1>6, <2>1, <2>2, MintedOnceKeeps
<1>7. ASSUME NEW t \in Turns, Arrive(t) PROVE MintedOnce(u)'
  <2>1. Untouched(u)
    BY <1>0, <1>7, SameLeaves DEF Arrive
  <2> QED
    BY <1>0, <1>4, <1>7, <2>1, ArriveMoves DEF Over
<1>8. ASSUME NEW t \in Turns, CreateThread(t) PROVE MintedOnce(u)'
  <2>1. Untouched(u)
    BY <1>0, <1>8, SameLeaves DEF CreateThread
  <2> QED
    BY <1>0, <1>4, <1>5, <1>8, <2>1, CreateThreadMoves DEF Over
<1>9. ASSUME NEW t \in Turns, CreateTask(t) PROVE MintedOnce(u)'
  <2>1. Untouched(u)
    BY <1>0, <1>9, CreateTaskMoves, AppendLeaves
  <2>2. /\ turn'[t].minted = turn[t].minted /\ turn'[t].unwritten = turn[t].unwritten
        /\ turn[t].pc = "task" /\ \A v \in Turns \ {t} : turn'[v] = turn[v]
    BY <1>0, <1>9, CreateTaskMoves DEF Moves, Fields
  <2>3. CASE t = u
    <3>1. turn[t].minted = {} \/ turn[t].unwritten
      BY <1>0, <2>2, <2>3 DEF MintedOnce, OwnRow, Early, Over
    <3> QED
      BY <2>2, <2>3, <3>1 DEF MintedOnce
  <2>4. CASE t # u
    BY <1>3, <2>1, <2>2, <2>4
  <2> QED
    BY <2>3, <2>4
<1>10. ASSUME NEW t \in Turns, Load(t) PROVE MintedOnce(u)'
  <2>1. Untouched(u)
    BY <1>0, <1>10, SameLeaves DEF Load
  <2> QED
    BY <1>0, <1>4, <1>5, <1>10, <2>1, LoadMoves DEF Over
<1>11. ASSUME NEW t \in Turns, Store(t) PROVE MintedOnce(u)'
  <2>1. Untouched(u)
    BY <1>0, <1>11, SameLeaves DEF Store
  <2> QED
    BY <1>0, <1>4, <1>11, <2>1, StoreMoves DEF Over
\* A run is minted where none was, or the one that was is not written.
<1>12. ASSUME NEW t \in Turns, turn[t].pc = "resolve", Named(t) = Nothing,
              NEW w \in BOOLEAN, Mints(t, w), clock' \in 0 .. MaxClock,
              t = u => (w /\ surface = "a2a"
                          => turn[t].row # 0 /\ tasks'[turn[t].row] = clock'),
              t # u => Untouched(u)
       PROVE  MintedOnce(u)'
  <2>1. CASE t = u
    <3>1. turn[t].minted = {} \/ turn[t].unwritten
      <4>1. turn[t].row # 0 => tasks[turn[t].row] = Nothing
        BY <1>12 DEF Named
      <4> QED
        BY <1>0, <1>12, <2>1, <4>1 DEF MintedOnce, Over
    <3>2. /\ turn'[t].minted = turn[t].minted \cup {clock'} /\ turn'[t].pc = "run"
          /\ turn'[t].unwritten = (turn[t].unwritten \/ ~w)
          /\ turn'[t].row = turn[t].row
      BY <1>12 DEF Mints, Moves, Fields
    <3>3. clock' \in Int /\ clock' # Nothing
      BY <1>12 DEF NothingAssumption, ConversationAssumption
    <3>4. CASE turn[t].unwritten \/ ~w
      BY <2>1, <3>2, <3>4 DEF MintedOnce
    <3>5. CASE ~turn[t].unwritten /\ w
      <4>1. turn'[t].minted = {clock'}
        BY <3>1, <3>2, <3>5
      <4> QED
        BY <1>1, <1>12, <2>1, <3>2, <3>3, <3>5, <4>1 DEF MintedOnce
    <3> QED
      BY <3>4, <3>5
  <2>2. CASE t # u
    BY <1>3, <1>12, <2>2 DEF Mints, Moves
  <2> QED
    BY <2>1, <2>2
<1>13. ASSUME NEW t \in Turns, turn[t].pc = "resolve", NEW id, Given(t, id), tasks' = tasks
       PROVE  MintedOnce(u)'
  <2>1. Untouched(u)
    BY <1>0, <1>13, SameLeaves
  <2> QED
    BY <1>4, <1>13, <2>1 DEF Given, Over
<1>14. ASSUME NEW t \in Turns, ResolveWeb(t) PROVE MintedOnce(u)'
  <2>1. tasks' = tasks /\ Untouched(u) /\ surface # "a2a"
    BY <1>0, <1>14, SameLeaves DEF ResolveWeb
  <2> QED
    BY <1>0, <1>12, <1>13, <1>14, <2>1, ResolveWebMoves
<1>15. ASSUME NEW t \in Turns, ResolveA2A(t) PROVE MintedOnce(u)'
  <2>1. t = u \/ Untouched(u)
    BY <1>15, ResolveLeaves
  <2>2. Recent \in SUBSET Names
    BY <1>0, RecentAreIds, IdsAreNames
  <2>3. turn[t].pc = "resolve" /\ surface = "a2a"
    BY <1>15 DEF ResolveA2A, At
  <2>4. turn[t].row # 0 /\ turn[t].row \in DOMAIN tasks
    BY <1>0, <2>3 DEF OwnRow
  <2>5. CASE /\ Mints(t, TRUE) /\ clock' \in 0 .. MaxClock /\ Named(t) = Nothing
             /\ tasks' = [tasks EXCEPT ![turn[t].row] = clock']
    <3>1. tasks'[turn[t].row] = clock'
      BY <1>0, <2>4, <2>5, TasksTyped
    <3> QED
      BY <1>12, <2>1, <2>3, <2>4, <2>5, <3>1
  <2>6. CASE Mints(t, FALSE) /\ clock' \in 0 .. MaxClock /\ Named(t) = Nothing
    BY <1>12, <2>1, <2>3, <2>6
  <2>7. CASE Becomes(t, Asking(t, Recent)) /\ tasks' = tasks
    BY <1>0, <1>6, <2>2, <2>3, <2>7, SameLeaves DEF Over
  <2> QED
    BY <1>0, <1>13, <1>15, <2>3, <2>5, <2>6, <2>7, ResolveA2AMoves
<1>16. ASSUME NEW t \in Turns, Delegate(t) PROVE MintedOnce(u)'
  <2>1. turn'[u] = turn[u]
    BY <1>16 DEF Delegate
  <2>2. Untouched(u)
    BY <2>1, TasksStep DEF Mints, ResolveA2A, At
  <2> QED
    BY <1>3, <2>1, <2>2
<1>17. ASSUME NEW t \in Turns, Answer(t) PROVE MintedOnce(u)'
  <2>1. /\ {} \in SUBSET Names /\ {"ending", "done"} \subseteq Over /\ "run" \notin Over
        /\ tasks' = tasks
    BY <1>17 DEF Over, Answer
  <2> QED
    BY <1>0, <1>5, <1>6, <1>17, <2>1, AnswerMoves, SameLeaves
<1>18. ASSUME NEW t \in Turns, Settle(t) PROVE MintedOnce(u)'
  <2>1. Untouched(u)
    BY <1>0, <1>18, SameLeaves DEF Settle
  <2> QED
    BY <1>0, <1>4, <1>18, <2>1, SettleMoves DEF Over
<1>19. ASSUME NEW t \in Turns, Resume(t) PROVE MintedOnce(u)'
  <2>1. Untouched(u)
    BY <1>0, <1>19, SameLeaves DEF Resume
  <2> QED
    BY <1>0, <1>4, <1>19, <2>1, ResumeMoves DEF Over
<1>20. ASSUME NEW i \in open, Adopt(i) \/ Finish(i) PROVE MintedOnce(u)'
  <2>1. turn'[u] = turn[u]
    BY <1>20 DEF Adopt, Finish
  <2>2. Untouched(u)
    BY <2>1, TasksStep DEF Mints, ResolveA2A, At
  <2> QED
    BY <1>3, <2>1, <2>2
<1>21. CASE UNCHANGED vars
  BY <1>0, <1>3, <1>21, SameLeaves DEF vars
<1> QED
  BY <1>7, <1>8, <1>9, <1>10, <1>11, <1>14, <1>15, <1>16, <1>17, <1>18, <1>19, <1>20, <1>21
     DEF Next

-----------------------------------------------------------------------------
(* The invariant, and what follows from it.                                *)

LEMMA InvStep == ConversationAssumption /\ NothingAssumption /\ IInv /\ [Next]_vars => IInv'
<1> SUFFICES ASSUME ConversationAssumption, NothingAssumption, IInv, [Next]_vars PROVE IInv'
  OBVIOUS
<1>1. TypeOK'
  BY TypeStep
<1>2. \A u \in Turns : Transcribed(u)' /\ OwnRow(u)' /\ NotGuessed(u)' /\ MintedOnce(u)'
  BY <1>1, TranscribedStep, OwnRowStep, NotGuessedStep, MintedOnceStep
<1> QED
  BY <1>1, <1>2 DEF IInv

LEMMA Invariance == Spec => []IInv
<1>1. ConversationAssumption /\ NothingAssumption
  BY ConversationAssumption, NothingAssumption
<1>2. Init => IInv
  BY <1>1, InitInv
<1>3. IInv /\ [Next]_vars => IInv'
  BY <1>1, InvStep
<1> QED
  BY <1>2, <1>3, PTL DEF Spec

(* The state of a conversation, of its turns and of its tasks is of the    *)
(* form the code's tables and dictionaries give it.                        *)
THEOREM TypeCorrect == Spec => []TypeOK
<1>1. IInv => TypeOK
  BY DEF IInv
<1> QED
  BY <1>1, Invariance, PTL

\* A loaded part of the transcript.
LEMMA PartOfMessages ==
    ASSUME TypeOK, NEW n \in {Unloaded} \cup 0 .. Len(messages)
    PROVE  /\ SubSeq(messages, 1, n) \in Seq(Messages)
           /\ Len(SubSeq(messages, 1, n)) \in Nat
           /\ \A j \in 1 .. Len(SubSeq(messages, 1, n)) :
                 j \in 1 .. n /\ SubSeq(messages, 1, n)[j] = messages[j]
<1>1. messages \in Seq(Messages) /\ Len(messages) \in Nat
  BY MessagesTyped DEF TypeOK
<1>2. CASE n = Unloaded
  BY <1>1, <1>2, SubSeqEmpty DEF Unloaded
<1>3. CASE n \in 0 .. Len(messages)
  <2>1. \A i \in 1 .. n : messages[i] \in Messages
    BY <1>1, <1>3
  <2>2. /\ SubSeq(messages, 1, n) \in Seq(Messages)
        /\ Len(SubSeq(messages, 1, n)) = IF 1 <= n THEN n - 1 + 1 ELSE 0
        /\ \A i \in 1 .. n - 1 + 1 : SubSeq(messages, 1, n)[i] = messages[1 + i - 1]
    BY <1>3, <2>1, SubSeqProperties
  <2>3. n \in Nat
    BY <1>3
  <2> QED
    BY <2>2, <2>3
<1> QED
  BY <1>2, <1>3

(* However turns overlap, fail to load or to store, or are resumed, the    *)
(* LLM is given what the user just said, once and last, after all that was *)
(* stored when he said it, as far as the limit goes                        *)
(* (task_executor.py, agui_server.py: load, then store).                   *)
THEOREM PromptsAreRight == Spec => []PromptIsTheConversation
<1>1. ConversationAssumption
  BY ConversationAssumption
<1>2. ASSUME IInv PROVE PromptIsTheConversation
  <2> SUFFICES ASSUME NEW t \in Turns, At(t, "run")
               PROVE  /\ Last(Prompt(t)) = Message(t, turn[t].texts)
                      /\ Occurs(Last(Prompt(t)), Prompt(t)) = 1
                      /\ turn[t].history # Unloaded =>
                            turn[t].history >= Min({Limit, turn[t].arrived})
    BY DEF PromptIsTheConversation
  <2> DEFINE h == SubSeq(messages, 1, turn[t].history)
             c == SubSeq(messages, 1, turn[t].carried)
             n == NewTexts(t)
             m == Message(t, turn[t].texts)
             p == Prompt(t)
  <2>1. TypeOK /\ Transcribed(t) /\ turn[t].pc = "run"
    BY <1>2 DEF IInv, At
  <2>2. /\ turn[t].history # Unloaded =>
               turn[t].history >= Limit \/ turn[t].history >= turn[t].arrived
        /\ \A j \in 1 .. turn[t].history : messages[j] # m
        /\ \A j \in 1 .. turn[t].carried : messages[j] # m
        /\ turn[t].history \in {Unloaded} \cup 0 .. Len(messages)
        /\ turn[t].carried \in {Unloaded} \cup 0 .. Len(messages)
        /\ turn[t].texts >= 1
        /\ turn[t].arrived \in 0 .. Len(messages)
    BY <2>1 DEF Transcribed, LoadedPcs, Over
  <2>3. h \in Seq(Messages) /\ Len(h) \in Nat /\ \A j \in 1 .. Len(h) : h[j] # m
    BY <2>1, <2>2, PartOfMessages
  <2>4. c \in Seq(Messages) /\ Len(c) \in Nat /\ \A j \in 1 .. Len(c) : c[j] # m
    BY <2>1, <2>2, PartOfMessages
  <2>5. /\ n \in Seq(Messages) /\ Len(n) \in Nat \ {0}
        /\ \A k \in 1 .. Len(n) : n[k] = m <=> k = Len(n)
    BY <2>1, <2>2, NewTextsAreOwn
  <2>6. p = (h \o c) \o n
    BY DEF Prompt
  <2> HIDE DEF h, c, n, m, p
  <2>7. /\ h \o c \in Seq(Messages) /\ Len(h \o c) = Len(h) + Len(c)
        /\ \A j \in 1 .. Len(h) + Len(c) : (h \o c)[j] # m
    BY <2>3, <2>4, ConcatProperties
  <2> DEFINE l == Len(h) + Len(c)
  <2>8. /\ p \in Seq(Messages) /\ Len(p) = l + Len(n)
        /\ \A j \in 1 .. l + Len(n) :
              p[j] = IF j <= l THEN (h \o c)[j] ELSE n[j - l]
    BY <2>3, <2>4, <2>5, <2>6, <2>7, ConcatProperties
  <2>9. l \in Nat
    BY <2>3, <2>4
  <2> HIDE DEF l
  <2>10. \A j \in 1 .. Len(p) : p[j] = m <=> j = Len(p)
    <3> SUFFICES ASSUME NEW j \in 1 .. Len(p) PROVE p[j] = m <=> j = Len(p)
      OBVIOUS
    <3>1. CASE j <= l
      <4>1. Len(p) = l + Len(n) /\ Len(n) \in Nat \ {0} /\ j \in 1 .. l + Len(n)
        BY <2>5, <2>8
      <4>2. j \in 1 .. Len(h) + Len(c) /\ j # Len(p)
        BY <2>9, <3>1, <4>1 DEF l
      <4>3. p[j] = (h \o c)[j]
        BY <2>8, <3>1, <4>1
      <4> QED
        BY <2>7, <4>2, <4>3
    <3>2. CASE j > l
      <4>1. j - l \in 1 .. Len(n) /\ p[j] = n[j - l]
        BY <2>5, <2>8, <2>9, <3>2
      <4>2. j = Len(p) <=> j - l = Len(n)
        BY <2>5, <2>8, <2>9
      <4>3. n[j - l] = m <=> j - l = Len(n)
        BY <2>5, <4>1
      <4> QED
        BY <4>1, <4>2, <4>3
    <3> QED
      BY <2>5, <2>8, <2>9, <3>1, <3>2
  <2>11. DOMAIN p = 1 .. Len(p) /\ Len(p) \in 1 .. Len(p)
    BY <2>5, <2>8, <2>9
  <2>12. Last(p) = m
    BY <2>10, <2>11 DEF Last
  <2>13. Occurs(m, p) = 1
    <3>1. {i \in DOMAIN p : p[i] = m} = {Len(p)}
      BY <2>10, <2>11
    <3> QED
      BY <3>1, FS_Singleton DEF Occurs
  <2>14. turn[t].history # Unloaded => turn[t].history >= Min({Limit, turn[t].arrived})
    <3>1. Limit \in Nat /\ turn[t].arrived \in Nat /\ turn[t].history \in Int
      BY <1>1, <2>1, <2>2 DEF ConversationAssumption, Unloaded
    <3>2. /\ Min({Limit, turn[t].arrived}) \in {Limit, turn[t].arrived}
          /\ Min({Limit, turn[t].arrived}) <= Limit
          /\ Min({Limit, turn[t].arrived}) <= turn[t].arrived
      BY <3>1, MinOfTwo
    <3> HIDE DEF Min
    <3> QED
      BY <2>2, <3>1, <3>2
  <2> QED
    BY <2>12, <2>13, <2>14 DEF p, m
<1> QED
  BY <1>2, Invariance, PTL

(* A turn that works on a run its user did not name, and that was not      *)
(* minted for it, finds no other run in its conversation, as far as the    *)
(* window goes (resolve_test_run_id_outcome and the implicit reuse).       *)
THEOREM RunsAreNotGuessed == Spec => []NoRunIsGuessed
<1>1. ASSUME IInv PROVE NoRunIsGuessed
  <2>1. Window \in Nat /\ Len(tasks) \in Nat
    BY <1>1, ConversationAssumption DEF ConversationAssumption, IInv, TypeOK
  <2> QED
    BY <1>1, <2>1 DEF IInv, NotGuessed, Guessed, NoRunIsGuessed, At
<1> QED
  BY <1>1, Invariance, PTL

(* A task is given one new run, however often it asks and is resumed,      *)
(* unless the first one could not be written (the row holds the id).       *)
THEOREM MintsAreSingle == Spec => []OneMintPerTurn
<1>1. ASSUME IInv PROVE OneMintPerTurn
  <2> SUFFICES ASSUME NEW t \in Turns, ~turn[t].unwritten
               PROVE  Cardinality(turn[t].minted) <= 1
    BY DEF OneMintPerTurn
  <2>1. turn[t].minted = {} \/ \E c \in Int : turn[t].minted = {c}
    BY <1>1 DEF IInv, MintedOnce
  <2>2. Cardinality(turn[t].minted) \in {0, 1}
    BY <2>1, FS_EmptySet, FS_Singleton
  <2> QED
    BY <2>2
<1> QED
  BY <1>1, Invariance, PTL
=============================================================================
