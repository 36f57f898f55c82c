--------------------------- MODULE AgentRunProofs ---------------------------
(***************************************************************************)
(* Proofs about AgentRun, for every agent and its tools, every limit of    *)
(* the loop and every bound of the model.                                  *)
(*                                                                         *)
(* Between two calls of a round the conversation is not yet in order: the  *)
(* last reply has calls without results.  Ordered says what it lacks: the  *)
(* results of the calls still in the queue, and nothing else.  Read says   *)
(* which results the LLM has not read: those of the reply in hand, and     *)
(* those compacted because their reply had too many calls.  What pressure  *)
(* a conversation causes does not matter: nothing is said of the tokens.   *)
(* Handling says that the queue is the rest of the last reply's calls and  *)
(* that the repetitions counted are those of the last results.             *)
(***************************************************************************)
EXTENDS AgentRun, FiniteSetTheorems, SequenceTheorems, TLAPS

Messages == [role : {"user", "assistant", "tool"}, tokens : {1, ResultTokens} \cup PromptTokens,
             calls : Seq(Calls), compacted : BOOLEAN]

Statuses == {"queued", "running", "asking", "terminal"}

Typed == /\ agent \in Agents /\ pc \in Pcs
         /\ turn \in Nat /\ transcript \in Seq(Int)
         /\ messages \in Seq(Messages) /\ queue \in Seq(Calls)
         /\ children \in Seq(Statuses)

\* The queue holds calls only while a round's calls are handled, or where the
\* loop was left among them.
QueueIsOfRound == pc \in {"round", "llm"} => queue = <<>>

\* Each reply is followed by its calls' results and by no other, and only the
\* calls of q lack theirs.
Ordered(ms, q) ==
    \A i \in DOMAIN ms :
        LET n == Len(ms[i].calls)
        IN  /\ \A j \in DOMAIN ms : j \in i + 1 .. i + n => ms[j].role = "tool"
            /\ n > 0 => /\ i + n < Len(ms) \/ i + n = Len(ms) + Len(q)
                        /\ i + n + 1 \notin Results(ms)

\* Result i is of the reply whose calls are in hand.
OfReplyInHand(ms, q, i) ==
    \E j \in 1 .. i - 1 : /\ j + Len(ms[j].calls) = Len(ms) + Len(q)
                          /\ Len(ms[j].calls) > 0

\* At least PreserveRecent calls of its reply came after that of result i.
Crowded(ms, i) ==
    \E j \in 1 .. i - 1 : PreserveRecent \in 1 .. j + Len(ms[j].calls) - i

Read(ms, q, seen) ==
    /\ q # <<>> => OfReplyInHand(ms, q, Len(ms) + 1)
    /\ \A i \in Results(ms) \ seen :
          IF ms[i].compacted THEN Crowded(ms, i) ELSE OfReplyInHand(ms, q, i)

\* A specialist delegates nothing; what an orchestrator delegated is started
\* when its run ends.
Delegates == /\ agent = "specialist" => children = <<>>
             /\ DelegatedIsStarted

\* The reply that message i follows, and the call it is the result of.
Asked(ms, i) == Max({j \in 1 .. i : ms[j].role = "assistant"})
CallIn(ms, i) == ms[Asked(ms, i)].calls[i - Asked(ms, i)]

\* The queue is the rest of the last reply's calls.
Pending(ms, q) ==
    LET a == Asked(ms, Len(ms))
    IN  q # <<>> => /\ a \in 1 .. Len(ms)
                    /\ \A k \in 1 .. Len(q) : q[k] = ms[a].calls[Len(ms) - a + k]

\* Each result has a reply before it.
Placed(ms) == \A i \in Results(ms) : Asked(ms, i) \in 1 .. i

Between(ms, first, end) == {i \in Results(ms) : i \in first .. end}

Bounded(ms) ==
    \A first, end \in Results(ms) :
        first <= end /\ Cardinality(Between(ms, first, end)) >= Limit(CallIn(ms, first))
            => \E i \in Between(ms, first, end) : CallIn(ms, i) # CallIn(ms, first)

\* The calls handled since first were all call, at most n of them.
Streak(ms, call, n) ==
    \A first \in Results(ms) :
        (\A i \in Between(ms, first, Len(ms)) : CallIn(ms, i) = CallIn(ms, first))
            => CallIn(ms, first) = call /\ Cardinality(Between(ms, first, Len(ms))) <= n

Handling == /\ Pending(messages, queue) /\ Placed(messages)
            /\ Bounded(messages) /\ Streak(messages, last, repeats)
            /\ repeats \in Nat

IInv == /\ Typed
        /\ QueueIsOfRound
        /\ Ordered(messages, queue)
        /\ Read(messages, queue, shown)
        /\ Handling
        /\ Delegates

-----------------------------------------------------------------------------
(* The conversation grows by a reply or a result.                          *)

LEMMA SaysIsMessage ==
    ASSUME NEW who \in {"user", "assistant", "tool"},
           NEW tokens \in {1, ResultTokens} \cup PromptTokens
    PROVE  /\ Says(who, tokens) \in Messages
           /\ Says(who, tokens).role = who /\ Says(who, tokens).calls = <<>>
           /\ Says(who, tokens).compacted = FALSE
BY DEF Says, Messages

\* The messages that reach the loop: no calls, and no results.
Plain(ms) == /\ ms \in Seq(Messages)
             /\ \A i \in DOMAIN ms : ms[i].role # "tool" /\ ms[i].calls = <<>>

LEMMA PlainIsInOrder ==
    ASSUME NEW ms, Plain(ms)
    PROVE  Ordered(ms, <<>>) /\ Read(ms, <<>>, {})
BY DEF Plain, Ordered, Read, Results

LEMMA ReplyKeepsOrder ==
    ASSUME NEW ms \in Seq(Messages), NEW m \in Messages, Ordered(ms, <<>>),
           m.role = "assistant"
    PROVE  Ordered(Append(ms, m), m.calls)
<1> DEFINE new == Append(ms, m)
<1>1. Len(ms) \in Nat /\ m.calls \in Seq(Calls) /\ Len(m.calls) \in Nat
  BY DEF Messages
<1>2. /\ Len(new) = Len(ms) + 1 /\ new[Len(ms) + 1] = m
      /\ DOMAIN new = 1 .. Len(ms) + 1 /\ DOMAIN ms = 1 .. Len(ms)
      /\ \A i \in 1 .. Len(ms) : new[i] = ms[i]
  OBVIOUS
<1>3. Results(new) = Results(ms)
  BY <1>1, <1>2 DEF Results
<1> HIDE DEF new
<1>n. PICK n : \A i \in 1 .. Len(ms) : n[i] = Len(ms[i].calls) /\ n[i] \in Nat
  <2>1. \A i \in 1 .. Len(ms) : Len(ms[i].calls) \in Nat
    BY DEF Messages
  <2> WITNESS [i \in 1 .. Len(ms) |-> Len(ms[i].calls)]
  <2> QED
    BY <2>1
<1>4. ASSUME NEW i \in 1 .. Len(ms)
      PROVE  /\ \A j \in 1 .. Len(ms) : j \in i + 1 .. i + n[i] => ms[j].role = "tool"
             /\ n[i] > 0 => i + n[i] <= Len(ms) /\ i + n[i] + 1 \notin Results(ms)
  <2>1. n[i] = Len(ms[i].calls) /\ Len(<<>>) = 0
    BY <1>n
  <2>2. /\ \A j \in 1 .. Len(ms) : j \in i + 1 .. i + n[i] => ms[j].role = "tool"
        /\ n[i] > 0 => /\ i + n[i] < Len(ms) \/ i + n[i] = Len(ms) + Len(<<>>)
                       /\ i + n[i] + 1 \notin Results(ms)
    BY <1>2, <2>1, Zenon DEF Ordered
  <2> QED
    BY <1>1, <1>n, <2>1, <2>2
<1>5. ASSUME NEW i \in 1 .. Len(ms)
      PROVE  /\ \A j \in 1 .. Len(ms) + 1 : j \in i + 1 .. i + n[i] => new[j].role = "tool"
             /\ n[i] > 0 => /\ i + n[i] < Len(ms) + 1
                            /\ i + n[i] + 1 \notin Results(ms)
             /\ Len(new[i].calls) = n[i]
  <2>1. Len(new[i].calls) = n[i] /\ n[i] \in Nat
    BY <1>2, <1>n
  <2>2. ASSUME NEW j \in 1 .. Len(ms) + 1, j \in i + 1 .. i + n[i]
        PROVE  new[j].role = "tool"
    <3>1. j \in 1 .. Len(ms) /\ ms[j].role = "tool"
      BY <1>1, <1>4, <2>1, <2>2
    <3> QED
      BY <1>2, <3>1
  <2>3. n[i] > 0 => /\ i + n[i] < Len(ms) + 1 /\ i + n[i] + 1 \notin Results(ms)
    BY <1>1, <1>4, <2>1
  <2> QED
    BY <2>1, <2>2, <2>3
<1>c. PICK c \in Nat : c = Len(m.calls)
  BY <1>1
<1>l. PICK l \in Nat : l = Len(ms)
  BY <1>1
<1>6. \A j \in 1 .. l + 1 : j \notin l + 1 + 1 .. l + 1 + c
  OBVIOUS
<1>7. Results(ms) \subseteq 1 .. Len(ms)
  BY <1>2 DEF Results
<1>8. l + 1 + c + 1 \notin Results(new)
  BY <1>3, <1>7, <1>l
<1>9. ASSUME NEW i \in DOMAIN new
      PROVE  LET k == Len(new[i].calls)
             IN  /\ \A j \in DOMAIN new : j \in i + 1 .. i + k => new[j].role = "tool"
                 /\ k > 0 => /\ i + k < Len(new) \/ i + k = Len(new) + Len(m.calls)
                             /\ i + k + 1 \notin Results(new)
  <2>1. CASE i \in 1 .. Len(ms)
    <3> QED
      BY <1>2, <1>3, <1>5, <2>1
  <2>2. CASE i = Len(ms) + 1
    <3>1. new[i].calls = m.calls
      BY <1>2, <2>2
    <3>2. i + Len(m.calls) = Len(new) + Len(m.calls)
      BY <1>1, <1>2, <2>2
    <3> QED
      BY <1>2, <1>6, <1>8, <1>c, <1>l, <2>2, <3>1, <3>2
  <2>3. i \in 1 .. Len(ms) \/ i = Len(ms) + 1
    <3>1. i \in 1 .. l + 1
      BY <1>2, <1>l
    <3>2. i \in 1 .. l \/ i = l + 1
      BY <3>1
    <3> QED
      BY <1>l, <3>2
  <2> QED
    BY <2>1, <2>2, <2>3, Zenon
<1> QED
  BY <1>9 DEF Ordered, new

LEMMA ReplyKeepsRead ==
    ASSUME NEW ms \in Seq(Messages), NEW m \in Messages, NEW seen, Read(ms, <<>>, seen),
           m.role = "assistant"
    PROVE  Read(Append(ms, m), m.calls, seen \cup {i \in Results(ms) : ~ms[i].compacted})
<1> DEFINE new == Append(ms, m)
           now == seen \cup {i \in Results(ms) : ~ms[i].compacted}
<1>1. Len(ms) \in Nat /\ m.calls \in Seq(Calls) /\ Len(m.calls) \in Nat
  BY DEF Messages
<1>2. /\ Len(new) = Len(ms) + 1 /\ new[Len(ms) + 1] = m
      /\ DOMAIN new = 1 .. Len(ms) + 1 /\ DOMAIN ms = 1 .. Len(ms)
      /\ \A i \in 1 .. Len(ms) : new[i] = ms[i]
  OBVIOUS
<1>3. Results(new) = Results(ms) /\ Results(ms) \subseteq 1 .. Len(ms)
  BY <1>1, <1>2 DEF Results
<1> HIDE DEF new
<1>4. ASSUME m.calls # <<>> PROVE OfReplyInHand(new, m.calls, Len(new) + 1)
  <2>1. Len(m.calls) > 0
    BY <1>1, <1>4
  <2> DEFINE j == Len(ms) + 1
  <2>2. j \in 1 .. Len(new) + 1 - 1
    BY <1>1, <1>2
  <2>3. Len(new[j].calls) > 0 /\ j + Len(new[j].calls) = Len(new) + Len(m.calls)
    BY <1>1, <1>2, <2>1
  <2> HIDE DEF j
  <2> QED
    BY <2>2, <2>3 DEF OfReplyInHand
<1>5. ASSUME NEW i \in Results(new) \ now
      PROVE  new[i].compacted /\ Crowded(new, i)
  <2>1. i \in Results(ms) \ seen /\ ms[i].compacted /\ i \in 1 .. Len(ms)
    BY <1>3, <1>5
  <2>2. Crowded(ms, i)
    BY <2>1 DEF Read
  <2>3. PICK j \in 1 .. i - 1 : PreserveRecent \in 1 .. j + Len(ms[j].calls) - i
    BY <2>2 DEF Crowded
  <2>4. new[j] = ms[j] /\ new[i] = ms[i]
    BY <1>1, <1>2, <2>1
  <2> QED
    BY <2>1, <2>3, <2>4 DEF Crowded
<1> QED
  BY <1>4, <1>5 DEF Read, new, now

LEMMA ResultKeepsOrder ==
    ASSUME NEW ms \in Seq(Messages), NEW m \in Messages, NEW q \in Seq(Calls), q # <<>>,
           Ordered(ms, q), m.role = "tool", m.calls = <<>>
    PROVE  Ordered(Append(ms, m), Tail(q))
<1> DEFINE new == Append(ms, m)
<1>1. Len(ms) \in Nat /\ Len(q) \in Nat \ {0} /\ Len(Tail(q)) = Len(q) - 1
  BY DEF Messages
<1>2. /\ Len(new) = Len(ms) + 1 /\ new[Len(ms) + 1] = m
      /\ DOMAIN new = 1 .. Len(ms) + 1 /\ DOMAIN ms = 1 .. Len(ms)
      /\ \A i \in 1 .. Len(ms) : new[i] = ms[i]
  OBVIOUS
<1>3. Results(new) = Results(ms) \cup {Len(ms) + 1}
  BY <1>1, <1>2 DEF Results
<1> HIDE DEF new
<1>n. PICK n : \A i \in 1 .. Len(ms) : n[i] = Len(ms[i].calls) /\ n[i] \in Nat
  <2>1. \A i \in 1 .. Len(ms) : Len(ms[i].calls) \in Nat
    BY SMTT(20) DEF Messages
  <2> WITNESS [i \in 1 .. Len(ms) |-> Len(ms[i].calls)]
  <2> QED
    BY <2>1
<1>4. ASSUME NEW i \in 1 .. Len(ms)
      PROVE  /\ \A j \in 1 .. Len(ms) : j \in i + 1 .. i + n[i] => ms[j].role = "tool"
             /\ n[i] > 0 => /\ i + n[i] < Len(ms) \/ i + n[i] = Len(ms) + Len(q)
                            /\ i + n[i] + 1 \notin Results(ms)
  <2>1. n[i] = Len(ms[i].calls)
    BY <1>n
  <2> QED
    BY <1>2, <2>1, Zenon DEF Ordered
<1>5. ASSUME NEW i \in 1 .. Len(ms)
      PROVE  /\ \A j \in DOMAIN new : j \in i + 1 .. i + n[i] => new[j].role = "tool"
             /\ n[i] > 0 => /\ i + n[i] < Len(new) \/ i + n[i] = Len(new) + Len(Tail(q))
                            /\ i + n[i] + 1 \notin Results(new)
             /\ Len(new[i].calls) = n[i]
  <2>1. Len(new[i].calls) = n[i] /\ n[i] \in Nat
    BY <1>2, <1>n
  <2>2. ASSUME NEW j \in DOMAIN new, j \in i + 1 .. i + n[i]
        PROVE  new[j].role = "tool"
    <3>1. CASE j \in 1 .. Len(ms)
      BY <1>2, <1>4, <2>2, <3>1
    <3>2. CASE j = Len(ms) + 1
      BY <1>2, <3>2
    <3> QED
      BY <1>1, <1>2, <3>1, <3>2
  <2>3. n[i] > 0 => i + n[i] < Len(new) \/ i + n[i] = Len(new) + Len(Tail(q))
    BY <1>1, <1>2, <1>4, <2>1
  <2>4. n[i] > 0 => i + n[i] + 1 # Len(ms) + 1
    BY <1>1, <1>4, <2>1
  <2>5. n[i] > 0 => i + n[i] + 1 \notin Results(new)
    BY <1>3, <1>4, <2>4
  <2> QED
    BY <2>1, <2>2, <2>3, <2>5
<1>6. ASSUME NEW i \in DOMAIN new
      PROVE  LET k == Len(new[i].calls)
             IN  /\ \A j \in DOMAIN new : j \in i + 1 .. i + k => new[j].role = "tool"
                 /\ k > 0 => /\ i + k < Len(new) \/ i + k = Len(new) + Len(Tail(q))
                             /\ i + k + 1 \notin Results(new)
  <2>1. CASE i \in 1 .. Len(ms)
    <3> QED
      BY <1>5, <2>1
  <2>2. CASE i = Len(ms) + 1
    <3>1. Len(new[i].calls) = 0
      BY <1>2, <2>2
    <3>2. \A j \in DOMAIN new : j \notin i + 1 .. i + 0
      BY <1>1, <1>2, <2>2
    <3> QED
      BY <3>1, <3>2
  <2> QED
    BY <1>1, <1>2, <2>1, <2>2
<1> QED
  BY <1>6 DEF Ordered, new

LEMMA ResultKeepsRead ==
    ASSUME NEW ms \in Seq(Messages), NEW m \in Messages, NEW q \in Seq(Calls), q # <<>>,
           NEW seen, Read(ms, q, seen), m.role = "tool", m.compacted = FALSE
    PROVE  Read(Append(ms, m), Tail(q), seen)
<1> DEFINE new == Append(ms, m)
<1>1. Len(ms) \in Nat /\ Len(q) \in Nat \ {0} /\ Len(Tail(q)) = Len(q) - 1
  BY DEF Messages
<1>2. /\ Len(new) = Len(ms) + 1 /\ new[Len(ms) + 1] = m
      /\ DOMAIN new = 1 .. Len(ms) + 1 /\ DOMAIN ms = 1 .. Len(ms)
      /\ \A i \in 1 .. Len(ms) : new[i] = ms[i]
  OBVIOUS
<1>3. Results(new) = Results(ms) \cup {Len(ms) + 1} /\ Results(ms) \subseteq 1 .. Len(ms)
  BY <1>1, <1>2 DEF Results
<1> HIDE DEF new
<1>4. ASSUME NEW i \in 1 .. Len(ms) + 1, OfReplyInHand(ms, q, i)
      PROVE  OfReplyInHand(new, Tail(q), i)
  <2>1. PICK j \in 1 .. i - 1 : /\ j + Len(ms[j].calls) = Len(ms) + Len(q)
                                /\ Len(ms[j].calls) > 0
    BY <1>4 DEF OfReplyInHand
  <2>2. new[j] = ms[j]
    BY <1>1, <1>2
  <2>3. Len(ms) + Len(q) = Len(new) + Len(Tail(q))
    BY <1>1, <1>2
  <2>4. j + Len(new[j].calls) = Len(new) + Len(Tail(q)) /\ Len(new[j].calls) > 0
    BY <2>1, <2>2, <2>3
  <2> QED
    BY <2>4 DEF OfReplyInHand
<1>5. ASSUME NEW i \in 1 .. Len(ms), Crowded(ms, i) PROVE Crowded(new, i)
  <2>1. PICK j \in 1 .. i - 1 : PreserveRecent \in 1 .. j + Len(ms[j].calls) - i
    BY <1>5 DEF Crowded
  <2>2. new[j] = ms[j]
    BY <1>1, <1>2
  <2> QED
    BY <2>1, <2>2 DEF Crowded
<1>6. OfReplyInHand(ms, q, Len(ms) + 1)
  BY DEF Read
<1>7. OfReplyInHand(new, Tail(q), Len(ms) + 1) /\ OfReplyInHand(new, Tail(q), Len(new) + 1)
  <2>1. OfReplyInHand(new, Tail(q), Len(ms) + 1)
    BY <1>1, <1>4, <1>6
  <2>2. PICK j \in 1 .. Len(ms) + 1 - 1 :
            /\ j + Len(new[j].calls) = Len(new) + Len(Tail(q))
            /\ Len(new[j].calls) > 0
    BY <2>1 DEF OfReplyInHand
  <2>3. j \in 1 .. Len(new) + 1 - 1
    BY <1>1, <1>2
  <2> QED
    BY <2>1, <2>2, <2>3 DEF OfReplyInHand
<1>8. ASSUME NEW i \in Results(new) \ seen
      PROVE  IF new[i].compacted THEN Crowded(new, i) ELSE OfReplyInHand(new, Tail(q), i)
  <2>1. CASE i = Len(ms) + 1
    BY <1>2, <1>7, <2>1
  <2>2. CASE i # Len(ms) + 1
    <3>1. i \in Results(ms) \ seen /\ i \in 1 .. Len(ms) /\ i \in 1 .. Len(ms) + 1
      BY <1>1, <1>3, <2>2
    <3>2. IF ms[i].compacted THEN Crowded(ms, i) ELSE OfReplyInHand(ms, q, i)
      BY <3>1 DEF Read
    <3> QED
      BY <1>2, <1>4, <1>5, <3>1, <3>2
  <2> QED
    BY <2>1, <2>2
<1> QED
  BY <1>7, <1>8 DEF Read, new

-----------------------------------------------------------------------------
(* Compaction.                                                             *)

LEMMA ReferenceFields ==
    ASSUME NEW m \in Messages, NEW r, r = [m EXCEPT !.tokens = 1, !.compacted = TRUE]
    PROVE  /\ r \in Messages
           /\ r.role = m.role /\ r.calls = m.calls /\ r.compacted = TRUE
<1>1. r = [role |-> m.role, tokens |-> 1, calls |-> m.calls, compacted |-> TRUE]
  BY DEF Messages
<1>2. m.role \in {"user", "assistant", "tool"} /\ m.calls \in Seq(Calls)
  BY DEF Messages
<1> HIDE DEF Messages
<1>3. r \in Messages
  BY <1>1, <1>2 DEF Messages
<1> QED
  BY <1>1, <1>3

LEMMA CompactKeepsShape ==
    ASSUME NEW ms \in Seq(Messages)
    PROVE  /\ Compact(ms) \in Seq(Messages) /\ Len(Compact(ms)) = Len(ms)
           /\ \A i \in DOMAIN ms :
                 /\ Compact(ms)[i].role = ms[i].role /\ Compact(ms)[i].calls = ms[i].calls
                 /\ Compact(ms)[i].compacted = (ms[i].compacted \/ i \in Compactable(ms))
           /\ Results(Compact(ms)) = Results(ms)
<1> DEFINE r(i) == [ms[i] EXCEPT !.tokens = 1, !.compacted = TRUE]
<1>1. ASSUME NEW i \in 1 .. Len(ms)
      PROVE  /\ r(i) \in Messages /\ r(i).role = ms[i].role
             /\ r(i).calls = ms[i].calls /\ r(i).compacted = TRUE
             /\ ms[i] \in Messages
  <2>1. ms[i] \in Messages
    OBVIOUS
  <2> QED
    BY <2>1, ReferenceFields, Zenon
<1>d. DOMAIN ms = 1 .. Len(ms)
  OBVIOUS
<1>2. Compact(ms) = [i \in 1 .. Len(ms) |-> IF i \in Compactable(ms)
                         THEN r(i) ELSE ms[i]]
  BY <1>d, Zenon DEF Compact
<1> HIDE DEF r
<1>3. Compact(ms) \in [1 .. Len(ms) -> Messages]
  BY <1>1, <1>2
<1>4. Compact(ms) \in Seq(Messages) /\ Len(Compact(ms)) = Len(ms) /\ DOMAIN Compact(ms) = DOMAIN ms
  BY <1>3
<1>5. ASSUME NEW i \in DOMAIN ms
      PROVE  /\ Compact(ms)[i].role = ms[i].role /\ Compact(ms)[i].calls = ms[i].calls
             /\ Compact(ms)[i].compacted = (ms[i].compacted \/ i \in Compactable(ms))
  <2>1. ms[i] \in Messages /\ i \in 1 .. Len(ms)
    BY <1>1, <1>d
  <2>2. ms[i].compacted \in BOOLEAN
    BY <2>1 DEF Messages
  <2>3. CASE i \in Compactable(ms)
    <3>1. Compact(ms)[i] = r(i)
      BY <1>2, <2>1, <2>3
    <3> QED
      BY <1>1, <2>1, <2>3, <3>1
  <2>4. CASE i \notin Compactable(ms)
    <3>1. Compact(ms)[i] = ms[i]
      BY <1>2, <2>1, <2>4
    <3>2. ms[i].compacted = (ms[i].compacted \/ i \in Compactable(ms))
      BY <2>2, <2>4
    <3> QED
      BY <3>1, <3>2, Zenon
  <2> QED
    BY <2>3, <2>4
<1> QED
  BY <1>4, <1>5 DEF Results

LEMMA CompactKeepsOrder ==
    ASSUME NEW ms \in Seq(Messages), NEW q, Ordered(ms, q)
    PROVE  Ordered(Compact(ms), q)
<1> DEFINE new == Compact(ms)
<1>1. /\ DOMAIN new = DOMAIN ms /\ Len(new) = Len(ms) /\ Results(new) = Results(ms)
      /\ \A i \in DOMAIN ms : new[i].role = ms[i].role /\ new[i].calls = ms[i].calls
  BY CompactKeepsShape
<1> QED
  BY <1>1, Zenon DEF Ordered

\* What is compacted has PreserveRecent results after it.
LEMMA CompactableAreOld ==
    ASSUME AgentRunAssumption, NEW ms \in Seq(Messages), NEW i \in Compactable(ms)
    PROVE  PreserveRecent \in 1 .. Len(ms) - i
<1> DEFINE after == {j \in Results(ms) : j >= i}
<1>1. i \in Results(ms) /\ PreserveRecent # 0 /\ ~(Cardinality(after) <= PreserveRecent)
  BY DEF Compactable, Protected
<1>2. Results(ms) \subseteq 1 .. Len(ms) /\ Len(ms) \in Nat /\ i \in 1 .. Len(ms)
  BY <1>1 DEF Results
<1>3. after \subseteq i .. Len(ms)
  BY <1>2
<1>4. IsFiniteSet(i .. Len(ms)) /\ Cardinality(i .. Len(ms)) = Len(ms) - i + 1
  BY <1>2, FS_Interval
<1>5. Cardinality(after) <= Len(ms) - i + 1 /\ Cardinality(after) \in Nat
  BY <1>3, <1>4, FS_Subset, FS_CardinalityType, ZenonT(40)
<1> HIDE DEF after
<1> QED
  BY <1>1, <1>2, <1>5 DEF AgentRunAssumption

LEMMA CompactKeepsRead ==
    ASSUME AgentRunAssumption, NEW ms \in Seq(Messages), NEW seen, Read(ms, <<>>, seen)
    PROVE  Read(Compact(ms), <<>>, seen)
<1> DEFINE new == Compact(ms)
<1>1. /\ DOMAIN new = 1 .. Len(ms) /\ Len(new) = Len(ms) /\ Results(new) = Results(ms)
      /\ \A i \in 1 .. Len(ms) :
            /\ new[i].calls = ms[i].calls
            /\ new[i].compacted = (ms[i].compacted \/ i \in Compactable(ms))
      /\ Len(ms) \in Nat /\ Results(ms) \subseteq 1 .. Len(ms)
  <2>1. new \in Seq(Messages) /\ DOMAIN ms = 1 .. Len(ms)
    BY CompactKeepsShape
  <2> QED
    BY <2>1, CompactKeepsShape DEF Results
<1> HIDE DEF new
<1>2. ASSUME NEW i \in 1 .. Len(ms), Crowded(ms, i) PROVE Crowded(new, i)
  BY <1>1, <1>2 DEF Crowded
<1>3. ASSUME NEW i \in 1 .. Len(ms), OfReplyInHand(ms, <<>>, i)
      PROVE  OfReplyInHand(new, <<>>, i)
  <2>1. PICK j \in 1 .. i - 1 : /\ j + Len(ms[j].calls) = Len(ms) + Len(<<>>)
                                /\ Len(ms[j].calls) > 0
    BY <1>3 DEF OfReplyInHand
  <2>2. new[j].calls = ms[j].calls
    BY <1>1
  <2>3. j + Len(new[j].calls) = Len(new) + Len(<<>>) /\ Len(new[j].calls) > 0
    BY <1>1, <2>1, <2>2
  <2> QED
    BY <2>3 DEF OfReplyInHand
<1>4. ASSUME NEW i \in 1 .. Len(ms), i \in Compactable(ms), OfReplyInHand(ms, <<>>, i)
      PROVE  Crowded(ms, i)
  <2>1. PICK j \in 1 .. i - 1 : j + Len(ms[j].calls) = Len(ms) + Len(<<>>)
    BY <1>4 DEF OfReplyInHand
  <2>2. j + Len(ms[j].calls) = Len(ms)
    <3>1. Len(ms) + Len(<<>>) = Len(ms)
      BY <1>1
    <3> QED
      BY <2>1, <3>1, Zenon
  <2>3. PreserveRecent \in 1 .. j + Len(ms[j].calls) - i
    BY <1>4, <2>2, CompactableAreOld
  <2> QED
    BY <2>3 DEF Crowded
<1>5. ASSUME NEW i \in Results(new) \ seen
      PROVE  IF new[i].compacted THEN Crowded(new, i) ELSE OfReplyInHand(new, <<>>, i)
  <2>1. i \in Results(ms) \ seen /\ i \in 1 .. Len(ms)
    BY <1>1, <1>5
  <2>2. IF ms[i].compacted THEN Crowded(ms, i) ELSE OfReplyInHand(ms, <<>>, i)
    BY <2>1 DEF Read
  <2> QED
    BY <1>1, <1>2, <1>3, <1>4, <2>1, <2>2
<1> QED
  BY <1>5 DEF Read, new

-----------------------------------------------------------------------------
(* What each action does.                                                  *)

LEMMA PromptIsPlain ==
    ASSUME Typed, NEW size \in PromptTokens
    PROVE  Plain(Prompt(size))
<1> DEFINE n == Len(transcript) + Len(NewTurns)
           said == transcript \o NewTurns
<1>1. NewTurns \in Seq(Int) /\ n \in Nat
  BY DEF Typed, NewTurns, Original
<1> DEFINE m(i) == IF said[i] = Reply THEN Says("assistant", 1)
                   ELSE Says("user", IF said[i] = Original THEN size ELSE 1)
<1>2. ASSUME NEW i \in 1 .. n
      PROVE  m(i) \in Messages /\ m(i).role # "tool" /\ m(i).calls = <<>>
  BY SaysIsMessage
<1>3. Prompt(size) = [i \in 1 .. n |-> m(i)]
  BY DEF Prompt
<1> HIDE DEF m, n
<1> QED
  BY <1>1, <1>2, <1>3 DEF Plain

LEMMA FirstMessageIsPlain ==
    ASSUME NEW size \in PromptTokens
    PROVE  Plain(<<Says("user", size)>>)
<1>1. PICK m : m = Says("user", size)
  OBVIOUS
<1>2. m \in Messages /\ m.role # "tool" /\ m.calls = <<>>
  BY <1>1, SaysIsMessage
<1> QED
  BY <1>1, <1>2 DEF Plain

\* A fresh loop has nothing to put in order.
LEMMA FreshIsInOrder ==
    ASSUME NEW ms, Plain(ms), Fresh(ms)
    PROVE  /\ messages' \in Seq(Messages) /\ queue' = <<>>
           /\ Ordered(messages, queue)' /\ Read(messages, queue, shown)'
<1>1. messages' = ms /\ queue' = <<>> /\ shown' = {}
  BY DEF Fresh
<1>2. Ordered(ms, <<>>) /\ Read(ms, <<>>, {}) /\ ms \in Seq(Messages)
  BY PlainIsInOrder DEF Plain
<1> QED
  BY <1>1, <1>2

\* The conversation as the loop keeps it.
Conversing == /\ messages \in Seq(Messages) /\ queue \in Seq(Calls)
              /\ QueueIsOfRound
              /\ Ordered(messages, queue)
              /\ Read(messages, queue, shown)

\* Steps that leave it alone.
LEMMA KeepsConversation ==
    ASSUME Conversing, UNCHANGED <<messages, queue, shown>>,
           pc' \in {"round", "llm"} => pc' = pc \/ queue = <<>>
    PROVE  Conversing'
BY DEF Conversing, QueueIsOfRound, Ordered, Read, Results, Crowded, OfReplyInHand

LEMMA PrepareConverses ==
    ASSUME Typed, Prepare PROVE Conversing'
<1>1. PICK size \in PromptTokens : Fresh(Prompt(size))
  BY DEF Prepare
<1>2. Plain(Prompt(size))
  BY PromptIsPlain
<1>3. /\ messages' \in Seq(Messages) /\ queue' = <<>>
      /\ Ordered(messages, queue)' /\ Read(messages, queue, shown)'
  BY <1>1, <1>2, FreshIsInOrder
<1>4. <<>> \in Seq(Calls)
  OBVIOUS
<1> QED
  BY <1>3, <1>4 DEF Conversing, QueueIsOfRound

LEMMA BuildConverses ==
    ASSUME Build PROVE Conversing'
<1>1. PICK size \in PromptTokens : Fresh(<<Says("user", size)>>)
  BY DEF Build
<1>2. Plain(<<Says("user", size)>>)
  BY FirstMessageIsPlain
<1>3. /\ messages' \in Seq(Messages) /\ queue' = <<>>
      /\ Ordered(messages, queue)' /\ Read(messages, queue, shown)'
  BY <1>1, <1>2, FreshIsInOrder
<1>4. <<>> \in Seq(Calls)
  OBVIOUS
<1> QED
  BY <1>3, <1>4 DEF Conversing, QueueIsOfRound

LEMMA WeighConverses ==
    ASSUME AgentRunAssumption, Conversing, NEW pressed \in BOOLEAN, Weigh(pressed)
    PROVE  Conversing'
<1>1. queue = <<>> /\ queue' = <<>> /\ shown' = shown
  BY DEF Weigh, Conversing, QueueIsOfRound
<1>2. messages' = messages \/ messages' = Compact(messages)
  BY DEF Weigh
<1>3. Compact(messages) \in Seq(Messages) /\ Ordered(Compact(messages), <<>>)
      /\ Read(Compact(messages), <<>>, shown)
  BY <1>1, CompactKeepsShape, CompactKeepsOrder, CompactKeepsRead DEF Conversing
<1>4. messages' \in Seq(Messages) /\ Ordered(messages', <<>>) /\ Read(messages', <<>>, shown)
  BY <1>1, <1>2, <1>3 DEF Conversing
<1> QED
  BY <1>1, <1>4 DEF Conversing, QueueIsOfRound

LEMMA CallsToolsConverses ==
    ASSUME Typed, Conversing, NEW n \in 1 .. MaxCalls, NEW calls \in [1 .. n -> Tools[agent]],
           CallsTools(calls)
    PROVE  Conversing'
<1>1. calls \in Seq(Calls)
  <2>1. n \in Nat /\ Tools[agent] \subseteq Calls
    BY DEF Typed, Agents, Calls
  <2> QED
    BY <2>1
<1>2. PICK m : m = [Says("assistant", 1) EXCEPT !.calls = calls]
  OBVIOUS
<1>3. m \in Messages /\ m.role = "assistant" /\ m.calls = calls
  <2>1. m = [role |-> "assistant", tokens |-> 1, calls |-> calls, compacted |-> FALSE]
    BY <1>2 DEF Says
  <2> QED
    BY <1>1, <2>1 DEF Messages
<1>4. messages' = Append(messages, m) /\ queue = <<>> /\ queue' = m.calls
      /\ shown' = shown \cup {i \in Results(messages) : ~messages[i].compacted}
      /\ pc' = "call"
  BY <1>2, <1>3 DEF CallsTools, Conversing, QueueIsOfRound, Show
<1>5. messages' \in Seq(Messages)
  BY <1>3, <1>4 DEF Conversing
<1>6. Ordered(messages', queue') /\ Read(messages', queue', shown')
  BY <1>3, <1>4, ReplyKeepsOrder, ReplyKeepsRead DEF Conversing
<1> QED
  BY <1>1, <1>3, <1>4, <1>5, <1>6 DEF Conversing, QueueIsOfRound

LEMMA RespondConverses ==
    ASSUME Conversing, NEW call \in Calls, NEW ok \in BOOLEAN, Respond(call, ok)
    PROVE  Conversing'
<1>1. PICK m : m = Says("tool", ResultTokens)
  OBVIOUS
<1>2. m \in Messages /\ m.role = "tool" /\ m.calls = <<>> /\ m.compacted = FALSE
  BY <1>1, SaysIsMessage
<1>3. /\ messages' = Append(messages, m) /\ queue' = Tail(queue) /\ queue # <<>>
      /\ shown' = shown /\ pc' = "call"
  BY <1>1 DEF Respond
<1>4. messages' \in Seq(Messages) /\ queue' \in Seq(Calls)
  BY <1>2, <1>3 DEF Conversing
<1>5. Ordered(messages', queue') /\ Read(messages', queue', shown')
  BY <1>2, <1>3, ResultKeepsOrder, ResultKeepsRead DEF Conversing
<1> QED
  BY <1>3, <1>4, <1>5 DEF Conversing, QueueIsOfRound

LEMMA AnswersConverses ==
    ASSUME Conversing, Answers PROVE Conversing'
<1>1. messages' = messages /\ queue' = queue /\ shown \subseteq shown' /\ pc' = "left"
  BY DEF Answers, loop, Show, Leave
<1> QED
  BY <1>1, Zenon DEF Conversing, QueueIsOfRound, Ordered, Read, Results, Crowded, OfReplyInHand

LEMMA StepConverses ==
    ASSUME AgentRunAssumption, Typed, Conversing, [Next]_vars
    PROVE  Conversing'
<1>1. CASE Prepare BY <1>1, PrepareConverses
<1>2. CASE Build BY <1>2, BuildConverses
<1>3. ASSUME NEW pressed \in BOOLEAN, Weigh(pressed) PROVE Conversing'
  BY <1>3, WeighConverses
<1>4. CASE OutOfRounds BY <1>4, KeepsConversation DEF OutOfRounds, loop, Leave
<1>5. CASE Answers BY <1>5, AnswersConverses
<1>6. CASE LLMFails BY <1>6, KeepsConversation DEF LLMFails, loop, Raise
<1>7. ASSUME NEW n \in 1 .. MaxCalls, NEW calls \in [1 .. n -> Tools[agent]],
             CallsTools(calls)
      PROVE  Conversing'
  BY <1>7, CallsToolsConverses
<1>8. CASE BadArguments BY <1>8, KeepsConversation DEF BadArguments, loop, Raise
<1>9. CASE RepeatLimit BY <1>9, KeepsConversation DEF RepeatLimit, loop, Leave
<1>10. CASE Reject BY <1>10, RespondConverses DEF Reject
<1>11. ASSUME NEW call \in Calls, NEW ok \in BOOLEAN, ExecuteTool(call, ok)
       PROVE  Conversing'
  BY <1>11, RespondConverses DEF ExecuteTool
<1>12. CASE EndRound BY <1>12, KeepsConversation DEF EndRound
<1>13. CASE FinalDrain BY <1>13, KeepsConversation DEF FinalDrain, loop, Finish
<1>14. CASE WaitForChildren BY <1>14, KeepsConversation DEF WaitForChildren, loop, Finish
<1>15. CASE Close BY <1>15, KeepsConversation DEF Close, loop
<1>16. CASE Fail BY <1>16, KeepsConversation DEF Fail, loop
<1>17. CASE UserAnswers BY <1>17, KeepsConversation DEF UserAnswers, loop
<1>18. ASSUME NEW c \in DOMAIN children, ChildEnds(c) \/ ChildAsks(c) \/ ChildIsAnswered(c)
       PROVE  Conversing'
  BY <1>18, KeepsConversation DEF ChildEnds, ChildAsks, ChildIsAnswered, Child, loop
<1>19. CASE UNCHANGED vars BY <1>19, KeepsConversation DEF vars, loop
<1> QED
  BY <1>1, <1>2, <1>3, <1>4, <1>5, <1>6, <1>7, <1>8, <1>9, <1>10, <1>11, <1>12, <1>13, <1>14,
     <1>15, <1>16, <1>17, <1>18, <1>19, Zenon DEF Next, Step

-----------------------------------------------------------------------------
(* The calls that are handled.                                             *)

\* What message i is the result of is settled by the messages up to it.
LEMMA PrefixSettles ==
    ASSUME NEW ms, NEW new, NEW i \in Nat,
           \A j \in 1 .. i : new[j].role = ms[j].role /\ new[j].calls = ms[j].calls,
           Asked(ms, i) \in 1 .. i
    PROVE  Asked(new, i) = Asked(ms, i) /\ CallIn(new, i) = CallIn(ms, i)
<1>1. {j \in 1 .. i : new[j].role = "assistant"} = {j \in 1 .. i : ms[j].role = "assistant"}
  OBVIOUS
<1>2. Asked(new, i) = Asked(ms, i)
  BY <1>1, Zenon DEF Asked
<1> QED
  BY <1>2, Zenon DEF CallIn

LEMMA BetweenIsFinite ==
    ASSUME NEW ms \in Seq(Messages), NEW first \in Int, NEW end \in Int
    PROVE  IsFiniteSet(Between(ms, first, end)) /\ Cardinality(Between(ms, first, end)) \in Nat
<1>1. Between(ms, first, end) \subseteq first .. end
  BY DEF Between
<1> QED
  BY <1>1, FS_Interval, FS_Subset, FS_CardinalityType

LEMMA PlainHandlesNone ==
    ASSUME NEW ms, Plain(ms), NEW call, NEW n
    PROVE  Pending(ms, <<>>) /\ Placed(ms) /\ Bounded(ms) /\ Streak(ms, call, n)
<1>1. Results(ms) = {}
  BY DEF Plain, Results
<1> QED
  BY <1>1 DEF Pending, Placed, Bounded, Streak

\* Calls are told by the roles and calls of the messages.
LEMMA SameCalls ==
    ASSUME NEW ms \in Seq(Messages), NEW new \in Seq(Messages), NEW call, NEW n,
           Len(new) >= Len(ms), Results(new) = Results(ms),
           \A j \in 1 .. Len(ms) : new[j].role = ms[j].role /\ new[j].calls = ms[j].calls,
           Placed(ms), Bounded(ms), Streak(ms, call, n)
    PROVE  Placed(new) /\ Bounded(new) /\ Streak(new, call, n)
<1>1. Results(ms) \subseteq 1 .. Len(ms) /\ Len(ms) \in Nat /\ Len(new) \in Nat
  BY DEF Results
<1>2. ASSUME NEW i \in Results(ms)
      PROVE  Asked(new, i) = Asked(ms, i) /\ CallIn(new, i) = CallIn(ms, i)
  <2>1. \A j \in 1 .. i : new[j].role = ms[j].role /\ new[j].calls = ms[j].calls
    BY <1>1
  <2> QED
    BY <1>1, <2>1, PrefixSettles DEF Placed
<1>3. \A first, end : Between(new, first, end) = Between(ms, first, end)
  BY DEF Between
<1>4. \A first \in Results(ms) : Between(new, first, Len(new)) = Between(ms, first, Len(ms))
  BY <1>1 DEF Between
<1>5. Placed(new)
  BY <1>2 DEF Placed
<1>6. \A first, end : Between(ms, first, end) \subseteq Results(ms)
  BY DEF Between
<1>7. Bounded(new)
  <2> SUFFICES ASSUME NEW first \in Results(ms), NEW end \in Results(ms), first <= end,
                      Cardinality(Between(new, first, end)) >= Limit(CallIn(new, first)),
                      \A i \in Between(new, first, end) : CallIn(new, i) = CallIn(new, first)
               PROVE  FALSE
    BY Zenon DEF Bounded
  <2>1. Between(new, first, end) = Between(ms, first, end) /\ CallIn(new, first) = CallIn(ms, first)
    BY <1>2, <1>3
  <2>2. \A i \in Between(ms, first, end) : CallIn(ms, i) = CallIn(ms, first)
    BY <1>2, <1>6, <2>1
  <2> QED
    BY <2>1, <2>2, Zenon DEF Bounded
<1>8. ASSUME NEW first \in Results(new),
             \A i \in Between(new, first, Len(new)) : CallIn(new, i) = CallIn(new, first)
      PROVE  CallIn(new, first) = call /\ Cardinality(Between(new, first, Len(new))) <= n
  <2>1. Between(new, first, Len(new)) = Between(ms, first, Len(ms))
    BY <1>4
  <2>2. \A i \in Between(ms, first, Len(ms)) : CallIn(ms, i) = CallIn(ms, first)
    BY <1>2, <1>6, <1>8, <2>1
  <2> QED
    BY <1>2, <2>1, <2>2 DEF Streak
<1>9. Streak(new, call, n)
  BY <1>8, Zenon DEF Streak
<1> QED
  BY <1>5, <1>7, <1>9

LEMMA ReplyIsPending ==
    ASSUME NEW ms \in Seq(Messages), NEW m \in Messages, m.role = "assistant"
    PROVE  Pending(Append(ms, m), m.calls)
<1> DEFINE new == Append(ms, m)
           as == {j \in 1 .. Len(ms) + 1 : new[j].role = "assistant"}
<1>1. /\ Len(ms) \in Nat /\ Len(new) = Len(ms) + 1 /\ new[Len(ms) + 1] = m
      /\ m.calls \in Seq(Calls)
  BY DEF Messages
<1>2. PICK l \in Nat : l = Len(ms) + 1 /\ l = Len(new)
  BY <1>1
<1>3. l \in as /\ \A j \in as : l >= j
  BY <1>1, <1>2
<1>4. \A k \in as : (\A j \in as : k >= j) => k = l
  BY <1>2, <1>3
<1>5. Asked(new, l) = l
  <2>1. Asked(new, l) = Max(as)
    BY <1>2 DEF Asked
  <2> HIDE DEF as, new
  <2>2. Max(as) = l
    BY <1>3, <1>4 DEF Max
  <2> QED
    BY <2>1, <2>2
<1>6. \A k \in 1 .. Len(m.calls) : l - l + k = k
  BY <1>1, <1>2
<1>7. l \in 1 .. l
  BY <1>2
<1> HIDE DEF new
<1> QED
  BY <1>1, <1>2, <1>5, <1>6, <1>7 DEF Pending, new

\* The result of the queue's first call.
LEMMA ResultIsHandled ==
    ASSUME AgentRunAssumption, NEW ms \in Seq(Messages), NEW m \in Messages,
           NEW q \in Seq(Calls), q # <<>>, m.role = "tool", m.calls = <<>>,
           NEW call, NEW n \in Nat, NEW now, now = IF Head(q) = call THEN n + 1 ELSE 1,
           now < Limit(Head(q)),
           Pending(ms, q), Placed(ms), Bounded(ms), Streak(ms, call, n)
    PROVE  /\ Pending(Append(ms, m), Tail(q)) /\ Placed(Append(ms, m))
           /\ Bounded(Append(ms, m)) /\ Streak(Append(ms, m), Head(q), now)
<1> DEFINE new == Append(ms, m)
<1>1. /\ Len(ms) \in Nat /\ Len(new) = Len(ms) + 1 /\ new[Len(ms) + 1] = m
      /\ DOMAIN new = 1 .. Len(ms) + 1 /\ DOMAIN ms = 1 .. Len(ms)
      /\ \A i \in 1 .. Len(ms) : new[i] = ms[i]
      /\ new \in Seq(Messages)
  OBVIOUS
<1>2. PICK l \in Nat : l = Len(ms)
  BY <1>1
<1>3. PICK e \in Nat : e = l + 1 /\ e = Len(new) /\ e = Len(ms) + 1
  BY <1>1, <1>2
<1>4. Results(new) = Results(ms) \cup {e} /\ Results(ms) \subseteq 1 .. l
  BY <1>1, <1>2, <1>3 DEF Results
<1>5. /\ \A j \in 1 .. l : new[j].role = ms[j].role /\ new[j].calls = ms[j].calls
      /\ new[e].role # "assistant" /\ new \in Seq(Messages)
  BY <1>1, <1>2, <1>3
<1> HIDE DEF new
<1>6. ASSUME NEW i \in Results(ms)
      PROVE  Asked(new, i) = Asked(ms, i) /\ CallIn(new, i) = CallIn(ms, i)
  <2>1. i \in 1 .. l /\ i \in Nat
    BY <1>4
  <2>2. \A j \in 1 .. i : j \in 1 .. l
    BY <2>1
  <2>3. \A j \in 1 .. i : new[j].role = ms[j].role /\ new[j].calls = ms[j].calls
    BY <1>5, <2>2
  <2>4. Asked(ms, i) \in 1 .. i
    BY DEF Placed
  <2> QED
    BY <2>1, <2>3, <2>4, PrefixSettles
<1>7. PICK a : a = Asked(ms, l)
  OBVIOUS
<1>8. a \in 1 .. l /\ \A k \in 1 .. Len(q) : q[k] = ms[a].calls[l - a + k]
  BY <1>2, <1>7 DEF Pending
<1>9. Asked(new, e) = a
  <2>1. {j \in 1 .. e : new[j].role = "assistant"} = {j \in 1 .. l : ms[j].role = "assistant"}
    BY <1>3, <1>5, SMTT(20)
  <2> QED
    BY <1>7, <2>1, Zenon DEF Asked
<1>10. new[a].calls = ms[a].calls
  BY <1>5, <1>8
<1>11. /\ Len(q) \in Nat /\ Len(q) >= 1 /\ Head(q) = q[1] /\ Len(Tail(q)) = Len(q) - 1
       /\ \A k \in 1 .. Len(q) - 1 : Tail(q)[k] = q[k + 1]
  OBVIOUS
<1>12. CallIn(new, e) = Head(q)
  <2>1. CallIn(new, e) = ms[a].calls[e - a]
    BY <1>9, <1>10 DEF CallIn
  <2>2. q[1] = ms[a].calls[l - a + 1] /\ l - a + 1 = e - a
    BY <1>3, <1>8, <1>11
  <2> QED
    BY <1>11, <2>1, <2>2
<1>13. Pending(new, Tail(q))
  <2>1. a \in 1 .. e
    BY <1>3, <1>8
  <2>2. ASSUME NEW k \in 1 .. Len(Tail(q)) PROVE Tail(q)[k] = new[a].calls[e - a + k]
    <3>1. k \in Nat /\ k + 1 \in 1 .. Len(q) /\ Tail(q)[k] = q[k + 1]
      BY <1>11
    <3>2. l - a + (k + 1) = e - a + k
      BY <1>3, <1>8, <3>1
    <3> QED
      BY <1>8, <1>10, <3>1, <3>2
  <2> QED
    BY <1>3, <1>9, <2>1, <2>2 DEF Pending
<1>14. Placed(new)
  <2>1. a \in 1 .. e
    BY <1>3, <1>8
  <2> QED
    BY <1>4, <1>6, <1>9, <2>1 DEF Placed
<1>15. ASSUME NEW first \in Results(ms), NEW end \in Results(ms)
       PROVE  Between(new, first, end) = Between(ms, first, end)
  BY <1>3, <1>4 DEF Between
<1>16. ASSUME NEW first \in Results(ms)
       PROVE  /\ Between(new, first, e) = Between(ms, first, l) \cup {e}
              /\ Cardinality(Between(new, first, e)) = Cardinality(Between(ms, first, l)) + 1
              /\ Cardinality(Between(ms, first, l)) \in Nat
  <2>1. Between(new, first, e) = Between(ms, first, l) \cup {e} /\ e \notin Between(ms, first, l)
    BY <1>3, <1>4 DEF Between
  <2>2. IsFiniteSet(Between(ms, first, l)) /\ Cardinality(Between(ms, first, l)) \in Nat
    BY <1>2, <1>4, BetweenIsFinite
  <2> QED
    BY <2>1, <2>2, FS_AddElement
<1>17. Between(new, e, e) = {e} /\ Cardinality({e}) = 1
  <2>1. e .. e = {e}
    OBVIOUS
  <2>2. Between(new, e, e) = {e}
    BY <1>4, <2>1, Zenon DEF Between
  <2> QED
    BY <2>2, FS_Singleton
<1>18. now \in Nat \ {0} /\ Limit(Head(q)) \in Nat
  BY DEF AgentRunAssumption, Limit
<1>19. ASSUME NEW first \in Results(new),
              \A i \in Between(new, first, e) : CallIn(new, i) = CallIn(new, first)
       PROVE  CallIn(new, first) = Head(q) /\ Cardinality(Between(new, first, e)) <= now
  <2>1. CASE first = e
    <3>1. CallIn(new, first) = Head(q)
      BY <1>12, <2>1
    <3>2. Cardinality(Between(new, first, e)) = 1
      BY <1>17, <2>1, Zenon
    <3> QED
      BY <1>18, <3>1, <3>2
  <2>2. CASE first # e
    <3>1. first \in Results(ms)
      BY <1>4, <2>2
    <3>2. \A i \in Between(ms, first, l) : CallIn(ms, i) = CallIn(ms, first)
      <4>1. ASSUME NEW i \in Between(ms, first, l) PROVE CallIn(ms, i) = CallIn(ms, first)
        <5>1. i \in Results(ms) /\ i \in Between(new, first, e)
          BY <1>16, <3>1 DEF Between
        <5> QED
          BY <1>6, <1>19, <3>1, <5>1
      <4> QED
        BY <4>1
    <3>3. CallIn(ms, first) = call /\ Cardinality(Between(ms, first, l)) <= n
      BY <1>2, <3>1, <3>2 DEF Streak
    <3>4. Head(q) = CallIn(new, first)
      <4>1. e \in Between(new, first, e)
        BY <1>16, <3>1
      <4> QED
        BY <1>12, <1>19, <4>1
    <3>5. Head(q) = call
      BY <1>6, <3>1, <3>3, <3>4
    <3> QED
      BY <1>16, <3>1, <3>3, <3>4, <3>5
  <2> QED
    BY <2>1, <2>2
<1>20. Streak(new, Head(q), now)
  BY <1>3, <1>19, Zenon DEF Streak
<1>21. Bounded(new)
  <2> SUFFICES ASSUME NEW first \in Results(new), NEW end \in Results(new), first <= end,
                      Cardinality(Between(new, first, end)) >= Limit(CallIn(new, first)),
                      \A i \in Between(new, first, end) : CallIn(new, i) = CallIn(new, first)
               PROVE  FALSE
    BY Zenon DEF Bounded
  <2>1. CASE end = e
    <3>1. CallIn(new, first) = Head(q) /\ Cardinality(Between(new, first, e)) <= now
      BY <1>19, <2>1
    <3>2. Cardinality(Between(new, first, e)) \in Nat
      BY <1>3, <1>4, <1>5, BetweenIsFinite
    <3> QED
      BY <1>18, <2>1, <3>1, <3>2
  <2>2. CASE end # e
    <3>1. end \in Results(ms) /\ first \in Results(ms)
      BY <1>3, <1>4, <2>2
    <3>2. Between(new, first, end) = Between(ms, first, end)
      BY <1>15, <3>1
    <3>3. \A i \in Between(ms, first, end) : CallIn(ms, i) = CallIn(ms, first)
      <4>1. Between(ms, first, end) \subseteq Results(ms)
        BY DEF Between
      <4> QED
        BY <1>6, <3>1, <3>2, <4>1
    <3>4. Cardinality(Between(ms, first, end)) >= Limit(CallIn(ms, first))
      BY <1>6, <3>1, <3>2
    <3> QED
      BY <3>1, <3>3, <3>4, Zenon DEF Bounded
  <2> QED
    BY <2>1, <2>2
<1> QED
  BY <1>13, <1>14, <1>20, <1>21 DEF new

LEMMA KeepsHandling ==
    ASSUME Handling, UNCHANGED <<messages, queue, last, repeats>>
    PROVE  Handling'
BY DEF Handling

LEMMA FreshHandles ==
    ASSUME NEW ms, Plain(ms), Fresh(ms)
    PROVE  Handling'
<1>1. messages' = ms /\ queue' = <<>> /\ last' = Nothing /\ repeats' = 0
  BY DEF Fresh
<1>2. Pending(ms, <<>>) /\ Placed(ms) /\ Bounded(ms) /\ Streak(ms, Nothing, 0)
  BY PlainHandlesNone
<1> QED
  BY <1>1, <1>2 DEF Handling

LEMMA WeighHandles ==
    ASSUME Handling, Conversing, NEW pressed \in BOOLEAN, Weigh(pressed)
    PROVE  Handling'
<1>1. queue' = <<>> /\ last' = last /\ repeats' = repeats /\ messages \in Seq(Messages)
  BY DEF Weigh, Conversing, QueueIsOfRound
<1>2. messages' = messages \/ messages' = Compact(messages)
  BY DEF Weigh
<1>3. Placed(Compact(messages)) /\ Bounded(Compact(messages))
      /\ Streak(Compact(messages), last, repeats)
  <2>1. PICK new : new = Compact(messages)
    OBVIOUS
  <2>2. /\ new \in Seq(Messages) /\ Len(new) >= Len(messages) /\ Results(new) = Results(messages)
        /\ \A j \in 1 .. Len(messages) :
              new[j].role = messages[j].role /\ new[j].calls = messages[j].calls
    BY <1>1, <2>1, CompactKeepsShape
  <2> QED
    BY <1>1, <2>1, <2>2, SameCalls DEF Handling
<1>4. Placed(messages') /\ Bounded(messages') /\ Streak(messages', last, repeats)
  BY <1>2, <1>3 DEF Handling
<1>5. Pending(messages', <<>>)
  BY DEF Pending
<1> QED
  BY <1>1, <1>4, <1>5 DEF Handling

LEMMA CallsToolsHandles ==
    ASSUME Typed, Handling, Conversing, NEW n \in 1 .. MaxCalls,
           NEW calls \in [1 .. n -> Tools[agent]], CallsTools(calls)
    PROVE  Handling'
<1>1. PICK m \in Messages : /\ m.role = "assistant" /\ m.calls = calls
                            /\ messages' = Append(messages, m)
  <2>1. PICK m : m = [Says("assistant", 1) EXCEPT !.calls = calls]
    OBVIOUS
  <2>2. m \in Messages /\ m.role = "assistant" /\ m.calls = calls
    <3>1. m = [role |-> "assistant", tokens |-> 1, calls |-> calls, compacted |-> FALSE]
      BY <2>1 DEF Says
    <3>2. calls \in Seq(Calls)
      <4>1. n \in Nat /\ Tools[agent] \subseteq Calls
        BY DEF Typed, Agents, Calls
      <4> QED
        BY <4>1
    <3> QED
      BY <3>1, <3>2 DEF Messages
  <2> QED
    BY <2>1, <2>2 DEF CallsTools
<1>2. queue' = m.calls /\ last' = last /\ repeats' = repeats /\ messages \in Seq(Messages)
  BY <1>1 DEF CallsTools, Conversing
<1>3. PICK new : new = Append(messages, m)
  OBVIOUS
<1>4. /\ new \in Seq(Messages) /\ Len(new) = Len(messages) + 1 /\ Len(messages) \in Nat
      /\ \A j \in 1 .. Len(messages) : new[j] = messages[j]
      /\ new[Len(messages) + 1] = m
  BY <1>2, <1>3
<1>5. Results(new) = Results(messages)
  <2>1. DOMAIN new = 1 .. Len(messages) + 1 /\ DOMAIN messages = 1 .. Len(messages)
    BY <1>2, <1>4
  <2>2. new[Len(messages) + 1].role # "tool"
    BY <1>1, <1>4
  <2> QED
    BY <1>4, <2>1, <2>2 DEF Results
<1>6. Placed(new) /\ Bounded(new) /\ Streak(new, last, repeats)
  BY <1>2, <1>4, <1>5, SameCalls, SMTT(20) DEF Handling
<1>7. Pending(new, m.calls)
  BY <1>1, <1>2, <1>3, ReplyIsPending
<1> QED
  BY <1>1, <1>2, <1>3, <1>6, <1>7 DEF Handling

LEMMA RespondHandles ==
    ASSUME AgentRunAssumption, Handling, Conversing, NEW call \in Calls, NEW ok \in BOOLEAN,
           Respond(call, ok)
    PROVE  Handling'
<1>1. PICK m : m = Says("tool", ResultTokens)
  OBVIOUS
<1>2. m \in Messages /\ m.role = "tool" /\ m.calls = <<>>
  BY <1>1, SaysIsMessage
<1>3. /\ messages' = Append(messages, m) /\ queue' = Tail(queue) /\ queue # <<>>
      /\ call = Head(queue) /\ last' = call /\ repeats' = Repeats(call)
      /\ Repeats(call) < Limit(call)
  BY <1>1 DEF Respond
<1>4. PICK now : now = Repeats(call)
  OBVIOUS
<1>5. now = IF Head(queue) = last THEN repeats + 1 ELSE 1
  BY <1>3, <1>4 DEF Repeats
<1>6. messages \in Seq(Messages) /\ queue \in Seq(Calls) /\ repeats \in Nat /\ now < Limit(Head(queue))
  BY <1>3, <1>4 DEF Conversing, Handling
<1>7. /\ Pending(Append(messages, m), Tail(queue)) /\ Placed(Append(messages, m))
      /\ Bounded(Append(messages, m)) /\ Streak(Append(messages, m), Head(queue), now)
  BY <1>2, <1>3, <1>5, <1>6, ResultIsHandled DEF Handling
<1> QED
  BY <1>3, <1>4, <1>5, <1>6, <1>7 DEF Handling

LEMMA StepHandles ==
    ASSUME AgentRunAssumption, Typed, Handling, Conversing, [Next]_vars
    PROVE  Handling'
<1>1. CASE Prepare
  <2>1. PICK size \in PromptTokens : Fresh(Prompt(size))
    BY <1>1 DEF Prepare
  <2> QED
    BY <2>1, PromptIsPlain, FreshHandles
<1>2. CASE Build
  <2>1. PICK size \in PromptTokens : Fresh(<<Says("user", size)>>)
    BY <1>2 DEF Build
  <2> QED
    BY <2>1, FirstMessageIsPlain, FreshHandles
<1>3. ASSUME NEW pressed \in BOOLEAN, Weigh(pressed) PROVE Handling'
  BY <1>3, WeighHandles
<1>4. CASE OutOfRounds BY <1>4, KeepsHandling DEF OutOfRounds, loop
<1>5. CASE Answers BY <1>5, KeepsHandling DEF Answers, loop
<1>6. CASE LLMFails BY <1>6, KeepsHandling DEF LLMFails, loop
<1>7. ASSUME NEW n \in 1 .. MaxCalls, NEW calls \in [1 .. n -> Tools[agent]],
             CallsTools(calls)
      PROVE  Handling'
  BY <1>7, CallsToolsHandles
<1>8. CASE BadArguments BY <1>8, KeepsHandling DEF BadArguments, loop
<1>9. CASE RepeatLimit BY <1>9, KeepsHandling DEF RepeatLimit, loop
<1>10. CASE Reject BY <1>10, RespondHandles DEF Reject
<1>11. ASSUME NEW call \in Calls, NEW ok \in BOOLEAN, ExecuteTool(call, ok)
       PROVE  Handling'
  BY <1>11, RespondHandles DEF ExecuteTool
<1>12. CASE EndRound BY <1>12, KeepsHandling DEF EndRound
<1>13. CASE FinalDrain BY <1>13, KeepsHandling DEF FinalDrain, loop
<1>14. CASE WaitForChildren BY <1>14, KeepsHandling DEF WaitForChildren, loop
<1>15. CASE Close BY <1>15, KeepsHandling DEF Close, loop
<1>16. CASE Fail BY <1>16, KeepsHandling DEF Fail, loop
<1>17. CASE UserAnswers BY <1>17, KeepsHandling DEF UserAnswers, loop
<1>18. ASSUME NEW c \in DOMAIN children, ChildEnds(c) \/ ChildAsks(c) \/ ChildIsAnswered(c)
       PROVE  Handling'
  BY <1>18, KeepsHandling DEF ChildEnds, ChildAsks, ChildIsAnswered, Child, loop
<1>19. CASE UNCHANGED vars BY <1>19, KeepsHandling DEF vars, loop
<1> QED
  BY <1>1, <1>2, <1>3, <1>4, <1>5, <1>6, <1>7, <1>8, <1>9, <1>10, <1>11, <1>12, <1>13, <1>14,
     <1>15, <1>16, <1>17, <1>18, <1>19, Zenon DEF Next, Step

-----------------------------------------------------------------------------
(* The agent, its turns and the tasks it delegates.                        *)

\* A run that is finished has answered; what it had stored stays.
LEMMA FinishTypes ==
    ASSUME Typed, Finish
    PROVE  transcript' \in Seq(Int) /\ pc' \in {"done", "asked"}
BY DEF Typed, Finish, Reply

LEMMA PrepareTypes ==
    ASSUME Typed, Prepare
    PROVE  transcript' \in Seq(Int)
<1>1. NewTurns \in Seq(Int)
  BY DEF Typed, NewTurns, Original
<1>2. PICK n \in 0 .. Len(NewTurns) : transcript' = transcript \o SubSeq(NewTurns, 1, n)
  BY DEF Prepare, Persist
<1>3. SubSeq(NewTurns, 1, n) \in Seq(Int)
  BY <1>1, <1>2, SubSeqProperties
<1> QED
  BY <1>2, <1>3, ConcatProperties DEF Typed

LEMMA StepKeepsTypes ==
    ASSUME Typed, [Next]_vars
    PROVE  /\ agent' = agent /\ pc' \in Pcs /\ turn' \in Nat
           /\ transcript' \in Seq(Int)
<1> DEFINE Kept == agent' = agent /\ pc' \in Pcs /\ turn' \in Nat /\ transcript' \in Seq(Int)
<1> USE DEF Pcs, Outside, Leave, Raise
<1>1. CASE Prepare BY <1>1, PrepareTypes DEF Prepare, Typed
<1>2. CASE Build BY <1>2 DEF Build, Typed
<1>3. ASSUME NEW pressed \in BOOLEAN, Weigh(pressed) PROVE Kept
  BY <1>3 DEF Weigh, Typed
<1>4. CASE OutOfRounds BY <1>4 DEF OutOfRounds, Typed
<1>5. CASE Answers BY <1>5 DEF Answers, Typed
<1>6. CASE LLMFails BY <1>6 DEF LLMFails, Typed
<1>7. ASSUME NEW n, NEW calls \in [1 .. n -> Tools[agent]], CallsTools(calls) PROVE Kept
  BY <1>7 DEF CallsTools, Typed
<1>8. CASE BadArguments BY <1>8 DEF BadArguments, Typed
<1>9. CASE RepeatLimit BY <1>9 DEF RepeatLimit, Typed
<1>10. CASE Reject BY <1>10 DEF Reject, Respond, Typed
<1>11. ASSUME NEW call \in Calls, NEW ok \in BOOLEAN, ExecuteTool(call, ok) PROVE Kept
  BY <1>11 DEF ExecuteTool, Respond, Typed
<1>12. CASE EndRound BY <1>12 DEF EndRound, Typed
<1>13. CASE FinalDrain BY <1>13, FinishTypes DEF FinalDrain, Typed
<1>14. CASE WaitForChildren BY <1>14, FinishTypes DEF WaitForChildren, Typed
<1>15. CASE Close BY <1>15 DEF Close, Typed
<1>16. CASE Fail BY <1>16 DEF Fail, Typed
<1>17. CASE UserAnswers BY <1>17 DEF UserAnswers, Typed
<1>18. ASSUME NEW c \in DOMAIN children, ChildEnds(c) \/ ChildAsks(c) \/ ChildIsAnswered(c)
       PROVE  Kept
  BY <1>18 DEF ChildEnds, ChildAsks, ChildIsAnswered, Child, Typed
<1>19. CASE UNCHANGED vars BY <1>19 DEF vars, Typed
<1> QED
  BY <1>1, <1>2, <1>3, <1>4, <1>5, <1>6, <1>7, <1>8, <1>9, <1>10, <1>11, <1>12, <1>13, <1>14,
     <1>15, <1>16, <1>17, <1>18, <1>19, Zenon DEF Next, Step

\* Draining starts every queued task.
LEMMA DrainedAreStarted ==
    ASSUME Typed
    PROVE  /\ Drained \in Seq(Statuses) /\ "queued" \notin Range(Drained)
           /\ children = <<>> => Drained = <<>>
<1>1. DOMAIN children = 1 .. Len(children) /\ Len(children) \in Nat
      /\ \A c \in 1 .. Len(children) : children[c] \in Statuses
  BY DEF Typed
<1>2. Drained = [c \in 1 .. Len(children) |->
                    IF children[c] = "queued" THEN "running" ELSE children[c]]
  BY <1>1, Zenon DEF Drained
<1>3. Drained \in Seq(Statuses) /\ Len(Drained) = Len(children)
  BY <1>1, <1>2 DEF Statuses
<1>4. \A c \in DOMAIN Drained : Drained[c] # "queued"
  BY <1>2
<1> QED
  BY <1>3, <1>4 DEF Range

LEMMA StepDelegates ==
    ASSUME Typed, Delegates, [Next]_vars
    PROVE  children' \in Seq(Statuses) /\ Delegates'
<1> DEFINE Goal == children' \in Seq(Statuses) /\ Delegates'
           Kept == agent' = agent /\ children' = children
<1>1. ASSUME Kept, pc' \in {"waiting", "done"} => pc' = pc \/ pc = "waiting" \/ agent = "specialist"
      PROVE  Goal
  <2>1. "queued" \notin Range(<<>>)
    BY DEF Range
  <2> QED
    BY <1>1, <2>1 DEF Delegates, DelegatedIsStarted, Typed
<1> USE DEF Outside, loop, Leave, Raise
<1>2. CASE Prepare BY <1>1, <1>2 DEF Prepare
<1>3. CASE Build BY <1>1, <1>3 DEF Build
<1>4. ASSUME NEW pressed \in BOOLEAN, Weigh(pressed) PROVE Goal
  BY <1>1, <1>4 DEF Weigh
<1>5. CASE OutOfRounds BY <1>1, <1>5 DEF OutOfRounds
<1>6. CASE Answers BY <1>1, <1>6 DEF Answers
<1>7. CASE LLMFails BY <1>1, <1>7 DEF LLMFails
<1>8. ASSUME NEW n, NEW calls \in [1 .. n -> Tools[agent]], CallsTools(calls) PROVE Goal
  BY <1>1, <1>8 DEF CallsTools
<1>9. CASE BadArguments BY <1>1, <1>9 DEF BadArguments
<1>10. CASE RepeatLimit BY <1>1, <1>10 DEF RepeatLimit
<1>11. CASE Reject BY <1>1, <1>11 DEF Reject, Respond
<1>12. ASSUME NEW call \in Calls, NEW ok \in BOOLEAN, ExecuteTool(call, ok) PROVE Goal
  <2>1. agent' = agent /\ pc' = "call" /\ (agent = "specialist" => children' = children)
    BY <1>12 DEF ExecuteTool, Respond
  <2>2. children' \in Seq(Statuses)
    BY <1>12 DEF ExecuteTool, Typed, Statuses
  <2> QED
    BY <2>1, <2>2 DEF Delegates, DelegatedIsStarted
<1>13. CASE EndRound
  <2>1. agent' = agent /\ pc' = "round" /\ children' = Drained
    BY <1>13 DEF EndRound
  <2> QED
    BY <2>1, DrainedAreStarted DEF Delegates, DelegatedIsStarted
<1>14. CASE FinalDrain
  <2>1. agent' = agent /\ agent = "orchestrator" /\ children' = Drained
    BY <1>14 DEF FinalDrain
  <2> QED
    BY <2>1, DrainedAreStarted DEF Delegates, DelegatedIsStarted
<1>15. CASE WaitForChildren BY <1>1, <1>15 DEF WaitForChildren
<1>16. CASE Close BY <1>1, <1>16 DEF Close
<1>17. CASE Fail BY <1>1, <1>17 DEF Fail
<1>18. CASE UserAnswers BY <1>1, <1>18 DEF UserAnswers
<1>19. ASSUME NEW c \in DOMAIN children, ChildEnds(c) \/ ChildAsks(c) \/ ChildIsAnswered(c)
       PROVE  Goal
  <2>1. PICK to \in Statuses \ {"queued"} : children' = [children EXCEPT ![c] = to]
    BY <1>19 DEF ChildEnds, ChildAsks, ChildIsAnswered, Child, Statuses
  <2>2. agent' = agent /\ pc' = pc
    BY <1>19 DEF ChildEnds, ChildAsks, ChildIsAnswered, Child
  <2>3. children # <<>> /\ children' \in Seq(Statuses)
    BY <2>1, ExceptSeq DEF Typed
  <2>4. "queued" \notin Range(children) => "queued" \notin Range(children')
    BY <2>1 DEF Range
  <2> QED
    BY <2>2, <2>3, <2>4 DEF Delegates, DelegatedIsStarted
<1>20. CASE UNCHANGED vars BY <1>1, <1>20 DEF vars
<1> QED
  BY <1>2, <1>3, <1>4, <1>5, <1>6, <1>7, <1>8, <1>9, <1>10, <1>11, <1>12, <1>13, <1>14,
     <1>15, <1>16, <1>17, <1>18, <1>19, <1>20, Zenon DEF Next, Step

-----------------------------------------------------------------------------
(* The theorems.                                                           *)

LEMMA Invariance == Spec => []IInv
<1>1. Init => IInv
  <2> SUFFICES ASSUME Init PROVE IInv
    OBVIOUS
  <2>1. Typed
    BY DEF Init, Typed, Pcs
  <2>2. Plain(<<>>) /\ messages = <<>> /\ queue = <<>> /\ shown = {}
    BY DEF Init, Plain
  <2> QED
    <3>1. Ordered(<<>>, <<>>) /\ Read(<<>>, <<>>, {})
      BY <2>2, PlainIsInOrder
    <3>2. Pending(<<>>, <<>>) /\ Placed(<<>>) /\ Bounded(<<>>) /\ Streak(<<>>, last, 0)
      BY <2>2, PlainHandlesNone
    <3>3. Delegates
      BY DEF Init, Delegates, DelegatedIsStarted
    <3> QED
      BY <2>1, <2>2, <3>1, <3>2, <3>3 DEF Init, IInv, QueueIsOfRound, Handling
<1>2. IInv /\ [Next]_vars => IInv'
  <2> SUFFICES ASSUME IInv, [Next]_vars PROVE IInv'
    OBVIOUS
  <2>1. Typed /\ Conversing /\ Handling /\ Delegates
    BY DEF IInv, Typed, Conversing
  <2>2. Conversing'
    BY <2>1, AgentRunAssumption, StepConverses
  <2>3. children' \in Seq(Statuses) /\ Delegates'
    BY <2>1, StepDelegates
  <2>4. Typed'
    BY <2>1, <2>2, <2>3, StepKeepsTypes DEF Typed, Conversing
  <2>5. Handling'
    BY <2>1, AgentRunAssumption, StepHandles
  <2> QED
    BY <2>2, <2>3, <2>4, <2>5 DEF IInv, Conversing
<1> QED
  BY <1>1, <1>2, PTL DEF Spec

(* services/helpers/tool_loop.py:216-335: each call of a reply appends one *)
(* result before the next round, whatever the call came to; the LLM never  *)
(* sees a call without its result, or a result out of place.               *)
THEOREM CallsHaveResults == Spec => []CallsAreAnswered
<1>1. IInv => CallsAreAnswered
  <2> SUFFICES ASSUME IInv, pc = "llm", NEW i \in DOMAIN messages
               PROVE  /\ \A j \in i + 1 .. i + Len(messages[i].calls) : j \in Results(messages)
                      /\ Len(messages[i].calls) > 0
                            => i + Len(messages[i].calls) + 1 \notin Results(messages)
    BY DEF CallsAreAnswered
  <2>1. queue = <<>> /\ messages \in Seq(Messages) /\ Len(messages) \in Nat
        /\ i \in 1 .. Len(messages) /\ DOMAIN messages = 1 .. Len(messages)
    BY DEF IInv, QueueIsOfRound, Typed
  <2>2. PICK n : n = Len(messages[i].calls)
    OBVIOUS
  <2>3. n \in Nat
    BY <2>1, <2>2 DEF Messages
  <2>4. /\ \A j \in DOMAIN messages : j \in i + 1 .. i + n => messages[j].role = "tool"
        /\ n > 0 => /\ i + n < Len(messages) \/ i + n = Len(messages) + Len(queue)
                    /\ i + n + 1 \notin Results(messages)
    BY <2>2, Zenon DEF IInv, Ordered
  <2>5. n > 0 => i + n <= Len(messages)
    BY <2>1, <2>3, <2>4
  <2>6. \A j \in i + 1 .. i + n : j \in DOMAIN messages
    BY <2>1, <2>3, <2>5
  <2> QED
    BY <2>2, <2>4, <2>6 DEF Results
<1> QED
  BY <1>1, Invariance, PTL

(* services/helpers/token_context_window.py:95-127: compaction takes a     *)
(* result that the LLM has not read only from a reply with more calls than *)
(* are preserved, and of those the older ones.                             *)
THEOREM ReadBeforeCompacted == Spec => []SeenBeforeCompacted
<1>1. IInv => SeenBeforeCompacted
  BY DEF IInv, Read, Crowded, SeenBeforeCompacted
<1> QED
  BY <1>1, Invariance, PTL

(* services/helpers/tool_loop.py:228-254: the counter runs over the rounds, *)
(* so no call is handled as often as its limit in a row, however the calls *)
(* are spread over replies.                                                *)
THEOREM RepeatsStayBounded == Spec => []RepeatsAreBounded
<1>1. IInv => RepeatsAreBounded
  <2>1. \A i : CallOf(i) = CallIn(messages, i)
    BY DEF CallOf, CallIn, Asked
  <2> QED
    BY <2>1 DEF IInv, Handling, Bounded, Between, RepeatsAreBounded
<1> QED
  BY <1>1, Invariance, PTL

(* services/task_executor.py:640-706: the drains between the rounds and    *)
(* after the last leave no delegated task queued.                          *)
THEOREM DelegatedAreStarted == Spec => []DelegatedIsStarted
<1>1. IInv => DelegatedIsStarted
  BY DEF IInv, Delegates
<1> QED
  BY <1>1, Invariance, PTL

=============================================================================
