----------------------------- MODULE MCAnalysis -----------------------------
(***************************************************************************)
(* The analysis over bounded inputs: every course of the response times    *)
(* over six buckets, and chosen courses of all metrics at once.            *)
(***************************************************************************)
EXTENDS Analysis

Buckets == 1 .. 6
Flat(v) == [i \in Buckets |-> v]

\* A metric that is high from bucket j to bucket k of n.
Raised(n, j, k, low, high) == [i \in 1 .. n |-> IF i \in j .. k THEN high ELSE low]

\* Load that rises, and throughput that follows it up to bucket k.
Upto(n, k) == [i \in 1 .. n |-> 10 * Min({i, k})]

\* A label seen in the given buckets, with a load per bucket.
Label(at, p90, load, sla, requests) ==
    [at |-> at, p90 |-> [i \in DOMAIN at |-> p90[i]], conc |-> [i \in DOMAIN at |-> load * at[i]],
     sla |-> sla, requests |-> requests]

Every(n) == [i \in 1 .. n |-> i]
But(n, k) == [i \in 1 .. n - 1 |-> IF i < k THEN i ELSE i + 1]
Alone(n, p90) == <<Label(Every(n), Raised(n, 0, 0, p90, p90), 1, 24, 100)>>

\* Seven labels that degrade from bucket 4 on, at loads that fall, rise or
\* are the same, some of them for a while only.
Seven(load(_), spikes) ==
    [l \in 1 .. 7 |-> Label(Every(8), Raised(8, 4, IF l \in spikes THEN 5 ELSE 8, 16, 64),
                            load(l), 24, 100)]

\* Every course of the response times, the rest being calm; a test with two
\* spells of slowness; degradations of several metrics at once, and of a label
\* that is seen in every bucket, not in one of them, or seldom; and more
\* labels than are reported.
BottleneckCases ==
    Runs([Buckets -> {8, 16, 40}], {Flat(0)}, {Flat(20)}, {Upto(6, 6)}, {Flat(50)}, {24},
         {Alone(6, 8)})
      \cup
    Runs({[i \in 1 .. 10 |-> IF i \in 3 .. k \/ i \in j .. 10 THEN 40 ELSE 8] :
              k \in 4 .. 5, j \in 7 .. 9},
         {Raised(10, 0, 0, 0, 0)}, {Upto(10, 10)}, {Upto(10, 10)}, {Raised(10, 0, 0, 50, 50)}, {24},
         {Alone(10, 8)})
      \cup
    Runs({Raised(6, j, k, 8, 40) : j, k \in {2, 3, 4, 6}}, {Raised(6, 3, k, 0, 6) : k \in {2, 6}},
         {Upto(6, k) : k \in {2, 6}}, {Upto(6, 6)}, {Raised(6, j, 6, 50, 90) : j \in {2, 4, 7}},
         {24, 80},
         {<<Label(Every(6), Flat(8), 1, 24, 100),
            Label(at, Raised(6, 3, 6, 16, 64), load, sla, requests)>> :
               at \in {Every(6), But(6, 1)}, load \in {1, 10}, sla \in {12, 24},
               requests \in {6, 10}})
      \cup
    Runs({Raised(8, j, 8, 8, 40) : j \in {3, 5, 9}}, {Raised(8, 0, 0, 0, 0)}, {Upto(8, 8)},
         {Upto(8, 8)}, {Raised(8, 0, 0, 50, 50)}, {24},
         {Seven(LAMBDA l : 8 - l, spikes) : spikes \in {{}, {7}, {1, 2, 3}}}
           \cup {Seven(LAMBDA l : l, {1}), Seven(LAMBDA l : 3, 1 .. 6)})
=============================================================================
