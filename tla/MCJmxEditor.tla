---------------------------- MODULE MCJmxEditor ----------------------------
(* JmxEditor on small instances: two scripts, one of whose names begins the *)
(* other's, and a plan with a group of one sampler.                         *)
EXTENDS JmxEditor

ScriptStems == {<<"checkout">>, <<"checkout", "login">>}

\* In a sorted listing digits come before letters.
ScriptOrder == [f \in ScriptStems |-> Len(f)]

Plan == <<Element(1, "plan", "plan", Top), Element(2, "group", "users", 1),
          Element(3, "sampler", "get", 2)>>

Components == {[class |-> "group", name |-> "users"], [class |-> "sampler", name |-> "get"]}
=============================================================================
