--------------------------- MODULE MCConversation ---------------------------
(* Conversation on small instances: requests and named ids may be permuted. *)
EXTENDS Conversation, TLC

Symmetry == Permutations(Turns) \cup Permutations(RunIds)

=============================================================================
