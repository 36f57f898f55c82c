--------------------------- MODULE MCTaskLifecycle ---------------------------
(* TaskLifecycle on small instances: the constants come from the .cfg files *)
(* and clients, which are only compared, may be permuted.                   *)
EXTENDS TaskLifecycle, TLC

Symmetry == Permutations(Clients)

=============================================================================
