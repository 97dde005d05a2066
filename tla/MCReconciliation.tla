-------------------------- MODULE MCReconciliation --------------------------
(***************************************************************************)
(* Reconciliation on small instances.                                      *)
(***************************************************************************)
EXTENDS Reconciliation, TLC

Symmetric == Permutations(Paths) \cup Permutations(Nodes) \cup Permutations(Media)
             \cup Permutations(Roots)

=============================================================================
