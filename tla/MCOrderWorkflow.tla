-------------------------- MODULE MCOrderWorkflow --------------------------
(* OrderWorkflow for TLC. *)
EXTENDS OrderWorkflow, TLC

\* Calls are interchangeable, and so are replicas.
Symmetry == Permutations(Calls) \cup Permutations(Schedulers)

=============================================================================
