----------------------------- MODULE MCSessions -----------------------------
(* Symmetry for the invariants of Sessions: requests are interchangeable.    *)
EXTENDS Sessions, TLC

Symmetry == Permutations(Calls)

=============================================================================
