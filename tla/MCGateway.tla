------------------------------ MODULE MCGateway ------------------------------
(* Symmetry for the invariants of Gateway: requests are interchangeable.    *)
EXTENDS Gateway, TLC

Symmetry == Permutations(Requests)

=============================================================================
