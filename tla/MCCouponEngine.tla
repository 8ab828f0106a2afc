--------------------------- MODULE MCCouponEngine ---------------------------
(* Symmetry for the invariants of CouponEngine: requests are interchangeable. *)
EXTENDS CouponEngine, TLC

Symmetry == Permutations(Calls)

=============================================================================
