-------------------------- MODULE MCProductCatalog --------------------------
(* The forms an admin may send, and symmetry for the invariants of           *)
(* ProductCatalog: readers, writers and codes are interchangeable.           *)
EXTENDS ProductCatalog, TLC

FormStocks == {-1, 0, 2}

Symmetry == Permutations(Readers) \cup Permutations(Writers) \cup Permutations(Codes)

=============================================================================
