------------------------------ MODULE MCCatalog ------------------------------
(* Instances of Catalog for TLC. *)
EXTENDS Catalog, TLC

Symmetry == Permutations(Handler) \cup Permutations(Source)
=============================================================================
