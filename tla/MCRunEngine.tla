----------------------------- MODULE MCRunEngine -----------------------------
(* Instances of RunEngine for TLC. *)
EXTENDS RunEngine, TLC

Symmetry == Permutations(Node) \cup Permutations(Trigger)
=============================================================================
