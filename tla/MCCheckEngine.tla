---------------------------- MODULE MCCheckEngine ----------------------------
(* Instances of CheckEngine for TLC. *)
EXTENDS CheckEngine, TLC

WaiterSymmetry == Permutations(Waiter)
=============================================================================
