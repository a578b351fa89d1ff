--------------------------- MODULE MCSchedulerGate ---------------------------
(* Instances of SchedulerGate for TLC. *)
EXTENDS SchedulerGate, TLC

Symmetry == Permutations(Worker) \cup Permutations(Cron)
=============================================================================
