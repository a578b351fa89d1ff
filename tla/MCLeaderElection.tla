-------------------------- MODULE MCLeaderElection --------------------------
(* Instances of LeaderElection for TLC. *)
EXTENDS LeaderElection, TLC

NoSkew == [n \in Node |-> 0]

\* One node's clock runs one unit ahead of the others'.
OneAhead == LET fast == CHOOSE n \in Node : TRUE
            IN  [n \in Node |-> IF n = fast THEN 1 ELSE 0]

NodeSymmetry == Permutations(Node)
=============================================================================
