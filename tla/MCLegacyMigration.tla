-------------------------- MODULE MCLegacyMigration --------------------------
EXTENDS LegacyMigration, TLC

\* The Python build has migrated config 1 into its data source 2; config 2 came
\* later.  Data source 1 was made by hand.  Each kind of reference has a task.
OneSource == [d \in {1, 2} |-> 1]
OneLogged == 1 :> 2
EachKind == 1 :> [data |-> 1] @@ 2 :> [config |-> 1] @@ 3 :> [config |-> 2]

\* Servers are alike, and commands are.
Alike == Permutations(Server) \cup Permutations(Command)
=============================================================================
