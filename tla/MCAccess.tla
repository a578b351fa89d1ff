------------------------------ MODULE MCAccess ------------------------------
EXTENDS Access, TLC

\* Requests are alike, and so are the users but for the first administrator.
Alike == Permutations(Request) \cup Permutations(User \ {Boss})
=============================================================================
