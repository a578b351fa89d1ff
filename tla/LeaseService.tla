---------------------------- MODULE LeaseService ----------------------------
(***************************************************************************)
(* What the election promises: one lease, held by at most one client, that *)
(* changes hands only when it is free or has run out, under a number that  *)
(* grows with every new grant; a client starts to act as leader only after *)
(* a grant of its own, and may act on for a while after it has lost it.    *)
(***************************************************************************)
EXTENDS Naturals

CONSTANTS Client, NoClient, Duration, Drift

VARIABLES clock, holder, validUntil, epoch,
    entitled,   \* clients with a grant they have not acted on yet
    acting      \* clients that act as leader

serviceVars == <<clock, holder, validUntil, epoch, entitled, acting>>

ServiceInit ==
    /\ clock = 0 /\ holder = NoClient /\ validUntil = 0 /\ epoch = 0
    /\ entitled = {} /\ acting = {}

\* A grant never reaches beyond a full lease from the present instant.
Bounded(t) == t <= clock + Drift + Duration

Pass ==
    /\ clock' = clock + 1
    /\ UNCHANGED <<holder, validUntil, epoch, entitled, acting>>

Grant(c) ==
    /\ holder = NoClient \/ validUntil <= clock + Drift
    /\ holder' = c /\ epoch' = epoch + 1 /\ Bounded(validUntil')
    /\ entitled' \in {entitled, entitled \cup {c}}
    /\ UNCHANGED <<clock, acting>>

Extend(c) ==
    /\ holder = c /\ Bounded(validUntil')
    /\ UNCHANGED <<clock, holder, epoch, entitled, acting>>

Release(c) ==
    /\ holder = c /\ c \in acting
    /\ holder' = NoClient /\ validUntil' = 0
    /\ acting' = acting \ {c}
    /\ UNCHANGED <<clock, epoch, entitled>>

Act(c) ==
    /\ c \in entitled
    /\ entitled' = entitled \ {c} /\ acting' = acting \cup {c}
    /\ UNCHANGED <<clock, holder, validUntil, epoch>>

StepDown(c) ==
    /\ acting' = acting \ {c}
    /\ entitled' \in {entitled, entitled \ {c}}
    /\ UNCHANGED <<clock, holder, validUntil, epoch>>

ServiceNext ==
    \/ Pass
    \/ \E c \in Client :
         Grant(c) \/ Extend(c) \/ Release(c) \/ Act(c) \/ StepDown(c)

ServiceSpec == ServiceInit /\ [][ServiceNext]_serviceVars
=============================================================================
