--------------------------- MODULE LeaderElection ---------------------------
(***************************************************************************)
(* The active-standby election of internal/cluster/elector.go: every node  *)
(* runs a heartbeat tick and an election tick against one leader_lease row *)
(* of a shared database.  A tick is a database transaction followed by a   *)
(* mutex-guarded state flip followed by a callback that opens or closes    *)
(* the scheduler's gate; the two ticks of a node run in two goroutines,    *)
(* and a tick can be delayed between any two of these steps.  The rows of  *)
(* cluster_nodes, which the ticks also write, decide nothing and are left  *)
(* out.                                                                    *)
(***************************************************************************)
EXTENDS Naturals

CONSTANTS
    Node,           \* node identities (NODE_ID)
    NoNode,         \* SQL NULL in leader_node_id
    LeaseDuration,  \* LEASE_DURATION_SECONDS, in clock units
    Skew,           \* how far each node's clock is ahead of the slowest one
    MaxSkew,        \* bound of Skew
    Failing,        \* model bound: nodes whose transactions may fail
    MaxClock,       \* model bound: time stops here
    MaxStarts       \* model bound: process starts, of all nodes together

ASSUME ElectionAssumption ==
    /\ NoNode \notin Node
    /\ LeaseDuration \in Nat
    /\ Failing \subseteq Node
    /\ MaxClock \in Nat /\ MaxStarts \in Nat
    /\ MaxSkew \in Nat
    /\ Skew \in [Node -> 0 .. MaxSkew]

VARIABLES
    clock,      \* true time; node n reads clock + Skew[n]
    rowExists,  \* the leader_lease row of this cluster exists
    owner,      \* leader_lease.leader_node_id
    until,      \* leader_lease.lease_until (0 when NULL)
    epoch,      \* leader_lease.epoch
    proc,       \* life cycle of each node's process
    starts,     \* processes started so far (bounded by MaxStarts)
    isLeader,   \* LeaderElector.isLeader
    gate,       \* scheduler.Service.leader, set by the callbacks
    hb, hbNow,  \* where the heartbeat tick is, and the time it started with
    el, elNow,  \* where the election tick is, and the time it read
    granted,    \* history: end of the last lease a node wrote for itself
    overtaken   \* history: nodes with two changes of leadership under way at once

lease == <<rowExists, owner, until, epoch>>
ticks == <<hb, hbNow, el, elNow>>
life == <<proc, starts>>
history == <<granted, overtaken>>
vars == <<clock, lease, life, isLeader, gate, ticks, history>>

Now(n) == clock + Skew[n]

\* The process runs and has not been told to stop.
Running(n) == proc[n] \in {"up", "detached"}

HeartbeatPc == {"idle", "begun", "leading", "lost", "onLost"}
ElectPc == {"idle", "expired", "won", "lost", "onAcquired", "onLost"}

TypeOK ==
    /\ clock \in Nat
    /\ rowExists \in BOOLEAN
    /\ owner \in Node \cup {NoNode}
    /\ until \in Nat
    /\ epoch \in Nat
    /\ starts \in Nat
    /\ proc \in [Node -> {"down", "up", "detached", "stopping"}]
    /\ isLeader \in [Node -> BOOLEAN]
    /\ gate \in [Node -> BOOLEAN]
    /\ hb \in [Node -> HeartbeatPc]
    /\ hbNow \in [Node -> Nat]
    /\ el \in [Node -> ElectPc]
    /\ elNow \in [Node -> Nat]
    /\ granted \in [Node -> Nat] /\ overtaken \subseteq Node

Init ==
    /\ clock = 0
    /\ rowExists = FALSE
    /\ owner = NoNode /\ until = 0 /\ epoch = 0
    /\ proc = [n \in Node |-> "down"] /\ starts = 0
    /\ isLeader = [n \in Node |-> FALSE]
    /\ gate = [n \in Node |-> FALSE]
    /\ hb = [n \in Node |-> "idle"] /\ hbNow = [n \in Node |-> 0]
    /\ el = [n \in Node |-> "idle"] /\ elNow = [n \in Node |-> 0]
    /\ granted = [n \in Node |-> 0] /\ overtaken = {}

-----------------------------------------------------------------------------
(* Process life cycle *)

StartProcess(n, as) ==
    /\ proc[n] = "down" /\ starts < MaxStarts
    /\ proc' = [proc EXCEPT ![n] = as]
    /\ starts' = starts + 1

\* Start: the join transaction creates the lease row if it is missing.
Join(n) ==
    /\ StartProcess(n, "up")
    /\ rowExists' = TRUE
    /\ UNCHANGED <<clock, owner, until, epoch, isLeader, gate, ticks, history>>

\* Start when the join transaction fails: the node drops its elector and opens
\* the gate at once, but the tick jobs stay registered in its scheduler.
JoinFails(n) ==
    /\ n \in Failing
    /\ StartProcess(n, "detached")
    /\ gate' = [gate EXCEPT ![n] = TRUE]
    /\ UNCHANGED <<clock, lease, isLeader, ticks, history>>

\* Mutant of Stop: the release forgets leader_node_id in its WHERE clause.
StopReleasesAny(n) ==
    /\ proc[n] = "up"
    /\ proc' = [proc EXCEPT ![n] = "stopping"]
    /\ IF isLeader[n] THEN owner' = NoNode /\ until' = 0
                      ELSE UNCHANGED <<owner, until>>
    /\ isLeader' = [isLeader EXCEPT ![n] = FALSE]
    /\ overtaken' = overtaken \ {n}
    /\ UNCHANGED <<clock, rowExists, epoch, starts, gate, ticks, granted>>

\* Graceful stop: give the lease back if this process believes it leads, and
\* drop the belief without a callback.  A detached node has no elector to stop.
Stop(n) ==
    /\ proc[n] = "up"
    /\ proc' = [proc EXCEPT ![n] = "stopping"]
    /\ IF isLeader[n] /\ owner = n
         THEN owner' = NoNode /\ until' = 0
         ELSE UNCHANGED <<owner, until>>
    /\ isLeader' = [isLeader EXCEPT ![n] = FALSE]
    /\ overtaken' = overtaken \ {n}
    /\ UNCHANGED <<clock, rowExists, epoch, starts, gate, ticks, granted>>

\* The stop transaction is rolled back: the rows stay, the belief is gone.
StopFails(n) ==
    /\ n \in Failing /\ proc[n] = "up"
    /\ proc' = [proc EXCEPT ![n] = "stopping"]
    /\ isLeader' = [isLeader EXCEPT ![n] = FALSE]
    /\ overtaken' = overtaken \ {n}
    /\ UNCHANGED <<clock, lease, starts, gate, ticks, granted>>

\* The process ends, after a stop or by a crash, wherever its ticks are.
Exit(n) ==
    /\ proc[n] # "down"
    /\ proc' = [proc EXCEPT ![n] = "down"]
    /\ isLeader' = [isLeader EXCEPT ![n] = FALSE]
    /\ gate' = [gate EXCEPT ![n] = FALSE]
    /\ hb' = [hb EXCEPT ![n] = "idle"] /\ hbNow' = [hbNow EXCEPT ![n] = 0]
    /\ el' = [el EXCEPT ![n] = "idle"] /\ elNow' = [elNow EXCEPT ![n] = 0]
    /\ overtaken' = overtaken \ {n}
    /\ UNCHANGED <<clock, lease, starts, granted>>

-----------------------------------------------------------------------------
\* What setLeaderState(value) leaves to be called once it has flipped isLeader
\* and released the mutex: nothing when the flip was a no-op.
Callback(n, value) ==
    IF isLeader[n] = value THEN "idle" ELSE IF value THEN "onAcquired" ELSE "onLost"

\* One of the node's ticks has flipped isLeader and not called back yet.
InCallback(n) == hb[n] = "onLost" \/ el[n] \in {"onAcquired", "onLost"}

\* The flip of setLeaderState(value); it notes whether the other tick has flipped
\* before and has yet to call back.
Flips(n, value) ==
    /\ isLeader' = [isLeader EXCEPT ![n] = value]
    /\ overtaken' = IF isLeader[n] = value THEN overtaken
                    ELSE IF InCallback(n) /\ proc[n] = "up" THEN overtaken \cup {n}
                    ELSE overtaken \ {n}

\* A callback sets the gate; when it is the last one and the gate is right, whoever
\* came first does not matter any more.
CallsBack(n, value) ==
    /\ gate' = [gate EXCEPT ![n] = value]
    /\ overtaken' = IF ~InCallback(n)' /\ value = isLeader[n] THEN overtaken \ {n}
                    ELSE overtaken

-----------------------------------------------------------------------------
(* HeartbeatTick *)

\* The tick takes its time first, before it waits for a connection.
HeartbeatBegin(n) ==
    /\ proc[n] # "down" /\ hb[n] = "idle"
    /\ hb' = [hb EXCEPT ![n] = "begun"]
    /\ hbNow' = [hbNow EXCEPT ![n] = Now(n)]
    /\ UNCHANGED <<clock, lease, life, isLeader, gate, el, elNow, history>>

\* Inside the transaction: ask IsLeader; a standby only refreshes its own row.
HeartbeatCheck(n) ==
    /\ hb[n] = "begun"
    /\ hb' = [hb EXCEPT ![n] = IF isLeader[n] THEN "leading" ELSE "idle"]
    /\ hbNow' = [hbNow EXCEPT ![n] = IF isLeader[n] THEN @ ELSE 0]
    /\ UNCHANGED <<clock, lease, life, isLeader, gate, el, elNow, history>>

\* Mutant of HeartbeatRenew: the UPDATE forgets leader_node_id.
HeartbeatRenewsAny(n) ==
    /\ hb[n] = "leading"
    /\ hbNow' = [hbNow EXCEPT ![n] = 0]
    /\ until' = hbNow[n] + LeaseDuration
    /\ granted' = [granted EXCEPT ![n] = hbNow[n] + LeaseDuration]
    /\ hb' = [hb EXCEPT ![n] = "idle"]
    /\ UNCHANGED <<clock, rowExists, owner, epoch, life, isLeader, gate,
                   el, elNow, overtaken>>

\* The lease UPDATE and its row count, counted from the tick's first instant.
HeartbeatRenew(n) ==
    /\ hb[n] = "leading"
    /\ hbNow' = [hbNow EXCEPT ![n] = 0]
    /\ IF owner = n
         THEN /\ until' = hbNow[n] + LeaseDuration
              /\ granted' = [granted EXCEPT ![n] = hbNow[n] + LeaseDuration]
              /\ hb' = [hb EXCEPT ![n] = "idle"]
         ELSE /\ hb' = [hb EXCEPT ![n] = "lost"]
              /\ UNCHANGED <<until, granted>>
    /\ UNCHANGED <<clock, rowExists, owner, epoch, life, isLeader, gate,
                   el, elNow, overtaken>>

\* A transaction that fails is rolled back and the tick returns: the node
\* keeps whatever it believed.  (Failing before IsLeader is asked is the same
\* as failing after it.)
HeartbeatFails(n) ==
    /\ n \in Failing /\ hb[n] = "leading"
    /\ hb' = [hb EXCEPT ![n] = "idle"] /\ hbNow' = [hbNow EXCEPT ![n] = 0]
    /\ UNCHANGED <<clock, lease, life, isLeader, gate, el, elNow, history>>

\* Mutant of HeartbeatApply: the belief is dropped as in Stop, without a callback.
HeartbeatDrops(n) ==
    /\ hb[n] = "lost"
    /\ Flips(n, FALSE)
    /\ hb' = [hb EXCEPT ![n] = "idle"]
    /\ UNCHANGED <<clock, lease, life, gate, hbNow, el, elNow, granted>>

HeartbeatApply(n) ==
    /\ hb[n] = "lost"
    /\ Flips(n, FALSE)
    /\ hb' = [hb EXCEPT ![n] = Callback(n, FALSE)]
    /\ UNCHANGED <<clock, lease, life, gate, hbNow, el, elNow, granted>>

HeartbeatCallback(n) ==
    /\ hb[n] = "onLost"
    /\ hb' = [hb EXCEPT ![n] = "idle"]
    /\ UNCHANGED <<clock, lease, life, isLeader, hbNow, el, elNow, granted>>
    /\ CallsBack(n, FALSE)

-----------------------------------------------------------------------------
(* ElectTick *)

\* The row has vanished: create a free one and wait for the next tick.
ElectRecreate(n) ==
    /\ proc[n] # "down" /\ el[n] = "idle" /\ ~rowExists
    /\ rowExists' = TRUE
    /\ UNCHANGED <<clock, owner, until, epoch, life, isLeader, gate, ticks,
                   history>>

\* Mutant of ElectObserve: the owner is noted, the loss is not.
ElectOverlooks(n) ==
    /\ proc[n] # "down" /\ el[n] = "idle" /\ rowExists
    /\ owner # NoNode /\ until > Now(n)
    /\ UNCHANGED vars

\* A valid lease: remember its owner; a leader that sees another one has lost.
ElectObserve(n) ==
    /\ proc[n] # "down" /\ el[n] = "idle" /\ rowExists
    /\ owner # NoNode /\ until > Now(n)
    /\ el' = [el EXCEPT ![n] = IF isLeader[n] /\ owner # n THEN "lost" ELSE "idle"]
    /\ UNCHANGED <<clock, lease, life, isLeader, gate, hb, hbNow, elNow, history>>

\* Mutant of ElectExpired: a lease is taken over only when it was given back.
ElectReleased(n) ==
    /\ proc[n] # "down" /\ el[n] = "idle" /\ rowExists
    /\ owner = NoNode
    /\ el' = [el EXCEPT ![n] = "expired"]
    /\ elNow' = [elNow EXCEPT ![n] = Now(n)]
    /\ UNCHANGED <<clock, lease, life, isLeader, gate, hb, hbNow, history>>

\* A free or expired lease: go on to the CAS, with the time read here.
ElectExpired(n) ==
    /\ proc[n] # "down" /\ el[n] = "idle" /\ rowExists
    /\ owner = NoNode \/ until <= Now(n)
    /\ el' = [el EXCEPT ![n] = "expired"]
    /\ elNow' = [elNow EXCEPT ![n] = Now(n)]
    /\ UNCHANGED <<clock, lease, life, isLeader, gate, hb, hbNow, history>>

\* Mutant of ElectCas: a plain UPDATE, trusting the row read before it.
ElectUpdate(n) ==
    /\ el[n] = "expired"
    /\ elNow' = [elNow EXCEPT ![n] = 0]
    /\ owner' = n /\ until' = elNow[n] + LeaseDuration /\ epoch' = epoch + 1
    /\ granted' = [granted EXCEPT ![n] = elNow[n] + LeaseDuration]
    /\ el' = [el EXCEPT ![n] = "won"]
    /\ UNCHANGED <<clock, rowExists, life, isLeader, gate, hb, hbNow, overtaken>>

\* The CAS: its WHERE clause looks at the row again, with the same time.  When
\* the answer to the commit is lost the lease is taken and the node does not know.
ElectCas(n) ==
    /\ el[n] = "expired"
    /\ elNow' = [elNow EXCEPT ![n] = 0]
    /\ IF owner = NoNode \/ until <= elNow[n]
         THEN /\ owner' = n
              /\ until' = elNow[n] + LeaseDuration
              /\ epoch' = epoch + 1
              /\ granted' = [granted EXCEPT ![n] = elNow[n] + LeaseDuration]
              /\ \/ el' = [el EXCEPT ![n] = "won"]
                 \/ n \in Failing /\ el' = [el EXCEPT ![n] = "idle"]
         ELSE /\ el' = [el EXCEPT ![n] = "idle"]
              /\ UNCHANGED <<owner, until, epoch, granted>>
    /\ UNCHANGED <<clock, rowExists, life, isLeader, gate, hb, hbNow, overtaken>>

ElectFails(n) ==
    /\ n \in Failing /\ el[n] = "expired"
    /\ el' = [el EXCEPT ![n] = "idle"] /\ elNow' = [elNow EXCEPT ![n] = 0]
    /\ UNCHANGED <<clock, lease, life, isLeader, gate, hb, hbNow, history>>

ElectApply(n) ==
    \E value \in BOOLEAN :
        /\ el[n] = IF value THEN "won" ELSE "lost"
        /\ Flips(n, value)
        /\ el' = [el EXCEPT ![n] = Callback(n, value)]
        /\ UNCHANGED <<clock, lease, life, gate, hb, hbNow, elNow, granted>>

ElectCallback(n) ==
    /\ el[n] \in {"onAcquired", "onLost"}
    /\ el' = [el EXCEPT ![n] = "idle"]
    /\ UNCHANGED <<clock, lease, life, isLeader, hb, hbNow, elNow, granted>>
    /\ CallsBack(n, el[n] = "onAcquired")

-----------------------------------------------------------------------------
Advance ==
    /\ clock < MaxClock
    /\ clock' = clock + 1
    /\ UNCHANGED <<lease, life, isLeader, gate, ticks, history>>

HeartbeatTick(n) ==
    \/ HeartbeatBegin(n) \/ HeartbeatCheck(n) \/ HeartbeatRenew(n)
    \/ HeartbeatApply(n) \/ HeartbeatCallback(n)

ElectTick(n) ==
    \/ ElectRecreate(n) \/ ElectObserve(n) \/ ElectExpired(n) \/ ElectCas(n)
    \/ ElectApply(n) \/ ElectCallback(n)

LifeCycle(n) == Join(n) \/ JoinFails(n) \/ Stop(n) \/ StopFails(n) \/ Exit(n)

Next ==
    \/ Advance
    \/ \E n \in Node :
         \/ LifeCycle(n)
         \/ HeartbeatTick(n) \/ HeartbeatFails(n)
         \/ ElectTick(n) \/ ElectFails(n)

Spec == Init /\ [][Next]_vars

\* gocron runs each tick job of a live process again and again, and the
\* database does not refuse every transaction of a node for ever.  Fairness of
\* the election tick alone is enough for both liveness properties.
ElectFairness ==
    \A n \in Node : WF_vars(ElectTick(n)) /\ SF_vars(ElectCas(n))

FairSpec == Spec /\ ElectFairness

-----------------------------------------------------------------------------
(* Properties *)

\* The row's lease_until is what its owner wrote last: no other node's
\* heartbeat or CAS prolongs or shortens somebody else's lease.
OwnerWroteUntil == owner # NoNode => until = granted[owner]

\* A node that takes itself for the leader, or is about to because its CAS has
\* been committed, either still owns the row or outlived the lease it wrote
\* last (up to clock skew): nobody takes a lease over while it runs.  This has
\* to survive CAS attempts and renewals that use a time read long before.
LeaseExclusion ==
    \A n \in Node :
        Running(n) /\ (isLeader[n] \/ el[n] = "won") /\ owner # n
            => granted[n] <= clock + MaxSkew

\* A tick's time is never ahead of the clocks, and a dead process has
\* no belief, no open gate and no tick in flight.
TickTimes ==
    \A n \in Node :
        /\ hbNow[n] <= clock + MaxSkew
        /\ elNow[n] <= clock + MaxSkew
        /\ proc[n] = "down" => /\ ~isLeader[n] /\ ~gate[n]
                              /\ hb[n] = "idle" /\ el[n] = "idle"

\* The scheduler's gate is what its node takes itself for, when no callback is under
\* way: open on the leader, closed on a standby.  The exceptions are a node whose
\* ticks have flipped isLeader one before the other's callback, until it changes
\* leadership again, and one that is stopping or has dropped its elector.
GateFollows ==
    \A n \in Node :
        (proc[n] = "up" /\ n \notin overtaken /\ ~InCallback(n)) => gate[n] = isLeader[n]

\* At most one tick is to call back, with what isLeader says; if none, the gate says so.
CallbacksPending ==
    \A n \in Node : (proc[n] = "up" /\ n \notin overtaken) =>
        /\ hb[n] = "onLost" => el[n] \notin {"onAcquired", "onLost"}
        /\ isLeader[n] = IF InCallback(n) THEN el[n] = "onAcquired" ELSE gate[n]

\* The inductive invariant behind LeaseExclusion and GateFollows.
ElectionInv ==
    TypeOK /\ OwnerWroteUntil /\ LeaseExclusion /\ TickTimes /\ CallbacksPending

\* A leader whose lease was taken finds out: its own ticks make it step down.
StaleLeaderStepsDown ==
    \A n \in Node :
        (Running(n) /\ isLeader[n] /\ owner # n)
            ~> (~Running(n) \/ ~isLeader[n] \/ owner = n)

\* A free or expired lease is taken while a node is up to take it.
FreeLease(n) == owner = NoNode \/ until <= Now(n)

FreeLeaseIsTaken ==
    \A n \in Node :
        (Running(n) /\ FreeLease(n)) ~> (~Running(n) \/ ~FreeLease(n))

\* The election implements the lease service: the database row is the lease,
\* a committed CAS entitles, setLeaderState makes a node act.
Service == INSTANCE LeaseService WITH
    Client <- Node, NoClient <- NoNode, Duration <- LeaseDuration, Drift <- MaxSkew,
    holder <- owner, validUntil <- until,
    entitled <- {n \in Node : el[n] = "won"},
    acting <- {n \in Node : isLeader[n]}

ImplementsLease == Service!ServiceSpec
=============================================================================
