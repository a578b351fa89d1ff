------------------------ MODULE LeaderElectionProofs ------------------------
(***************************************************************************)
(* ElectionInv is inductive, for every set of nodes, lease duration, clock *)
(* skew and bound; and the election implements the lease service.          *)
(***************************************************************************)
EXTENDS LeaderElection, TLAPS

\* A node's clock shows a time, at most MaxSkew ahead of true time.
LEMMA NowBounded ==
    ASSUME clock \in Nat, NEW n \in Node
    PROVE  Now(n) \in Nat /\ Now(n) <= clock + MaxSkew
<1>1. Skew[n] \in 0 .. MaxSkew /\ MaxSkew \in Nat
  BY ElectionAssumption DEF ElectionAssumption
<1> QED
  BY <1>1 DEF Now

\* Each process starts idle, so the invariant holds at first.
LEMMA InitInv == Init => ElectionInv
<1> SUFFICES ASSUME Init PROVE ElectionInv
  OBVIOUS
<1>1. TypeOK
  BY DEF Init, TypeOK, HeartbeatPc, ElectPc
<1>2. \A n \in Node : ~isLeader[n] /\ ~gate[n] /\ hb[n] = "idle" /\ el[n] = "idle"
  BY DEF Init
<1>3. OwnerWroteUntil /\ LeaseExclusion
  <2>1. OwnerWroteUntil
    BY DEF Init, OwnerWroteUntil
  <2>2. LeaseExclusion
    BY <1>2, Zenon DEF LeaseExclusion
  <2> QED
    BY <2>1, <2>2
<1>4. TickTimes
  <2>1. clock = 0 /\ \A n \in Node : hbNow[n] = 0 /\ elNow[n] = 0
    BY DEF Init
  <2>2. 0 <= clock + MaxSkew
    BY <2>1, ElectionAssumption DEF ElectionAssumption
  <2> QED
    BY <1>2, <2>1, <2>2, Zenon DEF TickTimes
<1>5. CallbacksPending
  <2>1. \A n \in Node : proc[n] = "down"
    BY DEF Init
  <2> QED
    BY <2>1, Zenon DEF CallbacksPending
<1> QED
  BY <1>1, <1>3, <1>4, <1>5 DEF ElectionInv

\* overtaken is a set of nodes.
LEMMA OvertakenNodes ==
    ASSUME TypeOK, [Next]_vars
    PROVE  overtaken' \subseteq Node
<1>1. ASSUME NEW n \in Node, NEW value, Flips(n, value) \/ CallsBack(n, value)
      PROVE  overtaken' \subseteq Node
  BY <1>1 DEF TypeOK, Flips, CallsBack
<1>2. ASSUME NEW n \in Node, LifeCycle(n)
      PROVE  overtaken' \subseteq Node
  BY <1>2 DEF TypeOK, LifeCycle, Join, JoinFails, Stop, StopFails, Exit, history
<1>3. ASSUME NEW n \in Node, HeartbeatTick(n) \/ HeartbeatFails(n)
      PROVE  overtaken' \subseteq Node
  BY <1>1, <1>3 DEF TypeOK, HeartbeatTick, HeartbeatFails, HeartbeatBegin, HeartbeatCheck,
     HeartbeatRenew, HeartbeatApply, HeartbeatCallback, history
<1>4. ASSUME NEW n \in Node, ElectTick(n) \/ ElectFails(n)
      PROVE  overtaken' \subseteq Node
  BY <1>1, <1>4 DEF TypeOK, ElectTick, ElectFails, ElectRecreate, ElectObserve,
     ElectExpired, ElectCas, ElectApply, ElectCallback, history
<1> QED
  BY <1>2, <1>3, <1>4 DEF TypeOK, Next, Advance, vars, history

\* Starting, stopping and ending a process: a node that comes up has a closed gate
\* and no belief.
LEMMA LifeCyclePending ==
    ASSUME ElectionInv, NEW n \in Node, LifeCycle(n)
    PROVE  CallbacksPending'
<1> USE DEF ElectionInv, TypeOK, TickTimes, CallbacksPending, InCallback, ticks, history
<1>1. CASE Join(n) \/ JoinFails(n)
  BY <1>1 DEF Join, JoinFails, StartProcess
<1>2. CASE Stop(n) \/ StopFails(n)
  BY <1>2 DEF Stop, StopFails
<1>3. CASE Exit(n)
  BY <1>3 DEF Exit
<1> QED
  BY <1>1, <1>2, <1>3 DEF LifeCycle

\* A flip leaves its tick to call back, or finds the other tick about to; a callback
\* that nobody has overtaken is the one that is due.
LEMMA TicksPending ==
    ASSUME ElectionInv, NEW n \in Node,
           HeartbeatTick(n) \/ HeartbeatFails(n) \/ ElectTick(n) \/ ElectFails(n)
    PROVE  CallbacksPending'
<1> USE DEF ElectionInv, TypeOK, HeartbeatPc, ElectPc, CallbacksPending, InCallback, lease,
        life, ticks, history
<1>1. CASE HeartbeatBegin(n) \/ HeartbeatCheck(n) \/ HeartbeatRenew(n) \/ HeartbeatFails(n)
  BY <1>1 DEF HeartbeatBegin, HeartbeatCheck, HeartbeatRenew, HeartbeatFails
<1>2. CASE HeartbeatApply(n)
  BY <1>2 DEF HeartbeatApply, Flips, Callback
<1>3. CASE HeartbeatCallback(n)
  BY <1>3 DEF HeartbeatCallback, CallsBack
<1>4. CASE ElectRecreate(n) \/ ElectObserve(n) \/ ElectExpired(n) \/ ElectCas(n) \/ ElectFails(n)
  BY <1>4 DEF ElectRecreate, ElectObserve, ElectExpired, ElectCas, ElectFails
<1>5. CASE ElectApply(n)
  BY <1>5 DEF ElectApply, Flips, Callback
<1>6. CASE ElectCallback(n)
  BY <1>6 DEF ElectCallback, CallsBack
<1> QED
  BY <1>1, <1>2, <1>3, <1>4, <1>5, <1>6 DEF HeartbeatTick, ElectTick

\* Starting, stopping and ending a process keep the invariant.
LEMMA LifeCycleInv ==
    ASSUME ElectionInv, NEW n \in Node, LifeCycle(n)
    PROVE  ElectionInv'
<1>0. overtaken' \subseteq Node /\ CallbacksPending'
  BY OvertakenNodes, LifeCyclePending DEF Next, ElectionInv
<1> USE ElectionAssumption DEF ElectionAssumption, ElectionInv, TypeOK, OwnerWroteUntil,
        LeaseExclusion, TickTimes, HeartbeatPc, ElectPc, Running, lease, life, ticks, history
<1>1. CASE Join(n)
  BY <1>0, <1>1 DEF Join, StartProcess
<1>2. CASE JoinFails(n)
  BY <1>0, <1>2 DEF JoinFails, StartProcess
<1>3. CASE Stop(n)
  BY <1>0, <1>3 DEF Stop
<1>4. CASE StopFails(n)
  BY <1>0, <1>4 DEF StopFails
<1>5. CASE Exit(n)
  BY <1>0, <1>5 DEF Exit
<1> QED
  BY <1>1, <1>2, <1>3, <1>4, <1>5 DEF LifeCycle

\* The steps of a heartbeat tick, and its failure, keep the invariant.
LEMMA HeartbeatInv ==
    ASSUME ElectionInv, NEW n \in Node, HeartbeatTick(n) \/ HeartbeatFails(n)
    PROVE  ElectionInv'
<1>0. overtaken' \subseteq Node /\ CallbacksPending'
  BY OvertakenNodes, TicksPending DEF Next, ElectionInv
<1> USE ElectionAssumption DEF ElectionAssumption, ElectionInv, TypeOK, OwnerWroteUntil,
        LeaseExclusion, TickTimes, HeartbeatPc, ElectPc, Running, lease, life, history,
        Callback, Flips, CallsBack
<1>1. CASE HeartbeatBegin(n)
  BY <1>0, <1>1, NowBounded DEF HeartbeatBegin
<1>2. CASE HeartbeatCheck(n)
  BY <1>0, <1>2 DEF HeartbeatCheck
<1>3. CASE HeartbeatRenew(n)
  BY <1>0, <1>3 DEF HeartbeatRenew
<1>4. CASE HeartbeatApply(n)
  BY <1>0, <1>4 DEF HeartbeatApply
<1>5. CASE HeartbeatCallback(n)
  BY <1>0, <1>5 DEF HeartbeatCallback
<1>6. CASE HeartbeatFails(n)
  BY <1>0, <1>6 DEF HeartbeatFails
<1> QED
  BY <1>1, <1>2, <1>3, <1>4, <1>5, <1>6 DEF HeartbeatTick

\* The steps of an election tick, and its failure, keep the invariant.
LEMMA ElectInv ==
    ASSUME ElectionInv, NEW n \in Node, ElectTick(n) \/ ElectFails(n)
    PROVE  ElectionInv'
<1>0. overtaken' \subseteq Node /\ CallbacksPending'
  BY OvertakenNodes, TicksPending DEF Next, ElectionInv
<1> USE ElectionAssumption DEF ElectionAssumption, ElectionInv, TypeOK, OwnerWroteUntil,
        LeaseExclusion, TickTimes, HeartbeatPc, ElectPc, Running, lease, life, ticks, history,
        Callback, Flips, CallsBack
<1>1. CASE ElectRecreate(n)
  BY <1>0, <1>1 DEF ElectRecreate
<1>2. CASE ElectObserve(n)
  BY <1>0, <1>2 DEF ElectObserve
<1>3. CASE ElectExpired(n)
  BY <1>0, <1>3, NowBounded DEF ElectExpired
<1>4. CASE ElectCas(n)
  BY <1>0, <1>4 DEF ElectCas
<1>5. CASE ElectApply(n)
  BY <1>0, <1>5 DEF ElectApply
<1>6. CASE ElectCallback(n)
  BY <1>0, <1>6 DEF ElectCallback
<1>7. CASE ElectFails(n)
  BY <1>0, <1>7 DEF ElectFails
<1> QED
  BY <1>1, <1>2, <1>3, <1>4, <1>5, <1>6, <1>7 DEF ElectTick

\* Every step of the election keeps the invariant.
LEMMA StepInv == ElectionInv /\ [Next]_vars => ElectionInv'
<1> SUFFICES ASSUME ElectionInv, [Next]_vars
             PROVE  ElectionInv'
  OBVIOUS
<1>1. CASE Advance
  BY <1>1, ElectionAssumption
     DEF ElectionAssumption, Advance, ElectionInv, TypeOK, OwnerWroteUntil, LeaseExclusion,
         TickTimes, CallbacksPending, InCallback, Running, lease, life, ticks, history
<1>2. CASE UNCHANGED vars
  BY <1>2 DEF vars, ElectionInv, TypeOK, OwnerWroteUntil, LeaseExclusion, TickTimes,
     CallbacksPending, InCallback, Running, lease, life, ticks, history
<1> QED
  BY <1>1, <1>2, LifeCycleInv, HeartbeatInv, ElectInv DEF Next

\* The inductive invariant holds in every reachable state.
THEOREM ElectionSafe == Spec => []ElectionInv
BY InitInv, StepInv, PTL DEF Spec

\* Type correctness of the election, for every instance.
THEOREM TypeCorrect == Spec => []TypeOK
<1>1. ElectionInv => TypeOK
  BY DEF ElectionInv
<1> QED
  BY <1>1, ElectionSafe, PTL

\* elector.go's two ticks never let a node be replaced while the lease it wrote
\* last is running, however late their database steps come.
THEOREM NoEarlyTakeover == Spec => []LeaseExclusion
<1>1. ElectionInv => LeaseExclusion
  BY DEF ElectionInv
<1> QED
  BY <1>1, ElectionSafe, PTL

\* setLeaderState's callbacks run outside the mutex, in two goroutines: the gate is
\* right all the same whenever none is under way, unless one overtook the other.
THEOREM GateRight == Spec => []GateFollows
<1>1. ElectionInv => GateFollows
  BY DEF ElectionInv, CallbacksPending, GateFollows
<1> QED
  BY <1>1, ElectionSafe, PTL

-----------------------------------------------------------------------------
(* The election implements LeaseService. *)

Entitled == {n \in Node : el[n] = "won"}
Acting == {n \in Node : isLeader[n]}

\* The first state of the election is the first state of the service.
LEMMA InitService == Init => Service!ServiceInit
<1> SUFFICES ASSUME Init PROVE Service!ServiceInit
  OBVIOUS
<1>1. \A n \in Node : ~isLeader[n] /\ el[n] # "won"
  BY DEF Init
<1>2. Entitled = {} /\ Acting = {}
  BY <1>1, Zenon DEF Entitled, Acting
<1> QED
  BY <1>2 DEF Init, Service!ServiceInit, Entitled, Acting

\* Stopping, ending and starting a process: the service sees a release, a
\* client that steps down, or nothing.
LEMMA LifeCycleService ==
    ASSUME ElectionInv, NEW n \in Node, LifeCycle(n)
    PROVE  [Service!ServiceNext]_(Service!serviceVars)
<1> USE DEF ElectionInv, TypeOK, lease, life, ticks, Entitled, Acting
<1>1. CASE Join(n) \/ JoinFails(n)
  BY <1>1 DEF Join, JoinFails, StartProcess, Service!serviceVars
<1>2. CASE Stop(n)
  <2>1. Acting' = Acting \ {n} /\ Entitled' = Entitled /\ clock' = clock /\ epoch' = epoch
    BY <1>2 DEF Stop
  <2>2. CASE isLeader[n] /\ owner = n
    <3>1. Service!Release(n)
      BY <1>2, <2>1, <2>2 DEF Stop, Service!Release
    <3> QED
      BY <3>1 DEF Service!ServiceNext
  <2>3. CASE ~(isLeader[n] /\ owner = n)
    <3>1. Service!StepDown(n)
      BY <1>2, <2>1, <2>3 DEF Stop, Service!StepDown
    <3> QED
      BY <3>1 DEF Service!ServiceNext
  <2> QED
    BY <2>2, <2>3
<1>3. CASE StopFails(n)
  <2>1. Acting' = Acting \ {n} /\ Entitled' = Entitled
    BY <1>3 DEF StopFails
  <2>2. Service!StepDown(n)
    BY <1>3, <2>1 DEF StopFails, Service!StepDown
  <2> QED
    BY <2>2 DEF Service!ServiceNext
<1>4. CASE Exit(n)
  <2>1. Acting' = Acting \ {n} /\ Entitled' = Entitled \ {n}
    BY <1>4 DEF Exit, ElectPc
  <2>2. Service!StepDown(n)
    BY <1>4, <2>1 DEF Exit, Service!StepDown
  <2> QED
    BY <2>2 DEF Service!ServiceNext
<1> QED
  BY <1>1, <1>2, <1>3, <1>4 DEF LifeCycle

\* A heartbeat extends the lease, or makes its node step down.
LEMMA HeartbeatService ==
    ASSUME ElectionInv, NEW n \in Node, HeartbeatTick(n) \/ HeartbeatFails(n)
    PROVE  [Service!ServiceNext]_(Service!serviceVars)
<1> USE DEF ElectionInv, TypeOK, lease, life, ticks, Entitled, Acting
<1>1. CASE HeartbeatBegin(n) \/ HeartbeatCheck(n) \/ HeartbeatFails(n)
  BY <1>1 DEF HeartbeatBegin, HeartbeatCheck, HeartbeatFails, Service!serviceVars
<1>2. CASE HeartbeatCallback(n)
  BY <1>2 DEF HeartbeatCallback, Service!serviceVars
<1>3. CASE HeartbeatRenew(n)
  <2>1. CASE owner = n
    <3>1. hbNow[n] + LeaseDuration <= clock + MaxSkew + LeaseDuration
      BY ElectionAssumption DEF ElectionAssumption, TickTimes
    <3>2. Service!Extend(n)
      BY <1>3, <2>1, <3>1 DEF HeartbeatRenew, Service!Extend, Service!Bounded
    <3> QED
      BY <3>2 DEF Service!ServiceNext
  <2>2. CASE owner # n
    BY <1>3, <2>2 DEF HeartbeatRenew, Service!serviceVars
  <2> QED
    BY <2>1, <2>2
<1>4. CASE HeartbeatApply(n)
  <2>1. Acting' = Acting \ {n} /\ Entitled' = Entitled
    BY <1>4 DEF HeartbeatApply, Flips
  <2>2. Service!StepDown(n)
    BY <1>4, <2>1 DEF HeartbeatApply, Service!StepDown
  <2> QED
    BY <2>2 DEF Service!ServiceNext
<1> QED
  BY <1>1, <1>2, <1>3, <1>4 DEF HeartbeatTick

\* An election tick is granted the lease, acts on a grant, or steps down.
LEMMA ElectService ==
    ASSUME ElectionInv, NEW n \in Node, ElectTick(n) \/ ElectFails(n)
    PROVE  [Service!ServiceNext]_(Service!serviceVars)
<1> USE DEF ElectionInv, TypeOK, lease, life, ticks, Entitled, Acting
<1>1. CASE ElectRecreate(n)
  BY <1>1 DEF ElectRecreate, Service!serviceVars
<1>2. CASE ElectObserve(n) \/ ElectExpired(n) \/ ElectFails(n)
  <2>1. Entitled' = Entitled
    BY <1>2 DEF ElectObserve, ElectExpired, ElectFails, ElectPc
  <2> QED
    BY <1>2, <2>1 DEF ElectObserve, ElectExpired, ElectFails, Service!serviceVars
<1>3. CASE ElectCas(n)
  <2>1. CASE owner = NoNode \/ until <= elNow[n]
    <3>1. Entitled' \in {Entitled, Entitled \cup {n}} /\ Acting' = Acting
      <4>1. CASE el' = [el EXCEPT ![n] = "won"]
        <5>1. Entitled' = Entitled \cup {n} /\ Acting' = Acting
          BY <1>3, <4>1 DEF ElectCas, ElectPc
        <5> QED
          BY <5>1
      <4>2. CASE el' = [el EXCEPT ![n] = "idle"]
        <5>1. Entitled' = Entitled /\ Acting' = Acting
          BY <1>3, <4>2 DEF ElectCas, ElectPc
        <5> QED
          BY <5>1
      <4> QED
        BY <1>3, <2>1, <4>1, <4>2 DEF ElectCas
    <3>2. /\ elNow[n] <= clock + MaxSkew
          /\ elNow[n] + LeaseDuration <= clock + MaxSkew + LeaseDuration
      BY ElectionAssumption DEF ElectionAssumption, TickTimes
    <3>3. owner = NoNode \/ until <= clock + MaxSkew
      BY <2>1, <3>2, ElectionAssumption DEF ElectionAssumption
    <3>4. Service!Grant(n)
      BY <1>3, <2>1, <3>1, <3>2, <3>3 DEF ElectCas, Service!Grant, Service!Bounded
    <3> QED
      BY <3>4 DEF Service!ServiceNext
  <2>2. CASE ~(owner = NoNode \/ until <= elNow[n])
    <3>1. Entitled' = Entitled
      BY <1>3, <2>2 DEF ElectCas, ElectPc
    <3> QED
      BY <1>3, <2>2, <3>1 DEF ElectCas, Service!serviceVars
  <2> QED
    BY <2>1, <2>2
<1>4. CASE ElectApply(n)
  <2>1. CASE el[n] = "won"
    <3>1. n \in Entitled /\ Entitled' = Entitled \ {n} /\ Acting' = Acting \cup {n}
      BY <1>4, <2>1 DEF ElectApply, Flips, ElectPc, Callback
    <3>2. Service!Act(n)
      BY <1>4, <3>1 DEF ElectApply, Service!Act
    <3> QED
      BY <3>2 DEF Service!ServiceNext
  <2>2. CASE el[n] # "won"
    <3>1. Entitled' = Entitled /\ Acting' = Acting \ {n}
      BY <1>4, <2>2 DEF ElectApply, Flips, ElectPc, Callback
    <3>2. Service!StepDown(n)
      BY <1>4, <3>1 DEF ElectApply, Service!StepDown
    <3> QED
      BY <3>2 DEF Service!ServiceNext
  <2> QED
    BY <2>1, <2>2
<1>5. CASE ElectCallback(n)
  <2>1. Entitled' = Entitled
    BY <1>5 DEF ElectCallback, ElectPc
  <2> QED
    BY <1>5, <2>1 DEF ElectCallback, Service!serviceVars
<1> QED
  BY <1>1, <1>2, <1>3, <1>4, <1>5 DEF ElectTick

\* Every step of the election is a step of the service, or invisible to it.
LEMMA StepService ==
    ElectionInv /\ [Next]_vars => [Service!ServiceNext]_(Service!serviceVars)
<1> SUFFICES ASSUME ElectionInv, [Next]_vars
             PROVE  [Service!ServiceNext]_(Service!serviceVars)
  OBVIOUS
<1>1. CASE Advance
  BY <1>1 DEF Advance, lease, ticks, Service!ServiceNext, Service!Pass
<1>2. CASE UNCHANGED vars
  BY <1>2 DEF vars, lease, ticks, Service!serviceVars
<1> QED
  BY <1>1, <1>2, LifeCycleService, HeartbeatService, ElectService DEF Next

\* To its users the election is a lease that changes hands only when free or
\* run out, under a fresh epoch each time.
THEOREM ElectionImplementsLease == Spec => ImplementsLease
<1>1. Init => Service!ServiceInit
  BY InitService
<1>2. ElectionInv /\ [Next]_vars => [Service!ServiceNext]_(Service!serviceVars)
  BY StepService
<1> QED
  BY <1>1, <1>2, ElectionSafe, PTL DEF Spec, ImplementsLease, Service!ServiceSpec
=============================================================================
