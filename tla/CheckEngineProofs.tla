-------------------------- MODULE CheckEngineProofs --------------------------
(***************************************************************************)
(* CheckInv is inductive, for every number of waiters, checks, crashes and *)
(* rcd restarts; with it, a pre-check's verdict is what the check's own job*)
(* found, the row goes on saying so, and a check fires twice at most.      *)
(*                                                                         *)
(* First what the operators of the steps do to the record of a goroutine,  *)
(* a row and a verdict (At, Saved, Decided).  Then one lemma for each shape*)
(* of step in these terms, one part of CheckInv after the other.  Then the *)
(* actions, each of which has one of these shapes, or two.                 *)
(***************************************************************************)
EXTENDS CheckEngine, TLAPS

ActorRec == [pc : Pc, id : CheckId, copy : Row]

\* What a step does: a goroutine goes on, a row is saved, a pre-check is decided.
At(a, pc, id, copy) ==
    /\ at' \in [Actor -> ActorRec]
    /\ at'[a].pc = pc /\ at'[a].id = id /\ at'[a].copy = copy
    /\ \A b \in Actor : b # a => at'[b] = at[b]

Saved(c, rec) ==
    /\ check' \in [CheckId -> Row]
    /\ check'[c] = rec
    /\ \A d \in CheckId : d # c => check'[d] = check[d]

Decided(w, verdict) ==
    /\ sync' \in [Waiter -> [verdict : Verdict, id : CheckId]]
    /\ sync'[w].verdict = verdict /\ sync'[w].id = sync[w].id
    /\ \A v \in Waiter : v # w => sync'[v] = sync[v]

\* Goes, Stops, Save and Decides do that.
LEMMA SetIs ==
    ASSUME TypeOK, NEW a \in Actor, NEW pc \in Pc, NEW c \in CheckId, NEW copy \in Row,
           at' = [at EXCEPT ![a] = [pc |-> pc, id |-> c, copy |-> copy]]
    PROVE  At(a, pc, c, copy)
<1>1. [pc |-> pc, id |-> c, copy |-> copy] \in ActorRec
  BY DEF ActorRec
<1> QED
  BY <1>1 DEF At, TypeOK, ActorRec

LEMMA GoesIs ==
    ASSUME TypeOK, NEW a \in Actor, NEW pc \in Pc, NEW copy \in Row, Goes(a, pc, copy)
    PROVE  At(a, pc, at[a].id, copy)
<1>1. at \in [Actor -> ActorRec] /\ at[a] \in ActorRec
  BY DEF TypeOK, ActorRec
<1>2. at' = [at EXCEPT ![a] = [[at[a] EXCEPT !.pc = pc] EXCEPT !.copy = copy]]
  BY <1>1 DEF Goes
<1>3. [[at[a] EXCEPT !.pc = pc] EXCEPT !.copy = copy]
      = [pc |-> pc, id |-> at[a].id, copy |-> copy]
  <2>1. [at[a] EXCEPT !.pc = pc] = [pc |-> pc, id |-> at[a].id, copy |-> at[a].copy]
    BY <1>1 DEF ActorRec
  <2>2. [[pc |-> pc, id |-> at[a].id, copy |-> at[a].copy] EXCEPT !.copy = copy]
        = [pc |-> pc, id |-> at[a].id, copy |-> copy]
    OBVIOUS
  <2> QED
    BY <2>1, <2>2, Zenon
<1>4. at' = [at EXCEPT ![a] = [pc |-> pc, id |-> at[a].id, copy |-> copy]]
  BY <1>1, <1>2, <1>3
<1>5. at[a].id \in CheckId
  BY <1>1 DEF ActorRec
<1> QED
  BY <1>4, <1>5, SetIs

LEMMA NoRowIs ==
    /\ NoRow \in Row /\ NoRow.status = "none" /\ NoRow.result = "none"
    /\ ~NoRow.notified
BY DEF NoRow, Row, NoJob

LEMMA StopsIs ==
    ASSUME TypeOK, NEW a \in Actor, Stops(a)
    PROVE  At(a, "idle", 1, NoRow)
<1>1. 1 \in CheckId /\ "idle" \in Pc
  BY CheckAssumption DEF CheckId, Pc
<1>2. at' = [at EXCEPT ![a] = [pc |-> "idle", id |-> 1, copy |-> NoRow]]
  BY DEF Stops, Idle
<1> QED
  BY <1>1, <1>2, NoRowIs, SetIs

LEMMA SaveIs ==
    ASSUME TypeOK, NEW c \in CheckId, NEW rec \in Row, Save(c, rec)
    PROVE  Saved(c, rec)
BY DEF TypeOK, Save, Saved

LEMMA DecidesIs ==
    ASSUME TypeOK, NEW w \in Waiter, NEW verdict \in Verdict, Decides(w, verdict)
    PROVE  Decided(w, verdict)
<1>1. sync[w] \in [verdict : Verdict, id : CheckId]
  BY DEF TypeOK
<1>2. [sync[w] EXCEPT !.verdict = verdict] = [verdict |-> verdict, id |-> sync[w].id]
  BY <1>1
<1>3. sync' = [sync EXCEPT ![w] = [verdict |-> verdict, id |-> sync[w].id]]
  BY <1>2 DEF Decides
<1> QED
  BY <1>1, <1>3 DEF TypeOK, Decided

LEMMA CopyIs ==
    ASSUME TypeOK, NEW a \in Actor
    PROVE  /\ at[a].pc \in Pc /\ at[a].id \in CheckId /\ at[a].copy \in Row
           /\ check[at[a].id] \in Row
BY DEF TypeOK

\* What an assignment to a field leaves of the others.
LEMMA StatusIs ==
    ASSUME NEW rec \in Row, NEW s \in {"pending", "failed", "running", "success"}
    PROVE  LET new == [rec EXCEPT !.status = s]
           IN  /\ new \in Row /\ new.status = s /\ new.result = rec.result
               /\ new.job = rec.job /\ new.notified = rec.notified
BY DEF Row

LEMMA StartedIs ==
    ASSUME NEW rec \in Row, NEW j \in Nat
    PROVE  LET new == [rec EXCEPT !.status = "running", !.job = j]
           IN  /\ new \in Row /\ new.status = "running" /\ new.job = j
               /\ new.result = rec.result
BY DEF Row

LEMMA NotifiedIs ==
    ASSUME NEW rec \in Row, NEW x \in BOOLEAN
    PROVE  LET new == [rec EXCEPT !.notified = x]
           IN  /\ new \in Row /\ new.status = rec.status /\ new.result = rec.result
               /\ new.job = rec.job
BY DEF Row

LEMMA FinishedIs ==
    ASSUME NEW rec \in Row, NEW answer \in Outcome \cup {"gone"}
    PROVE  LET new == Finished(rec, answer)
           IN  /\ new \in Row
               /\ new.status = IF answer = "same" THEN "success" ELSE "failed"
               /\ new.result = IF answer = "gone" THEN rec.result ELSE answer
BY DEF Row, Finished, Outcome

LEMMA JobIs ==
    ASSUME TypeOK
    PROVE  /\ DOMAIN rcd = 1 .. Len(rcd) /\ Len(rcd) \in Nat
           /\ \A j \in DOMAIN rcd :
                /\ rcd[j].check \in CheckId
                /\ rcd[j].state \in {"executing"} \cup Outcome
<1>1. rcd \in Seq(Job)
  BY DEF TypeOK
<1>2. \A j \in 1 .. Len(rcd) : rcd[j] \in Job
  BY <1>1
<1> QED
  BY <1>1, <1>2 DEF Job

LEMMA AnswerIs ==
    ASSUME TypeOK, NEW j
    PROVE  /\ Answer(j) \in {"executing", "gone"} \cup Outcome
           /\ j \in DOMAIN rcd => Answer(j) = rcd[j].state
BY JobIs DEF Answer

LEMMA Typed ==
    ASSUME TypeOK
    PROVE  /\ \A b \in Actor : at[b].id \in CheckId
           /\ \A v \in Waiter : v \in Actor /\ v # Poller /\ sync[v].id \in CheckId
           /\ Poller \in Actor
           /\ lastId \in Nat /\ \A c \in CheckId : c \in Nat
           /\ \A j \in DOMAIN rcd : rcd[j].check \in CheckId
<1>1. Poller \in Actor /\ \A v \in Waiter : v \in Actor /\ v # Poller
  BY CheckAssumption DEF Actor
<1>2. lastId \in Nat /\ \A c \in CheckId : c \in Nat
  BY CheckAssumption DEF TypeOK, CheckId
<1> QED
  BY <1>1, <1>2, JobIs DEF TypeOK

-----------------------------------------------------------------------------
(* The shapes of step *)

\* The rcd was not asked, or refused.
LEMMA StartFailed ==
    ASSUME CheckInv,
           NEW w \in Waiter,
           NEW copy \in Row,
           at[w].pc = "pending",
           At(w, "unstarted", at[w].id, copy),
           copy.status = "failed",
           copy.result = at[w].copy.result,
           UNCHANGED <<check, lastId, rcd, todo, sync, budget, fired, truth>>
    PROVE  CheckInv'
<1>a. TypeOK
  BY DEF CheckInv
<1>t. /\ Poller \in Actor /\ \A b \in Actor : at[b].id \in CheckId
      /\ \A v \in Waiter : v \in Actor /\ v # Poller /\ sync[v].id \in CheckId
      /\ \A j \in DOMAIN rcd : rcd[j].check \in CheckId
  BY <1>a, Typed
<1>1. TypeOK'
  BY <1>t, <1>a DEF TypeOK, At, Saved, Decided, ActorRec
<1>2. Ownership'
  BY <1>t DEF CheckInv, Ownership, Begun, At, Saved, Decided, Actor, Waits, Starts
<1>3. FreshIds'
  BY <1>t DEF CheckInv, FreshIds, At, Saved, Actor
<1>4. Phases'
  BY <1>t DEF CheckInv, Phases, Starts, At, Saved, Actor, Finals
<1>5. Shots'
  BY <1>t DEF WaiterMayFire, Waits, Starts, At, Decided, Actor, PollerMayFire, Saved,
     CheckInv, Shots
<1>6. RcdLives' => Jobs'
  BY <1>t DEF CheckInv, RcdLives, Jobs, JobOf, At, Saved, Actor
<1>7. RcdLives' => Results'
  BY <1>t DEF CheckInv, RcdLives, Results, Sound, Writes, Phases, At, Saved, Actor,
     Ownership, Waits, Decided
<1>8. RcdLives' => Kept'
  BY <1>t DEF CheckInv, RcdLives, Kept, Knows, Follows, Writes, Finals, At, Saved,
     Decided, Actor
<1>9. VerdictIsTrue'
  BY <1>t DEF CheckInv, VerdictIsTrue, RcdLives, At, Decided, Actor
<1> QED
  BY <1>1, <1>2, <1>3, <1>4, <1>5, <1>6, <1>7, <1>8, <1>9 DEF CheckInv, RcdLives

\* A new check, its waiter's alone.
LEMMA Inserted ==
    ASSUME CheckInv,
           NEW w \in Waiter,
           NEW rec \in Row,
           NEW new \in CheckId,
           at[w].pc = "idle",
           new = lastId + 1 /\ lastId' = new,
           rec.status = "pending" /\ rec.result = "none",
           Saved(new, rec),
           At(w, "pending", new, rec),
           sync' \in [Waiter -> [verdict : Verdict, id : CheckId]],
           sync'[w].verdict = "none" /\ sync'[w].id = new,
           \A v \in Waiter : v # w => sync'[v] = sync[v],
           UNCHANGED <<rcd, todo, budget, fired, truth>>
    PROVE  CheckInv'
<1>a. TypeOK
  BY DEF CheckInv
<1>n. lastId \in Nat /\ \A c \in CheckId : c \in Nat
  BY <1>a, Typed
<1>t. /\ Poller \in Actor /\ \A b \in Actor : at[b].id \in CheckId
      /\ \A v \in Waiter : v \in Actor /\ v # Poller /\ sync[v].id \in CheckId
      /\ \A j \in DOMAIN rcd : rcd[j].check \in CheckId
  BY <1>a, Typed
<1>x. /\ new \in Nat /\ lastId < new /\ lastId' \in 0 .. MaxChecks
      /\ \A d \in CheckId : d > lastId' => d > lastId /\ d # new
      /\ \A d \in CheckId : d <= lastId => d <= lastId' /\ d # new
      /\ new <= lastId'
  BY <1>n, CheckAssumption DEF CheckId
<1>y. /\ \A v \in Waiter : Begun(v) => sync[v].id # new
      /\ \A b \in Actor : at[b].pc # "idle" => at[b].id # new
      /\ \A j \in DOMAIN rcd : rcd[j].check # new
      /\ check[new].status = "none" /\ fired[new] = 0 /\ truth[new] = "none" /\ new \notin todo
  BY <1>t, <1>x DEF CheckInv, Ownership, FreshIds
<1>1. TypeOK'
  BY <1>t, <1>a, <1>x DEF TypeOK, At, Saved, Decided, ActorRec
<1>2. Ownership'
  <2>1. (\A v, u \in Waiter : Begun(v) /\ Begun(u) /\ sync[v].id = sync[u].id => v = u)'
    BY <1>t, <1>y DEF CheckInv, Ownership, Begun, At, Saved, Decided, Actor
  <2>2. (\A v \in Waiter : Begun(v) => sync[v].id <= lastId)'
    <3>1. ASSUME NEW v \in Waiter, Begun(v)' PROVE sync'[v].id <= lastId'
      <4>1. CASE v = w
        BY <1>x, <4>1
      <4>2. CASE v # w
        <5>1. Begun(v) /\ sync'[v] = sync[v] /\ sync[v].id \in CheckId
          BY <1>t, <3>1, <4>2 DEF Begun, At
        <5>2. sync[v].id <= lastId
          BY <5>1 DEF CheckInv, Ownership
        <5> QED
          BY <1>x, <5>1, <5>2
      <4> QED
        BY <4>1, <4>2
    <3> QED
      BY <3>1
  <2>3. (\A v \in Waiter : Waits(v) \/ at[v].pc \in {"mark", "resolve"} => at[v].id = sync[v].id)'
    BY <1>t DEF CheckInv, Ownership, Waits, Starts, At, Saved, Decided, Actor
  <2>4. (\A v \in Waiter : sync[v].verdict # "none" => at[v].pc = "idle")'
    BY <1>t DEF CheckInv, Ownership, At, Decided, Actor
  <2> QED
    BY <2>1, <2>2, <2>3, <2>4 DEF Ownership
<1>3. FreshIds'
  <2>1. (\A c \in CheckId : c > lastId =>
           check[c].status = "none" /\ fired[c] = 0 /\ truth[c] = "none" /\ c \notin todo)'
    BY <1>x DEF CheckInv, FreshIds, Saved
  <2>2. (\A b \in Actor : at[b].pc # "idle" => at[b].id <= lastId)'
    <3>1. ASSUME NEW b \in Actor, at'[b].pc # "idle" PROVE at'[b].id <= lastId'
      <4>1. CASE b = w
        BY <1>x, <4>1 DEF At
      <4>2. CASE b # w
        <5>1. at'[b] = at[b] /\ at[b].id \in CheckId
          BY <1>t, <4>2 DEF At
        <5>2. at[b].id <= lastId
          BY <3>1, <5>1 DEF CheckInv, FreshIds
        <5> QED
          BY <1>x, <5>1, <5>2
      <4> QED
        BY <4>1, <4>2
    <3> QED
      BY <3>1
  <2>3. (\A j \in DOMAIN rcd : rcd[j].check <= lastId)'
    BY <1>t, <1>x DEF CheckInv, FreshIds
  <2> QED
    BY <2>1, <2>2, <2>3 DEF FreshIds
<1>4. Phases'
  <2>1. (\A v \in Waiter : Starts(v) =>
         /\ check[at[v].id].status = "pending" /\ at[v].id \notin todo
         /\ \A b \in Actor : at[b].pc # "idle" /\ at[b].id = at[v].id => b = v)'
    <3>1. \A v \in Waiter : v # w => at'[v] = at[v]
      BY <1>t DEF At
    <3>2. \A v \in Waiter : v # w /\ Starts(v)' => Starts(v) /\ at'[v].id = at[v].id
      BY <3>1 DEF Starts
    <3>3. \A b \in Actor : b # w => at'[b] = at[b] /\ (at[b].pc # "idle" => at[b].id # new)
      BY <1>t, <1>y DEF At
    <3>4. at'[w].id = new /\ check'[new].status = "pending" /\ new \notin todo'
      BY <1>y DEF At, Saved
    <3>5. ASSUME NEW v \in Waiter, v # w, Starts(v)'
          PROVE  /\ check'[at'[v].id].status = "pending" /\ at'[v].id \notin todo'
                 /\ \A b \in Actor : at'[b].pc # "idle" /\ at'[b].id = at'[v].id => b = v
      <4>1. Starts(v) /\ at[v].id # new /\ check'[at[v].id] = check[at[v].id]
        BY <1>t, <1>y, <3>2, <3>5 DEF Starts, Saved
      <4> QED
        BY <1>t, <3>2, <3>3, <3>4, <3>5, <4>1 DEF CheckInv, Phases
    <3>6. \A b \in Actor : at'[b].pc # "idle" /\ at'[b].id = at'[w].id => b = w
      BY <3>3, <3>4
    <3> QED
      BY <3>4, <3>5, <3>6
  <2>2. (\A b \in Actor : at[b].pc \in {"notify", "mark", "resolve", "clear"} =>
         check[at[b].id].status \in Finals)'
    <3>1. ASSUME NEW b \in Actor, at'[b].pc \in {"notify", "mark", "resolve", "clear"}
          PROVE  check'[at'[b].id].status \in Finals
      <4>1. b # w
        BY <3>1 DEF At
      <4>2. at'[b] = at[b] /\ at[b].id \in CheckId
        BY <1>t, <4>1 DEF At
      <4>3. at[b].id # new /\ at[b].pc \in {"notify", "mark", "resolve", "clear"}
        BY <1>y, <3>1, <4>2
      <4>4. check'[at[b].id] = check[at[b].id]
        BY <4>2, <4>3 DEF Saved
      <4> QED
        BY <4>2, <4>3, <4>4 DEF CheckInv, Phases
    <3> QED
      BY <3>1 DEF Finals
  <2>3. (\A b \in Actor : at[b].pc \in {"save", "late"} => at[b].copy.status \in Finals)'
    BY <1>t DEF CheckInv, Phases, Finals, At, Actor
  <2>4. (\A b \in Actor : at[b].pc \in {"unstarted", "notify", "mark", "clear"} =>
         at[b].copy.status = "failed")'
    BY <1>t DEF CheckInv, Phases, Finals, At, Actor
  <2>5. (\A b \in Actor :
         /\ at[b].pc = "resolve" => at[b].copy.status = "success"
         /\ at[b].pc = "submitted" => at[b].copy.status = "running"
         /\ at[b].pc \in {"pending", "submitted", "unstarted"} => at[b].copy.result = "none")'
    BY <1>t DEF CheckInv, Phases, Finals, At, Actor
  <2>6. (at[Poller].pc \notin {"pending", "submitted", "unstarted", "late"})'
    BY <1>t DEF CheckInv, Phases, At, Actor
  <2>7. (at[Poller].pc \in {"poll", "save", "notify"} => at[Poller].id \notin todo)'
    BY <1>t DEF CheckInv, Phases, At, Actor
  <2> QED
    BY <2>1, <2>2, <2>3, <2>4, <2>5, <2>6, <2>7 DEF Phases
<1>5. Shots'
  <2>1. \A d \in CheckId : d # new /\ WaiterMayFire(d)' => WaiterMayFire(d)
    BY <1>t DEF WaiterMayFire, Waits, Starts, At, Actor
  <2>2. \A d \in CheckId : d # new /\ PollerMayFire(d)' => PollerMayFire(d)
    BY <1>t DEF PollerMayFire, At, Saved, Actor
  <2> QED
    BY <1>y, <2>1, <2>2 DEF CheckInv, Shots
<1>6. RcdLives' => Jobs'
  BY <1>t, <1>y DEF CheckInv, RcdLives, Jobs, JobOf, At, Saved, Actor
<1>7. RcdLives' => Results'
  <2>1. RcdLives' => (\A c \in CheckId : Sound(c, check[c]))'
    BY <1>t, <1>y DEF CheckInv, RcdLives, Results, Sound, Writes, Phases, At, Saved, Actor
  <2>2. RcdLives' => (\A b \in Actor :
         /\ at[b].pc \in Writes \cup {"resolve"} => Sound(at[b].id, at[b].copy)
         /\ at[b].pc = "save" => at[b].copy.result # "none"
         /\ at[b].pc = "late" => at[b].copy.result = "none")'
    BY <1>t DEF CheckInv, RcdLives, Results, Sound, Writes, Phases, At, Saved, Actor
  <2>3. RcdLives' => (\A v \in Waiter :
         /\ at[v].pc = "clear" => truth[sync[v].id] = "same"
         /\ at[v].pc = "return" =>
              /\ at[v].copy.status = "success" => truth[sync[v].id] = "same"
              /\ at[v].copy.result \in Unsuccessful => truth[sync[v].id] \in Unsuccessful)'
    BY <1>t, <1>y DEF CheckInv, RcdLives, Results, Sound, Writes, Ownership, Waits,
       Phases, At, Saved, Decided, Actor
  <2> QED
    BY <2>1, <2>2, <2>3 DEF Results
<1>8. RcdLives' => Kept'
  <2>1. RcdLives' => (\A v \in Waiter : Knows(v) => check[sync[v].id].status \in Finals)'
    BY <1>t, <1>y DEF CheckInv, RcdLives, Kept, Knows, Follows, Writes, Finals, At,
       Saved, Decided, Actor, Begun
  <2>2. RcdLives' => (\A v \in Waiter : Follows(v) \/ Knows(v) =>
         (check[sync[v].id].status \in Finals => check[sync[v].id].result # "none"))'
    <3>1. \A v \in Waiter : v # w /\ (Follows(v) \/ Knows(v))' =>
            sync'[v].id = sync[v].id /\ sync[v].id # new /\ (Follows(v) \/ Knows(v))
      BY <1>t, <1>y DEF Follows, Knows, Begun, At
    <3>2. sync'[w].id = new /\ check'[new].status \notin Finals
      BY DEF Saved, Finals
    <3>3. \A d \in CheckId : d # new => check'[d] = check[d]
      BY DEF Saved
    <3> QED
      BY <1>t, <3>1, <3>2, <3>3 DEF CheckInv, RcdLives, Kept
  <2>3. RcdLives' => (\A v \in Waiter : Follows(v) \/ Knows(v) =>
         \A b \in Actor :
            at[b].pc \in Writes /\ at[b].id = sync[v].id => at[b].copy.result # "none")'
    BY <1>t, <1>y DEF CheckInv, RcdLives, Kept, Knows, Follows, Writes, At, Saved,
       Decided, Actor, Begun
  <2> QED
    BY <2>1, <2>2, <2>3 DEF Kept
<1>9. VerdictIsTrue'
  BY <1>t, <1>y DEF CheckInv, VerdictIsTrue, RcdLives, At, Decided, Actor
<1> QED
  BY <1>1, <1>2, <1>3, <1>4, <1>5, <1>6, <1>7, <1>8, <1>9 DEF CheckInv, RcdLives

\* The rcd has started the job; its answer got through, or not.
LEMMA Submitted ==
    ASSUME CheckInv,
           NEW w \in Waiter,
           NEW copy \in Row,
           NEW n,
           at[w].pc = "pending",
           rcd' \in Seq(Job),
           n \notin DOMAIN rcd /\ DOMAIN rcd' = DOMAIN rcd \cup {n},
           \A j \in DOMAIN rcd : rcd'[j] = rcd[j],
           rcd'[n].check = at[w].id /\ rcd'[n].state = "executing",
           \/ At(w, "submitted", at[w].id, copy) /\ copy.status = "running" /\ copy.job = n
           \/ At(w, "unstarted", at[w].id, copy) /\ copy.status = "failed",
           copy.result = at[w].copy.result,
           UNCHANGED <<check, lastId, todo, sync, budget, fired, truth>>
    PROVE  CheckInv'
<1>a. TypeOK
  BY DEF CheckInv
<1>n. lastId \in Nat /\ \A c \in CheckId : c \in Nat
  BY <1>a, Typed
<1>t. /\ Poller \in Actor /\ \A b \in Actor : at[b].id \in CheckId
      /\ \A v \in Waiter : v \in Actor /\ v # Poller /\ sync[v].id \in CheckId
      /\ \A j \in DOMAIN rcd : rcd[j].check \in CheckId
  BY <1>a, Typed
<1>x. at[w].id <= lastId
  BY <1>t, <1>n DEF CheckInv, FreshIds
<1>1. TypeOK'
  BY <1>t, <1>x, <1>a DEF TypeOK, At, Saved, Decided, ActorRec
<1>2. Ownership'
  BY <1>t, <1>x DEF CheckInv, Ownership, Begun, At, Saved, Decided, Actor, Waits, Starts
<1>3. FreshIds'
  BY <1>t, <1>x DEF CheckInv, FreshIds, At, Saved, Actor
<1>4. Phases'
  BY <1>t, <1>x DEF CheckInv, Phases, Starts, At, Saved, Actor, Finals
<1>5. Shots'
  BY <1>t, <1>x DEF WaiterMayFire, Waits, Starts, At, Decided, Actor, PollerMayFire,
     Saved, CheckInv, Shots
<1>6. RcdLives' => Jobs'
  <2> SUFFICES ASSUME RcdLives'
               PROVE  Jobs'
    OBVIOUS
  <2>1. Jobs
    BY DEF CheckInv, RcdLives
  <2>2. /\ truth[at[w].id] = "none" /\ \A j \in DOMAIN rcd : rcd[j].check # at[w].id
        /\ \A v \in Waiter : v # w /\ at[v].pc # "idle" => at[v].id # at[w].id
    BY <1>t, <2>1 DEF CheckInv, Jobs, Phases, Starts
  <2>3. \A j \in DOMAIN rcd : rcd'[j].check = rcd[j].check /\ rcd'[j].state = rcd[j].state
    OBVIOUS
  <2>4. (\A i, j \in DOMAIN rcd : rcd[i].check = rcd[j].check => i = j)'
    BY <2>1, <2>2, <2>3 DEF Jobs
  <2>5. (\A j \in DOMAIN rcd :
           truth[rcd[j].check] = IF rcd[j].state = "executing" THEN "none" ELSE rcd[j].state)'
    BY <2>1, <2>2, <2>3 DEF Jobs
  <2>6. (\A v \in Waiter :
           /\ at[v].pc = "pending" =>
                truth[at[v].id] = "none" /\ \A j \in DOMAIN rcd : rcd[j].check # at[v].id
           /\ at[v].pc = "submitted" => JobOf(at[v].id, at[v].copy.job))'
    <3>1. (at[w].pc = "submitted" => JobOf(at[w].id, at[w].copy.job))' /\ at'[w].pc # "pending"
      BY DEF JobOf, At
    <3>2. \A v \in Waiter : v # w => at'[v] = at[v]
      BY <1>t DEF At
    <3> QED
      BY <2>1, <2>2, <2>3, <3>1, <3>2 DEF Jobs, JobOf
  <2>7. (\A c \in CheckId : check[c].status = "running" => JobOf(c, check[c].job))'
    BY <2>1, <2>3 DEF Jobs, JobOf
  <2> QED
    BY <2>4, <2>5, <2>6, <2>7 DEF Jobs
<1>7. RcdLives' => Results'
  BY <1>t, <1>x DEF CheckInv, RcdLives, Results, Sound, Writes, Phases, At, Saved,
     Actor, Ownership, Waits, Decided, Unsuccessful
<1>8. RcdLives' => Kept'
  BY <1>t, <1>x DEF CheckInv, RcdLives, Kept, Knows, Follows, Writes, Finals, At,
     Saved, Decided, Actor
<1>9. VerdictIsTrue'
  BY <1>t, <1>x DEF CheckInv, VerdictIsTrue, RcdLives, At, Decided, Actor, Unsuccessful
<1> QED
  BY <1>1, <1>2, <1>3, <1>4, <1>5, <1>6, <1>7, <1>8, <1>9 DEF CheckInv, RcdLives

\* RunCheck has saved what became of the submission.
LEMMA StartSaved ==
    ASSUME CheckInv,
           NEW w \in Waiter,
           at[w].pc \in {"submitted", "unstarted"},
           Saved(at[w].id, at[w].copy),
           At(w, IF at[w].pc = "submitted" THEN "poll" ELSE "notify", at[w].id, at[w].copy),
           UNCHANGED <<lastId, rcd, todo, sync, budget, fired, truth>>
    PROVE  CheckInv'
<1>a. TypeOK
  BY DEF CheckInv
<1>n. lastId \in Nat /\ \A c \in CheckId : c \in Nat
  BY <1>a, Typed
<1>t. /\ Poller \in Actor /\ \A b \in Actor : at[b].id \in CheckId
      /\ \A v \in Waiter : v \in Actor /\ v # Poller /\ sync[v].id \in CheckId
      /\ \A j \in DOMAIN rcd : rcd[j].check \in CheckId
  BY <1>a, Typed
<1>x. /\ check[at[w].id].status = "pending" /\ at[w].id \notin todo /\ at[w].id <= lastId
      /\ \A b \in Actor : at[b].pc # "idle" /\ at[b].id = at[w].id => b = w
      /\ at[w].id = sync[w].id
      /\ \A v \in Waiter : v # w /\ Begun(v) => sync[v].id # at[w].id
      /\ at[w].copy.status = IF at[w].pc = "submitted" THEN "running" ELSE "failed"
      /\ at[w].copy.result = "none"
  BY <1>t, <1>n DEF CheckInv, FreshIds, Phases, Ownership, Waits, Starts, Begun
<1>1. TypeOK'
  BY <1>t, <1>x, <1>a DEF TypeOK, At, Saved, Decided, ActorRec
<1>2. Ownership'
  BY <1>t, <1>x DEF CheckInv, Ownership, Begun, At, Saved, Decided, Actor, Waits, Starts
<1>3. FreshIds'
  BY <1>t, <1>x DEF CheckInv, FreshIds, At, Saved, Actor
<1>4. Phases'
  BY <1>t, <1>x DEF CheckInv, Phases, Starts, At, Saved, Actor, Finals
<1>5. Shots'
  BY <1>t, <1>x DEF WaiterMayFire, Waits, Starts, At, Decided, Actor, PollerMayFire,
     Saved, CheckInv, Shots
<1>6. RcdLives' => Jobs'
  BY <1>t, <1>x DEF CheckInv, RcdLives, Jobs, JobOf, At, Saved, Actor
<1>7. RcdLives' => Results'
  BY <1>t, <1>x DEF CheckInv, RcdLives, Results, Sound, Writes, Phases, At, Saved,
     Actor, Ownership, Waits, Decided, Unsuccessful
<1>8. RcdLives' => Kept'
  BY <1>t, <1>x DEF CheckInv, RcdLives, Kept, Knows, Follows, Writes, Finals, At,
     Saved, Decided, Actor, Begun
<1>9. VerdictIsTrue'
  BY <1>t, <1>x DEF CheckInv, VerdictIsTrue, RcdLives, At, Decided, Actor, Unsuccessful
<1> QED
  BY <1>1, <1>2, <1>3, <1>4, <1>5, <1>6, <1>7, <1>8, <1>9 DEF CheckInv, RcdLives

\* A goroutine ends; a waiter's pre-check is decided.
LEMMA LetGo ==
    ASSUME CheckInv,
           NEW a \in Actor,
           NEW verdict \in Verdict,
           at[a].pc \in {"submitted", "unstarted", "poll", "save", "late", "return"},
           At(a, "idle", 1, NoRow),
           IF a = Poller THEN UNCHANGED sync ELSE Decided(a, verdict),
           verdict # "none",
           verdict = "synced" => at[a].pc = "return" /\ at[a].copy.status # "running"
                                 /\ at[a].copy.result \in Unsuccessful,
           verdict = "skipped" => at[a].pc = "return" /\ at[a].copy.status = "success",
           UNCHANGED <<check, lastId, rcd, todo, budget, fired, truth>>
    PROVE  CheckInv'
<1>a. TypeOK
  BY DEF CheckInv
<1>t. /\ Poller \in Actor /\ \A b \in Actor : at[b].id \in CheckId
      /\ \A v \in Waiter : v \in Actor /\ v # Poller /\ sync[v].id \in CheckId
      /\ \A j \in DOMAIN rcd : rcd[j].check \in CheckId
  BY <1>a, Typed
<1>x. \A v \in Waiter : /\ sync'[v].id = sync[v].id
                        /\ Knows(v)' => Knows(v)
                        /\ Follows(v)' => Follows(v)
  BY <1>t DEF Knows, Follows, At, Decided, Actor, Unsuccessful
<1>1. TypeOK'
  BY <1>t, <1>x, <1>a DEF TypeOK, At, Saved, Decided, ActorRec
<1>2. Ownership'
  BY <1>t, <1>x DEF CheckInv, Ownership, Begun, At, Saved, Decided, Actor, Waits, Starts
<1>3. FreshIds'
  BY <1>t, <1>x DEF CheckInv, FreshIds, At, Saved, Actor
<1>4. Phases'
  BY <1>t, <1>x DEF CheckInv, Phases, Starts, At, Saved, Actor, Finals
<1>5. Shots'
  BY <1>t, <1>x DEF WaiterMayFire, Waits, Starts, At, Decided, Actor, PollerMayFire,
     Saved, CheckInv, Shots
<1>6. RcdLives' => Jobs'
  BY <1>t, <1>x DEF CheckInv, RcdLives, Jobs, JobOf, At, Saved, Actor
<1>7. RcdLives' => Results'
  BY <1>t, <1>x DEF CheckInv, RcdLives, Results, Sound, Writes, Phases, At, Saved,
     Actor, Ownership, Waits, Decided, Unsuccessful
<1>8. RcdLives' => Kept'
  BY <1>t, <1>x DEF CheckInv, RcdLives, Kept, Knows, Follows, Writes, Finals, At,
     Saved, Decided, Actor
<1>9. VerdictIsTrue'
  BY <1>t, <1>x DEF CheckInv, VerdictIsTrue, RcdLives, At, Decided, Actor, Results
<1> QED
  BY <1>1, <1>2, <1>3, <1>4, <1>5, <1>6, <1>7, <1>8, <1>9 DEF CheckInv, RcdLives

\* The poll job lists the running checks.
LEMMA Listed ==
    ASSUME CheckInv,
           at[Poller].pc = "idle" /\ todo = {},
           todo' = {c \in CheckId : check[c].status = "running"},
           UNCHANGED <<check, lastId, rcd, at, sync, budget, fired, truth>>
    PROVE  CheckInv'
<1>a. TypeOK
  BY DEF CheckInv
<1>t. /\ Poller \in Actor /\ \A b \in Actor : at[b].id \in CheckId
      /\ \A v \in Waiter : v \in Actor /\ v # Poller /\ sync[v].id \in CheckId
      /\ \A j \in DOMAIN rcd : rcd[j].check \in CheckId
  BY <1>a, Typed
<1>1. TypeOK'
  BY <1>t, <1>a DEF TypeOK, At, Saved, Decided, ActorRec
<1>2. Ownership'
  BY <1>t DEF CheckInv, Ownership, Begun, At, Saved, Decided, Actor, Waits, Starts
<1>3. FreshIds'
  BY <1>t DEF CheckInv, FreshIds, At, Saved, Actor
<1>4. Phases'
  BY <1>t DEF CheckInv, Phases, Starts, At, Saved, Actor, Finals
<1>5. Shots'
  BY <1>t DEF WaiterMayFire, Waits, Starts, At, Decided, Actor, PollerMayFire, Saved,
     CheckInv, Shots
<1>6. RcdLives' => Jobs'
  BY <1>t DEF CheckInv, RcdLives, Jobs, JobOf, At, Saved, Actor
<1>7. RcdLives' => Results'
  BY <1>t DEF CheckInv, RcdLives, Results, Sound, Writes, Phases, At, Saved, Actor,
     Ownership, Waits, Decided
<1>8. RcdLives' => Kept'
  BY <1>t DEF CheckInv, RcdLives, Kept, Knows, Follows, Writes, Finals, At, Saved,
     Decided, Actor
<1>9. VerdictIsTrue'
  BY <1>t DEF CheckInv, VerdictIsTrue, RcdLives, At, Decided, Actor
<1> QED
  BY <1>1, <1>2, <1>3, <1>4, <1>5, <1>6, <1>7, <1>8, <1>9 DEF CheckInv, RcdLives

\* The poll job takes one of them.
LEMMA Taken ==
    ASSUME CheckInv,
           NEW next \in CheckId,
           at[Poller].pc = "idle" /\ next \in todo,
           todo' = todo \ {next},
           At(Poller, "poll", next, NoRow),
           UNCHANGED <<check, lastId, rcd, sync, budget, fired, truth>>
    PROVE  CheckInv'
<1>a. TypeOK
  BY DEF CheckInv
<1>n. lastId \in Nat /\ \A c \in CheckId : c \in Nat
  BY <1>a, Typed
<1>t. /\ Poller \in Actor /\ \A b \in Actor : at[b].id \in CheckId
      /\ \A v \in Waiter : v \in Actor /\ v # Poller /\ sync[v].id \in CheckId
      /\ \A j \in DOMAIN rcd : rcd[j].check \in CheckId
  BY <1>a, Typed
<1>x. next <= lastId /\ \A v \in Waiter : at'[v] = at[v]
  BY <1>t, <1>n DEF CheckInv, FreshIds, At
<1>1. TypeOK'
  BY <1>t, <1>x, <1>a DEF TypeOK, At, Saved, Decided, ActorRec
<1>2. Ownership'
  BY <1>t, <1>x DEF CheckInv, Ownership, Begun, At, Saved, Decided, Actor, Waits, Starts
<1>3. FreshIds'
  BY <1>t, <1>x DEF CheckInv, FreshIds, At, Saved, Actor
<1>4. Phases'
  BY <1>t, <1>x DEF CheckInv, Phases, Starts, At, Saved, Actor, Finals
<1>5. Shots'
  BY <1>t, <1>x DEF WaiterMayFire, Waits, Starts, At, Decided, Actor, PollerMayFire,
     Saved, CheckInv, Shots
<1>6. RcdLives' => Jobs'
  BY <1>t, <1>x DEF CheckInv, RcdLives, Jobs, JobOf, At, Saved, Actor
<1>7. RcdLives' => Results'
  BY <1>t, <1>x DEF CheckInv, RcdLives, Results, Sound, Writes, Phases, At, Saved,
     Actor, Ownership, Waits, Decided, Unsuccessful
<1>8. RcdLives' => Kept'
  BY <1>t, <1>x DEF CheckInv, RcdLives, Kept, Knows, Follows, Writes, Finals, At,
     Saved, Decided, Actor
<1>9. VerdictIsTrue'
  BY <1>t, <1>x DEF CheckInv, VerdictIsTrue, RcdLives, At, Decided, Actor, Unsuccessful
<1> QED
  BY <1>1, <1>2, <1>3, <1>4, <1>5, <1>6, <1>7, <1>8, <1>9 DEF CheckInv, RcdLives

\* A poll that only reads the row.
LEMMA Read ==
    ASSUME CheckInv,
           NEW a \in Actor,
           at[a].pc = "poll",
           At(a, "return", at[a].id, check[at[a].id]),
           UNCHANGED <<check, lastId, rcd, todo, sync, budget, fired, truth>>
    PROVE  CheckInv'
<1>a. TypeOK
  BY DEF CheckInv
<1>t. /\ Poller \in Actor /\ \A b \in Actor : at[b].id \in CheckId
      /\ \A v \in Waiter : v \in Actor /\ v # Poller /\ sync[v].id \in CheckId
      /\ \A j \in DOMAIN rcd : rcd[j].check \in CheckId
  BY <1>a, Typed
<1>x. /\ a \in Waiter => at[a].id = sync[a].id
      /\ RcdLives => Sound(at[a].id, check[at[a].id])
  BY <1>t DEF CheckInv, Ownership, Waits, Results
<1>1. TypeOK'
  BY <1>t, <1>x, <1>a DEF TypeOK, At, Saved, Decided, ActorRec
<1>2. Ownership'
  BY <1>t, <1>x DEF CheckInv, Ownership, Begun, At, Saved, Decided, Actor, Waits, Starts
<1>3. FreshIds'
  BY <1>t, <1>x DEF CheckInv, FreshIds, At, Saved, Actor
<1>4. Phases'
  BY <1>t, <1>x DEF CheckInv, Phases, Starts, At, Saved, Actor, Finals
<1>5. Shots'
  BY <1>t, <1>x DEF WaiterMayFire, Waits, Starts, At, Decided, Actor, PollerMayFire,
     Saved, CheckInv, Shots
<1>6. RcdLives' => Jobs'
  BY <1>t, <1>x DEF CheckInv, RcdLives, Jobs, JobOf, At, Saved, Actor
<1>7. RcdLives' => Results'
  BY <1>t, <1>x DEF CheckInv, RcdLives, Results, Sound, Writes, Phases, At, Saved,
     Actor, Ownership, Waits, Decided, Unsuccessful
<1>8. RcdLives' => Kept'
  BY <1>t, <1>x DEF CheckInv, RcdLives, Kept, Knows, Follows, Writes, Finals, At,
     Saved, Decided, Actor, Sound, Results
<1>9. VerdictIsTrue'
  BY <1>t, <1>x DEF CheckInv, VerdictIsTrue, RcdLives, At, Decided, Actor, Unsuccessful
<1> QED
  BY <1>1, <1>2, <1>3, <1>4, <1>5, <1>6, <1>7, <1>8, <1>9 DEF CheckInv, RcdLives

\* A poll whose job has ended, or is gone.
LEMMA Answered ==
    ASSUME CheckInv,
           NEW a \in Actor,
           NEW copy \in Row,
           NEW answer \in Outcome \cup {"gone"},
           at[a].pc = "poll" /\ check[at[a].id].status = "running",
           LET j == check[at[a].id].job IN j \in DOMAIN rcd => answer = rcd[j].state,
           At(a, "save", at[a].id, copy),
           copy.status = IF answer = "same" THEN "success" ELSE "failed",
           copy.result = IF answer = "gone" THEN check[at[a].id].result ELSE answer,
           UNCHANGED <<check, lastId, rcd, todo, sync, budget, fired, truth>>
    PROVE  CheckInv'
<1>a. TypeOK
  BY DEF CheckInv
<1>t. /\ Poller \in Actor /\ \A b \in Actor : at[b].id \in CheckId
      /\ \A v \in Waiter : v \in Actor /\ v # Poller /\ sync[v].id \in CheckId
      /\ \A j \in DOMAIN rcd : rcd[j].check \in CheckId
  BY <1>a, Typed
<1>x. RcdLives => truth[at[a].id] = answer /\ answer \in Outcome
  BY <1>t, <1>a, JobIs DEF CheckInv, Jobs, JobOf, Outcome
<1>1. TypeOK'
  BY <1>t, <1>x, <1>a DEF TypeOK, At, Saved, Decided, ActorRec
<1>2. Ownership'
  BY <1>t, <1>x DEF CheckInv, Ownership, Begun, At, Saved, Decided, Actor, Waits, Starts
<1>3. FreshIds'
  BY <1>t, <1>x DEF CheckInv, FreshIds, At, Saved, Actor
<1>4. Phases'
  BY <1>t, <1>x DEF CheckInv, Phases, Starts, At, Saved, Actor, Finals
<1>5. Shots'
  BY <1>t, <1>x DEF WaiterMayFire, Waits, Starts, At, Decided, Actor, PollerMayFire,
     Saved, CheckInv, Shots
<1>6. RcdLives' => Jobs'
  BY <1>t, <1>x DEF CheckInv, RcdLives, Jobs, JobOf, At, Saved, Actor
<1>7. RcdLives' => Results'
  <2>1. RcdLives' => (\A c \in CheckId : Sound(c, check[c]))'
    BY <1>t, <1>x DEF CheckInv, RcdLives, Results, Sound, Writes, Phases, At, Saved, Actor
  <2>2. RcdLives' => (\A b \in Actor :
         /\ at[b].pc \in Writes \cup {"resolve"} => Sound(at[b].id, at[b].copy)
         /\ at[b].pc = "save" => at[b].copy.result # "none"
         /\ at[b].pc = "late" => at[b].copy.result = "none")'
    <3>1. RcdLives => copy.result = answer /\ answer # "none" /\ Sound(at[a].id, copy)
      BY <1>x DEF Sound, Outcome, Finals
    <3> QED
      BY <1>t, <3>1 DEF CheckInv, RcdLives, Results, Sound, Writes, At
  <2>3. RcdLives' => (\A v \in Waiter :
         /\ at[v].pc = "clear" => truth[sync[v].id] = "same"
         /\ at[v].pc = "return" =>
              /\ at[v].copy.status = "success" => truth[sync[v].id] = "same"
              /\ at[v].copy.result \in Unsuccessful => truth[sync[v].id] \in Unsuccessful)'
    BY <1>t, <1>x DEF CheckInv, RcdLives, Results, Sound, Writes, Ownership, Waits,
       Phases, At, Saved, Decided, Actor
  <2> QED
    BY <2>1, <2>2, <2>3 DEF Results
<1>8. RcdLives' => Kept'
  BY <1>t, <1>x DEF CheckInv, RcdLives, Kept, Knows, Follows, Writes, Finals, At,
     Saved, Decided, Actor, Outcome
<1>9. VerdictIsTrue'
  BY <1>t, <1>x DEF CheckInv, VerdictIsTrue, RcdLives, At, Decided, Actor, Unsuccessful
<1> QED
  BY <1>1, <1>2, <1>3, <1>4, <1>5, <1>6, <1>7, <1>8, <1>9 DEF CheckInv, RcdLives

\* The end of a check is saved.
LEMMA EndSaved ==
    ASSUME CheckInv,
           NEW a \in Actor,
           at[a].pc \in {"save", "late"},
           Saved(at[a].id, at[a].copy),
           At(a, IF at[a].copy.status = "failed" THEN "notify" ELSE "resolve",
              at[a].id, at[a].copy),
           UNCHANGED <<lastId, rcd, todo, sync, budget, fired, truth>>
    PROVE  CheckInv'
<1>a. TypeOK
  BY DEF CheckInv
<1>n. lastId \in Nat /\ \A c \in CheckId : c \in Nat
  BY <1>a, Typed
<1>t. /\ Poller \in Actor /\ \A b \in Actor : at[b].id \in CheckId
      /\ \A v \in Waiter : v \in Actor /\ v # Poller /\ sync[v].id \in CheckId
      /\ \A j \in DOMAIN rcd : rcd[j].check \in CheckId
  BY <1>a, Typed
<1>x. /\ at[a].copy.status \in Finals /\ at[a].id <= lastId
      /\ \A v \in Waiter : Starts(v) => at[v].id # at[a].id
      /\ a \in Waiter => at[a].id = sync[a].id
      /\ RcdLives => Sound(at[a].id, at[a].copy)
      /\ RcdLives /\ at[a].pc = "late" => at[a].copy.result = "none"
      /\ a = Poller => at[a].pc = "save"
  BY <1>t, <1>n DEF CheckInv, FreshIds, Phases, Ownership, Waits, Starts, Results, Writes
<1>1. TypeOK'
  BY <1>t, <1>x, <1>a DEF TypeOK, At, Saved, Decided, ActorRec
<1>2. Ownership'
  BY <1>t, <1>x DEF CheckInv, Ownership, Begun, At, Saved, Decided, Actor, Waits, Starts
<1>3. FreshIds'
  BY <1>t, <1>x, <1>n DEF CheckInv, FreshIds, At, Saved, Actor
<1>4. Phases'
  BY <1>t, <1>x DEF CheckInv, Phases, Starts, At, Saved, Actor, Finals
<1>5. Shots'
  BY <1>t, <1>x DEF WaiterMayFire, Waits, Starts, At, Decided, Actor, PollerMayFire,
     Saved, Finals, CheckInv, Shots
<1>6. RcdLives' => Jobs'
  BY <1>t, <1>x DEF CheckInv, RcdLives, Jobs, JobOf, At, Saved, Actor, Finals
<1>7. RcdLives' => Results'
  BY <1>t, <1>x DEF CheckInv, RcdLives, Results, Sound, Writes, Phases, At, Saved,
     Actor, Ownership, Waits, Decided, Unsuccessful
<1>8. RcdLives' => Kept'
  <2>1. RcdLives' => (\A v \in Waiter : Knows(v) => check[sync[v].id].status \in Finals)'
    BY <1>t, <1>x DEF CheckInv, RcdLives, Kept, Knows, Follows, Writes, Finals, At,
       Saved, Decided, Actor, Results, Sound
  <2>2. RcdLives' => (\A v \in Waiter : Follows(v) \/ Knows(v) =>
         (check[sync[v].id].status \in Finals => check[sync[v].id].result # "none"))'
    BY <1>t, <1>x DEF CheckInv, RcdLives, Kept, Knows, Follows, Writes, Finals, At,
       Saved, Decided, Actor, Results, Sound
  <2>3. RcdLives' => (\A v \in Waiter : Follows(v) \/ Knows(v) =>
         \A b \in Actor :
            at[b].pc \in Writes /\ at[b].id = sync[v].id => at[b].copy.result # "none")'
    <3> SUFFICES ASSUME RcdLives', NEW v \in Waiter, (Follows(v) \/ Knows(v))', NEW b \in Actor,
                        at'[b].pc \in Writes, at'[b].id = sync'[v].id
                 PROVE  at'[b].copy.result # "none"
      OBVIOUS
    <3>1. CASE Follows(v) \/ Knows(v)
      <4>1. CASE b = a
        BY <1>t, <3>1, <4>1 DEF CheckInv, RcdLives, Kept, Writes, At
      <4>2. CASE b # a
        BY <1>t, <3>1, <4>2 DEF CheckInv, RcdLives, Kept, At
      <4> QED
        BY <4>1, <4>2
    <3>2. CASE v = a /\ at[a].pc = "late"
      BY <1>t, <1>x, <3>2 DEF RcdLives, Sound, Knows, Follows, Finals, At
    <3>3. v # a \/ at[a].pc = "late" \/ Follows(v)
      BY DEF Follows
    <3>4. v # a => Follows(v) \/ Knows(v)
      BY <1>t DEF Follows, Knows, At
    <3> QED
      BY <3>1, <3>2, <3>3, <3>4
  <2> QED
    BY <2>1, <2>2, <2>3 DEF Kept
<1>9. VerdictIsTrue'
  BY <1>t, <1>x DEF CheckInv, VerdictIsTrue, RcdLives, At, Decided, Actor, Unsuccessful
<1> QED
  BY <1>1, <1>2, <1>3, <1>4, <1>5, <1>6, <1>7, <1>8, <1>9 DEF CheckInv, RcdLives

\* A failed check fires.
LEMMA Fired ==
    ASSUME CheckInv,
           NEW a \in Actor,
           NEW copy \in Row,
           at[a].pc = "notify",
           At(a, "mark", at[a].id, copy),
           copy.status = at[a].copy.status /\ copy.result = at[a].copy.result,
           fired' \in [CheckId -> Nat] /\ fired'[at[a].id] = fired[at[a].id] + 1,
           \A c \in CheckId : c # at[a].id => fired'[c] = fired[c],
           UNCHANGED <<check, lastId, rcd, todo, sync, budget, truth>>
    PROVE  CheckInv'
<1>a. TypeOK
  BY DEF CheckInv
<1>n. lastId \in Nat /\ \A c \in CheckId : c \in Nat
  BY <1>a, Typed
<1>t. /\ Poller \in Actor /\ \A b \in Actor : at[b].id \in CheckId
      /\ \A v \in Waiter : v \in Actor /\ v # Poller /\ sync[v].id \in CheckId
      /\ \A j \in DOMAIN rcd : rcd[j].check \in CheckId
  BY <1>a, Typed
<1>x. at[a].id <= lastId /\ check[at[a].id].status \in Finals
  BY <1>t, <1>n DEF CheckInv, FreshIds, Phases
<1>y. \A c \in CheckId : c = at[a].id =>
         IF a = Poller THEN PollerMayFire(c) /\ ~PollerMayFire(c)'
                       ELSE WaiterMayFire(c) /\ ~WaiterMayFire(c)'
  <2> TAKE c \in CheckId
  <2> HAVE c = at[a].id
  <2>1. CASE a = Poller
    BY <1>t, <1>x, <2>1 DEF CheckInv, Phases, PollerMayFire, At, Finals
  <2>2. CASE a \in Waiter
    <3>1. c = sync[a].id /\ Waits(a) /\ Begun(a)
      BY <1>t, <2>2 DEF CheckInv, Ownership, Waits, Begun
    <3>2. ~Waits(a)'
      BY <2>2 DEF Waits, Starts, At
    <3>3. \A v \in Waiter : v # a /\ Waits(v)' => sync'[v].id # c
      <4>1. \A v \in Waiter : v # a /\ Waits(v)' => Begun(v)
        BY <1>t DEF Waits, Starts, Begun, At
      <4> QED
        BY <2>2, <3>1, <4>1 DEF CheckInv, Ownership
    <3> QED
      BY <1>t, <2>2, <3>1, <3>2, <3>3 DEF WaiterMayFire
  <2> QED
    BY <2>1, <2>2 DEF Actor
<1>1. TypeOK'
  BY <1>t, <1>x, <1>a DEF TypeOK, At, Saved, Decided, ActorRec
<1>2. Ownership'
  BY <1>t, <1>x DEF CheckInv, Ownership, Begun, At, Saved, Decided, Actor, Waits, Starts
<1>3. FreshIds'
  BY <1>t, <1>x, <1>n DEF CheckInv, FreshIds, At, Saved, Actor
<1>4. Phases'
  BY <1>t, <1>x DEF CheckInv, Phases, Starts, At, Saved, Actor, Finals
<1>5. Shots'
  <2>1. \A c \in CheckId : WaiterMayFire(c)' => WaiterMayFire(c)
    BY <1>t DEF WaiterMayFire, Waits, Starts, At, Actor
  <2>2. \A c \in CheckId : PollerMayFire(c)' => PollerMayFire(c)
    BY <1>t DEF PollerMayFire, At, Actor
  <2>3. \A c \in CheckId : fired[c] \in Nat
    BY <1>a DEF TypeOK
  <2>4. ASSUME NEW c \in CheckId
        PROVE  /\ fired'[c] <= 2
               /\ WaiterMayFire(c)' \/ PollerMayFire(c)' => fired'[c] <= 1
               /\ WaiterMayFire(c)' /\ PollerMayFire(c)' => fired'[c] = 0
    <3>1. CASE c = at[a].id
      BY <1>y, <2>1, <2>2, <2>3, <3>1 DEF CheckInv, Shots
    <3>2. CASE c # at[a].id
      BY <2>1, <2>2, <3>2 DEF CheckInv, Shots
    <3> QED
      BY <3>1, <3>2
  <2> QED
    BY <2>4 DEF Shots
<1>6. RcdLives' => Jobs'
  BY <1>t, <1>x DEF CheckInv, RcdLives, Jobs, JobOf, At, Saved, Actor
<1>7. RcdLives' => Results'
  BY <1>t, <1>x DEF CheckInv, RcdLives, Results, Sound, Writes, Phases, At, Saved,
     Actor, Ownership, Waits, Decided, Unsuccessful
<1>8. RcdLives' => Kept'
  BY <1>t, <1>x DEF CheckInv, RcdLives, Kept, Knows, Follows, Writes, Finals, At,
     Saved, Decided, Actor
<1>9. VerdictIsTrue'
  BY <1>t, <1>x DEF CheckInv, VerdictIsTrue, RcdLives, At, Decided, Actor, Unsuccessful
<1> QED
  BY <1>1, <1>2, <1>3, <1>4, <1>5, <1>6, <1>7, <1>8, <1>9 DEF CheckInv, RcdLives

\* A poll is over without a write.
LEMMA Returned ==
    ASSUME CheckInv,
           NEW a \in Actor,
           at[a].pc \in {"notify", "mark", "resolve"},
           At(a, "return", at[a].id, at[a].copy),
           UNCHANGED <<check, lastId, rcd, todo, sync, budget, fired, truth>>
    PROVE  CheckInv'
<1>a. TypeOK
  BY DEF CheckInv
<1>t. /\ Poller \in Actor /\ \A b \in Actor : at[b].id \in CheckId
      /\ \A v \in Waiter : v \in Actor /\ v # Poller /\ sync[v].id \in CheckId
      /\ \A j \in DOMAIN rcd : rcd[j].check \in CheckId
  BY <1>a, Typed
<1>x. at[a].copy.status # "running"
  BY DEF CheckInv, Phases
<1>1. TypeOK'
  BY <1>t, <1>x, <1>a DEF TypeOK, At, Saved, Decided, ActorRec
<1>2. Ownership'
  BY <1>t, <1>x DEF CheckInv, Ownership, Begun, At, Saved, Decided, Actor, Waits, Starts
<1>3. FreshIds'
  BY <1>t, <1>x DEF CheckInv, FreshIds, At, Saved, Actor
<1>4. Phases'
  BY <1>t, <1>x DEF CheckInv, Phases, Starts, At, Saved, Actor, Finals
<1>5. Shots'
  BY <1>t, <1>x DEF WaiterMayFire, Waits, Starts, At, Decided, Actor, CheckInv, Phases,
     PollerMayFire, Saved, Shots
<1>6. RcdLives' => Jobs'
  BY <1>t, <1>x DEF CheckInv, RcdLives, Jobs, JobOf, At, Saved, Actor
<1>7. RcdLives' => Results'
  BY <1>t, <1>x DEF CheckInv, RcdLives, Results, Sound, Writes, Phases, At, Saved,
     Actor, Ownership, Waits, Decided, Unsuccessful
<1>8. RcdLives' => Kept'
  BY <1>t, <1>x DEF CheckInv, RcdLives, Kept, Knows, Follows, Writes, Finals, At,
     Saved, Decided, Actor, Phases
<1>9. VerdictIsTrue'
  BY <1>t, <1>x DEF CheckInv, VerdictIsTrue, RcdLives, At, Decided, Actor, Unsuccessful
<1> QED
  BY <1>1, <1>2, <1>3, <1>4, <1>5, <1>6, <1>7, <1>8, <1>9 DEF CheckInv, RcdLives

\* The notification is saved.
LEMMA Marked ==
    ASSUME CheckInv,
           NEW a \in Actor,
           at[a].pc = "mark",
           Saved(at[a].id, at[a].copy),
           At(a, "return", at[a].id, at[a].copy),
           UNCHANGED <<lastId, rcd, todo, sync, budget, fired, truth>>
    PROVE  CheckInv'
<1>a. TypeOK
  BY DEF CheckInv
<1>n. lastId \in Nat /\ \A c \in CheckId : c \in Nat
  BY <1>a, Typed
<1>t. /\ Poller \in Actor /\ \A b \in Actor : at[b].id \in CheckId
      /\ \A v \in Waiter : v \in Actor /\ v # Poller /\ sync[v].id \in CheckId
      /\ \A j \in DOMAIN rcd : rcd[j].check \in CheckId
  BY <1>a, Typed
<1>x. /\ at[a].copy.status = "failed" /\ at[a].id <= lastId
      /\ check[at[a].id].status \in Finals
      /\ \A v \in Waiter : Starts(v) => at[v].id # at[a].id
      /\ a \in Waiter => at[a].id = sync[a].id
      /\ RcdLives => Sound(at[a].id, at[a].copy)
  BY <1>t, <1>n DEF CheckInv, FreshIds, Phases, Ownership, Waits, Starts, Results, Writes
<1>1. TypeOK'
  BY <1>t, <1>x, <1>a DEF TypeOK, At, Saved, Decided, ActorRec
<1>2. Ownership'
  BY <1>t, <1>x DEF CheckInv, Ownership, Begun, At, Saved, Decided, Actor, Waits, Starts
<1>3. FreshIds'
  BY <1>t, <1>x, <1>n DEF CheckInv, FreshIds, At, Saved, Actor
<1>4. Phases'
  BY <1>t, <1>x DEF CheckInv, Phases, Starts, At, Saved, Actor, Finals
<1>5. Shots'
  BY <1>t, <1>x DEF WaiterMayFire, Waits, Starts, At, Decided, Actor, CheckInv, Phases,
     PollerMayFire, Saved, Shots
<1>6. RcdLives' => Jobs'
  BY <1>t, <1>x DEF CheckInv, RcdLives, Jobs, JobOf, At, Saved, Actor
<1>7. RcdLives' => Results'
  BY <1>t, <1>x DEF CheckInv, RcdLives, Results, Sound, Writes, Phases, At, Saved,
     Actor, Ownership, Waits, Decided, Unsuccessful
<1>8. RcdLives' => Kept'
  BY <1>t, <1>x DEF CheckInv, RcdLives, Kept, Knows, Follows, Writes, Finals, At,
     Saved, Decided, Actor, Phases
<1>9. VerdictIsTrue'
  BY <1>t, <1>x DEF CheckInv, VerdictIsTrue, RcdLives, At, Decided, Actor, Unsuccessful
<1> QED
  BY <1>1, <1>2, <1>3, <1>4, <1>5, <1>6, <1>7, <1>8, <1>9 DEF CheckInv, RcdLives

\* A success will clear the alert of an earlier check.
LEMMA Clearing ==
    ASSUME CheckInv,
           NEW a \in Actor,
           NEW copy \in Row,
           NEW prev \in CheckId,
           at[a].pc = "resolve" /\ check[prev].status = "failed",
           At(a, "clear", prev, copy),
           copy.status = "failed" /\ copy.result = check[prev].result,
           UNCHANGED <<check, lastId, rcd, todo, sync, budget, fired, truth>>
    PROVE  CheckInv'
<1>a. TypeOK
  BY DEF CheckInv
<1>n. lastId \in Nat /\ \A c \in CheckId : c \in Nat
  BY <1>a, Typed
<1>t. /\ Poller \in Actor /\ \A b \in Actor : at[b].id \in CheckId
      /\ \A v \in Waiter : v \in Actor /\ v # Poller /\ sync[v].id \in CheckId
      /\ \A j \in DOMAIN rcd : rcd[j].check \in CheckId
  BY <1>a, Typed
<1>x. /\ prev <= lastId /\ check[prev].status \in Finals
      /\ RcdLives => Sound(prev, check[prev])
  BY <1>t, <1>n DEF CheckInv, FreshIds, Results, Finals
<1>1. TypeOK'
  BY <1>t, <1>x, <1>a DEF TypeOK, At, Saved, Decided, ActorRec
<1>2. Ownership'
  BY <1>t, <1>x DEF CheckInv, Ownership, Begun, At, Saved, Decided, Actor, Waits, Starts
<1>3. FreshIds'
  BY <1>t, <1>x DEF CheckInv, FreshIds, At, Saved, Actor
<1>4. Phases'
  BY <1>t, <1>x DEF CheckInv, Phases, Starts, At, Saved, Actor, Finals
<1>5. Shots'
  BY <1>t, <1>x DEF WaiterMayFire, Waits, Starts, At, Decided, Actor, PollerMayFire,
     Saved, CheckInv, Shots
<1>6. RcdLives' => Jobs'
  BY <1>t, <1>x DEF CheckInv, RcdLives, Jobs, JobOf, At, Saved, Actor
<1>7. RcdLives' => Results'
  BY <1>t, <1>x DEF CheckInv, RcdLives, Results, Sound, Writes, Phases, At, Saved,
     Actor, Ownership, Waits, Decided, Unsuccessful
<1>8. RcdLives' => Kept'
  BY <1>t, <1>x DEF CheckInv, RcdLives, Kept, Knows, Follows, Writes, Finals, At,
     Saved, Decided, Actor, Sound
<1>9. VerdictIsTrue'
  BY <1>t, <1>x DEF CheckInv, VerdictIsTrue, RcdLives, At, Decided, Actor, Unsuccessful
<1> QED
  BY <1>1, <1>2, <1>3, <1>4, <1>5, <1>6, <1>7, <1>8, <1>9 DEF CheckInv, RcdLives

\* The alert is cleared, or not.
LEMMA Cleared ==
    ASSUME CheckInv,
           NEW a \in Actor,
           NEW copy \in Row,
           at[a].pc = "clear",
           Saved(at[a].id, at[a].copy) \/ UNCHANGED check,
           At(a, "return", at[a].id, copy),
           copy.status = "success" /\ copy.result = "none",
           UNCHANGED <<lastId, rcd, todo, sync, budget, fired, truth>>
    PROVE  CheckInv'
<1>a. TypeOK
  BY DEF CheckInv
<1>n. lastId \in Nat /\ \A c \in CheckId : c \in Nat
  BY <1>a, Typed
<1>t. /\ Poller \in Actor /\ \A b \in Actor : at[b].id \in CheckId
      /\ \A v \in Waiter : v \in Actor /\ v # Poller /\ sync[v].id \in CheckId
      /\ \A j \in DOMAIN rcd : rcd[j].check \in CheckId
  BY <1>a, Typed
<1>x. /\ at[a].copy.status = "failed" /\ at[a].id <= lastId
      /\ check[at[a].id].status \in Finals
      /\ \A v \in Waiter : Starts(v) => at[v].id # at[a].id
      /\ RcdLives => Sound(at[a].id, at[a].copy)
  BY <1>t, <1>n DEF CheckInv, FreshIds, Phases, Ownership, Waits, Starts, Results, Writes
<1>1. TypeOK'
  BY <1>t, <1>x, <1>a DEF TypeOK, At, Saved, Decided, ActorRec
<1>2. Ownership'
  BY <1>t, <1>x DEF CheckInv, Ownership, Begun, At, Saved, Decided, Actor, Waits, Starts
<1>3. FreshIds'
  BY <1>t, <1>x, <1>n DEF CheckInv, FreshIds, At, Saved, Actor
<1>4. Phases'
  BY <1>t, <1>x DEF CheckInv, Phases, Starts, At, Saved, Actor, Finals
<1>5. Shots'
  BY <1>t, <1>x DEF WaiterMayFire, Waits, Starts, At, Decided, Actor, PollerMayFire,
     Saved, CheckInv, Shots
<1>6. RcdLives' => Jobs'
  BY <1>t, <1>x DEF CheckInv, RcdLives, Jobs, JobOf, At, Saved, Actor
<1>7. RcdLives' => Results'
  BY <1>t, <1>x DEF CheckInv, RcdLives, Results, Sound, Writes, Phases, At, Saved,
     Actor, Ownership, Waits, Decided, Unsuccessful
<1>8. RcdLives' => Kept'
  BY <1>t, <1>x DEF CheckInv, RcdLives, Kept, Knows, Follows, Writes, Finals, At,
     Saved, Decided, Actor
<1>9. VerdictIsTrue'
  BY <1>t, <1>x DEF CheckInv, VerdictIsTrue, RcdLives, At, Decided, Actor, Unsuccessful
<1> QED
  BY <1>1, <1>2, <1>3, <1>4, <1>5, <1>6, <1>7, <1>8, <1>9 DEF CheckInv, RcdLives

\* The waiter sleeps, to poll again.
LEMMA WaitedMore ==
    ASSUME CheckInv,
           NEW w \in Waiter,
           at[w].pc = "return" /\ at[w].copy.status = "running",
           At(w, "poll", at[w].id, NoRow),
           UNCHANGED <<check, lastId, rcd, todo, sync, budget, fired, truth>>
    PROVE  CheckInv'
<1>a. TypeOK
  BY DEF CheckInv
<1>t. /\ Poller \in Actor /\ \A b \in Actor : at[b].id \in CheckId
      /\ \A v \in Waiter : v \in Actor /\ v # Poller /\ sync[v].id \in CheckId
      /\ \A j \in DOMAIN rcd : rcd[j].check \in CheckId
  BY <1>a, Typed
<1>1. TypeOK'
  BY <1>t, <1>a DEF TypeOK, At, Saved, Decided, ActorRec
<1>2. Ownership'
  BY <1>t DEF CheckInv, Ownership, Begun, At, Saved, Decided, Actor, Waits, Starts
<1>3. FreshIds'
  BY <1>t DEF CheckInv, FreshIds, At, Saved, Actor
<1>4. Phases'
  BY <1>t DEF CheckInv, Phases, Starts, At, Saved, Actor, Finals
<1>5. Shots'
  BY <1>t DEF WaiterMayFire, Waits, Starts, At, Decided, Actor, PollerMayFire, Saved,
     CheckInv, Shots
<1>6. RcdLives' => Jobs'
  BY <1>t DEF CheckInv, RcdLives, Jobs, JobOf, At, Saved, Actor
<1>7. RcdLives' => Results'
  BY <1>t DEF CheckInv, RcdLives, Results, Sound, Writes, Phases, At, Saved, Actor,
     Ownership, Waits, Decided
<1>8. RcdLives' => Kept'
  BY <1>t DEF CheckInv, RcdLives, Kept, Knows, Follows, Writes, Finals, At, Saved,
     Decided, Actor
<1>9. VerdictIsTrue'
  BY <1>t DEF CheckInv, VerdictIsTrue, RcdLives, At, Decided, Actor
<1> QED
  BY <1>1, <1>2, <1>3, <1>4, <1>5, <1>6, <1>7, <1>8, <1>9 DEF CheckInv, RcdLives

\* The deadline of a running check.
LEMMA GaveUp ==
    ASSUME CheckInv,
           NEW w \in Waiter,
           NEW copy \in Row,
           at[w].pc = "poll" /\ check[at[w].id].status = "running",
           At(w, "late", at[w].id, copy),
           copy.status = "failed" /\ copy.result = check[at[w].id].result,
           UNCHANGED <<check, lastId, rcd, todo, sync, budget, fired, truth>>
    PROVE  CheckInv'
<1>a. TypeOK
  BY DEF CheckInv
<1>t. /\ Poller \in Actor /\ \A b \in Actor : at[b].id \in CheckId
      /\ \A v \in Waiter : v \in Actor /\ v # Poller /\ sync[v].id \in CheckId
      /\ \A j \in DOMAIN rcd : rcd[j].check \in CheckId
  BY <1>a, Typed
<1>x. /\ at[w].id = sync[w].id
      /\ \A v \in Waiter : v # w /\ Begun(v) => sync[v].id # at[w].id
      /\ RcdLives => Sound(at[w].id, check[at[w].id])
  BY <1>t DEF CheckInv, Ownership, Waits, Begun, Results
<1>1. TypeOK'
  BY <1>t, <1>x, <1>a DEF TypeOK, At, Saved, Decided, ActorRec
<1>2. Ownership'
  BY <1>t, <1>x DEF CheckInv, Ownership, Begun, At, Saved, Decided, Actor, Waits, Starts
<1>3. FreshIds'
  BY <1>t, <1>x DEF CheckInv, FreshIds, At, Saved, Actor
<1>4. Phases'
  BY <1>t, <1>x DEF CheckInv, Phases, Starts, At, Saved, Actor, Finals
<1>5. Shots'
  BY <1>t, <1>x DEF WaiterMayFire, Waits, Starts, At, Decided, Actor, PollerMayFire,
     Saved, CheckInv, Shots
<1>6. RcdLives' => Jobs'
  BY <1>t, <1>x DEF CheckInv, RcdLives, Jobs, JobOf, At, Saved, Actor
<1>7. RcdLives' => Results'
  BY <1>t, <1>x DEF CheckInv, RcdLives, Results, Sound, Writes, Phases, At, Saved,
     Actor, Finals, Ownership, Waits, Decided
<1>8. RcdLives' => Kept'
  BY <1>t, <1>x DEF CheckInv, RcdLives, Kept, Knows, Follows, Writes, Finals, At,
     Saved, Decided, Actor, Begun
<1>9. VerdictIsTrue'
  BY <1>t, <1>x DEF CheckInv, VerdictIsTrue, RcdLives, At, Decided, Actor, Unsuccessful
<1> QED
  BY <1>1, <1>2, <1>3, <1>4, <1>5, <1>6, <1>7, <1>8, <1>9 DEF CheckInv, RcdLives

\* A job ends.
LEMMA JobEnded ==
    ASSUME CheckInv,
           NEW e \in DOMAIN rcd,
           NEW end \in Outcome,
           rcd' \in Seq(Job) /\ DOMAIN rcd' = DOMAIN rcd,
           rcd'[e].state = end /\ \A i \in DOMAIN rcd : rcd'[i].check = rcd[i].check,
           rcd[e].state = "executing",
           \A i \in DOMAIN rcd : i # e => rcd'[i] = rcd[i],
           truth' \in [CheckId -> {"none"} \cup Outcome] /\ truth'[rcd[e].check] = end,
           \A c \in CheckId : c # rcd[e].check => truth'[c] = truth[c],
           UNCHANGED <<check, lastId, at, todo, sync, budget, fired>>
    PROVE  CheckInv'
<1>a. TypeOK
  BY DEF CheckInv
<1>n. lastId \in Nat /\ \A c \in CheckId : c \in Nat
  BY <1>a, Typed
<1>t. /\ Poller \in Actor /\ \A b \in Actor : at[b].id \in CheckId
      /\ \A v \in Waiter : v \in Actor /\ v # Poller /\ sync[v].id \in CheckId
      /\ \A j \in DOMAIN rcd : rcd[j].check \in CheckId
  BY <1>a, Typed
<1>x. /\ rcd[e].check \in CheckId /\ rcd[e].check <= lastId
      /\ RcdLives => truth[rcd[e].check] = "none"
      /\ RcdLives => \A c \in CheckId : truth[c] # "none" => truth'[c] = truth[c]
  BY <1>t, <1>n DEF CheckInv, FreshIds, Jobs
<1>1. TypeOK'
  BY <1>t, <1>x, <1>a DEF TypeOK, At, Saved, Decided, ActorRec
<1>2. Ownership'
  BY <1>t, <1>x DEF CheckInv, Ownership, Begun, At, Saved, Decided, Actor, Waits, Starts
<1>3. FreshIds'
  BY <1>t, <1>x, <1>n DEF CheckInv, FreshIds, At, Saved, Actor
<1>4. Phases'
  BY <1>t, <1>x DEF CheckInv, Phases, Starts, At, Saved, Actor, Finals
<1>5. Shots'
  BY <1>t, <1>x DEF WaiterMayFire, Waits, Starts, At, Decided, Actor, PollerMayFire,
     Saved, CheckInv, Shots
<1>6. RcdLives' => Jobs'
  <2> SUFFICES ASSUME RcdLives'
               PROVE  Jobs'
    OBVIOUS
  <2>1. Jobs /\ RcdLives
    BY DEF CheckInv, RcdLives
  <2>2. (\A i, k \in DOMAIN rcd : rcd[i].check = rcd[k].check => i = k)'
    BY <2>1 DEF Jobs
  <2>3. (\A i \in DOMAIN rcd :
           truth[rcd[i].check] = IF rcd[i].state = "executing" THEN "none" ELSE rcd[i].state)'
    BY <1>t, <2>1 DEF Jobs, Outcome
  <2>4. (\A v \in Waiter :
           /\ at[v].pc = "pending" =>
                truth[at[v].id] = "none" /\ \A i \in DOMAIN rcd : rcd[i].check # at[v].id
           /\ at[v].pc = "submitted" => JobOf(at[v].id, at[v].copy.job))'
    BY <1>t, <2>1 DEF Jobs, JobOf
  <2>5. (\A c \in CheckId : check[c].status = "running" => JobOf(c, check[c].job))'
    BY <2>1 DEF Jobs, JobOf
  <2> QED
    BY <2>2, <2>3, <2>4, <2>5 DEF Jobs
<1>7. RcdLives' => Results'
  BY <1>t, <1>x DEF CheckInv, RcdLives, Results, Sound, Writes, Phases, At, Saved,
     Actor, Ownership, Waits, Decided, Unsuccessful
<1>8. RcdLives' => Kept'
  BY <1>t, <1>x DEF CheckInv, RcdLives, Kept, Knows, Follows, Writes, Finals, At,
     Saved, Decided, Actor
<1>9. VerdictIsTrue'
  BY <1>t, <1>x DEF CheckInv, VerdictIsTrue, RcdLives, At, Decided, Actor, Unsuccessful
<1> QED
  BY <1>1, <1>2, <1>3, <1>4, <1>5, <1>6, <1>7, <1>8, <1>9 DEF CheckInv, RcdLives

\* The rcd has forgotten its jobs.
LEMMA Restarted ==
    ASSUME CheckInv,
           rcd' = << >>,
           budget' \in [crash : Nat, rcd : Nat] /\ budget'.rcd < budget.rcd,
           UNCHANGED <<check, lastId, at, todo, sync, fired, truth>>
    PROVE  CheckInv'
<1>a. TypeOK
  BY DEF CheckInv
<1>t. /\ Poller \in Actor /\ \A b \in Actor : at[b].id \in CheckId
      /\ \A v \in Waiter : v \in Actor /\ v # Poller /\ sync[v].id \in CheckId
      /\ \A j \in DOMAIN rcd : rcd[j].check \in CheckId
  BY <1>a, Typed
<1>x. /\ ~RcdLives' /\ DOMAIN rcd' = {}
      /\ (budget.rcd <= MaxRcdRestarts)'
  BY CheckAssumption DEF CheckInv, TypeOK, RcdLives
<1>1. TypeOK'
  BY <1>t, <1>x, <1>a DEF TypeOK, At, Saved, Decided, ActorRec
<1>2. Ownership'
  BY <1>t, <1>x DEF CheckInv, Ownership, Begun, At, Saved, Decided, Actor, Waits, Starts
<1>3. FreshIds'
  BY <1>t, <1>x DEF CheckInv, FreshIds, At, Saved, Actor
<1>4. Phases'
  BY <1>t, <1>x DEF CheckInv, Phases, Starts, At, Saved, Actor, Finals
<1>5. Shots'
  BY <1>t, <1>x DEF WaiterMayFire, Waits, Starts, At, Decided, Actor, PollerMayFire,
     Saved, CheckInv, Shots
<1>6. RcdLives' => Jobs'
  BY <1>x
<1>7. RcdLives' => Results'
  BY <1>x
<1>8. RcdLives' => Kept'
  BY <1>x
<1>9. VerdictIsTrue'
  BY <1>t, <1>x DEF CheckInv, VerdictIsTrue, RcdLives, At, Decided, Actor, Unsuccessful
<1> QED
  BY <1>x, <1>1, <1>2, <1>3, <1>4, <1>5, <1>6, <1>7, <1>8, <1>9 DEF CheckInv, RcdLives

\* Every goroutine is gone.
LEMMA Crashed ==
    ASSUME CheckInv,
           \A b \in Actor : at'[b] = Idle,
           at' \in [Actor -> ActorRec] /\ todo' = {},
           sync' \in [Waiter -> [verdict : Verdict, id : CheckId]],
           \A v \in Waiter : /\ sync'[v].id = sync[v].id
                             /\ sync'[v].verdict = IF at[v].pc = "idle" THEN sync[v].verdict
                                                   ELSE "failed",
           budget' \in [crash : Nat, rcd : Nat] /\ budget'.rcd = budget.rcd,
           UNCHANGED <<check, lastId, rcd, fired, truth>>
    PROVE  CheckInv'
<1>a. TypeOK
  BY DEF CheckInv
<1>t. /\ Poller \in Actor /\ \A b \in Actor : at[b].id \in CheckId
      /\ \A v \in Waiter : v \in Actor /\ v # Poller /\ sync[v].id \in CheckId
      /\ \A j \in DOMAIN rcd : rcd[j].check \in CheckId
  BY <1>a, Typed
<1>x. /\ \A b \in Actor : at'[b].pc = "idle"
      /\ \A v \in Waiter : /\ sync'[v].id = sync[v].id
                           /\ Begun(v)' => Begun(v)
                           /\ ~Starts(v)' /\ ~Waits(v)' /\ ~Follows(v)'
                           /\ Knows(v)' => Knows(v)
      /\ \A c \in CheckId : PollerMayFire(c)' => PollerMayFire(c)
  BY <1>t DEF Idle, Begun, Starts, Waits, Follows, Knows, PollerMayFire
<1>1. TypeOK'
  BY <1>t, <1>x, <1>a DEF TypeOK, At, Saved, Decided, ActorRec
<1>2. Ownership'
  BY <1>t, <1>x DEF CheckInv, Ownership, Begun, At, Saved, Decided, Actor, Waits, Starts
<1>3. FreshIds'
  BY <1>t, <1>x DEF CheckInv, FreshIds, At, Saved, Actor
<1>4. Phases'
  BY <1>t, <1>x DEF CheckInv, Phases, Starts, At, Saved, Actor, Finals
<1>5. Shots'
  BY <1>t, <1>x DEF WaiterMayFire, Waits, Starts, At, Decided, Actor, PollerMayFire,
     Saved, CheckInv, Shots
<1>6. RcdLives' => Jobs'
  BY <1>t, <1>x DEF CheckInv, RcdLives, Jobs, JobOf, At, Saved, Actor
<1>7. RcdLives' => Results'
  BY <1>t, <1>x DEF CheckInv, RcdLives, Results, Sound, Writes, Phases, At, Saved,
     Actor, Ownership, Waits, Decided, Unsuccessful
<1>8. RcdLives' => Kept'
  BY <1>t, <1>x DEF CheckInv, RcdLives, Kept, Knows, Follows, Writes, Finals, At,
     Saved, Decided, Actor
<1>9. VerdictIsTrue'
  BY <1>t, <1>x DEF CheckInv, VerdictIsTrue, RcdLives, At, Decided, Actor, Unsuccessful
<1> QED
  BY <1>1, <1>2, <1>3, <1>4, <1>5, <1>6, <1>7, <1>8, <1>9 DEF CheckInv, RcdLives

-----------------------------------------------------------------------------
(* The actions *)

\* The steps of a waiter.
LEMMA WaiterInv ==
    ASSUME CheckInv, NEW w \in Waiter, Insert(w) \/ WaiterStep(w)
    PROVE  CheckInv'
<1>a. TypeOK /\ w \in Actor /\ w # Poller
  BY CheckAssumption DEF CheckInv, Actor
<1>b. at[w].pc \in Pc /\ at[w].id \in CheckId /\ at[w].copy \in Row /\ check[at[w].id] \in Row
  BY <1>a, CopyIs
<1>c. {"pending", "submitted", "unstarted", "poll", "late", "notify", "return"} \subseteq Pc
  BY DEF Pc
<1>1. CASE Insert(w)
  <2> DEFINE c == lastId + 1
             rec == [NoRow EXCEPT !.status = "pending"]
  <2>1. rec \in Row /\ rec.status = "pending" /\ rec.result = "none"
    BY NoRowIs, StatusIs
  <2>2. c \in CheckId
    BY <1>a, <1>1, CheckAssumption DEF Insert, TypeOK, CheckId
  <2>3. sync' = [sync EXCEPT ![w] = [verdict |-> "none", id |-> c]]
    BY <1>1 DEF Insert
  <2>4. /\ sync' \in [Waiter -> [verdict : Verdict, id : CheckId]]
        /\ sync'[w].verdict = "none" /\ sync'[w].id = c
        /\ \A v \in Waiter : v # w => sync'[v] = sync[v]
    <3>1. [verdict |-> "none", id |-> c] \in [verdict : Verdict, id : CheckId]
      BY <2>2 DEF Verdict
    <3> HIDE DEF c
    <3> QED
      BY <1>a, <2>3, <3>1 DEF TypeOK
  <2>5. Save(c, rec) /\ at' = [at EXCEPT ![w] = [pc |-> "pending", id |-> c, copy |-> rec]]
    BY <1>1 DEF Insert
  <2>6. at[w].pc = "idle" /\ lastId' = c /\ UNCHANGED <<rcd, todo, budget, fired, truth>>
    BY <1>1 DEF Insert
  <2>7. c = lastId + 1
    OBVIOUS
  <2> HIDE DEF c, rec
  <2>8. Saved(c, rec) /\ At(w, "pending", c, rec)
    BY <1>a, <1>c, <2>1, <2>2, <2>5, SaveIs, SetIs
  <2> QED
    BY <2>1, <2>2, <2>4, <2>6, <2>7, <2>8, Inserted
<1>2. CASE Submit(w)
  <2> DEFINE n == Len(rcd) + 1
             job == [check |-> at[w].id, state |-> "executing"]
             running == [at[w].copy EXCEPT !.status = "running", !.job = n]
             failed == [at[w].copy EXCEPT !.status = "failed"]
  <2>1. rcd \in Seq(Job) /\ job \in Job /\ n \in Nat
    BY <1>a, <1>b DEF TypeOK, Job
  <2>2. /\ rcd' \in Seq(Job) /\ n \notin DOMAIN rcd /\ DOMAIN rcd' = DOMAIN rcd \cup {n}
        /\ \A j \in DOMAIN rcd : rcd'[j] = rcd[j]
        /\ rcd'[n] = job
    <3>1. rcd' = Append(rcd, job)
      BY <1>2 DEF Submit
    <3> HIDE DEF job
    <3> QED
      BY <2>1, <3>1
  <2>3. rcd'[n].check = at[w].id /\ rcd'[n].state = "executing"
    BY <2>2
  <2>4. at[w].pc = "pending" /\ UNCHANGED <<check, lastId, todo, sync, budget, fired, truth>>
    BY <1>2 DEF Submit
  <2>5. Goes(w, "submitted", running) \/ Goes(w, "unstarted", failed)
    BY <1>2 DEF Submit
  <2>6. /\ running \in Row /\ running.status = "running" /\ running.job = n
        /\ running.result = at[w].copy.result
    BY <1>b, <2>1, StartedIs
  <2>7. failed \in Row /\ failed.status = "failed" /\ failed.result = at[w].copy.result
    BY <1>b, StatusIs
  <2> HIDE DEF n, job, running, failed
  <2>8. CASE Goes(w, "submitted", running)
    <3>1. At(w, "submitted", at[w].id, running)
      BY <1>a, <1>c, <2>6, <2>8, GoesIs
    <3> QED
      BY <2>2, <2>3, <2>4, <2>6, <3>1, Submitted
  <2>9. CASE Goes(w, "unstarted", failed)
    <3>1. At(w, "unstarted", at[w].id, failed)
      BY <1>a, <1>c, <2>7, <2>9, GoesIs
    <3> QED
      BY <2>2, <2>3, <2>4, <2>7, <3>1, Submitted
  <2> QED
    BY <2>5, <2>8, <2>9
<1>3. CASE StartFails(w)
  <2> DEFINE failed == [at[w].copy EXCEPT !.status = "failed"]
  <2>1. failed \in Row /\ failed.status = "failed" /\ failed.result = at[w].copy.result
    BY <1>b, StatusIs
  <2>2. /\ at[w].pc = "pending" /\ Goes(w, "unstarted", failed)
        /\ UNCHANGED <<check, lastId, rcd, todo, sync, budget, fired, truth>>
    BY <1>3 DEF StartFails
  <2> HIDE DEF failed
  <2>3. At(w, "unstarted", at[w].id, failed)
    BY <1>a, <1>c, <2>1, <2>2, GoesIs
  <2> QED
    BY <2>1, <2>2, <2>3, StartFailed
<1>4. CASE SaveStarted(w)
  <2>1. CASE /\ Save(at[w].id, at[w].copy) /\ UNCHANGED sync
             /\ Goes(w, IF at[w].pc = "submitted" THEN "poll" ELSE "notify", at[w].copy)
    <3>1. Saved(at[w].id, at[w].copy)
      BY <1>a, <1>b, <2>1, SaveIs
    <3>2. At(w, IF at[w].pc = "submitted" THEN "poll" ELSE "notify", at[w].id, at[w].copy)
      BY <1>a, <1>b, <1>c, <2>1, GoesIs
    <3>3. /\ at[w].pc \in {"submitted", "unstarted"}
          /\ UNCHANGED <<lastId, rcd, todo, sync, budget, fired, truth>>
      BY <1>4, <2>1 DEF SaveStarted
    <3> QED
      BY <3>1, <3>2, <3>3, StartSaved
  <2>2. CASE Stops(w) /\ Decides(w, "failed") /\ UNCHANGED check
    <3>1. At(w, "idle", 1, NoRow) /\ Decided(w, "failed") /\ "failed" \in Verdict
      BY <1>a, <2>2, StopsIs, DecidesIs DEF Verdict
    <3>2. /\ at[w].pc \in {"submitted", "unstarted"}
          /\ UNCHANGED <<check, lastId, rcd, todo, budget, fired, truth>>
      BY <1>4, <2>2 DEF SaveStarted
    <3> QED
      BY <1>a, <3>1, <3>2, LetGo
  <2> QED
    BY <1>4, <2>1, <2>2 DEF SaveStarted
<1>5. CASE WaitMore(w)
  <2>1. At(w, "poll", at[w].id, NoRow)
    BY <1>a, <1>c, <1>5, NoRowIs, GoesIs DEF WaitMore
  <2> QED
    BY <1>5, <2>1, WaitedMore DEF WaitMore
<1>6. CASE Deadline(w)
  <2> DEFINE failed == [check[at[w].id] EXCEPT !.status = "failed"]
  <2>1. /\ failed \in Row /\ failed.status = "failed"
        /\ failed.result = check[at[w].id].result
    BY <1>b, StatusIs
  <2>2. /\ at[w].pc = "poll"
        /\ UNCHANGED <<check, lastId, rcd, todo, sync, budget, fired, truth>>
        /\ IF check[at[w].id].status = "running" THEN Goes(w, "late", failed)
                                                 ELSE Goes(w, "return", check[at[w].id])
    BY <1>6 DEF Deadline
  <2> HIDE DEF failed
  <2>3. CASE check[at[w].id].status = "running"
    <3>1. At(w, "late", at[w].id, failed)
      BY <1>a, <1>c, <2>1, <2>2, <2>3, GoesIs
    <3> QED
      BY <2>1, <2>2, <2>3, <3>1, GaveUp
  <2>4. CASE check[at[w].id].status # "running"
    <3>1. At(w, "return", at[w].id, check[at[w].id])
      BY <1>a, <1>b, <1>c, <2>2, <2>4, GoesIs
    <3> QED
      BY <1>a, <2>2, <3>1, Read
  <2> QED
    BY <2>3, <2>4
<1>7. CASE Decide(w)
  <2> DEFINE verdict == Judge(at[w].copy)
  <2>1. /\ verdict \in Verdict /\ verdict # "none"
        /\ verdict = "synced" => at[w].copy.result \in Unsuccessful
        /\ verdict = "skipped" => at[w].copy.status = "success"
    BY DEF Judge, Verdict
  <2>2. /\ at[w].pc = "return" /\ at[w].copy.status # "running"
        /\ Stops(w) /\ Decides(w, verdict)
        /\ UNCHANGED <<check, lastId, rcd, todo, budget, fired, truth>>
    BY <1>7 DEF Decide
  <2> HIDE DEF verdict
  <2>3. At(w, "idle", 1, NoRow) /\ Decided(w, verdict)
    BY <1>a, <2>1, <2>2, StopsIs, DecidesIs
  <2> QED
    BY <1>a, <2>1, <2>2, <2>3, LetGo
<1>8. CASE WaitFails(w)
  <2>1. At(w, "idle", 1, NoRow) /\ Decided(w, "failed") /\ "failed" \in Verdict
    BY <1>a, <1>8, StopsIs, DecidesIs DEF WaitFails, Verdict
  <2>2. /\ at[w].pc = "poll"
        /\ UNCHANGED <<check, lastId, rcd, todo, budget, fired, truth>>
    BY <1>8 DEF WaitFails
  <2> QED
    BY <1>a, <2>1, <2>2, LetGo
<1> QED
  BY <1>1, <1>2, <1>3, <1>4, <1>5, <1>6, <1>7, <1>8 DEF WaiterStep

\* The steps of a poll, whoever polls.
LEMMA PollInv ==
    ASSUME CheckInv, NEW a \in Actor, PollStep(a)
    PROVE  CheckInv'
<1>a. TypeOK
  BY DEF CheckInv
<1>b. at[a].pc \in Pc /\ at[a].id \in CheckId /\ at[a].copy \in Row /\ check[at[a].id] \in Row
  BY <1>a, CopyIs
<1>c. {"save", "notify", "mark", "resolve", "clear", "return"} \subseteq Pc
  BY DEF Pc
<1>1. CASE PollRead(a)
  <2> DEFINE rec == check[at[a].id]
             answer == Answer(rec.job)
             copy == Finished(rec, answer)
  <2>1. /\ at[a].pc = "poll"
        /\ UNCHANGED <<check, lastId, rcd, todo, sync, budget, fired, truth>>
        /\ \/ Goes(a, "return", rec)
           \/ rec.status = "running" /\ answer # "executing" /\ Goes(a, "save", copy)
    BY <1>1 DEF PollRead
  <2>2. CASE Goes(a, "return", rec)
    <3>1. At(a, "return", at[a].id, check[at[a].id])
      BY <1>a, <1>b, <1>c, <2>2, GoesIs
    <3> QED
      BY <2>1, <3>1, Read
  <2>3. CASE rec.status = "running" /\ answer # "executing" /\ Goes(a, "save", copy)
    <3>1. answer \in Outcome \cup {"gone"}
      BY <1>a, <2>3, AnswerIs
    <3>2. rec.job \in DOMAIN rcd => answer = rcd[rec.job].state
      BY <1>a, AnswerIs
    <3> HIDE DEF answer
    <3>3. /\ copy \in Row
          /\ copy.status = IF answer = "same" THEN "success" ELSE "failed"
          /\ copy.result = IF answer = "gone" THEN rec.result ELSE answer
      BY <1>b, <3>1, FinishedIs
    <3> HIDE DEF copy
    <3>4. At(a, "save", at[a].id, copy)
      BY <1>a, <1>c, <2>3, <3>3, GoesIs
    <3> QED
      BY <2>1, <2>3, <3>1, <3>2, <3>3, <3>4, Answered
  <2> QED
    BY <2>1, <2>2, <2>3
<1>2. CASE PollSave(a)
  <2>1. Saved(at[a].id, at[a].copy)
    BY <1>a, <1>b, <1>2, SaveIs DEF PollSave
  <2>2. At(a, IF at[a].copy.status = "failed" THEN "notify" ELSE "resolve", at[a].id, at[a].copy)
    BY <1>a, <1>b, <1>c, <1>2, GoesIs DEF PollSave
  <2> QED
    BY <1>2, <2>1, <2>2, EndSaved DEF PollSave
<1>3. CASE PollSaveFails(a)
  <2>1. At(a, "idle", 1, NoRow) /\ "failed" \in Verdict
    BY <1>a, <1>3, StopsIs DEF PollSaveFails, Verdict
  <2>2. IF a = Poller THEN UNCHANGED sync ELSE Decided(a, "failed")
    BY <1>a, <1>3, <2>1, DecidesIs DEF PollSaveFails, Actor
  <2>3. /\ at[a].pc \in {"save", "late"}
        /\ UNCHANGED <<check, lastId, rcd, todo, budget, fired, truth>>
    BY <1>3 DEF PollSaveFails
  <2> QED
    BY <2>1, <2>2, <2>3, LetGo
<1>4. CASE Notify(a)
  <2> DEFINE copy == [at[a].copy EXCEPT !.notified = TRUE]
  <2>1. /\ at[a].pc = "notify"
        /\ UNCHANGED <<check, lastId, rcd, todo, sync, budget, truth>>
    BY <1>4 DEF Notify
  <2>2. CASE Goes(a, "mark", copy) /\ fired' = [fired EXCEPT ![at[a].id] = @ + 1]
    <3>1. copy \in Row /\ copy.status = at[a].copy.status /\ copy.result = at[a].copy.result
      BY <1>b, NotifiedIs
    <3> HIDE DEF copy
    <3>2. At(a, "mark", at[a].id, copy)
      BY <1>a, <1>c, <2>2, <3>1, GoesIs
    <3>3. /\ fired' \in [CheckId -> Nat] /\ fired'[at[a].id] = fired[at[a].id] + 1
          /\ \A c \in CheckId : c # at[a].id => fired'[c] = fired[c]
      BY <1>a, <1>b, <2>2 DEF TypeOK
    <3> QED
      BY <2>1, <3>1, <3>2, <3>3, Fired
  <2>3. CASE Goes(a, "return", at[a].copy) /\ UNCHANGED fired
    <3>1. At(a, "return", at[a].id, at[a].copy)
      BY <1>a, <1>b, <1>c, <2>3, GoesIs
    <3> QED
      BY <2>1, <2>3, <3>1, Returned
  <2> QED
    BY <1>4, <2>2, <2>3 DEF Notify
<1>5. CASE Mark(a)
  <2>1. At(a, "return", at[a].id, at[a].copy)
    BY <1>a, <1>b, <1>c, <1>5, GoesIs DEF Mark
  <2>2. Saved(at[a].id, at[a].copy) \/ UNCHANGED check
    BY <1>a, <1>b, <1>5, SaveIs DEF Mark, TrySave
  <2>3. /\ at[a].pc = "mark"
        /\ UNCHANGED <<lastId, rcd, todo, sync, budget, fired, truth>>
    BY <1>5 DEF Mark
  <2>4. CASE Saved(at[a].id, at[a].copy)
    BY <2>1, <2>3, <2>4, Marked
  <2>5. CASE UNCHANGED check
    BY <2>1, <2>3, <2>5, Returned
  <2> QED
    BY <2>2, <2>4, <2>5
<1>6. CASE Resolve(a)
  <2>1. /\ at[a].pc = "resolve"
        /\ UNCHANGED <<check, lastId, rcd, todo, sync, budget, fired, truth>>
    BY <1>6 DEF Resolve
  <2>2. CASE Goes(a, "return", at[a].copy)
    <3>1. At(a, "return", at[a].id, at[a].copy)
      BY <1>a, <1>b, <1>c, <2>2, GoesIs
    <3> QED
      BY <2>1, <3>1, Returned
  <2>3. ASSUME NEW prev \in Unresolved,
               at' = [at EXCEPT ![a] = [pc |-> "clear", id |-> prev,
                                        copy |-> [check[prev] EXCEPT !.notified = FALSE]]]
        PROVE  CheckInv'
    <3> DEFINE copy == [check[prev] EXCEPT !.notified = FALSE]
    <3>1. prev \in CheckId /\ check[prev].status = "failed" /\ check[prev] \in Row
      BY <1>a DEF Unresolved, TypeOK
    <3>2. copy \in Row /\ copy.status = "failed" /\ copy.result = check[prev].result
      BY <3>1, NotifiedIs
    <3>3. at' = [at EXCEPT ![a] = [pc |-> "clear", id |-> prev, copy |-> copy]]
      BY <2>3
    <3> HIDE DEF copy
    <3>4. At(a, "clear", prev, copy)
      BY <1>a, <1>c, <3>1, <3>2, <3>3, SetIs
    <3> QED
      BY <2>1, <3>1, <3>2, <3>4, Clearing
  <2> QED
    BY <1>6, <2>2, <2>3 DEF Resolve
<1>7. CASE Clear(a)
  <2> DEFINE copy == [NoRow EXCEPT !.status = "success"]
  <2>1. copy \in Row /\ copy.status = "success" /\ copy.result = "none"
    BY NoRowIs, StatusIs
  <2>2. /\ at[a].pc = "clear" /\ Goes(a, "return", copy)
        /\ Save(at[a].id, at[a].copy) \/ UNCHANGED check
        /\ UNCHANGED <<lastId, rcd, todo, sync, budget, fired, truth>>
    BY <1>7 DEF Clear, TrySave
  <2> HIDE DEF copy
  <2>3. At(a, "return", at[a].id, copy)
    BY <1>a, <1>c, <2>1, <2>2, GoesIs
  <2>4. Saved(at[a].id, at[a].copy) \/ UNCHANGED check
    BY <1>a, <1>b, <2>2, SaveIs
  <2> QED
    BY <2>1, <2>2, <2>3, <2>4, Cleared
<1> QED
  BY <1>1, <1>2, <1>3, <1>4, <1>5, <1>6, <1>7 DEF PollStep

LEMMA PollJobInv ==
    ASSUME CheckInv, PollJob
    PROVE  CheckInv'
<1>a. TypeOK /\ Poller \in Actor
  BY DEF CheckInv, Actor
<1>1. CASE PollBegin
  BY <1>1, Listed DEF PollBegin
<1>2. CASE PollReturns
  <2>1. At(Poller, "idle", 1, NoRow) /\ "failed" \in Verdict
    BY <1>a, <1>2, StopsIs DEF PollReturns, Verdict
  <2> QED
    BY <1>a, <1>2, <2>1, LetGo DEF PollReturns
<1>3. ASSUME NEW c \in CheckId, PollTake(c)
      PROVE  CheckInv'
  <2>1. "poll" \in Pc /\ at' = [at EXCEPT ![Poller] = [pc |-> "poll", id |-> c, copy |-> NoRow]]
    BY <1>3 DEF PollTake, Pc
  <2>2. At(Poller, "poll", c, NoRow)
    BY <1>a, <2>1, NoRowIs, SetIs
  <2> QED
    BY <1>3, <2>2, Taken DEF PollTake
<1> QED
  BY <1>1, <1>2, <1>3 DEF PollJob

\* What happens around the service.
LEMMA JobEndsInv ==
    ASSUME CheckInv, NEW j \in 1 .. MaxChecks, JobEnds(j)
    PROVE  CheckInv'
<1>a. TypeOK
  BY DEF CheckInv
<1>1. rcd \in Seq(Job) /\ j \in DOMAIN rcd /\ rcd[j].state = "executing"
  BY <1>a DEF TypeOK, JobEnds
<1>2. PICK end \in Outcome : /\ rcd' = [rcd EXCEPT ![j].state = end]
                             /\ truth' = [truth EXCEPT ![rcd[j].check] = end]
  BY DEF JobEnds
<1>3. rcd[j] \in Job
  BY <1>1
<1>4. /\ [rcd[j] EXCEPT !.state = end] \in Job
      /\ [rcd[j] EXCEPT !.state = end].state = end
      /\ [rcd[j] EXCEPT !.state = end].check = rcd[j].check
  BY <1>3 DEF Job
<1>5. /\ rcd' \in Seq(Job) /\ DOMAIN rcd' = DOMAIN rcd
      /\ rcd'[j] = [rcd[j] EXCEPT !.state = end]
      /\ \A i \in DOMAIN rcd : i # j => rcd'[i] = rcd[i]
  <2> DEFINE job == [rcd[j] EXCEPT !.state = end]
  <2>1. rcd' = [rcd EXCEPT ![j] = job] /\ job \in Job
    BY <1>2, <1>4
  <2> HIDE DEF job
  <2>2. /\ rcd' \in Seq(Job) /\ DOMAIN rcd' = DOMAIN rcd /\ rcd'[j] = job
        /\ \A i \in DOMAIN rcd : i # j => rcd'[i] = rcd[i]
    BY <1>1, <2>1
  <2> QED
    BY <2>2 DEF job
<1>6. rcd'[j].state = end /\ \A i \in DOMAIN rcd : rcd'[i].check = rcd[i].check
  BY <1>4, <1>5
<1>7. /\ truth' \in [CheckId -> {"none"} \cup Outcome] /\ truth'[rcd[j].check] = end
      /\ \A c \in CheckId : c # rcd[j].check => truth'[c] = truth[c]
  <2>1. rcd[j].check \in CheckId
    BY <1>3 DEF Job
  <2> QED
    BY <1>a, <1>2, <2>1 DEF TypeOK
<1>8. UNCHANGED <<check, lastId, at, todo, sync, budget, fired>>
  BY DEF JobEnds
<1> QED
  BY <1>1, <1>5, <1>6, <1>7, <1>8, JobEnded

LEMMA RcdRestartInv ==
    ASSUME CheckInv, RcdRestart
    PROVE  CheckInv'
<1>1. budget \in [crash : Nat, rcd : Nat] /\ budget.rcd > 0
  BY DEF CheckInv, TypeOK, RcdRestart
<1>2. budget' = [crash |-> budget.crash, rcd |-> budget.rcd - 1]
  <2>1. budget' = [budget EXCEPT !.rcd = budget.rcd - 1]
    BY DEF RcdRestart
  <2> QED
    BY <1>1, <2>1
<1>3. budget' \in [crash : Nat, rcd : Nat] /\ budget'.rcd < budget.rcd
  BY <1>1, <1>2
<1> QED
  BY <1>3, Restarted DEF RcdRestart

LEMMA CrashInv ==
    ASSUME CheckInv, Crash
    PROVE  CheckInv'
<1>a. TypeOK
  BY DEF CheckInv
<1>1. Idle \in ActorRec
  <2>1. 1 \in CheckId
    BY CheckAssumption DEF CheckId
  <2> QED
    BY <2>1, NoRowIs DEF Idle, ActorRec, Pc
<1>2. /\ \A b \in Actor : at'[b] = Idle
      /\ at' \in [Actor -> ActorRec] /\ todo' = {}
  BY <1>1 DEF Crash
<1>3. /\ sync' \in [Waiter -> [verdict : Verdict, id : CheckId]]
      /\ \A v \in Waiter :
           /\ sync'[v].id = sync[v].id
           /\ sync'[v].verdict = IF at[v].pc = "idle" THEN sync[v].verdict ELSE "failed"
  <2>1. \A v \in Waiter : /\ sync[v] \in [verdict : Verdict, id : CheckId]
                          /\ [sync[v] EXCEPT !.verdict = "failed"] =
                               [verdict |-> "failed", id |-> sync[v].id]
    BY <1>a DEF TypeOK
  <2>2. sync' = [v \in Waiter |-> IF at[v].pc = "idle" THEN sync[v]
                                  ELSE [verdict |-> "failed", id |-> sync[v].id]]
    BY <2>1 DEF Crash
  <2>3. \A v \in Waiter : [verdict |-> "failed", id |-> sync[v].id]
                            \in [verdict : Verdict, id : CheckId]
    BY <2>1 DEF Verdict
  <2>4. sync' \in [Waiter -> [verdict : Verdict, id : CheckId]]
    BY <2>1, <2>2, <2>3
  <2>5. \A v \in Waiter : sync'[v] = IF at[v].pc = "idle" THEN sync[v]
                                     ELSE [verdict |-> "failed", id |-> sync[v].id]
    BY <2>2
  <2> QED
    BY <2>4, <2>5
<1>4. budget' \in [crash : Nat, rcd : Nat] /\ budget'.rcd = budget.rcd
  <2>1. budget \in [crash : Nat, rcd : Nat] /\ budget.crash > 0
    BY <1>a DEF TypeOK, Crash
  <2>2. budget' = [budget EXCEPT !.crash = budget.crash - 1]
    BY DEF Crash
  <2>3. budget' = [crash |-> budget.crash - 1, rcd |-> budget.rcd]
    BY <2>1, <2>2
  <2> QED
    BY <2>1, <2>3
<1>5. UNCHANGED <<check, lastId, rcd, fired, truth>>
  BY DEF Crash
<1> QED
  BY <1>2, <1>3, <1>4, <1>5, Crashed

LEMMA InitInv == Init => CheckInv
<1> SUFFICES ASSUME Init
             PROVE  CheckInv
  OBVIOUS
<1>1. 1 \in CheckId /\ NoRow \in Row /\ Idle \in ActorRec /\ Poller \in Actor
      /\ \A v \in Waiter : v \in Actor
  <2>1. 1 \in CheckId
    BY CheckAssumption DEF CheckId
  <2> QED
    BY <2>1, NoRowIs DEF Idle, ActorRec, Pc, Actor
<1>2. /\ \A b \in Actor : at[b].pc = "idle" /\ at[b].id = 1
      /\ \A v \in Waiter : sync[v].verdict = "none"
      /\ \A c \in CheckId : /\ check[c].status = "none" /\ check[c].result = "none"
                            /\ fired[c] = 0 /\ truth[c] = "none"
      /\ lastId = 0 /\ DOMAIN rcd = {} /\ todo = {}
  BY NoRowIs DEF Init, Idle
<1>3. TypeOK
  <2>1. [verdict |-> "none", id |-> 1] \in [verdict : Verdict, id : CheckId]
    BY <1>1 DEF Verdict
  <2>2. sync \in [Waiter -> [verdict : Verdict, id : CheckId]]
    BY <2>1 DEF Init
  <2>3. budget \in [crash : Nat, rcd : Nat] /\ lastId \in 0 .. MaxChecks
    BY CheckAssumption DEF Init
  <2> QED
    BY <1>1, <2>2, <2>3 DEF Init, TypeOK, ActorRec
<1>4. budget.rcd <= MaxRcdRestarts
  BY CheckAssumption DEF Init
<1>5. Ownership
  BY <1>1, <1>2 DEF Ownership, Begun, Waits, Starts
<1>6. FreshIds
  BY <1>1, <1>2 DEF FreshIds
<1>7. Phases
  BY <1>1, <1>2 DEF Phases, Starts
<1>8. Shots
  BY <1>1, <1>2 DEF Shots
<1>9. Jobs
  BY <1>1, <1>2 DEF Jobs
<1>10. Results
  BY <1>1, <1>2 DEF Results, Sound, Writes
<1>11. Kept
  BY <1>1, <1>2 DEF Kept, Knows, Follows
<1>12. VerdictIsTrue
  BY <1>1, <1>2 DEF VerdictIsTrue
<1> QED
  BY <1>3, <1>4, <1>5, <1>6, <1>7, <1>8, <1>9, <1>10, <1>11, <1>12 DEF CheckInv

LEMMA NextInv == CheckInv /\ [Next]_vars => CheckInv'
<1> SUFFICES ASSUME CheckInv, [Next]_vars
             PROVE  CheckInv'
  OBVIOUS
<1>1. CASE Next
  BY <1>1, WaiterInv, PollInv, PollJobInv, JobEndsInv, RcdRestartInv, CrashInv DEF Next
<1>2. CASE UNCHANGED vars
  <2>1. /\ TypeOK' /\ Ownership' /\ FreshIds' /\ Phases' /\ (budget.rcd <= MaxRcdRestarts)'
    BY <1>2 DEF vars, CheckInv, TypeOK, Ownership, Begun, Waits, Starts, FreshIds, Phases
  <2>2. Shots'
    BY <1>2 DEF vars, CheckInv, Shots, WaiterMayFire, PollerMayFire, Waits, Starts
  <2>3. RcdLives' => RcdLives /\ Jobs' /\ Results'
    BY <1>2 DEF vars, CheckInv, RcdLives, Jobs, JobOf, Results, Sound
  <2>4. RcdLives' => Kept'
    BY <1>2 DEF vars, CheckInv, RcdLives, Kept, Knows, Follows
  <2>5. VerdictIsTrue'
    BY <1>2 DEF vars, CheckInv, VerdictIsTrue, RcdLives
  <2> QED
    BY <2>1, <2>2, <2>3, <2>4, <2>5 DEF CheckInv
<1> QED
  BY <1>1, <1>2 DEF vars

-----------------------------------------------------------------------------
\* The invariant is one: rows and copies of checks hold values of the columns, and
\* say what runs of RunCheck, PollCheck and WaitForCheck in any order leave in them.
THEOREM CheckSafe == Spec => []CheckInv
<1> QED
  BY InitInv, NextInv, PTL DEF Spec

\* Rows, copies, jobs and verdicts keep their types.
THEOREM TypeCorrect == Spec => []TypeOK
<1>1. CheckInv => TypeOK
  BY DEF CheckInv
<1> QED
  BY <1>1, CheckSafe, PTL

\* A sync goes ahead only when the check's own job came through and found a difference
\* or files it could not read, and is skipped only when it found agreement
\* (runPreCheck, WaitForCheck, PollCheck).
THEOREM Verdicts == Spec => []VerdictIsTrue
<1>1. CheckInv => VerdictIsTrue
  BY DEF CheckInv
<1> QED
  BY <1>1, CheckSafe, PTL

\* The check run a decision points to goes on saying what it was based on: the
\* whole-row saves of PollCheck and of the alerts do not wipe it out.
THEOREM Recorded == Spec => []VerdictIsRecorded
<1>1. CheckInv => VerdictIsRecorded
  <2> SUFFICES ASSUME CheckInv, NEW w \in Waiter, RcdLives
               PROVE  /\ sync[w].verdict = "synced" =>
                           /\ check[sync[w].id].result \in Unsuccessful
                           /\ check[sync[w].id].result = truth[sync[w].id]
                      /\ sync[w].verdict = "skipped" => check[sync[w].id].status = "success"
    BY DEF VerdictIsRecorded
  <2>1. TypeOK /\ Results /\ Kept /\ VerdictIsTrue
    BY DEF CheckInv
  <2>2. sync[w].id \in CheckId
    BY <2>1 DEF TypeOK
  <2>3. Sound(sync[w].id, check[sync[w].id])
    BY <2>1, <2>2 DEF Results
  <2>4. sync[w].verdict \in {"synced", "skipped"} => Knows(w)
    BY DEF CheckInv, Ownership, Knows
  <2> QED
    BY <2>1, <2>3, <2>4 DEF Kept, Sound, VerdictIsTrue
<1> QED
  BY <1>1, CheckSafe, PTL

\* A check run fires twice at most, once for each of its two pollers
\* (NotifyCheckRunFailure).
THEOREM AlertsTwice == Spec => []CheckAlertsTwiceAtMost
<1>1. CheckInv => CheckAlertsTwiceAtMost
  BY DEF CheckInv, Shots, CheckAlertsTwiceAtMost
<1> QED
  BY <1>1, CheckSafe, PTL
=============================================================================
