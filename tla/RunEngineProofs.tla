--------------------------- MODULE RunEngineProofs ---------------------------
(***************************************************************************)
(* RunInv is inductive, for every set of nodes, tasks and goroutines, every*)
(* number of runs, crashes, rcd restarts and deletions; with it, an alert  *)
(* fires once, a finished run stays finished, and a run has one poller.    *)
(* Then JobInv, of runs and the jobs they are recorded with; LifeInv, of   *)
(* the one job of a run and how it ended; and with them that the engine    *)
(* implements RunLife.                                                     *)
(*                                                                         *)
(* First that a step keeps the types; then what a step does to the record  *)
(* of the goroutine that takes it; then RunInv, action by action, through  *)
(* three shapes of step: a goroutine that writes its own run (Writes), a   *)
(* poll job that does (PollWrites), a step that only lets go (Recedes).    *)
(***************************************************************************)
EXTENDS RunEngine, TLAPS

\* The values a row, a goroutine and a poll job start from have their types.
LEMMA NoRowType == NoRow \in Row
<1>1. (CHOOSE t \in Task : TRUE) \in Task
  BY RunAssumption DEF RunAssumption
<1> QED
  BY <1>1 DEF NoRow, Row, Active, Terminal, NoJob

LEMMA NoTrigType == NoTrig \in [pc : TrigPc, run : RunId, copy : Row]
<1>1. 1 \in RunId
  BY RunAssumption DEF RunAssumption, RunId
<1> QED
  BY <1>1, NoRowType DEF NoTrig, TrigPc

LEMMA NoPollType == NoPoll \in [pc : PollPc, todo : SUBSET RunId, run : RunId, copy : Row]
<1>1. 1 \in RunId
  BY RunAssumption DEF RunAssumption, RunId
<1> QED
  BY <1>1, NoRowType DEF NoPoll, PollPc

\* A row stays one when a field is assigned.
LEMMA RowUpdate ==
    ASSUME NEW rec \in Row
    PROVE  /\ \A st \in Active \cup Terminal : [rec EXCEPT !.status = st] \in Row
           /\ \A b \in BOOLEAN : [rec EXCEPT !.notified = b] \in Row
           /\ \A n \in Node : [rec EXCEPT !.node = n] \in Row
BY DEF Row, Active, Terminal

\* What an assignment to one field of a row leaves of the others.
LEMMA RowFields ==
    ASSUME NEW rec \in Row, NEW st, NEW job
    PROVE  /\ LET new == [rec EXCEPT !.status = st]
              IN  new.status = st /\ new.node = rec.node /\ new.notified = rec.notified
           /\ LET new == [rec EXCEPT !.status = st, !.job = job]
              IN  new.status = st /\ new.node = rec.node /\ new.notified = rec.notified
           /\ LET new == [rec EXCEPT !.notified = st]
              IN  new.status = rec.status /\ new.node = rec.node /\ new.notified = st
BY DEF Row

\* A goroutine's copy of a row is a row, and Save keeps the table typed.
LEMMA TrigGoesType ==
    ASSUME TypeOK, NEW w \in Trigger, NEW pc \in TrigPc, NEW copy \in Row, TrigGoes(w, pc, copy)
    PROVE  trig' \in [Trigger -> [pc : TrigPc, run : RunId, copy : Row]]
BY NoTrigType DEF TypeOK, TrigGoes

LEMMA SaveType ==
    ASSUME TypeOK, NEW r \in RunId, NEW rec \in Row, Save(r, rec)
    PROVE  row' \in [RunId -> Row]
BY DEF TypeOK, Save

LEMMA FireType ==
    ASSUME TypeOK, NEW r \in RunId, Fire(r) \/ UNCHANGED fired
    PROVE  fired' \in [RunId -> Nat]
<1>1. fired[r] + 1 \in Nat
  BY DEF TypeOK
<1> QED
  BY <1>1 DEF TypeOK, Fire

LEMMA TrigStepType ==
    ASSUME TypeOK, OnLiveNode, NEW w \in Trigger, TrigStep(w)
    PROVE  TypeOK'
<1>0. /\ trig[w].run \in RunId /\ Copy(w) \in Row
      /\ \A pc \in TrigPc, copy \in Row :
           TrigGoes(w, pc, copy) => trig' \in [Trigger -> [pc : TrigPc, run : RunId, copy : Row]]
      /\ \A r \in RunId, rec \in Row : Save(r, rec) => row' \in [RunId -> Row]
      /\ NoRow \in Row
      /\ TrigPc = {"idle", "passed", "created", "submitted", "failing", "notify", "mark"}
  BY TrigGoesType, SaveType, NoRowType DEF TypeOK, Copy, TrigPc
<1>a. \A st \in Active \cup Terminal : [Copy(w) EXCEPT !.status = st] \in Row
  BY <1>0, RowUpdate
<1> USE DEF Active, Terminal
<1>1. CASE CreateFails(w)
  BY <1>0, <1>1 DEF CreateFails, TypeOK, history
<1>2. CASE Create(w)
  <2> DEFINE pending == [Copy(w) EXCEPT !.status = "pending"]
  <2>1. pending \in Row
    BY <1>a
  <2>2. lastId + 1 \in RunId
    BY <1>2, RunAssumption DEF Create, TypeOK, RunId, RunAssumption
  <2>3. row' \in [RunId -> Row] /\ lastId' \in 0 .. MaxRuns
    BY <1>0, <1>2, <2>1, <2>2 DEF Create, Insert, RunId
  <2>4. trig' \in [Trigger -> [pc : TrigPc, run : RunId, copy : Row]]
    <3>1. [pc |-> "created", run |-> lastId + 1, copy |-> pending]
             \in [pc : TrigPc, run : RunId, copy : Row]
      BY <2>1, <2>2 DEF TrigPc
    <3>2. trig' = [trig EXCEPT ![w] = [pc |-> "created", run |-> lastId + 1, copy |-> pending]]
      BY <1>2 DEF Create
    <3> QED
      BY <3>1, <3>2 DEF TypeOK
  <2> QED
    BY <1>2, <2>3, <2>4 DEF Create, TypeOK, history
<1>3. CASE PreCheckSkips(w)
  BY <1>0, <1>a, <1>3 DEF PreCheckSkips, TypeOK, history
<1>4. CASE Submit(w)
  <2> DEFINE n == Copy(w).node
             job == [run |-> trig[w].run, state |-> "executing"]
             running == [Copy(w) EXCEPT !.status = "running", !.job = Len(rcd[n]) + 1]
  <2>1. n \in Node /\ rcd[n] \in Seq(Job) /\ job \in Job
    BY <1>0, <1>4 DEF Submit, OnLiveNode, TypeOK, Job
  <2>2. running \in Row
    <3>1. Len(rcd[n]) + 1 \in Nat
      BY <2>1
    <3> QED
      BY <1>0, <3>1 DEF Row
  <2>3. rcd' \in [Node -> Seq(Job)]
    <3>1. Append(rcd[n], job) \in Seq(Job)
      BY <2>1
    <3>2. rcd' = [rcd EXCEPT ![n] = Append(rcd[n], job)]
      BY <1>4 DEF Submit
    <3> QED
      BY <3>1, <3>2 DEF TypeOK
  <2>4. TrigGoes(w, "submitted", running) \/ TrigGoes(w, "failing", Copy(w))
    BY <1>4 DEF Submit
  <2>5. trig' \in [Trigger -> [pc : TrigPc, run : RunId, copy : Row]]
    BY <1>0, <2>2, <2>4
  <2> QED
    BY <1>4, <2>3, <2>5 DEF Submit, TypeOK, history
<1>5. CASE StartFails(w)
  BY <1>0, <1>a, <1>5 DEF StartFails, TypeOK, history
<1>6. CASE SaveRunning(w)
  BY <1>0, <1>a, <1>6 DEF SaveRunning, TrySave, TypeOK, history
<1>7. CASE SaveFailed(w)
  BY <1>0, <1>a, <1>7 DEF SaveFailed, TypeOK, history
<1>8. CASE TrigNotify(w)
  <2>1. [Copy(w) EXCEPT !.notified = TRUE] \in Row
    BY <1>0, RowUpdate
  <2>2. trig' \in [Trigger -> [pc : TrigPc, run : RunId, copy : Row]]
    BY <1>0, <1>8, <2>1 DEF TrigNotify
  <2>3. fired' \in [RunId -> Nat]
    BY <1>0, <1>8, FireType DEF TrigNotify
  <2> QED
    BY <1>8, <2>2, <2>3 DEF TrigNotify, TypeOK
<1>9. CASE TrigMark(w)
  BY <1>0, <1>a, <1>9 DEF TrigMark, TrySave, TypeOK, history
<1> QED
  BY <1>1, <1>2, <1>3, <1>4, <1>5, <1>6, <1>7, <1>8, <1>9 DEF TrigStep

\* A poll job stays one when its fields are assigned.
LEMMA PollUpdate ==
    ASSUME NEW rec \in [pc : PollPc, todo : SUBSET RunId, run : RunId, copy : Row],
           NEW pc \in PollPc, NEW todo \in SUBSET RunId, NEW r \in RunId, NEW copy \in Row
    PROVE  /\ [rec EXCEPT !.pc = pc, !.todo = todo]
                \in [pc : PollPc, todo : SUBSET RunId, run : RunId, copy : Row]
           /\ [rec EXCEPT !.pc = pc, !.copy = copy]
                \in [pc : PollPc, todo : SUBSET RunId, run : RunId, copy : Row]
           /\ [rec EXCEPT !.pc = pc, !.run = r, !.copy = copy]
                \in [pc : PollPc, todo : SUBSET RunId, run : RunId, copy : Row]
OBVIOUS

LEMMA PollStepType ==
    ASSUME TypeOK, NEW n \in Node, PollStep(n)
    PROVE  TypeOK'
<1> DEFINE Poll == [pc : PollPc, todo : SUBSET RunId, run : RunId, copy : Row]
<1>0. /\ poll \in [Node -> Poll] /\ poll[n] \in Poll /\ NoPoll \in Poll
      /\ \A rec \in Poll : [poll EXCEPT ![n] = rec] \in [Node -> Poll]
      /\ \A r \in RunId, rec \in Row : TrySave(r, rec) => row' \in [RunId -> Row]
      /\ \A pc \in PollPc : [poll[n] EXCEPT !.pc = pc] \in Poll
  BY NoPollType, SaveType DEF TypeOK, TrySave
<1>p. /\ poll \in [Node -> Poll] /\ poll[n] \in Poll
      /\ \A rec \in Poll : [poll EXCEPT ![n] = rec] \in [Node -> Poll]
  BY <1>0
<1>a. PollNext(n) => poll' \in [Node -> Poll]
  <2>1. [NoPoll EXCEPT !.pc = "polling", !.todo = poll[n].todo] \in Poll
    BY <1>0 DEF PollPc
  <2> QED
    BY <1>0, <2>1 DEF PollNext
<1> USE DEF PollPc
<1>1. CASE PollBegin(n)
  <2>1. row' \in [RunId -> Row]
    <3>1. \A r \in RunId : row[r] \in Row /\ [row[r] EXCEPT !.node = n] \in Row
      BY RowUpdate DEF TypeOK
    <3> QED
      BY <1>1, <3>1 DEF PollBegin, Claimed, TypeOK
  <2>2. poll' \in [Node -> Poll]
    <3> DEFINE mine == {r \in RunId : row'[r].status = "running" /\ row'[r].node = n}
    <3>1. [poll[n] EXCEPT !.pc = "polling", !.todo = mine] \in Poll
      <4>1. mine \in SUBSET RunId /\ "polling" \in PollPc /\ 1 \in RunId /\ NoRow \in Row
        BY NoRowType, RunAssumption DEF RunAssumption, RunId
      <4> HIDE DEF mine, PollPc
      <4> QED
        BY <1>0, <4>1, PollUpdate
    <3>2. poll' = [poll EXCEPT ![n] = [poll[n] EXCEPT !.pc = "polling", !.todo = mine]]
      BY <1>p, <1>1 DEF PollBegin
    <3> QED
      BY <1>0, <3>1, <3>2
  <2> QED
    BY <1>1, <2>1, <2>2 DEF PollBegin, TypeOK, history
<1>2. CASE SaveResult(n)
  BY <1>0, <1>2 DEF SaveResult, TrySave, TypeOK, history
<1>3. CASE SaveResultFails(n)
  BY <1>a, <1>3 DEF SaveResultFails, TypeOK, history
<1>4. CASE PollNotify(n)
  <2>1. poll' \in [Node -> Poll]
    <3> DEFINE marked == [poll[n].copy EXCEPT !.notified = TRUE]
               rec == [poll[n] EXCEPT !.pc = "mark", !.copy = marked]
    <3>1. marked \in Row
      <4>1. poll[n].copy \in Row
        BY <1>0
      <4> QED
        BY <4>1, RowUpdate
    <3>2. CASE PollNext(n)
      BY <1>a, <3>2
    <3>3. CASE poll' = [poll EXCEPT ![n].pc = "mark", ![n].copy.notified = TRUE]
      <4>1. rec \in Poll
        <5>1. "mark" \in PollPc /\ {} \in SUBSET RunId /\ poll[n].run \in RunId
          BY <1>p
        <5> HIDE DEF marked, PollPc
        <5> QED
          BY <1>p, <3>1, <5>1, PollUpdate
      <4>2. poll' = [poll EXCEPT ![n] = rec]
        BY <1>p, <3>3
      <4> HIDE DEF rec, Poll
      <4> QED
        BY <1>p, <4>1, <4>2
    <3> QED
      BY <1>4, <3>2, <3>3 DEF PollNotify
  <2>2. fired' \in [RunId -> Nat]
    BY <1>0, <1>4, FireType DEF PollNotify
  <2> QED
    BY <1>4, <2>1, <2>2 DEF PollNotify, TypeOK
<1>5. CASE PollMark(n)
  <2>1. poll' \in [Node -> Poll]
    BY <1>a, <1>5 DEF PollMark
  <2>2. row' \in [RunId -> Row]
    <3>1. poll[n].run \in RunId /\ poll[n].copy \in Row
      BY <1>p
    <3> QED
      BY <1>0, <1>5, <3>1 DEF PollMark
  <2> QED
    BY <1>5, <2>1, <2>2 DEF PollMark, TypeOK, history
<1>6. CASE Resolve(n)
  <2>1. poll' \in [Node -> Poll]
    <3>1. CASE PollNext(n)
      BY <1>a, <3>1
    <3>2. CASE ~PollNext(n)
      <4>1. PICK prev \in RunId :
              poll' = [poll EXCEPT ![n].pc = "clear", ![n].run = prev,
                                   ![n].copy = [row[prev] EXCEPT !.notified = FALSE]]
        BY <1>6, <3>2 DEF Resolve, Unresolved
      <4>2. [row[prev] EXCEPT !.notified = FALSE] \in Row
        <5>1. row[prev] \in Row
          BY DEF TypeOK
        <5> QED
          BY <5>1, RowUpdate
      <4> DEFINE rec == [poll[n] EXCEPT !.pc = "clear", !.run = prev,
                                        !.copy = [row[prev] EXCEPT !.notified = FALSE]]
      <4>3. rec \in Poll
        <5> DEFINE cleared == [row[prev] EXCEPT !.notified = FALSE]
        <5>1. cleared \in Row /\ "clear" \in PollPc /\ {} \in SUBSET RunId
          BY <4>2
        <5>2. [poll[n] EXCEPT !.pc = "clear", !.run = prev, !.copy = cleared] \in Poll
          <6> HIDE DEF cleared, PollPc
          <6> QED
            BY <1>p, <5>1, PollUpdate
        <5> QED
          BY <5>2
      <4>4. poll' = [poll EXCEPT ![n] = rec]
        BY <1>p, <4>1
      <4> HIDE DEF rec, Poll
      <4> QED
        BY <1>p, <4>3, <4>4
    <3> QED
      BY <3>1, <3>2
  <2> QED
    BY <1>6, <2>1 DEF Resolve, TypeOK, history
<1>7. CASE Clear(n)
  <2>1. poll' \in [Node -> Poll]
    BY <1>a, <1>7 DEF Clear
  <2>2. row' \in [RunId -> Row]
    <3>1. poll[n].run \in RunId /\ poll[n].copy \in Row
      BY <1>p
    <3> QED
      BY <1>0, <1>7, <3>1 DEF Clear
  <2> QED
    BY <1>7, <2>1, <2>2 DEF Clear, TypeOK, history
<1>8. ASSUME NEW r \in RunId, Query(n, r) PROVE TypeOK'
  <2>1. [row[r] EXCEPT !.status = Answer(n, row[r].job)] \in Row
    <3>1. Answer(n, row[r].job) \in {"success", "failed"}
      BY <1>8 DEF Query, Answer
    <3>2. row[r] \in Row
      BY DEF TypeOK
    <3> QED
      BY <3>1, <3>2, RowUpdate DEF Terminal
  <2> DEFINE rec == [pc |-> "save", todo |-> poll[n].todo \ {r}, run |-> r,
                     copy |-> [row[r] EXCEPT !.status = Answer(n, row[r].job)]]
  <2>2. rec \in Poll
    BY <1>0, <2>1
  <2>3. poll' = [poll EXCEPT ![n] = rec]
    BY <1>8 DEF Query
  <2>4. poll' \in [Node -> Poll]
    BY <1>0, <2>2, <2>3
  <2> QED
    BY <1>8, <2>4 DEF Query, TypeOK, history
<1>9. ASSUME NEW r \in RunId, PollNothing(n, r) PROVE TypeOK'
  <2>1. [poll[n] EXCEPT !.todo = poll[n].todo \ {r}] \in Poll
    BY <1>0
  <2>2. poll' \in [Node -> Poll]
    BY <1>0, <1>9, <2>1 DEF PollNothing
  <2> QED
    BY <1>9, <2>2 DEF PollNothing, TypeOK, history
<1> QED
  BY <1>1, <1>2, <1>3, <1>4, <1>5, <1>6, <1>7, <1>8, <1>9 DEF PollStep, PollEnds

\* The jobs of the rcds, the ends of processes and the deletion of a task keep
\* every variable typed.
LEMMA AroundType ==
    ASSUME TypeOK, Around
    PROVE  TypeOK'
<1>1. ASSUME NEW n \in Node, NEW id \in 1 .. MaxRuns, JobEnds(n, id) PROVE TypeOK'
  <2>1. rcd[n] \in Seq(Job) /\ id \in 1 .. Len(rcd[n]) /\ rcd[n][id] \in Job
    BY <1>1 DEF JobEnds, TypeOK
  <2>2. PICK end \in {"ok", "error"} :
          /\ rcd' = [rcd EXCEPT ![n][id].state = end]
          /\ done' = IF end = "ok" THEN done \cup {rcd[n][id].run} ELSE done
    BY <1>1 DEF JobEnds
  <2>3. done' \subseteq RunId
    BY <2>1, <2>2 DEF TypeOK, Job
  <2> DEFINE ended == [rcd[n][id] EXCEPT !.state = end]
  <2>4. ended \in Job
    BY <2>1 DEF Job
  <2>5. [rcd[n] EXCEPT ![id] = ended] \in Seq(Job)
    BY <2>1, <2>4
  <2>6. rcd' \in [Node -> Seq(Job)]
    <3>1. rcd' = [rcd EXCEPT ![n] = [rcd[n] EXCEPT ![id] = ended]]
      BY <2>2
    <3> QED
      BY <2>5, <3>1 DEF TypeOK
  <2> QED
    BY <1>1, <2>3, <2>6 DEF JobEnds, TypeOK
<1>2. ASSUME NEW n \in Node, RcdRestart(n) PROVE TypeOK'
  <2>1. << >> \in Seq(Job)
    OBVIOUS
  <2>2. rcd' \in [Node -> Seq(Job)]
    BY <1>2, <2>1 DEF RcdRestart, TypeOK
  <2>3. budget' \in [crash : Nat, rcd : Nat, delete : Nat]
    <3>1. budget.rcd - 1 \in Nat
      BY <1>2 DEF RcdRestart, TypeOK
    <3> QED
      BY <1>2, <3>1 DEF RcdRestart, TypeOK
  <2> QED
    BY <1>2, <2>2, <2>3 DEF RcdRestart, TypeOK, history
<1>3. ASSUME NEW n \in Node, Crash(n) PROVE TypeOK'
  <2>1. trig' \in [Trigger -> [pc : TrigPc, run : RunId, copy : Row]]
    BY <1>3, NoTrigType DEF Crash, TypeOK
  <2>2. poll' \in [Node -> [pc : PollPc, todo : SUBSET RunId, run : RunId, copy : Row]]
    BY <1>3, NoPollType DEF Crash, TypeOK
  <2>3. budget' \in [crash : Nat, rcd : Nat, delete : Nat]
    <3>1. budget.crash - 1 \in Nat
      BY <1>3 DEF Crash, TypeOK
    <3> QED
      BY <1>3, <3>1 DEF Crash, TypeOK
  <2> QED
    BY <1>3, <2>1, <2>2, <2>3 DEF Crash, TypeOK, history
<1>4. ASSUME NEW n \in Node, Restart(n) PROVE TypeOK'
  BY <1>4 DEF Restart, TypeOK, history
<1>5. ASSUME NEW t \in Task, DeleteRuns(t) PROVE TypeOK'
  <2>1. row' \in [RunId -> Row]
    BY <1>5, NoRowType DEF DeleteRuns, TypeOK
  <2>2. budget' \in [crash : Nat, rcd : Nat, delete : Nat]
    <3>1. budget.delete - 1 \in Nat
      BY <1>5 DEF DeleteRuns, TypeOK
    <3> QED
      BY <1>5, <3>1 DEF DeleteRuns, TypeOK
  <2> QED
    BY <1>5, <2>1, <2>2 DEF DeleteRuns, TypeOK, history
<1>6. ASSUME NEW t \in Task, DeleteTask(t) PROVE TypeOK'
  BY <1>6 DEF DeleteTask, TypeOK, history
<1> QED
  BY <1>1, <1>2, <1>3, <1>4, <1>5, <1>6 DEF Around

-----------------------------------------------------------------------------
(* What a step does to the goroutine that takes it, and to the others. *)

LEMMA TrigGoesAt ==
    ASSUME TypeOK, NEW w \in Trigger, NEW pc, NEW copy, TrigGoes(w, pc, copy)
    PROVE  /\ trig'[w].pc = pc
           /\ pc # "idle" => trig'[w].run = trig[w].run /\ trig'[w].copy = copy
           /\ \A v \in Trigger \ {w} : trig'[v] = trig[v]
BY DEF TypeOK, TrigGoes, NoTrig

LEMMA SaveAt ==
    ASSUME TypeOK, NEW r \in RunId, NEW rec, Save(r, rec)
    PROVE  row'[r] = rec /\ \A s \in RunId \ {r} : row'[s] = row[s]
BY DEF TypeOK, Save

LEMMA FireAt ==
    ASSUME TypeOK, NEW r \in RunId, Fire(r)
    PROVE  fired'[r] = fired[r] + 1 /\ \A s \in RunId \ {r} : fired'[s] = fired[s]
BY DEF TypeOK, Fire

LEMMA PollNextAt ==
    ASSUME TypeOK, NEW n \in Node, PollNext(n)
    PROVE  /\ poll'[n].pc \in {"idle", "polling"} /\ poll'[n].todo = poll[n].todo
           /\ \A m \in Node \ {n} : poll'[m] = poll[m]
BY DEF TypeOK, PollNext, NoPoll

\* A step that writes run r alone leaves the writers of other runs in their state.
LEMMA OtherTrigger ==
    ASSUME RunInv, NEW r \in RunId, NEW v \in Trigger, trig'[v] = trig[v], ~Holds(v, r),
           \A s \in RunId \ {r} : row'[s] = row[s] /\ fired'[s] = fired[s]
    PROVE  TrigState(v)'
<1>1. trig[v].run \in RunId /\ TrigState(v)
  BY DEF RunInv, TypeOK, WriterState
<1> QED
  BY <1>1 DEF TrigState, Writing, Holds, Copy

LEMMA OtherPoll ==
    ASSUME RunInv, NEW r \in RunId, NEW n \in Node, poll'[n] = poll[n],
           ~Polls(n, r), ~Clears(n, r),
           \A s \in RunId \ {r} : row'[s] = row[s] /\ fired'[s] = fired[s]
    PROVE  PollState(n)'
<1>1. poll[n].run \in RunId /\ PollState(n)
  BY DEF RunInv, TypeOK, WriterState
<1> QED
  BY <1>1 DEF PollState, Writing, Polls, Clears

\* A step of goroutine w that writes its run r alone, in the states of its walk:
\* a running or a notified row is one it lets go of.
Writes(w, r) ==
    /\ Holds(w, r) /\ UNCHANGED <<lastId, up, poll>>
    /\ \A v \in Trigger \ {w} : trig'[v] = trig[v]
    /\ trig'[w].pc = "idle" \/ (Holds(w, r)' /\ Copy(w)'.node = Copy(w).node)
    /\ \A s \in RunId \ {r} : row'[s] = row[s] /\ fired'[s] = fired[s]
    /\ TrigState(w)'
    /\ fired'[r] <= 1 /\ (row'[r].status = "none" => ~row'[r].notified)
    /\ row'[r].status = "running" =>
         fired'[r] = 0 /\ ~row'[r].notified /\ trig'[w].pc = "idle"
    /\ row'[r].notified => fired'[r] = 1 /\ trig'[w].pc = "idle"

LEMMA WriterStep ==
    ASSUME RunInv, TypeOK', NEW w \in Trigger, NEW r \in RunId, Writes(w, r)
    PROVE  RunInv'
<1> USE DEF Writes
<1>1. /\ r <= lastId /\ \A n \in Node : ~Polls(n, r) /\ ~Clears(n, r) /\ r \notin poll[n].todo
      /\ \A v \in Trigger \ {w} : ~Holds(v, r)
  BY DEF RunInv, FreshIds, OneWriter
<1>2. /\ \A s \in RunId, v \in Trigger : Holds(v, s)' => Holds(v, s)
      /\ trig'[w].pc = "idle" => \A s \in RunId : ~Holds(w, s)'
      /\ \A s \in RunId, n \in Node :
           /\ Polls(n, s)' <=> Polls(n, s)
           /\ Clears(n, s)' <=> Clears(n, s)
  BY DEF Holds, Polls, Clears
<1>3. OnLiveNode'
  BY DEF RunInv, OnLiveNode, Copy, Holds
<1>4. FreshIds'
  <2>1. \A s \in RunId : s > lastId => s # r
    BY <1>1, RunAssumption DEF RunInv, TypeOK, RunId, RunAssumption
  <2> QED
    BY <1>2, <2>1 DEF RunInv, FreshIds
<1>5. OneWriter'
  BY <1>1, <1>2 DEF RunInv, OneWriter
<1>6. WriterState'
  <2>1. \A v \in Trigger \ {w} : TrigState(v)'
    BY <1>1, OtherTrigger
  <2>2. \A n \in Node : PollState(n)'
    BY <1>1, OtherPoll
  <2> QED
    BY <2>1, <2>2 DEF WriterState
<1>7. Settled'
  BY <1>1, <1>2 DEF RunInv, Settled
<1> QED
  BY <1>3, <1>4, <1>5, <1>6, <1>7 DEF RunInv

\* A step that writes nothing: goroutines and poll jobs let go of runs, and rows
\* are deleted.
Recedes ==
    /\ UNCHANGED <<lastId, fired>> /\ OnLiveNode'
    /\ \A w \in Trigger : trig'[w] = trig[w] \/ trig'[w].pc = "idle"
    /\ \A n \in Node : \/ poll'[n] = poll[n]
                      \/ /\ poll'[n].pc \in {"idle", "polling", "resolve"}
                         /\ poll'[n].todo \subseteq poll[n].todo
    /\ \A r \in RunId : row'[r] = row[r] \/ row'[r] = NoRow

LEMMA RecedingStep ==
    ASSUME RunInv, TypeOK', Recedes
    PROVE  RunInv'
<1>1. /\ \A s \in RunId, w \in Trigger : Holds(w, s)' => Holds(w, s)
      /\ \A s \in RunId, n \in Node :
           /\ Polls(n, s)' => Polls(n, s)
           /\ Clears(n, s)' => Clears(n, s)
           /\ s \in poll'[n].todo => s \in poll[n].todo
  BY DEF Recedes, Holds, Polls, Clears
<1>2. \A r \in RunId : row'[r] = row[r] \/ (row'[r].status = "none" /\ ~row'[r].notified)
  <2>1. NoRow.status = "none" /\ ~NoRow.notified
    BY DEF NoRow
  <2> QED
    BY <2>1 DEF Recedes
<1>3. UNCHANGED lastId /\ UNCHANGED fired
  BY DEF Recedes
<1>4. FreshIds'
  BY <1>1, <1>2, <1>3 DEF RunInv, FreshIds
<1>5. OneWriter'
  BY <1>1, <1>2 DEF RunInv, OneWriter
<1>6. WriterState'
  <2>1. ASSUME NEW w \in Trigger PROVE TrigState(w)'
    <3>1. trig[w].run \in RunId /\ TrigState(w)
      BY DEF RunInv, TypeOK, WriterState
    <3>2. CASE trig'[w] = trig[w]
      BY <1>2, <1>3, <3>1, <3>2 DEF TrigState, Writing, Copy
    <3>3. CASE trig'[w].pc = "idle"
      BY <3>3 DEF TrigState
    <3> QED
      BY <3>2, <3>3 DEF Recedes
  <2>2. ASSUME NEW n \in Node PROVE PollState(n)'
    <3>1. poll[n].run \in RunId /\ PollState(n)
      BY DEF RunInv, TypeOK, WriterState
    <3>2. CASE poll'[n] = poll[n]
      BY <1>2, <1>3, <3>1, <3>2 DEF PollState, Writing
    <3>3. CASE poll'[n].pc \in {"idle", "polling", "resolve"}
      BY <3>3 DEF PollState
    <3> QED
      BY <3>2, <3>3 DEF Recedes
  <2> QED
    BY <2>1, <2>2 DEF WriterState
<1>7. Settled'
  BY <1>1, <1>2, <1>3 DEF RunInv, Settled
<1> QED
  BY <1>4, <1>5, <1>6, <1>7 DEF RunInv, Recedes
-----------------------------------------------------------------------------
LEMMA TrigStepInv ==
    ASSUME RunInv, NEW w \in Trigger, TrigStep(w)
    PROVE  RunInv'
<1>0. TypeOK'
  BY TrigStepType DEF RunInv
<1> DEFINE r == trig[w].run
<1>r. r \in RunId /\ TypeOK
  BY DEF RunInv, TypeOK
<1>1. CASE CreateFails(w)
  <2>1. trig'[w].pc = "idle" /\ \A v \in Trigger \ {w} : trig'[v] = trig[v]
    BY <1>r, <1>1, TrigGoesAt DEF CreateFails
  <2>2. Recedes
    BY <1>1, <2>1 DEF RunInv, CreateFails, Recedes, OnLiveNode, Copy, history
  <2> QED
    BY <1>0, <2>2, RecedingStep
<1>2. CASE Create(w)
  <2>1. /\ trig[w].pc = "passed" /\ trig'[w].pc = "created" /\ trig'[w].run = lastId + 1
        /\ trig'[w].copy = [Copy(w) EXCEPT !.status = "pending"]
        /\ \A v \in Trigger \ {w} : trig'[v] = trig[v]
    BY <1>r, <1>2 DEF Create, TypeOK
  <2>a. Copy(w) \in Row /\ ~Copy(w).notified
    BY <1>r, <2>1 DEF RunInv, TypeOK, WriterState, TrigState, Copy
  <2>b. trig'[w].copy.status = "pending" /\ trig'[w].copy.node = Copy(w).node
        /\ ~trig'[w].copy.notified
    BY <2>1, <2>a DEF Row
  <2>2. UNCHANGED <<poll, fired, up>>
    BY <1>2 DEF Create, history
  <2>3. lastId + 1 \in RunId /\ lastId \in Nat
    BY <1>r, <1>2, RunAssumption DEF Create, TypeOK, RunId, RunAssumption
  <2>4. /\ lastId' = lastId + 1 /\ row'[lastId + 1] = trig'[w].copy
        /\ \A s \in RunId \ {lastId + 1} : row'[s] = row[s]
    BY <1>r, <1>2, <2>1, <2>3, SaveAt DEF Create, Insert
  <2>c. \A s \in RunId : s \in Nat
    BY RunAssumption DEF RunId, RunAssumption
  \* Nobody knows of the id that is given out.
  <2>d. /\ fired[lastId + 1] = 0
        /\ \A v \in Trigger : ~Holds(v, lastId + 1)
        /\ \A n \in Node : /\ ~Polls(n, lastId + 1) /\ ~Clears(n, lastId + 1)
                           /\ lastId + 1 \notin poll[n].todo
    BY <2>3 DEF RunInv, FreshIds
  <2>e. /\ \A s \in RunId, v \in Trigger :
             Holds(v, s)' <=> \/ v = w /\ s = lastId + 1
                              \/ v # w /\ Holds(v, s)
        /\ \A s \in RunId, n \in Node :
             /\ Polls(n, s)' <=> Polls(n, s)
             /\ Clears(n, s)' <=> Clears(n, s)
    BY <2>1, <2>2 DEF Holds, Polls, Clears
  <2>5. OnLiveNode'
    BY <2>1, <2>2, <2>b DEF RunInv, OnLiveNode, Copy
  <2>6. FreshIds'
    BY <1>r, <2>2, <2>3, <2>4, <2>b, <2>c, <2>e DEF RunInv, FreshIds
  <2>7. OneWriter'
    BY <2>1, <2>2, <2>3, <2>4, <2>b, <2>d DEF RunInv, OneWriter, Holds, Polls, Clears
  <2>8. WriterState'
    <3>1. TrigState(w)'
      BY <2>1, <2>2, <2>3, <2>4, <2>b, <2>d DEF TrigState, Writing, Copy
    <3>2. \A v \in Trigger \ {w} : TrigState(v)'
      BY <2>1, <2>2, <2>3, <2>4, <2>d, OtherTrigger
    <3>3. \A n \in Node : PollState(n)'
      BY <2>2, <2>3, <2>4, <2>d, OtherPoll
    <3> QED
      BY <3>1, <3>2, <3>3 DEF WriterState
  <2>9. Settled'
    BY <2>2, <2>3, <2>4, <2>b, <2>d, <2>e DEF RunInv, Settled
  <2> QED
    BY <1>0, <2>5, <2>6, <2>7, <2>8, <2>9 DEF RunInv
<1>3. CASE PreCheckSkips(w)
  <2>1. PICK rec : rec = [Copy(w) EXCEPT !.status = "skipped"]
    OBVIOUS
  <2>2. /\ trig[w].pc = "created" /\ Save(r, rec) /\ TrigGoes(w, "idle", NoRow)
        /\ UNCHANGED <<lastId, up, poll>> /\ UNCHANGED fired
    BY <1>3, <2>1 DEF PreCheckSkips, history
  <2>3. Holds(w, r) /\ TrigState(w) /\ Copy(w) \in Row
    BY <1>r, <2>2 DEF RunInv, WriterState, Holds, TypeOK, Copy
  <2>4. rec.status = "skipped" /\ ~rec.notified /\ fired[r] = 0
    BY <2>1, <2>2, <2>3, RowFields DEF TrigState, Writing
  <2>5. trig'[w].pc = "idle" /\ \A v \in Trigger \ {w} : trig'[v] = trig[v]
    BY <1>r, <2>2, TrigGoesAt
  <2>6. row'[r] = rec /\ \A s \in RunId \ {r} : row'[s] = row[s] /\ fired'[s] = fired[s]
    BY <1>r, <2>2, SaveAt
  <2>7. TrigState(w)'
    BY <2>5 DEF TrigState
  <2>8. Writes(w, r)
    BY <2>2, <2>3, <2>4, <2>5, <2>6, <2>7 DEF Writes
  <2> QED
    BY <1>0, <1>r, <2>8, WriterStep
<1>4. CASE Submit(w)
  <2>1. PICK rec : rec = [Copy(w) EXCEPT !.status = "running", !.job = Len(rcd[Copy(w).node]) + 1]
    OBVIOUS
  <2>2. /\ trig[w].pc = "created" /\ UNCHANGED <<lastId, up, poll>> /\ UNCHANGED <<row, fired>>
        /\ TrigGoes(w, "submitted", rec) \/ TrigGoes(w, "failing", Copy(w))
    BY <1>4, <2>1 DEF Submit, history
  <2>3. Holds(w, r) /\ TrigState(w) /\ Copy(w) \in Row
    BY <1>r, <2>2 DEF RunInv, WriterState, Holds, TypeOK, Copy
  <2>4. rec.status = "running" /\ rec.node = Copy(w).node /\ rec.notified = Copy(w).notified
    BY <2>1, <2>3, RowFields
  <2>5. /\ trig'[w].pc \in {"submitted", "failing"} /\ trig'[w].run = r
        /\ trig'[w].copy \in {rec, Copy(w)} /\ \A v \in Trigger \ {w} : trig'[v] = trig[v]
    BY <1>r, <2>2, TrigGoesAt
  <2>6. TrigState(w)' /\ Holds(w, r)' /\ Copy(w)'.node = Copy(w).node
    BY <2>2, <2>3, <2>4, <2>5 DEF TrigState, Writing, Copy, Holds
  <2>7. row[r].status \in {"pending", "none"} /\ ~row[r].notified /\ fired[r] = 0
    BY <2>2, <2>3 DEF TrigState, Writing
  <2>8. Writes(w, r)
    BY <2>2, <2>3, <2>5, <2>6, <2>7 DEF Writes
  <2> QED
    BY <1>0, <1>r, <2>8, WriterStep
<1>5. CASE StartFails(w)
  <2>1. /\ trig[w].pc = "created" /\ UNCHANGED <<lastId, up, poll>> /\ UNCHANGED <<row, fired>>
        /\ TrigGoes(w, "failing", Copy(w))
    BY <1>5 DEF StartFails, history
  <2>2. Holds(w, r) /\ TrigState(w)
    BY <1>r, <2>1 DEF RunInv, WriterState, Holds
  <2>3. /\ trig'[w].pc = "failing" /\ trig'[w].run = r
        /\ trig'[w].copy = Copy(w) /\ \A v \in Trigger \ {w} : trig'[v] = trig[v]
    BY <1>r, <2>1, TrigGoesAt
  <2>4. TrigState(w)' /\ Holds(w, r)' /\ Copy(w)'.node = Copy(w).node
    BY <2>1, <2>2, <2>3 DEF TrigState, Writing, Copy, Holds
  <2>5. row[r].status \in {"pending", "none"} /\ ~row[r].notified /\ fired[r] = 0
    BY <2>1, <2>2 DEF TrigState, Writing
  <2>6. Writes(w, r)
    BY <2>1, <2>2, <2>3, <2>4, <2>5 DEF Writes
  <2> QED
    BY <1>0, <1>r, <2>6, WriterStep
<1>6. CASE SaveRunning(w)
  <2>1. /\ trig[w].pc = "submitted" /\ UNCHANGED <<lastId, up, poll>> /\ UNCHANGED fired
        /\ TrigGoes(w, "idle", NoRow) /\ (Save(r, Copy(w)) \/ UNCHANGED row)
    BY <1>6 DEF SaveRunning, TrySave, history
  <2>2. Holds(w, r) /\ TrigState(w)
    BY <1>r, <2>1 DEF RunInv, WriterState, Holds
  <2>3. trig'[w].pc = "idle" /\ \A v \in Trigger \ {w} : trig'[v] = trig[v]
    BY <1>r, <2>1, TrigGoesAt
  <2>4. TrigState(w)'
    BY <2>3 DEF TrigState
  <2>5. /\ row[r].status \in {"pending", "none"} /\ ~row[r].notified /\ fired[r] = 0
        /\ ~Copy(w).notified
    BY <2>1, <2>2 DEF TrigState, Writing
  <2>6. row'[r] \in {row[r], Copy(w)} /\ \A s \in RunId \ {r} : row'[s] = row[s]
    BY <1>r, <2>1, SaveAt
  <2>7. Writes(w, r)
    BY <2>1, <2>2, <2>3, <2>4, <2>5, <2>6 DEF Writes
  <2> QED
    BY <1>0, <1>r, <2>7, WriterStep
<1>7. CASE SaveFailed(w)
  <2>1. PICK rec : rec = [Copy(w) EXCEPT !.status = "failed"]
    OBVIOUS
  <2>2. /\ trig[w].pc = "failing" /\ UNCHANGED <<lastId, up, poll>> /\ UNCHANGED fired
        /\ \/ Save(r, rec) /\ TrigGoes(w, "notify", rec)
           \/ TrigGoes(w, "idle", NoRow) /\ UNCHANGED row
    BY <1>7, <2>1 DEF SaveFailed, history
  <2>3. Holds(w, r) /\ TrigState(w) /\ Copy(w) \in Row
    BY <1>r, <2>2 DEF RunInv, WriterState, Holds, TypeOK, Copy
  <2>4. rec.status = "failed" /\ rec.node = Copy(w).node /\ rec.notified = Copy(w).notified
    BY <2>1, <2>3, RowFields
  <2>5. /\ row[r].status \in {"pending", "none"} /\ ~row[r].notified /\ fired[r] = 0
        /\ ~Copy(w).notified
    BY <2>2, <2>3 DEF TrigState, Writing
  <2>6. CASE Save(r, rec) /\ TrigGoes(w, "notify", rec)
    <3>1. /\ trig'[w].pc = "notify" /\ trig'[w].run = r /\ trig'[w].copy = rec
          /\ \A v \in Trigger \ {w} : trig'[v] = trig[v]
      BY <1>r, <2>6, TrigGoesAt
    <3>2. row'[r] = rec /\ \A s \in RunId \ {r} : row'[s] = row[s]
      BY <1>r, <2>6, SaveAt
    <3>3. TrigState(w)' /\ Holds(w, r)' /\ Copy(w)'.node = Copy(w).node
      BY <2>2, <2>4, <2>5, <3>1, <3>2 DEF TrigState, Writing, Copy, Holds
    <3>4. Writes(w, r)
      BY <2>2, <2>3, <2>4, <2>5, <3>1, <3>2, <3>3 DEF Writes
    <3> QED
      BY <1>0, <1>r, <3>4, WriterStep
  <2>7. CASE TrigGoes(w, "idle", NoRow) /\ UNCHANGED row
    <3>1. trig'[w].pc = "idle" /\ \A v \in Trigger \ {w} : trig'[v] = trig[v]
      BY <1>r, <2>7, TrigGoesAt
    <3>2. TrigState(w)'
      BY <3>1 DEF TrigState
    <3>3. Writes(w, r)
      BY <2>2, <2>3, <2>5, <2>7, <3>1, <3>2 DEF Writes
    <3> QED
      BY <1>0, <1>r, <3>3, WriterStep
  <2> QED
    BY <2>2, <2>6, <2>7
<1>8. CASE TrigNotify(w)
  <2>1. PICK rec : rec = [Copy(w) EXCEPT !.notified = TRUE]
    OBVIOUS
  <2>2. /\ trig[w].pc = "notify" /\ UNCHANGED <<lastId, up, poll>> /\ UNCHANGED row
        /\ \/ Fire(r) /\ TrigGoes(w, "mark", rec)
           \/ TrigGoes(w, "idle", NoRow) /\ UNCHANGED fired
    BY <1>8, <2>1 DEF TrigNotify
  <2>3. Holds(w, r) /\ TrigState(w) /\ Copy(w) \in Row
    BY <1>r, <2>2 DEF RunInv, WriterState, Holds, TypeOK, Copy
  <2>4. rec.status = Copy(w).status /\ rec.node = Copy(w).node /\ rec.notified = TRUE
    BY <2>1, <2>3, RowFields
  <2>5. /\ row[r].status \in {"failed", "none"} /\ ~row[r].notified /\ fired[r] = 0
        /\ Copy(w).status = "failed"
    BY <2>2, <2>3 DEF TrigState, Writing
  <2>6. CASE Fire(r) /\ TrigGoes(w, "mark", rec)
    <3>1. /\ trig'[w].pc = "mark" /\ trig'[w].run = r /\ trig'[w].copy = rec
          /\ \A v \in Trigger \ {w} : trig'[v] = trig[v]
      BY <1>r, <2>6, TrigGoesAt
    <3>2. fired'[r] = 1 /\ \A s \in RunId \ {r} : fired'[s] = fired[s]
      BY <1>r, <2>5, <2>6, FireAt
    <3>3. TrigState(w)' /\ Holds(w, r)' /\ Copy(w)'.node = Copy(w).node
      BY <2>2, <2>4, <2>5, <3>1, <3>2 DEF TrigState, Writing, Copy, Holds
    <3>4. Writes(w, r)
      BY <2>2, <2>3, <2>4, <2>5, <3>1, <3>2, <3>3 DEF Writes
    <3> QED
      BY <1>0, <1>r, <3>4, WriterStep
  <2>7. CASE TrigGoes(w, "idle", NoRow) /\ UNCHANGED fired
    <3>1. trig'[w].pc = "idle" /\ \A v \in Trigger \ {w} : trig'[v] = trig[v]
      BY <1>r, <2>7, TrigGoesAt
    <3>2. TrigState(w)'
      BY <3>1 DEF TrigState
    <3>3. Writes(w, r)
      BY <2>2, <2>3, <2>5, <2>7, <3>1, <3>2 DEF Writes
    <3> QED
      BY <1>0, <1>r, <3>3, WriterStep
  <2> QED
    BY <2>2, <2>6, <2>7
<1>9. CASE TrigMark(w)
  <2>1. /\ trig[w].pc = "mark" /\ UNCHANGED <<lastId, up, poll>> /\ UNCHANGED fired
        /\ TrigGoes(w, "idle", NoRow) /\ (Save(r, Copy(w)) \/ UNCHANGED row)
    BY <1>9 DEF TrigMark, TrySave, history
  <2>2. Holds(w, r) /\ TrigState(w)
    BY <1>r, <2>1 DEF RunInv, WriterState, Holds
  <2>3. trig'[w].pc = "idle" /\ \A v \in Trigger \ {w} : trig'[v] = trig[v]
    BY <1>r, <2>1, TrigGoesAt
  <2>4. TrigState(w)'
    BY <2>3 DEF TrigState
  <2>5. /\ row[r].status \in {"failed", "none"} /\ ~row[r].notified /\ fired[r] = 1
        /\ Copy(w).status = "failed" /\ Copy(w).notified
    BY <2>1, <2>2 DEF TrigState, Writing
  <2>6. row'[r] \in {row[r], Copy(w)} /\ \A s \in RunId \ {r} : row'[s] = row[s]
    BY <1>r, <2>1, SaveAt
  <2>7. Writes(w, r)
    BY <2>1, <2>2, <2>3, <2>4, <2>5, <2>6 DEF Writes
  <2> QED
    BY <1>0, <1>r, <2>7, WriterStep
<1> QED
  BY <1>1, <1>2, <1>3, <1>4, <1>5, <1>6, <1>7, <1>8, <1>9 DEF TrigStep

\* The guard inserts a finished row, under an id nobody knows, or takes the
\* trigger further with nothing written.
LEMMA GuardInv ==
    ASSUME RunInv, NEW w \in Trigger, NEW n \in Node, NEW t \in Task, Guard(w, n, t)
    PROVE  RunInv'
<1>t. TypeOK
  BY DEF RunInv
<1>1. PICK new : new = [NoRow EXCEPT !.task = t, !.node = n]
  OBVIOUS
<1>2. new \in Row /\ ~new.notified /\ new.node = n
  BY <1>1, NoRowType DEF Row, NoRow
<1>3. /\ trig[w].pc = "idle" /\ n \in up /\ UNCHANGED <<up, poll>> /\ UNCHANGED fired
      /\ UNCHANGED <<tasks, rcd, deleting, budget, done>>
  BY DEF Guard, history
<1>4. CASE lastId < MaxRuns /\ Insert([new EXCEPT !.status = "skipped"]) /\ UNCHANGED trig
  <2>1. PICK rec : rec = [new EXCEPT !.status = "skipped"]
    OBVIOUS
  <2>2. rec \in Row /\ rec.status = "skipped" /\ ~rec.notified
    BY <1>2, <2>1, RowFields, RowUpdate DEF Terminal
  <2>3. lastId + 1 \in RunId /\ lastId \in Nat /\ \A s \in RunId : s \in Nat
    BY <1>t, <1>4, RunAssumption DEF TypeOK, RunId, RunAssumption
  <2>4. /\ lastId' = lastId + 1 /\ row'[lastId + 1] = rec /\ row' \in [RunId -> Row]
        /\ \A s \in RunId \ {lastId + 1} : row'[s] = row[s]
    BY <1>t, <1>4, <2>1, <2>2, <2>3, SaveAt, SaveType DEF Insert
  <2>5. /\ fired[lastId + 1] = 0
        /\ \A v \in Trigger : ~Holds(v, lastId + 1)
        /\ \A m \in Node : ~Polls(m, lastId + 1) /\ ~Clears(m, lastId + 1)
    BY <2>3 DEF RunInv, FreshIds
  <2>6. /\ \A s \in RunId, v \in Trigger : Holds(v, s)' <=> Holds(v, s)
        /\ \A s \in RunId, m \in Node :
             /\ Polls(m, s)' <=> Polls(m, s)
             /\ Clears(m, s)' <=> Clears(m, s)
    BY <1>3, <1>4 DEF Holds, Polls, Clears
  <2>7. TypeOK'
    <3>1. lastId' \in 0 .. MaxRuns
      BY <2>3, <2>4 DEF RunId
    <3>2. UNCHANGED <<tasks, rcd, up, trig, poll, deleting, budget, fired, done>>
      BY <1>3, <1>4
    <3>3. row' \in [RunId -> Row]
      BY <2>4
    <3> QED
      BY <1>t, <3>1, <3>2, <3>3 DEF TypeOK
  <2>8. OnLiveNode'
    BY <1>3, <1>4 DEF RunInv, OnLiveNode, Copy
  <2>9. FreshIds'
    BY <1>3, <2>2, <2>3, <2>4, <2>6 DEF RunInv, FreshIds
  <2>10. OneWriter'
    BY <1>3, <2>2, <2>4, <2>6 DEF RunInv, OneWriter
  <2>11. WriterState'
    <3>1. \A v \in Trigger : TrigState(v)'
      BY <1>3, <1>4, <2>3, <2>4, <2>5, OtherTrigger
    <3>2. \A m \in Node : PollState(m)'
      BY <1>3, <2>3, <2>4, <2>5, OtherPoll
    <3> QED
      BY <3>1, <3>2 DEF WriterState
  <2>12. Settled'
    BY <1>3, <2>2, <2>3, <2>4, <2>5, <2>6 DEF RunInv, Settled
  <2> QED
    BY <2>7, <2>8, <2>9, <2>10, <2>11, <2>12 DEF RunInv
<1>5. CASE TrigGoes(w, "passed", new) /\ UNCHANGED <<row, lastId>>
  <2>1. /\ trig'[w].pc = "passed" /\ trig'[w].copy = new
        /\ \A v \in Trigger \ {w} : trig'[v] = trig[v]
    BY <1>t, <1>5, TrigGoesAt
  <2>2. TypeOK'
    <3>1. trig' \in [Trigger -> [pc : TrigPc, run : RunId, copy : Row]]
      BY <1>t, <1>2, <1>5, TrigGoesType DEF TrigPc
    <3> QED
      BY <1>t, <1>3, <1>5, <3>1 DEF TypeOK
  <2>3. /\ \A s \in RunId, v \in Trigger : Holds(v, s)' <=> Holds(v, s)
        /\ \A s \in RunId, m \in Node :
             /\ Polls(m, s)' <=> Polls(m, s)
             /\ Clears(m, s)' <=> Clears(m, s)
    BY <1>3, <2>1 DEF Holds, Polls, Clears
  <2>4. OnLiveNode'
    BY <1>2, <1>3, <2>1 DEF RunInv, OnLiveNode, Copy
  <2>5. FreshIds' /\ OneWriter' /\ Settled'
    BY <1>3, <1>5, <2>3 DEF RunInv, FreshIds, OneWriter, Settled
  <2>6. WriterState'
    <3>1. TrigState(w)'
      BY <1>2, <2>1 DEF TrigState, Copy
    <3>2. ASSUME NEW v \in Trigger \ {w} PROVE TrigState(v)'
      <4>1. TrigState(v)
        BY DEF RunInv, WriterState
      <4> QED
        BY <1>3, <1>5, <2>1, <4>1 DEF TrigState, Writing, Copy
    <3>3. ASSUME NEW m \in Node PROVE PollState(m)'
      <4>1. PollState(m)
        BY DEF RunInv, WriterState
      <4> QED
        BY <1>3, <1>5, <4>1 DEF PollState, Writing
    <3> QED
      BY <3>1, <3>2, <3>3 DEF WriterState
  <2> QED
    BY <2>2, <2>4, <2>5, <2>6 DEF RunInv
<1> QED
  BY <1>1, <1>4, <1>5 DEF Guard
-----------------------------------------------------------------------------
\* A step of the poll job of node n that writes the run r it polls, and no other.
PollWrites(n, r) ==
    /\ Polls(n, r) /\ UNCHANGED <<lastId, up, trig>>
    /\ \A m \in Node \ {n} : poll'[m] = poll[m]
    /\ poll'[n].todo \subseteq poll[n].todo
    /\ Polls(n, r)' \/ poll'[n].pc \in {"idle", "polling", "resolve"}
    /\ \A s \in RunId \ {r} : row'[s] = row[s] /\ fired'[s] = fired[s]
    /\ PollState(n)'
    /\ fired'[r] <= 1 /\ (row'[r].status = "none" => ~row'[r].notified)
    /\ row'[r].status = "running" => row'[r] = row[r] /\ fired'[r] = fired[r]
    /\ row'[r].notified => fired'[r] = 1 /\ ~Polls(n, r)'

LEMMA PollWriterStep ==
    ASSUME RunInv, TypeOK', NEW n \in Node, NEW r \in RunId, PollWrites(n, r)
    PROVE  RunInv'
<1> USE DEF PollWrites
<1>1. /\ r <= lastId /\ \A w \in Trigger : ~Holds(w, r)
      /\ \A m \in Node : ~Clears(m, r) /\ r \notin poll[m].todo
      /\ \A m \in Node \ {n} : ~Polls(m, r)
  BY DEF RunInv, FreshIds, OneWriter
<1>2. /\ \A s \in RunId, w \in Trigger : Holds(w, s)' <=> Holds(w, s)
      /\ \A s \in RunId, m \in Node :
           /\ Polls(m, s)' => Polls(m, s)
           /\ Clears(m, s)' => Clears(m, s)
           /\ s \in poll'[m].todo => s \in poll[m].todo
  BY DEF Holds, Polls, Clears
<1>3. OnLiveNode'
  BY DEF RunInv, OnLiveNode, Copy
<1>4. FreshIds'
  <2>1. \A s \in RunId : s > lastId => s # r
    BY <1>1, RunAssumption DEF RunInv, TypeOK, RunId, RunAssumption
  <2> QED
    BY <1>2, <2>1 DEF RunInv, FreshIds
<1>5. OneWriter'
  BY <1>1, <1>2 DEF RunInv, OneWriter
<1>6. WriterState'
  <2>1. \A w \in Trigger : TrigState(w)'
    BY <1>1, OtherTrigger
  <2>2. \A m \in Node \ {n} : PollState(m)'
    BY <1>1, OtherPoll
  <2> QED
    BY <2>1, <2>2 DEF WriterState
<1>7. Settled'
  BY <1>1, <1>2 DEF RunInv, Settled
<1> QED
  BY <1>3, <1>4, <1>5, <1>6, <1>7 DEF RunInv

LEMMA PollEndsInv ==
    ASSUME RunInv, NEW n \in Node, PollEnds(n)
    PROVE  RunInv'
<1>0. TypeOK'
  BY PollStepType DEF RunInv, PollStep
<1> DEFINE r == poll[n].run
           copy == poll[n].copy
<1>r. r \in RunId /\ TypeOK /\ copy \in Row /\ PollState(n)
  BY DEF RunInv, TypeOK, WriterState
<1>n. PollNext(n) => /\ poll'[n].pc \in {"idle", "polling"} /\ poll'[n].todo = poll[n].todo
                     /\ \A m \in Node \ {n} : poll'[m] = poll[m]
  BY <1>r, PollNextAt
<1>o. UNCHANGED <<trig, up>> => OnLiveNode'
  BY DEF RunInv, OnLiveNode, Copy
<1>1. CASE SaveResult(n)
  <2>1. /\ poll[n].pc = "save" /\ Save(r, copy) /\ UNCHANGED <<lastId, up, trig>> /\ UNCHANGED fired
        /\ poll' = [poll EXCEPT ![n].pc = IF copy.status = "failed" THEN "notify" ELSE "resolve"]
    BY <1>1 DEF SaveResult, history
  <2>2. /\ poll'[n].pc = IF copy.status = "failed" THEN "notify" ELSE "resolve"
        /\ poll'[n].run = r /\ poll'[n].copy = copy /\ poll'[n].todo = poll[n].todo
        /\ \A m \in Node \ {n} : poll'[m] = poll[m]
    BY <1>r, <2>1 DEF TypeOK
  <2>3. row'[r] = copy /\ \A s \in RunId \ {r} : row'[s] = row[s]
    BY <1>r, <2>1, SaveAt
  <2>4. copy.status \in {"success", "failed"} /\ fired[r] = 0 /\ ~copy.notified
    BY <1>r, <2>1 DEF PollState, Writing
  <2>5. PollState(n)'
    BY <2>1, <2>2, <2>3, <2>4 DEF PollState, Writing
  <2>6. PollWrites(n, r)
    BY <2>1, <2>2, <2>3, <2>4, <2>5 DEF PollWrites, Polls
  <2> QED
    BY <1>0, <1>r, <2>6, PollWriterStep
<1>2. CASE SaveResultFails(n)
  <2>1. Recedes
    BY <1>2, <1>n, <1>o DEF SaveResultFails, Recedes, history
  <2> QED
    BY <1>0, <2>1, RecedingStep
<1>3. CASE PollNotify(n)
  <2>1. CASE PollNext(n) /\ UNCHANGED fired
    <3>1. Recedes
      BY <1>3, <1>n, <1>o, <2>1 DEF PollNotify, Recedes
    <3> QED
      BY <1>0, <3>1, RecedingStep
  <2>2. CASE /\ Fire(r)
             /\ poll' = [poll EXCEPT ![n].pc = "mark", ![n].copy.notified = TRUE]
    <3>1. poll[n].pc = "notify" /\ UNCHANGED <<lastId, up, trig>> /\ UNCHANGED row
      BY <1>3 DEF PollNotify
    <3>2. PICK rec : rec = [copy EXCEPT !.notified = TRUE]
      OBVIOUS
    <3>3. rec.status = copy.status /\ rec.notified = TRUE
      BY <1>r, <3>2, RowFields
    <3>4. /\ poll'[n].pc = "mark" /\ poll'[n].run = r /\ poll'[n].todo = poll[n].todo
          /\ poll'[n].copy = rec /\ \A m \in Node \ {n} : poll'[m] = poll[m]
      BY <1>r, <2>2, <3>2 DEF TypeOK
    <3>5. /\ row[r].status \in {"failed", "none"} /\ ~row[r].notified /\ fired[r] = 0
          /\ copy.status = "failed"
      BY <1>r, <3>1 DEF PollState, Writing
    <3>6. fired'[r] = 1 /\ \A s \in RunId \ {r} : fired'[s] = fired[s]
      BY <1>r, <2>2, <3>5, FireAt
    <3>7. PollState(n)'
      BY <3>1, <3>3, <3>4, <3>5, <3>6 DEF PollState, Writing
    <3>8. PollWrites(n, r)
      BY <3>1, <3>4, <3>5, <3>6, <3>7 DEF PollWrites, Polls
    <3> QED
      BY <1>0, <1>r, <3>8, PollWriterStep
  <2> QED
    BY <1>3, <2>1, <2>2 DEF PollNotify
<1>4. CASE PollMark(n)
  <2>1. /\ poll[n].pc = "mark" /\ (Save(r, copy) \/ UNCHANGED row) /\ PollNext(n)
        /\ UNCHANGED <<lastId, up, trig>> /\ UNCHANGED fired
    BY <1>4 DEF PollMark, TrySave, history
  <2>2. /\ row[r].status \in {"failed", "none"} /\ ~row[r].notified /\ fired[r] = 1
        /\ copy.status = "failed"
    BY <1>r, <2>1 DEF PollState, Writing
  <2>3. row'[r] \in {row[r], copy} /\ \A s \in RunId \ {r} : row'[s] = row[s]
    BY <1>r, <2>1, SaveAt
  <2>4. PollState(n)' /\ ~Polls(n, r)'
    BY <1>n, <2>1 DEF PollState, Polls
  <2>5. PollWrites(n, r)
    <3>1. Polls(n, r)
      BY <2>1 DEF Polls
    <3> QED
      BY <1>n, <2>1, <2>2, <2>3, <2>4, <3>1 DEF PollWrites
  <2> QED
    BY <1>0, <1>r, <2>5, PollWriterStep
<1>5. CASE Resolve(n) /\ PollNext(n)
  <2>1. Recedes
    BY <1>5, <1>n, <1>o DEF Resolve, Recedes, history
  <2> QED
    BY <1>0, <2>1, RecedingStep
<1>6. CASE Resolve(n) /\ ~PollNext(n)
  <2>1. PICK prev \in RunId :
          /\ row[prev].status = "failed" /\ row[prev].notified
          /\ poll' = [poll EXCEPT ![n].pc = "clear", ![n].run = prev,
                               ![n].copy = [row[prev] EXCEPT !.notified = FALSE]]
    BY <1>6 DEF Resolve, Unresolved
  <2>2. UNCHANGED <<lastId, up, trig>> /\ UNCHANGED <<row, fired>>
    BY <1>6 DEF Resolve, history
  <2>3. PICK rec : rec = [row[prev] EXCEPT !.notified = FALSE]
    OBVIOUS
  <2>4. rec.status = "failed" /\ ~rec.notified
    <3>1. row[prev] \in Row
      BY <1>r DEF TypeOK
    <3> QED
      BY <2>1, <2>3, <3>1, RowFields
  <2>5. /\ poll'[n].pc = "clear" /\ poll'[n].run = prev /\ poll'[n].todo = poll[n].todo
        /\ poll'[n].copy = rec /\ \A m \in Node \ {n} : poll'[m] = poll[m]
    BY <1>r, <2>1, <2>3 DEF TypeOK
  \* The run whose alert is resolved has fired, and nobody writes it.
  <2>6. /\ fired[prev] = 1 /\ prev <= lastId
        /\ \A w \in Trigger : ~Holds(w, prev)
        /\ \A m \in Node : ~Polls(m, prev)
    <3>1. prev \in Nat /\ lastId \in Nat
      BY <1>r, RunAssumption DEF TypeOK, RunId, RunAssumption
    <3> QED
      BY <2>1, <3>1 DEF RunInv, Settled, FreshIds
  <2>7. /\ \A s \in RunId, w \in Trigger : Holds(w, s)' <=> Holds(w, s)
        /\ \A s \in RunId, m \in Node :
             /\ Polls(m, s)' => Polls(m, s)
             /\ Clears(m, s)' => Clears(m, s) \/ (m = n /\ s = prev)
             /\ s \in poll'[m].todo => s \in poll[m].todo
    BY <2>2, <2>5 DEF Holds, Polls, Clears
  <2>8. FreshIds'
    BY <2>2, <2>6, <2>7 DEF RunInv, FreshIds
  <2>9. OneWriter'
    BY <2>2, <2>5, <2>6, <2>7 DEF RunInv, OneWriter
  <2>10. WriterState'
    <3>1. ASSUME NEW w \in Trigger PROVE TrigState(w)'
      <4>1. TrigState(w)
        BY DEF RunInv, WriterState
      <4> QED
        BY <2>2, <4>1 DEF TrigState, Writing, Copy
    <3>2. PollState(n)'
      BY <2>1, <2>2, <2>4, <2>5, <2>6 DEF PollState
    <3>3. ASSUME NEW m \in Node \ {n} PROVE PollState(m)'
      <4>1. PollState(m)
        BY DEF RunInv, WriterState
      <4> QED
        BY <2>2, <2>5, <4>1 DEF PollState, Writing
    <3> QED
      BY <3>1, <3>2, <3>3 DEF WriterState
  <2>11. Settled'
    BY <2>2, <2>6, <2>7 DEF RunInv, Settled
  <2> QED
    BY <1>0, <1>o, <2>2, <2>8, <2>9, <2>10, <2>11 DEF RunInv
<1>7. CASE Clear(n)
  <2>1. /\ poll[n].pc = "clear" /\ (Save(r, copy) \/ UNCHANGED row) /\ PollNext(n)
        /\ UNCHANGED <<lastId, up, trig>> /\ UNCHANGED fired
    BY <1>7 DEF Clear, TrySave, history
  <2>2. /\ row[r].status \in {"failed", "none"} /\ fired[r] = 1
        /\ copy.status = "failed" /\ ~copy.notified
    BY <1>r, <2>1 DEF PollState
  <2>3. /\ row'[r] \in {row[r], copy} /\ \A s \in RunId \ {r} : row'[s] = row[s]
    BY <1>r, <2>1, SaveAt
  <2>4. /\ r <= lastId /\ \A w \in Trigger : ~Holds(w, r)
        /\ \A m \in Node : ~Polls(m, r)
    <3>1. Clears(n, r)
      BY <2>1 DEF Clears
    <3> QED
      BY <3>1, <1>r DEF RunInv, FreshIds, OneWriter
  <2>5. /\ \A s \in RunId, w \in Trigger : Holds(w, s)' <=> Holds(w, s)
        /\ \A s \in RunId, m \in Node :
             /\ Polls(m, s)' => Polls(m, s)
             /\ Clears(m, s)' => Clears(m, s)
             /\ s \in poll'[m].todo => s \in poll[m].todo
    BY <1>n, <2>1 DEF Holds, Polls, Clears
  <2>6. FreshIds'
    <3>1. \A s \in RunId : s > lastId => s # r
      BY <1>r, <2>4, RunAssumption DEF TypeOK, RunId, RunAssumption
    <3> QED
      BY <2>1, <2>2, <2>3, <2>5, <3>1 DEF RunInv, FreshIds
  <2>7. OneWriter'
    BY <2>2, <2>3, <2>5 DEF RunInv, OneWriter
  <2>8. WriterState'
    <3>1. \A w \in Trigger : TrigState(w)'
      BY <1>r, <2>1, <2>3, <2>4, OtherTrigger
    <3>2. PollState(n)'
      BY <1>n, <2>1 DEF PollState
    <3>3. ASSUME NEW m \in Node \ {n} PROVE PollState(m)'
      <4>1. poll'[m] = poll[m]
        BY <1>n, <2>1
      <4>2. CASE Clears(m, r)
        <5>1. PollState(m)
          BY DEF RunInv, WriterState
        <5> QED
          BY <2>1, <2>2, <2>3, <4>1, <4>2, <5>1 DEF PollState, Clears
      <4>3. CASE ~Clears(m, r)
        BY <1>r, <2>1, <2>3, <2>4, <4>1, <4>3, OtherPoll
      <4> QED
        BY <4>2, <4>3
    <3> QED
      BY <3>1, <3>2, <3>3 DEF WriterState
  <2>9. Settled'
    BY <2>1, <2>2, <2>3, <2>4, <2>5 DEF RunInv, Settled
  <2> QED
    BY <1>0, <1>o, <2>1, <2>6, <2>7, <2>8, <2>9 DEF RunInv
<1> QED
  BY <1>1, <1>2, <1>3, <1>4, <1>5, <1>6, <1>7 DEF PollEnds

\* A poll claims the running rows without a node id, and no other.
LEMMA PollBeginInv ==
    ASSUME RunInv, NEW n \in Node, PollBegin(n)
    PROVE  RunInv'
<1>0. TypeOK'
  BY PollStepType DEF RunInv, PollStep
<1>t. TypeOK
  BY DEF RunInv
<1>1. /\ poll[n].pc = "idle" /\ UNCHANGED <<lastId, up, trig>> /\ UNCHANGED fired
      /\ row' \in {Claimed(n), row}
  BY DEF PollBegin, history
<1>2. /\ poll'[n].pc = "polling" /\ \A m \in Node \ {n} : poll'[m] = poll[m]
      /\ \A s \in poll'[n].todo : s \in RunId /\ row'[s].status = "running" /\ row'[s].node = n
  BY <1>t DEF PollBegin, TypeOK
<1>3. \A s \in RunId :
        /\ row'[s].status = row[s].status /\ row'[s].notified = row[s].notified
        /\ row'[s].node = row[s].node
             \/ (row[s].status = "running" /\ row[s].node = NoNode /\ row'[s].node = n)
  <2>1. \A s \in RunId : row[s] \in Row
    BY <1>t DEF TypeOK
  <2> QED
    BY <1>1, <2>1 DEF Claimed, Row
<1>4. /\ \A s \in RunId, w \in Trigger : Holds(w, s)' <=> Holds(w, s)
      /\ \A s \in RunId, m \in Node :
           /\ Polls(m, s)' => Polls(m, s) /\ m # n
           /\ Clears(m, s)' => Clears(m, s) /\ m # n
  BY <1>1, <1>2 DEF Holds, Polls, Clears
\* The rows it lists have no writer: their node is its own, if only just now.
<1>5. ASSUME NEW s \in RunId, row'[s].status = "running", row'[s].node = n
      PROVE  /\ s <= lastId /\ \A w \in Trigger : ~Holds(w, s)
             /\ \A m \in Node \ {n} : /\ ~Polls(m, s) /\ ~Clears(m, s)
                                      /\ s \notin poll[m].todo
  <2>1. row[s].status = "running" /\ row[s].node \in {NoNode, n}
    BY <1>3, <1>5
  <2>2. s <= lastId
    <3>1. s \in Nat /\ lastId \in Nat
      BY <1>t, RunAssumption DEF TypeOK, RunId, RunAssumption
    <3> QED
      BY <2>1, <3>1 DEF RunInv, FreshIds
  <2>3. \A w \in Trigger : ~Holds(w, s)
    BY <2>1 DEF RunInv, Settled
  <2>4. \A m \in Node \ {n} : ~Polls(m, s) /\ s \notin poll[m].todo
    BY <2>1, RunAssumption DEF RunInv, OneWriter, RunAssumption
  <2>5. \A m \in Node \ {n} : ~Clears(m, s)
    BY <2>1 DEF RunInv, WriterState, PollState, Clears
  <2> QED
    BY <2>2, <2>3, <2>4, <2>5
<1>6. OnLiveNode'
  BY <1>1 DEF RunInv, OnLiveNode, Copy
<1>7. FreshIds'
  BY <1>1, <1>2, <1>3, <1>4, <1>5 DEF RunInv, FreshIds
<1>8. OneWriter'
  <2>1. \A s \in RunId, m \in Node \ {n} : s \in poll'[m].todo <=> s \in poll[m].todo
    BY <1>2
  <2>2. \A s \in RunId, v, w \in Trigger : (Holds(v, s) /\ Holds(w, s))' => v = w
    BY <1>4 DEF RunInv, OneWriter
  <2>3. \A s \in RunId, l, m \in Node : (Polls(l, s) /\ Polls(m, s))' => l = m
    BY <1>4 DEF RunInv, OneWriter
  <2>4. \A s \in RunId, w \in Trigger, m \in Node :
          Holds(w, s)' => ~Polls(m, s)' /\ ~Clears(m, s)' /\ s \notin poll'[m].todo
    BY <1>2, <1>4, <1>5, <2>1 DEF RunInv, OneWriter
  <2>5. \A s \in RunId, l, m \in Node :
          Polls(l, s)' => ~Clears(m, s)' /\ s \notin poll'[m].todo
    BY <1>2, <1>4, <1>5, <2>1 DEF RunInv, OneWriter
  <2>6. ASSUME NEW s \in RunId, NEW m \in Node, Polls(m, s)' \/ s \in poll'[m].todo,
               row'[s].status = "running"
        PROVE  row'[s].node = m
    <3>1. CASE m = n
      BY <1>2, <1>4, <2>6, <3>1
    <3>2. CASE m # n
      <4>1. row[s].node = m
        BY <1>3, <1>4, <2>1, <2>6, <3>2 DEF RunInv, OneWriter
      <4> QED
        BY <1>3, <4>1, RunAssumption DEF RunAssumption
    <3> QED
      BY <3>1, <3>2
  <2> QED
    BY <2>2, <2>3, <2>4, <2>5, <2>6 DEF OneWriter
<1>9. WriterState'
  <2>1. ASSUME NEW w \in Trigger PROVE TrigState(w)'
    <3>1. TrigState(w) /\ trig[w].run \in RunId
      BY <1>t DEF RunInv, WriterState, TypeOK
    <3> QED
      BY <1>1, <1>3, <3>1 DEF TrigState, Writing, Copy
  <2>2. PollState(n)'
    BY <1>2 DEF PollState
  <2>3. ASSUME NEW m \in Node \ {n} PROVE PollState(m)'
    <3>1. PollState(m) /\ poll[m].run \in RunId
      BY <1>t DEF RunInv, WriterState, TypeOK
    <3> QED
      BY <1>1, <1>2, <1>3, <3>1 DEF PollState, Writing
  <2> QED
    BY <2>1, <2>2, <2>3 DEF WriterState
<1>10. Settled'
  BY <1>1, <1>3, <1>4 DEF RunInv, Settled
<1> QED
  BY <1>0, <1>6, <1>7, <1>8, <1>9, <1>10 DEF RunInv

\* The poll of a run makes its node the writer: no other had it on its list.
LEMMA QueryInv ==
    ASSUME RunInv, NEW n \in Node, NEW r \in RunId, Query(n, r)
    PROVE  RunInv'
<1>0. TypeOK'
  BY PollStepType DEF RunInv, PollStep
<1>t. TypeOK /\ row[r] \in Row
  BY DEF RunInv, TypeOK
<1>1. /\ poll[n].pc = "polling" /\ r \in poll[n].todo /\ row[r].status = "running"
      /\ UNCHANGED <<lastId, up, trig>> /\ UNCHANGED <<row, fired>>
  BY DEF Query, history
<1>2. PICK rec : rec = [row[r] EXCEPT !.status = Answer(n, row[r].job)]
  OBVIOUS
<1>3. rec.status \in {"success", "failed"} /\ rec.notified = row[r].notified
  <2>1. rec.status = Answer(n, row[r].job) /\ rec.notified = row[r].notified
    BY <1>t, <1>2, RowFields
  <2>2. Answer(n, row[r].job) \in {"success", "failed"}
    BY DEF Query, Answer
  <2> QED
    BY <2>1, <2>2
<1>4. /\ poll'[n].pc = "save" /\ poll'[n].run = r /\ poll'[n].copy = rec
      /\ poll'[n].todo = poll[n].todo \ {r} /\ \A m \in Node \ {n} : poll'[m] = poll[m]
  BY <1>t, <1>2 DEF Query, TypeOK
<1>5. /\ r <= lastId /\ row[r].node = n /\ fired[r] = 0 /\ ~row[r].notified
      /\ \A w \in Trigger : ~Holds(w, r)
      /\ \A m \in Node \ {n} : ~Polls(m, r) /\ r \notin poll[m].todo
      /\ \A m \in Node \ {n} : ~Clears(m, r)
  <2>1. r <= lastId /\ row[r].node = n
    BY <1>1 DEF RunInv, FreshIds, OneWriter
  <2>2. \A m \in Node \ {n} : ~Polls(m, r) /\ r \notin poll[m].todo
    BY <1>1, <2>1 DEF RunInv, OneWriter
  <2>3. \A m \in Node \ {n} : ~Clears(m, r)
    BY <1>1 DEF RunInv, WriterState, PollState, Clears
  <2> QED
    BY <1>1, <2>1, <2>2, <2>3 DEF RunInv, Settled
<1>6. /\ \A s \in RunId, w \in Trigger : Holds(w, s)' <=> Holds(w, s)
      /\ \A s \in RunId, m \in Node :
           /\ Polls(m, s)' => (Polls(m, s) /\ m # n) \/ (m = n /\ s = r)
           /\ Clears(m, s)' => Clears(m, s) /\ m # n
           /\ s \in poll'[m].todo => s \in poll[m].todo /\ ~(m = n /\ s = r)
  BY <1>1, <1>4 DEF Holds, Polls, Clears
<1>7. OnLiveNode'
  BY <1>1 DEF RunInv, OnLiveNode, Copy
<1>8. FreshIds'
  BY <1>1, <1>5, <1>6 DEF RunInv, FreshIds
<1>9. OneWriter'
  BY <1>1, <1>5, <1>6 DEF RunInv, OneWriter
<1>10. WriterState'
  <2>1. ASSUME NEW w \in Trigger PROVE TrigState(w)'
    <3>1. TrigState(w)
      BY DEF RunInv, WriterState
    <3> QED
      BY <1>1, <3>1 DEF TrigState, Writing, Copy
  <2>2. PollState(n)'
    BY <1>1, <1>3, <1>4, <1>5 DEF PollState, Writing
  <2>3. ASSUME NEW m \in Node \ {n} PROVE PollState(m)'
    <3>1. PollState(m)
      BY DEF RunInv, WriterState
    <3> QED
      BY <1>1, <1>4, <3>1 DEF PollState, Writing
  <2> QED
    BY <2>1, <2>2, <2>3 DEF WriterState
<1>11. Settled'
  BY <1>1, <1>5, <1>6 DEF RunInv, Settled
<1> QED
  BY <1>0, <1>7, <1>8, <1>9, <1>10, <1>11 DEF RunInv

LEMMA PollStepInv ==
    ASSUME RunInv, NEW n \in Node, PollStep(n)
    PROVE  RunInv'
<1>1. ASSUME NEW r \in RunId, PollNothing(n, r) PROVE RunInv'
  <2>1. TypeOK'
    BY <1>1, PollStepType DEF RunInv, PollStep
  <2>2. /\ poll'[n].pc \in {"idle", "polling"} /\ poll'[n].todo \subseteq poll[n].todo
        /\ \A m \in Node \ {n} : poll'[m] = poll[m]
    BY <1>1 DEF PollNothing, NoPoll, RunInv, TypeOK
  <2>3. Recedes
    BY <1>1, <2>2 DEF PollNothing, Recedes, RunInv, OnLiveNode, Copy, history
  <2> QED
    BY <2>1, <2>3, RecedingStep
<1> QED
  BY <1>1, PollBeginInv, QueryInv, PollEndsInv DEF PollStep

\* What happens around the service only takes writers and rows away.
LEMMA AroundInv ==
    ASSUME RunInv, Around
    PROVE  RunInv'
<1>0. TypeOK'
  BY AroundType DEF RunInv
<1>1. ASSUME NEW n \in Node, NEW id \in 1 .. MaxRuns, JobEnds(n, id) PROVE Recedes
  BY <1>1 DEF JobEnds, Recedes, RunInv, OnLiveNode, Copy
<1>2. ASSUME NEW n \in Node, RcdRestart(n) PROVE Recedes
  BY <1>2 DEF RcdRestart, Recedes, RunInv, OnLiveNode, Copy, history
<1>3. ASSUME NEW n \in Node, Crash(n) PROVE Recedes
  <2>1. \A w \in Trigger : trig'[w] = IF Copy(w).node = n THEN NoTrig ELSE trig[w]
    BY <1>3 DEF Crash
  <2>2. NoTrig.pc = "idle" /\ NoPoll.pc = "idle" /\ NoPoll.todo = {}
    BY DEF NoTrig, NoPoll
  <2>3. poll' = [poll EXCEPT ![n] = NoPoll] /\ UNCHANGED <<lastId, row>> /\ UNCHANGED fired
    BY <1>3 DEF Crash, history
  <2>4. \A m \in Node : poll'[m] = poll[m] \/ poll'[m] = NoPoll
    BY <2>3 DEF RunInv, TypeOK
  <2>5. OnLiveNode'
    BY <1>3, <2>1, <2>2 DEF Crash, RunInv, OnLiveNode, Copy
  <2> QED
    BY <2>1, <2>2, <2>3, <2>4, <2>5 DEF Recedes
<1>4. ASSUME NEW n \in Node, Restart(n) PROVE Recedes
  BY <1>4 DEF Restart, Recedes, RunInv, OnLiveNode, Copy, history
<1>5. ASSUME NEW t \in Task, DeleteRuns(t) PROVE Recedes
  BY <1>5 DEF DeleteRuns, Recedes, RunInv, OnLiveNode, Copy, history
<1>6. ASSUME NEW t \in Task, DeleteTask(t) PROVE Recedes
  BY <1>6 DEF DeleteTask, Recedes, RunInv, OnLiveNode, Copy, history
<1>7. Recedes
  BY <1>1, <1>2, <1>3, <1>4, <1>5, <1>6 DEF Around
<1> QED
  BY <1>0, <1>7, RecedingStep
-----------------------------------------------------------------------------
\* The table starts empty, or with the row of an earlier release.
LEMMA InitInv == Init => RunInv
<1> SUFFICES ASSUME Init PROVE RunInv
  OBVIOUS
<1>1. PICK home \in Node :
        /\ row = [r \in RunId |->
                    IF Legacy /\ r = 1
                      THEN [NoRow EXCEPT !.status = "running", !.job = 1] ELSE NoRow]
        /\ rcd = [n \in Node |->
                    IF Legacy /\ n = home
                      THEN <<[run |-> 1, state |-> "executing"]>> ELSE << >>]
  BY DEF Init
<1>2. PICK old : old = [NoRow EXCEPT !.status = "running", !.job = 1]
  OBVIOUS
<1>3. old \in Row /\ old.status = "running" /\ ~old.notified
  BY <1>2, NoRowType DEF Row, NoRow, Active
<1>4. NoRow.status = "none" /\ ~NoRow.notified
  BY DEF NoRow
<1>5. /\ row \in [RunId -> Row]
      /\ \A r \in RunId : row[r] = IF Legacy /\ r = 1 THEN old ELSE NoRow
  BY <1>1, <1>2, <1>3, NoRowType
<1>6. rcd \in [Node -> Seq(Job)]
  <2>1. << >> \in Seq(Job) /\ <<[run |-> 1, state |-> "executing"]>> \in Seq(Job)
    <3>1. [run |-> 1, state |-> "executing"] \in Job
      BY RunAssumption DEF Job, RunId, RunAssumption
    <3> QED
      BY <3>1
  <2> QED
    BY <1>1, <2>1
<1>7. lastId = (IF Legacy THEN 1 ELSE 0) /\ lastId \in 0 .. MaxRuns
  BY RunAssumption DEF Init, RunAssumption
<1>8. /\ \A w \in Trigger : trig[w].pc = "idle"
      /\ \A n \in Node : poll[n].pc = "idle" /\ poll[n].todo = {}
      /\ \A r \in RunId : fired[r] = 0
  BY DEF Init, NoTrig, NoPoll
<1>9. TypeOK
  BY <1>5, <1>6, <1>7, NoTrigType, NoPollType, RunAssumption DEF Init, TypeOK, RunAssumption
<1>10. /\ \A r \in RunId, w \in Trigger : ~Holds(w, r)
       /\ \A r \in RunId, n \in Node : ~Polls(n, r) /\ ~Clears(n, r)
  BY <1>8 DEF Holds, Polls, Clears
<1>11. FreshIds
  BY <1>3, <1>4, <1>5, <1>7, <1>8, <1>10 DEF FreshIds
<1>12. OnLiveNode /\ OneWriter /\ Settled
  BY <1>3, <1>4, <1>5, <1>8, <1>10 DEF OnLiveNode, OneWriter, Settled
<1>13. WriterState
  BY <1>8 DEF WriterState, TrigState, PollState
<1> QED
  BY <1>9, <1>11, <1>12, <1>13 DEF RunInv

LEMMA NextInv == RunInv /\ [Next]_vars => RunInv'
<1> SUFFICES ASSUME RunInv, [Next]_vars PROVE RunInv'
  OBVIOUS
<1>1. ASSUME NEW w \in Trigger, TrigStep(w) PROVE RunInv'
  BY <1>1, TrigStepInv
<1>2. ASSUME NEW w \in Trigger, NEW n \in Node, NEW t \in Task, Guard(w, n, t) PROVE RunInv'
  BY <1>2, GuardInv
<1>3. ASSUME NEW n \in Node, PollStep(n) PROVE RunInv'
  BY <1>3, PollStepInv
<1>4. CASE Around
  BY <1>4, AroundInv
<1>5. CASE UNCHANGED vars
  <2>1. TypeOK'
    BY <1>5 DEF RunInv, TypeOK, vars, history
  <2>2. Recedes
    BY <1>5 DEF Recedes, RunInv, OnLiveNode, Copy, vars, history
  <2> QED
    BY <2>1, <2>2, RecedingStep
<1> QED
  BY <1>1, <1>2, <1>3, <1>4, <1>5 DEF Next

\* RunInv holds in every reachable state, for any numbers of nodes, tasks,
\* goroutines, runs, crashes and restarts.
THEOREM RunSafe == Spec => []RunInv
<1>1. Init => RunInv
  BY InitInv
<1>2. RunInv /\ [Next]_vars => RunInv'
  BY NextInv
<1> QED
  BY <1>1, <1>2, PTL DEF Spec

\* Every variable keeps its type.
THEOREM TypeCorrect == Spec => []TypeOK
<1>1. RunInv => TypeOK
  BY DEF RunInv
<1> QED
  BY <1>1, RunSafe, PTL

\* Two nodes never hold a result for the same run, although any of them may
\* claim the rows without a node id.
THEOREM OnePoller == Spec => []PolledByOneNode
<1>1. RunInv => PolledByOneNode
  BY DEF RunInv, OneWriter, PolledByOneNode, Polls, TypeOK
<1> QED
  BY <1>1, RunSafe, PTL

\* A failure fires at most once, and a row marked as notified did fire.
THEOREM AlertsOnce == Spec => []AlertOnce
<1>1. RunInv => AlertOnce
  BY DEF RunInv, Settled, AlertOnce
<1> QED
  BY <1>1, RunSafe, PTL
-----------------------------------------------------------------------------
\* A write of run r that finds its row unfinished, or keeps its status, leaves
\* every finished run as it was.
LEMMA FinalWrite ==
    ASSUME NEW r \in RunId, \A s \in RunId \ {r} : row'[s] = row[s],
           row[r].status \notin Terminal \/ row'[r].status = row[r].status
    PROVE  FinishedRunsStay
BY DEF FinishedRunsStay

LEMMA FinalSame == UNCHANGED row => FinishedRunsStay
BY DEF FinishedRunsStay

LEMMA TrigStepFinal ==
    ASSUME RunInv, NEW w \in Trigger, TrigStep(w)
    PROVE  FinishedRunsStay
<1> DEFINE r == trig[w].run
<1>1. r \in RunId /\ TypeOK /\ TrigState(w) /\ Copy(w) \in Row
  BY DEF RunInv, TypeOK, WriterState, Copy
<1>2. \A s \in RunId, rec \in Row : Save(s, rec) => \A q \in RunId \ {s} : row'[q] = row[q]
  BY <1>1, SaveAt
<1>3. CASE Create(w)
  <2>1. lastId + 1 \in RunId /\ lastId + 1 > lastId
    BY <1>1, <1>3, RunAssumption DEF Create, TypeOK, RunId, RunAssumption
  <2>2. row[lastId + 1].status = "none"
    BY <2>1 DEF RunInv, FreshIds
  <2>3. PICK rec \in Row : Save(lastId + 1, rec)
    BY <1>1, <1>3, RowUpdate DEF Create, Insert, Active
  <2>4. \A s \in RunId \ {lastId + 1} : row'[s] = row[s]
    BY <1>2, <2>1, <2>3
  <2> QED
    BY <2>1, <2>2, <2>4, FinalWrite DEF Terminal
<1>4. CASE PreCheckSkips(w)
  <2>1. row[r].status \notin Terminal
    BY <1>1, <1>4 DEF PreCheckSkips, TrigState, Writing, Terminal
  <2>2. PICK rec \in Row : Save(r, rec)
    BY <1>1, <1>4, RowUpdate DEF PreCheckSkips, Terminal
  <2> QED
    BY <1>1, <1>2, <2>1, <2>2, FinalWrite
<1>5. CASE SaveRunning(w)
  <2>1. row[r].status \notin Terminal
    BY <1>1, <1>5 DEF SaveRunning, TrigState, Writing, Terminal
  <2>2. Save(r, Copy(w)) \/ UNCHANGED row
    BY <1>5 DEF SaveRunning, TrySave
  <2> QED
    BY <1>1, <1>2, <2>1, <2>2, FinalWrite, FinalSame
<1>6. CASE SaveFailed(w)
  <2>1. row[r].status \notin Terminal
    BY <1>1, <1>6 DEF SaveFailed, TrigState, Writing, Terminal
  <2>2. (\E rec \in Row : Save(r, rec)) \/ UNCHANGED row
    BY <1>1, <1>6, RowUpdate DEF SaveFailed, Terminal
  <2> QED
    BY <1>1, <1>2, <2>1, <2>2, FinalWrite, FinalSame
<1>7. CASE TrigMark(w)
  <2>1. row[r].status \in {"failed", "none"} /\ Copy(w).status = "failed"
    BY <1>1, <1>7 DEF TrigMark, TrigState, Writing
  <2>2. Save(r, Copy(w)) \/ UNCHANGED row
    BY <1>7 DEF TrigMark, TrySave
  <2>3. CASE Save(r, Copy(w))
    <3>1. row'[r] = Copy(w) /\ \A s \in RunId \ {r} : row'[s] = row[s]
      BY <1>1, <2>3, SaveAt
    <3> QED
      BY <1>1, <2>1, <3>1, FinalWrite DEF Terminal
  <2> QED
    BY <2>2, <2>3, FinalSame
<1>8. CASE UNCHANGED row
  BY <1>8, FinalSame
<1> QED
  BY <1>3, <1>4, <1>5, <1>6, <1>7, <1>8
  DEF TrigStep, CreateFails, Submit, StartFails, TrigNotify

LEMMA PollStepFinal ==
    ASSUME RunInv, NEW n \in Node, PollStep(n)
    PROVE  FinishedRunsStay
<1> DEFINE r == poll[n].run
<1>1. r \in RunId /\ TypeOK /\ PollState(n) /\ poll[n].copy \in Row
  BY DEF RunInv, TypeOK, WriterState
<1>2. CASE SaveResult(n)
  <2>1. row[r].status \notin Terminal /\ Save(r, poll[n].copy)
    BY <1>1, <1>2 DEF SaveResult, PollState, Writing, Terminal
  <2>2. \A s \in RunId \ {r} : row'[s] = row[s]
    BY <1>1, <2>1, SaveAt
  <2> QED
    BY <1>1, <2>1, <2>2, FinalWrite
<1>3. CASE PollMark(n) \/ Clear(n)
  <2>1. row[r].status \in {"failed", "none"} /\ poll[n].copy.status = "failed"
    BY <1>1, <1>3 DEF PollMark, Clear, PollState, Writing
  <2>2. Save(r, poll[n].copy) \/ UNCHANGED row
    BY <1>3 DEF PollMark, Clear, TrySave
  <2>3. CASE Save(r, poll[n].copy)
    <3>1. row'[r] = poll[n].copy /\ \A s \in RunId \ {r} : row'[s] = row[s]
      BY <1>1, <2>3, SaveAt
    <3> QED
      BY <1>1, <2>1, <3>1, FinalWrite DEF Terminal
  <2> QED
    BY <2>2, <2>3, FinalSame
<1>4. CASE PollBegin(n)
  <2>1. \A s \in RunId : row[s] \in Row
    BY <1>1 DEF TypeOK
  <2>2. \A s \in RunId : row'[s].status = row[s].status
    BY <1>4, <2>1 DEF PollBegin, Claimed, Row
  <2> QED
    BY <2>2 DEF FinishedRunsStay
<1>5. CASE UNCHANGED row
  BY <1>5, FinalSame
<1> QED
  BY <1>2, <1>3, <1>4, <1>5
  DEF PollStep, PollEnds, SaveResultFails, PollNotify, Resolve, Query, PollNothing

LEMMA NextFinal == RunInv /\ [Next]_vars => [FinishedRunsStay]_vars
<1> SUFFICES ASSUME RunInv, Next PROVE FinishedRunsStay
  OBVIOUS
<1>1. ASSUME NEW w \in Trigger, NEW n \in Node, NEW t \in Task, Guard(w, n, t)
      PROVE  FinishedRunsStay
  <2>1. PICK rec : rec = [[NoRow EXCEPT !.task = t, !.node = n] EXCEPT !.status = "skipped"]
    OBVIOUS
  <2>2. UNCHANGED row \/ (lastId < MaxRuns /\ Save(lastId + 1, rec))
    BY <1>1, <2>1 DEF Guard, Insert
  <2>3. CASE lastId < MaxRuns /\ Save(lastId + 1, rec)
    <3>1. lastId + 1 \in RunId /\ lastId + 1 > lastId
      BY <2>3, RunAssumption DEF RunInv, TypeOK, RunId, RunAssumption
    <3>2. row[lastId + 1].status = "none"
      BY <3>1 DEF RunInv, FreshIds
    <3>3. \A s \in RunId \ {lastId + 1} : row'[s] = row[s]
      BY <2>3, <3>1, SaveAt DEF RunInv
    <3> QED
      BY <3>1, <3>2, <3>3, FinalWrite DEF Terminal
  <2> QED
    BY <2>2, <2>3, FinalSame
<1>2. ASSUME NEW t \in Task, DeleteRuns(t) PROVE FinishedRunsStay
  <2>1. NoRow.status = "none"
    BY DEF NoRow
  <2> QED
    BY <1>2, <2>1 DEF DeleteRuns, FinishedRunsStay
<1>3. CASE UNCHANGED row
  BY <1>3, FinalSame
<1> QED
  BY <1>1, <1>2, <1>3, TrigStepFinal, PollStepFinal
  DEF Next, Around, JobEnds, RcdRestart, Crash, Restart, DeleteTask

\* No whole-row Save from a stale copy rewrites a finished run.
THEOREM RunsAreFinal == Spec => TerminalIsFinal
<1>1. RunInv /\ [Next]_vars => [FinishedRunsStay]_vars
  BY NextFinal
<1> QED
  BY <1>1, RunSafe, PTL DEF Spec, TerminalIsFinal

-----------------------------------------------------------------------------
(* Jobs: a run is not given up while its job copies files, and a success is *)
(* that of the run's own job.  JobInv is inductive on top of RunInv.        *)
(* Known(r, rec) says what a row, or a copy about to be saved, is right     *)
(* about; the steps fall into those that touch no job and write what they   *)
(* know (SameJobs), those of the rcds alone (RcdStep), and Submit, which    *)
(* starts the one job of its run.                                           *)

\* The job ids of a rcd, and its jobs.
LEMMA JobsTyped ==
    ASSUME TypeOK
    PROVE  /\ \A n \in Node : DOMAIN rcd[n] = 1 .. Len(rcd[n])
           /\ \A n \in Node : \A id \in DOMAIN rcd[n] : rcd[n][id] \in Job
<1>1. \A n \in Node : rcd[n] \in Seq(Job)
  BY DEF TypeOK
<1> QED
  BY <1>1

\* A run copies files when a job of its own does, in this state and the next.
LEMMA ExecutingIs ==
    ASSUME TypeOK, NEW r
    PROVE  Executing(r) <=>
             \E n \in Node : \E id \in DOMAIN rcd[n] :
                rcd[n][id].run = r /\ rcd[n][id].state = "executing"
<1>1. \A n \in Node : \A id \in DOMAIN rcd[n] :
        rcd[n][id] = [run |-> rcd[n][id].run, state |-> rcd[n][id].state]
  BY JobsTyped DEF Job
<1>2. \A n \in Node : DOMAIN rcd[n] = 1 .. Len(rcd[n])
  BY JobsTyped
<1> QED
  BY <1>1, <1>2 DEF Executing

LEMMA ExecutingIsNext ==
    ASSUME TypeOK', NEW r
    PROVE  Executing(r)' <=>
             \E n \in Node : \E id \in DOMAIN rcd'[n] :
                rcd'[n][id].run = r /\ rcd'[n][id].state = "executing"
<1>1. \A n \in Node : rcd'[n] \in Seq(Job)
  BY DEF TypeOK
<1>2. \A n \in Node : DOMAIN rcd'[n] = 1 .. Len(rcd'[n])
  BY <1>1
<1>3. \A n \in Node : \A id \in DOMAIN rcd'[n] : rcd'[n][id] \in Job
  BY <1>1
<1>4. \A n \in Node : \A id \in DOMAIN rcd'[n] :
        rcd'[n][id] = [run |-> rcd'[n][id].run, state |-> rcd'[n][id].state]
  BY <1>3 DEF Job
<1> QED
  BY <1>2, <1>4 DEF Executing

\* A step that submits no job of run r, forgets none unless a rcd restarts, and
\* brings no ended one back.
LEMMA KnownStays ==
    ASSUME TypeOK, TypeOK', NEW r, NEW rec, Known(r, rec),
           \A n \in Node : \A id \in DOMAIN rcd'[n] : rcd'[n][id].run = r =>
              /\ id \in DOMAIN rcd[n] /\ rcd[n][id].run = r
              /\ rcd'[n][id].state = "executing" => rcd[n][id].state = "executing",
           done \subseteq done',
           budget'.rcd = MaxRcdRestarts =>
              /\ budget.rcd = MaxRcdRestarts
              /\ \A n \in Node : \A id \in DOMAIN rcd[n] :
                   id \in DOMAIN rcd'[n] /\ rcd'[n][id].run = rcd[n][id].run
    PROVE  Known(r, rec)'
<1>1. Executing(r)' => Executing(r)
  BY ExecutingIs, ExecutingIsNext
<1> QED
  BY <1>1 DEF Known

\* What does not depend on the rcds.
LEMMA KnownAlike ==
    ASSUME NEW r, NEW rec, NEW copy, Known(r, rec),
           copy.status = rec.status, copy.job = rec.job, copy.node = rec.node
    PROVE  Known(r, copy)
BY DEF Known

\* A row without a job id is right about it.
LEMMA NoJobKnown ==
    ASSUME NEW r, NEW rec, rec.job = NoJob, rec.status \notin {"running", "success"}
    PROVE  Known(r, rec)
BY DEF Known

\* Where a poll job holds a copy of a row, to be saved.
Saves == {"save", "notify", "mark", "clear"}

\* A step that touches no job: what it writes, and what it puts into a copy, it
\* knows already.
LEMMA SameJobs ==
    ASSUME TypeOK, TypeOK', JobInv,
           UNCHANGED <<rcd, done>>, budget'.rcd = budget.rcd, lastId <= lastId',
           \A r \in RunId \ Inherited : row'[r] = row[r] \/ Known(r, row'[r]),
           \A w \in Trigger :
              \/ trig'[w] = trig[w]
              \/ trig'[w].pc = "idle"
              \/ /\ trig'[w].pc # "submitted" /\ trig'[w].copy.job = NoJob
                 /\ trig'[w].pc = "created" => trig'[w].run > lastId,
           \A n \in Node :
              \/ poll'[n] = poll[n]
              \/ poll'[n].pc \notin Saves
              \/ poll'[n].run \notin Inherited => Known(poll'[n].run, poll'[n].copy)
    PROVE  JobInv'
<1>1. \A r, rec : Known(r, rec) => Known(r, rec)'
  BY KnownStays
<1>2. JobsOfRuns'
  <2>1. \A n \in Node : \A id \in DOMAIN rcd[n] : rcd[n][id].run \in Nat /\ rcd[n][id].run <= lastId
    BY JobsTyped DEF Job, RunId, JobInv, JobsOfRuns
  <2>2. lastId \in Nat /\ lastId' \in Nat
    BY DEF TypeOK
  <2>3. \A w \in Trigger : trig'[w].run \in Nat
    BY DEF TypeOK, RunId
  <2>4. (\A n \in Node : \A id \in DOMAIN rcd[n] :
           /\ rcd[n][id].run <= lastId
           /\ rcd[n][id].state = "ok" => rcd[n][id].run \in done)'
    BY <2>1, <2>2 DEF JobInv, JobsOfRuns
  <2>5. (\A n \in Node : \A id \in DOMAIN rcd[n] : \A w \in Trigger :
           trig[w].pc = "created" => rcd[n][id].run # trig[w].run)'
    BY <2>1, <2>2, <2>3 DEF JobInv, JobsOfRuns
  <2>6. (\A w \in Trigger : trig[w].pc \notin {"idle", "submitted"} => Copy(w).job = NoJob)'
    BY DEF JobInv, JobsOfRuns, Copy
  <2> QED
    BY <2>4, <2>5, <2>6 DEF JobsOfRuns
<1>3. JobsKnown'
  <2>1. (\A r \in RunId \ Inherited : Known(r, row[r]))'
    BY <1>1 DEF JobInv, JobsKnown
  <2>2. (\A w \in Trigger :
          trig[w].pc = "submitted" /\ trig[w].run \notin Inherited =>
             Known(trig[w].run, Copy(w)) /\ Copy(w).status = "running")'
    BY <1>1 DEF JobInv, JobsKnown, Copy, Inherited
  <2>3. (\A n \in Node :
          poll[n].pc \in {"save", "notify", "mark", "clear"} /\ poll[n].run \notin Inherited =>
             Known(poll[n].run, poll[n].copy))'
    BY <1>1 DEF JobInv, JobsKnown, Saves, Inherited
  <2> QED
    BY <2>1, <2>2, <2>3 DEF JobsKnown, Inherited
<1> QED
  BY <1>2, <1>3 DEF JobInv

-----------------------------------------------------------------------------
(* RunTask *)

\* A goroutine's own record, and the state of the run it holds.
LEMMA TrigFacts ==
    ASSUME RunInv, JobInv, NEW w \in Trigger
    PROVE  /\ TypeOK /\ trig[w].run \in RunId /\ Copy(w) \in Row
           /\ trig[w].pc \notin {"idle", "submitted"} => Copy(w).job = NoJob
           /\ trig[w].pc = "submitted" /\ trig[w].run \notin Inherited =>
                Known(trig[w].run, Copy(w))
           /\ trig[w].pc = "submitted" => Copy(w) = trig[w].copy
           /\ trig[w].pc \in {"notify", "mark"} => Copy(w).status = "failed"
BY DEF RunInv, TypeOK, Copy, JobInv, JobsOfRuns, JobsKnown, WriterState, TrigState

\* A goroutine that writes at most its own run's row, of which it then knows.
LEMMA TrigWrite ==
    ASSUME RunInv, TypeOK', JobInv, NEW w \in Trigger, NEW rec,
           Save(trig[w].run, rec) \/ UNCHANGED row,
           trig[w].run \notin Inherited => Known(trig[w].run, rec),
           \A v \in Trigger \ {w} : trig'[v] = trig[v],
           \/ trig'[w].pc = "idle"
           \/ trig'[w].pc \notin {"submitted", "created"} /\ trig'[w].copy.job = NoJob,
           UNCHANGED <<lastId, rcd, poll, budget, done>>
    PROVE  JobInv'
<1>1. TypeOK /\ trig[w].run \in RunId /\ lastId <= lastId'
  BY DEF RunInv, TypeOK
<1>2. \A r \in RunId \ Inherited : row'[r] = row[r] \/ Known(r, row'[r])
  BY <1>1, SaveAt
<1>3. \A v \in Trigger :
        \/ trig'[v] = trig[v]
        \/ trig'[v].pc = "idle"
        \/ /\ trig'[v].pc # "submitted" /\ trig'[v].copy.job = NoJob
           /\ trig'[v].pc = "created" => trig'[v].run > lastId
  OBVIOUS
<1> QED
  BY <1>1, <1>2, <1>3, SameJobs

\* Create and Guard write rows without a job.
LEMMA CreateJobs ==
    ASSUME RunInv, TypeOK', JobInv, NEW w \in Trigger, Create(w)
    PROVE  JobInv'
<1> DEFINE pending == [Copy(w) EXCEPT !.status = "pending"]
<1>1. TypeOK /\ Copy(w) \in Row /\ Copy(w).job = NoJob
  BY TrigFacts DEF Create
<1>2. pending.job = NoJob /\ pending.status = "pending"
  BY <1>1 DEF Row
<1>3. lastId \in Nat /\ lastId < MaxRuns /\ lastId + 1 \in RunId
  BY <1>1, RunAssumption DEF Create, TypeOK, RunId
<1>4. /\ lastId' = lastId + 1 /\ Save(lastId + 1, pending)
      /\ trig' = [trig EXCEPT ![w] = [pc |-> "created", run |-> lastId + 1, copy |-> pending]]
      /\ UNCHANGED <<rcd, poll, budget>> /\ UNCHANGED done
  BY DEF Create, Insert, history
<1> HIDE DEF pending
<1>5. \A r : Known(r, pending)
  BY <1>2, NoJobKnown
<1>6. \A r \in RunId \ Inherited : row'[r] = row[r] \/ Known(r, row'[r])
  BY <1>1, <1>3, <1>4, <1>5, SaveAt
<1>7. /\ trig'[w].pc = "created" /\ trig'[w].run = lastId + 1 /\ trig'[w].copy.job = NoJob
      /\ \A v \in Trigger \ {w} : trig'[v] = trig[v]
  BY <1>1, <1>2, <1>4 DEF TypeOK
<1>8. lastId <= lastId' /\ lastId + 1 > lastId
  BY <1>3, <1>4
<1> QED
  BY <1>1, <1>4, <1>6, <1>7, <1>8, SameJobs

LEMMA GuardJobs ==
    ASSUME RunInv, TypeOK', JobInv, NEW w \in Trigger, NEW n \in Node, NEW t \in Task,
           Guard(w, n, t)
    PROVE  JobInv'
<1> DEFINE new == [NoRow EXCEPT !.task = t, !.node = n]
           skipped == [new EXCEPT !.status = "skipped"]
<1>1. TypeOK /\ lastId \in Nat
  <2>1. TypeOK
    BY DEF RunInv
  <2>2. lastId \in Nat
    BY <2>1 DEF TypeOK
  <2> QED
    BY <2>1, <2>2
<1>2. new.job = NoJob /\ skipped.job = NoJob /\ skipped.status = "skipped"
  BY DEF NoRow
<1>3. /\ UNCHANGED <<rcd, poll, budget>> /\ UNCHANGED done
      /\ \/ lastId < MaxRuns /\ Insert(skipped) /\ UNCHANGED trig
         \/ TrigGoes(w, "passed", new) /\ UNCHANGED <<row, lastId>>
  BY DEF Guard, history
<1> HIDE DEF new, skipped
<1>4. CASE lastId < MaxRuns /\ Insert(skipped) /\ UNCHANGED trig
  <2>1. lastId + 1 \in RunId /\ lastId' = lastId + 1 /\ Save(lastId + 1, skipped)
    BY <1>1, <1>4, RunAssumption DEF Insert, RunId
  <2>2. \A r : Known(r, skipped)
    BY <1>2, NoJobKnown
  <2>3. \A r \in RunId \ Inherited : row'[r] = row[r] \/ Known(r, row'[r])
    BY <1>1, <2>1, <2>2, SaveAt
  <2>4. lastId <= lastId'
    BY <1>1, <2>1
  <2> QED
    BY <1>1, <1>3, <1>4, <2>3, <2>4, SameJobs
<1>5. CASE TrigGoes(w, "passed", new) /\ UNCHANGED <<row, lastId>>
  <2>1. /\ trig'[w].pc = "passed" /\ trig'[w].copy = new
        /\ \A v \in Trigger \ {w} : trig'[v] = trig[v]
    BY <1>1, <1>5, TrigGoesAt
  <2>2. lastId <= lastId'
    BY <1>1, <1>5
  <2> QED
    BY <1>1, <1>2, <1>3, <1>5, <2>1, <2>2, SameJobs
<1> QED
  BY <1>3, <1>4, <1>5

\* What a goroutine does when it submits: one job more on its rcd, whose id it
\* learns, or does not.
LEMMA SubmitAt ==
    ASSUME RunInv, JobInv, NEW w \in Trigger, Submit(w)
    PROVE  /\ trig[w].pc = "created" /\ trig'[w].run = trig[w].run
           /\ trig'[w].pc \in {"submitted", "failing"}
           /\ \A v \in Trigger \ {w} : trig'[v] = trig[v]
           /\ \E n \in Node, new \in Nat :
                /\ n = Copy(w).node /\ new # NoJob /\ new \notin DOMAIN rcd[n]
                /\ DOMAIN rcd'[n] = DOMAIN rcd[n] \cup {new}
                /\ rcd'[n][new] = [run |-> trig[w].run, state |-> "executing"]
                /\ \A id \in DOMAIN rcd[n] : rcd'[n][id] = rcd[n][id]
                /\ \A m \in Node \ {n} : rcd'[m] = rcd[m]
                /\ trig'[w].copy =
                     IF trig'[w].pc = "submitted"
                       THEN [Copy(w) EXCEPT !.status = "running", !.job = new] ELSE Copy(w)
<1> DEFINE n == Copy(w).node
           new == Len(rcd[n]) + 1
           job == [run |-> trig[w].run, state |-> "executing"]
           running == [Copy(w) EXCEPT !.status = "running", !.job = new]
<1>1. TypeOK /\ trig[w].run \in RunId /\ Copy(w) \in Row /\ trig[w].pc = "created"
  BY TrigFacts DEF Submit
<1>2. n \in Node /\ rcd[n] \in Seq(Job) /\ job \in Job
  BY <1>1 DEF RunInv, OnLiveNode, TypeOK, Job
<1>3. /\ rcd' = [rcd EXCEPT ![n] = Append(rcd[n], job)]
      /\ TrigGoes(w, "submitted", running) \/ TrigGoes(w, "failing", Copy(w))
  BY DEF Submit
<1>4. /\ new \in Nat /\ new # NoJob /\ new \notin DOMAIN rcd[n]
      /\ DOMAIN rcd'[n] = DOMAIN rcd[n] \cup {new} /\ rcd'[n][new] = job
      /\ \A id \in DOMAIN rcd[n] : rcd'[n][id] = rcd[n][id]
      /\ \A m \in Node \ {n} : rcd'[m] = rcd[m]
  <2> HIDE DEF job, n
  <2>1. rcd'[n] = Append(rcd[n], job) /\ \A m \in Node \ {n} : rcd'[m] = rcd[m]
    BY <1>1, <1>2, <1>3 DEF TypeOK
  <2> QED
    BY <1>2, <2>1 DEF NoJob
<1>5. /\ trig'[w].run = trig[w].run
      /\ \/ trig'[w].pc = "submitted" /\ trig'[w].copy = running
         \/ trig'[w].pc = "failing" /\ trig'[w].copy = Copy(w)
      /\ \A v \in Trigger \ {w} : trig'[v] = trig[v]
  BY <1>1, <1>3, TrigGoesAt
<1> QED
  BY <1>1, <1>2, <1>4, <1>5

\* The rcd of node n has one more job, under an id it has not used.
Gets(n, new, job) ==
    /\ new \notin DOMAIN rcd[n] /\ DOMAIN rcd'[n] = DOMAIN rcd[n] \cup {new}
    /\ rcd'[n][new] = job
    /\ \A id \in DOMAIN rcd[n] : rcd'[n][id] = rcd[n][id]
    /\ \A m \in Node \ {n} : rcd'[m] = rcd[m]

LEMMA SubmitGets ==
    ASSUME RunInv, JobInv, NEW w \in Trigger, Submit(w)
    PROVE  \E n \in Node, new \in Nat :
             Gets(n, new, [run |-> trig[w].run, state |-> "executing"])
<1> DEFINE n == Copy(w).node
           new == Len(rcd[n]) + 1
           job == [run |-> trig[w].run, state |-> "executing"]
<1>1. TypeOK /\ trig[w].run \in RunId /\ trig[w].pc = "created"
  BY TrigFacts DEF Submit
<1>2. n \in Node /\ rcd[n] \in Seq(Job) /\ job \in Job
  BY <1>1 DEF RunInv, OnLiveNode, TypeOK, Job
<1>3. rcd' = [rcd EXCEPT ![n] = Append(rcd[n], job)]
  BY DEF Submit
<1> HIDE DEF job, n
<1>4. rcd'[n] = Append(rcd[n], job) /\ \A m \in Node \ {n} : rcd'[m] = rcd[m]
  BY <1>1, <1>2, <1>3 DEF TypeOK
<1>5. new \in Nat /\ Gets(n, new, job)
  BY <1>2, <1>4 DEF Gets
<1> QED
  BY <1>2, <1>5 DEF job

\* The one step that submits a job: the only one of its run.
LEMMA SubmitJobs ==
    ASSUME RunInv, TypeOK', JobInv, NEW w \in Trigger, Submit(w)
    PROVE  JobInv'
<1> DEFINE r == trig[w].run
           job == [run |-> r, state |-> "executing"]
<1>1. /\ TypeOK /\ r \in RunId /\ Copy(w) \in Row /\ Copy(w).job = NoJob
      /\ trig[w].pc = "created" /\ Holds(w, r)
  BY TrigFacts DEF Submit, Holds
<1>2. PICK n \in Node, new \in Nat :
        /\ n = Copy(w).node /\ new # NoJob /\ new \notin DOMAIN rcd[n]
        /\ DOMAIN rcd'[n] = DOMAIN rcd[n] \cup {new} /\ rcd'[n][new] = job
        /\ \A id \in DOMAIN rcd[n] : rcd'[n][id] = rcd[n][id]
        /\ \A m \in Node \ {n} : rcd'[m] = rcd[m]
        /\ trig'[w].copy =
             IF trig'[w].pc = "submitted"
               THEN [Copy(w) EXCEPT !.status = "running", !.job = new] ELSE Copy(w)
  BY SubmitAt
<1>3. UNCHANGED <<row, lastId, poll, budget>> /\ UNCHANGED done
  BY DEF Submit, history
<1>4. PICK running : running = [Copy(w) EXCEPT !.status = "running", !.job = new]
  OBVIOUS
<1>5. /\ running.status = "running" /\ running.job = new /\ running.node = n
  BY <1>1, <1>2, <1>4 DEF Row
<1>6. job.run = r /\ job.state = "executing"
  OBVIOUS
<1>7. /\ trig'[w].run = r
      /\ \/ trig'[w].pc = "submitted" /\ trig'[w].copy = running
         \/ trig'[w].pc = "failing" /\ trig'[w].copy = Copy(w)
      /\ \A v \in Trigger \ {w} : trig'[v] = trig[v]
  BY <1>2, <1>4, SubmitAt
<1> HIDE DEF r, job
<1>8. \A m \in Node : \A id \in DOMAIN rcd[m] : rcd[m][id].run # r
  BY <1>1 DEF JobInv, JobsOfRuns, r
<1>9. /\ \A v \in Trigger \ {w} : ~Holds(v, r)
      /\ \A m \in Node : ~Polls(m, r) /\ ~Clears(m, r)
      /\ r <= lastId
  BY <1>1 DEF RunInv, OneWriter, FreshIds
<1>10. \A s, rec : s # r /\ Known(s, rec) => Known(s, rec)'
  <2> SUFFICES ASSUME NEW s, NEW rec, s # r, Known(s, rec)
               PROVE  Known(s, rec)'
    OBVIOUS
  <2>1. \A m \in Node : \A id \in DOMAIN rcd'[m] : rcd'[m][id].run = s =>
          id \in DOMAIN rcd[m] /\ rcd'[m][id] = rcd[m][id]
    BY <1>2, <1>6
  <2>2. \A m \in Node : \A id \in DOMAIN rcd[m] :
          id \in DOMAIN rcd'[m] /\ rcd'[m][id] = rcd[m][id]
    BY <1>2
  <2> QED
    BY <1>1, <1>3, <2>1, <2>2, KnownStays
<1>11. (row[r].job = NoJob /\ row[r].status \notin {"running", "success"}) \/ r \in Inherited
  BY <1>1 DEF RunInv, WriterState, TrigState, Writing, JobInv, JobsKnown, Known, r
<1>12. JobsOfRuns'
  <2>1. (\A m \in Node : \A id \in DOMAIN rcd[m] :
           /\ rcd[m][id].run <= lastId
           /\ rcd[m][id].state = "ok" => rcd[m][id].run \in done)'
    BY <1>3, <1>2, <1>6, <1>9 DEF JobInv, JobsOfRuns
  <2>2. (\A m \in Node : \A id \in DOMAIN rcd[m] : \A v \in Trigger :
           trig[v].pc = "created" => rcd[m][id].run # trig[v].run)'
    BY <1>2, <1>6, <1>7, <1>9 DEF JobInv, JobsOfRuns, Holds
  <2>3. (\A v \in Trigger : trig[v].pc \notin {"idle", "submitted"} => Copy(v).job = NoJob)'
    BY <1>1, <1>7 DEF JobInv, JobsOfRuns, Copy
  <2> QED
    BY <2>1, <2>2, <2>3 DEF JobsOfRuns
<1>13. JobsKnown'
  <2>1. (\A s \in RunId \ Inherited : Known(s, row[s]))'
    <3>1. ASSUME NEW s \in RunId \ Inherited
          PROVE  Known(s, row[s])'
      <4>1. CASE s = r
        BY <1>3, <1>11, <4>1 DEF Known
      <4>2. CASE s # r
        BY <1>3, <1>10, <4>2 DEF JobInv, JobsKnown
      <4> QED
        BY <4>1, <4>2
    <3> QED
      BY <3>1 DEF Inherited
  <2>2. (\A v \in Trigger :
          trig[v].pc = "submitted" /\ trig[v].run \notin Inherited =>
             Known(trig[v].run, Copy(v)) /\ Copy(v).status = "running")'
    <3>1. trig'[w].pc = "submitted" => Known(trig[w].run, Copy(w))' /\ Copy(w)'.status = "running"
      <4> SUFFICES ASSUME trig'[w].pc = "submitted"
                   PROVE  Known(trig[w].run, Copy(w))' /\ Copy(w)'.status = "running"
        OBVIOUS
      <4>1. Copy(w)' = running /\ trig'[w].run = r
        BY <1>7 DEF Copy
      <4>2. \A m \in Node : \A id \in DOMAIN rcd'[m] : rcd'[m][id].run = r => m = n /\ id = new
        BY <1>2, <1>8
      <4>3. ASSUME NEW s, NEW rec, s = r, rec = running
            PROVE  Known(s, rec)'
        BY <1>2, <1>5, <1>6, <4>2, <4>3 DEF Known, Terminal
      <4> QED
        BY <1>5, <4>1, <4>3
    <3>2. ASSUME NEW v \in Trigger \ {w}, trig'[v].pc = "submitted", trig'[v].run \notin Inherited
          PROVE  Known(trig[v].run, Copy(v))' /\ Copy(v)'.status = "running"
      <4>1. trig[v].run # r
        BY <1>7, <1>9, <3>2 DEF Holds
      <4>2. Known(trig[v].run, Copy(v)) /\ Copy(v).status = "running"
        BY <1>7, <3>2 DEF JobInv, JobsKnown
      <4> QED
        BY <1>7, <1>10, <4>1, <4>2 DEF Copy
    <3> QED
      BY <3>1, <3>2 DEF Inherited
  <2>3. (\A m \in Node :
          poll[m].pc \in {"save", "notify", "mark", "clear"} /\ poll[m].run \notin Inherited =>
             Known(poll[m].run, poll[m].copy))'
    <3>1. ASSUME NEW m \in Node, poll[m].pc \in {"save", "notify", "mark", "clear"},
                 poll[m].run \notin Inherited
          PROVE  Known(poll[m].run, poll[m].copy)'
      <4>1. poll[m].run # r
        BY <1>9, <3>1 DEF Polls, Clears
      <4> QED
        BY <1>3, <1>10, <3>1, <4>1 DEF JobInv, JobsKnown
    <3> QED
      BY <1>3, <3>1 DEF Inherited
  <2> QED
    BY <2>1, <2>2, <2>3 DEF JobsKnown, Inherited
<1> QED
  BY <1>3, <1>12, <1>13 DEF JobInv

\* The steps of a goroutine inside RunTask.
LEMMA TrigJobs ==
    ASSUME RunInv, TypeOK', JobInv, NEW w \in Trigger, TrigStep(w)
    PROVE  JobInv'
<1>0. /\ TypeOK /\ trig[w].run \in RunId /\ Copy(w) \in Row
      /\ trig[w].pc \notin {"idle", "submitted"} => Copy(w).job = NoJob
      /\ trig[w].pc = "submitted" /\ trig[w].run \notin Inherited =>
           Known(trig[w].run, Copy(w))
      /\ trig[w].pc \in {"notify", "mark"} => Copy(w).status = "failed"
  BY TrigFacts
<1>f. \A st \in {"skipped", "failed"} :
        [Copy(w) EXCEPT !.status = st].job = Copy(w).job /\ [Copy(w) EXCEPT !.status = st].status = st
  BY <1>0, RowUpdate DEF Row
<1>k. Copy(w).job = NoJob => \A st \in {"skipped", "failed"} :
        Known(trig[w].run, [Copy(w) EXCEPT !.status = st])
  BY <1>f, NoJobKnown
<1>i. \A copy : TrigGoes(w, "idle", copy) =>
        trig'[w].pc = "idle" /\ \A v \in Trigger \ {w} : trig'[v] = trig[v]
  BY <1>0, TrigGoesAt
<1>1. CASE Create(w)
  BY <1>1, CreateJobs
<1>2. CASE Submit(w)
  BY <1>2, SubmitJobs
<1>3. CASE CreateFails(w)
  <2>2. NoRow.job = NoJob /\ NoRow.status = "none"
    BY DEF NoRow
  <2>3. Known(trig[w].run, NoRow)
    BY <2>2, NoJobKnown
  <2> QED
    BY <1>3, <1>i, <2>3, TrigWrite DEF CreateFails, history
<1>4. CASE PreCheckSkips(w)
  BY <1>4, <1>0, <1>k, <1>i, TrigWrite DEF PreCheckSkips, history
<1>5. CASE StartFails(w)
  <2>1. /\ trig'[w].pc = "failing" /\ trig'[w].copy = Copy(w)
        /\ \A v \in Trigger \ {w} : trig'[v] = trig[v]
    BY <1>0, <1>5, TrigGoesAt DEF StartFails
  <2> QED
    BY <1>5, <1>0, <1>k, <2>1, TrigWrite DEF StartFails, history
<1>6. CASE SaveRunning(w)
  BY <1>6, <1>0, <1>i, TrigWrite DEF SaveRunning, TrySave, history
<1>7. CASE SaveFailed(w)
  <2> DEFINE failed == [Copy(w) EXCEPT !.status = "failed"]
  <2>1. trig[w].pc = "failing" /\ failed.job = NoJob /\ Known(trig[w].run, failed)
    BY <1>0, <1>f, <1>k, <1>7 DEF SaveFailed
  <2>2. /\ \/ Save(trig[w].run, failed) /\ TrigGoes(w, "notify", failed)
           \/ TrigGoes(w, "idle", NoRow) /\ UNCHANGED row
        /\ UNCHANGED <<lastId, rcd, poll, budget, done>>
    BY <1>7 DEF SaveFailed, history
  <2> HIDE DEF failed
  <2>3. /\ \A v \in Trigger \ {w} : trig'[v] = trig[v]
        /\ trig'[w].pc = "idle" \/ (trig'[w].pc = "notify" /\ trig'[w].copy = failed)
    <3>1. CASE TrigGoes(w, "notify", failed)
      BY <1>0, <3>1, TrigGoesAt
    <3>2. CASE TrigGoes(w, "idle", NoRow)
      BY <1>0, <3>2, TrigGoesAt
    <3> QED
      BY <2>2, <3>1, <3>2
  <2> QED
    BY <2>1, <2>2, <2>3, TrigWrite
<1>8. CASE TrigNotify(w)
  <2> DEFINE marked == [Copy(w) EXCEPT !.notified = TRUE]
  <2>1. trig[w].pc = "notify" /\ marked.job = NoJob
    BY <1>0, <1>8 DEF TrigNotify, Row
  <2>2. /\ TrigGoes(w, "mark", marked) \/ TrigGoes(w, "idle", NoRow)
        /\ UNCHANGED <<row, lastId, rcd, poll, budget, done>>
    BY <1>8 DEF TrigNotify
  <2> HIDE DEF marked
  <2>3. /\ \A v \in Trigger \ {w} : trig'[v] = trig[v]
        /\ trig'[w].pc = "idle" \/ (trig'[w].pc = "mark" /\ trig'[w].copy = marked)
    <3>1. CASE TrigGoes(w, "mark", marked)
      BY <1>0, <3>1, TrigGoesAt
    <3>2. CASE TrigGoes(w, "idle", NoRow)
      BY <1>0, <3>2, TrigGoesAt
    <3> QED
      BY <2>2, <3>1, <3>2
  <2>4. Known(trig[w].run, Copy(w))
    BY <1>0, <2>1, NoJobKnown
  <2> QED
    BY <2>1, <2>2, <2>3, <2>4, TrigWrite
<1>9. CASE TrigMark(w)
  <2>1. trig[w].pc = "mark" /\ Known(trig[w].run, Copy(w))
    BY <1>0, <1>9, NoJobKnown DEF TrigMark
  <2> QED
    BY <1>9, <1>i, <2>1, TrigWrite DEF TrigMark, TrySave, history
<1> QED
  BY <1>1, <1>2, <1>3, <1>4, <1>5, <1>6, <1>7, <1>8, <1>9 DEF TrigStep

-----------------------------------------------------------------------------
(* PollRunningRuns *)

\* A poll job that writes at most the row of its run, as its copy has it.
LEMMA PollWrite ==
    ASSUME RunInv, TypeOK', JobInv, NEW n \in Node,
           \/ UNCHANGED row
           \/ poll[n].pc \in Saves /\ Save(poll[n].run, poll[n].copy),
           \A m \in Node \ {n} : poll'[m] = poll[m],
           \/ poll'[n].pc \notin Saves
           \/ poll'[n].run \notin Inherited => Known(poll'[n].run, poll'[n].copy),
           UNCHANGED <<lastId, rcd, trig, budget, done>>
    PROVE  JobInv'
<1>1. TypeOK /\ poll[n].run \in RunId /\ lastId <= lastId'
  BY DEF RunInv, TypeOK
<1>2. \A r \in RunId \ Inherited : row'[r] = row[r] \/ Known(r, row'[r])
  <2>1. CASE poll[n].pc \in Saves /\ Save(poll[n].run, poll[n].copy)
    <3>1. poll[n].run \notin Inherited => Known(poll[n].run, poll[n].copy)
      BY <2>1 DEF JobInv, JobsKnown, Saves
    <3> QED
      BY <1>1, <2>1, <3>1, SaveAt
  <2> QED
    BY <2>1
<1>3. \A m \in Node :
        \/ poll'[m] = poll[m]
        \/ poll'[m].pc \notin Saves
        \/ poll'[m].run \notin Inherited => Known(poll'[m].run, poll'[m].copy)
  OBVIOUS
<1> QED
  BY <1>1, <1>2, <1>3, SameJobs

\* The steps of a poll job that has a copy to save.
LEMMA PollEndsJobs ==
    ASSUME RunInv, TypeOK', JobInv, NEW n \in Node, PollEnds(n)
    PROVE  JobInv'
<1>0. /\ TypeOK /\ poll[n].run \in RunId /\ poll[n].copy \in Row
      /\ poll[n].pc \in Saves /\ poll[n].run \notin Inherited =>
           Known(poll[n].run, poll[n].copy)
  BY DEF RunInv, TypeOK, JobInv, JobsKnown, Saves
<1>n. PollNext(n) => /\ \A m \in Node \ {n} : poll'[m] = poll[m]
                     /\ poll'[n].pc \notin Saves
  BY <1>0, PollNextAt DEF Saves
<1>1. CASE SaveResult(n)
  <2>1. /\ poll'[n].run = poll[n].run /\ poll'[n].copy = poll[n].copy
        /\ \A m \in Node \ {n} : poll'[m] = poll[m]
    BY <1>0, <1>1 DEF SaveResult, TypeOK
  <2>2. poll[n].pc \in Saves
    BY <1>1 DEF SaveResult, Saves
  <2> QED
    BY <1>0, <1>1, <2>1, <2>2, PollWrite DEF SaveResult, history
<1>2. CASE SaveResultFails(n)
  BY <1>n, <1>2, PollWrite DEF SaveResultFails, history
<1>3. CASE PollNotify(n)
  <2>1. UNCHANGED <<row, lastId, rcd, trig, budget, done>>
    BY <1>3 DEF PollNotify
  <2>2. CASE PollNext(n)
    BY <1>n, <2>1, <2>2, PollWrite
  <2>3. CASE poll' = [poll EXCEPT ![n].pc = "mark", ![n].copy.notified = TRUE]
    <3> DEFINE marked == [poll[n].copy EXCEPT !.notified = TRUE]
    <3>1. /\ poll'[n].run = poll[n].run /\ poll'[n].copy = marked
          /\ \A m \in Node \ {n} : poll'[m] = poll[m]
      BY <1>0, <2>3 DEF TypeOK
    <3>2. /\ marked.status = poll[n].copy.status /\ marked.job = poll[n].copy.job
          /\ marked.node = poll[n].copy.node
      BY <1>0 DEF Row
    <3>3. poll[n].pc \in Saves
      BY <1>3 DEF PollNotify, Saves
    <3> HIDE DEF marked
    <3>4. poll[n].run \notin Inherited => Known(poll[n].run, marked)
      BY <1>0, <3>2, <3>3, KnownAlike
    <3> QED
      BY <2>1, <3>1, <3>4, PollWrite
  <2> QED
    BY <1>3, <2>2, <2>3 DEF PollNotify
<1>4. CASE PollMark(n)
  <2>1. poll[n].pc \in Saves
    BY <1>4 DEF PollMark, Saves
  <2> QED
    BY <1>n, <1>4, <2>1, PollWrite DEF PollMark, TrySave, history
<1>5. CASE Resolve(n)
  <2>1. UNCHANGED <<row, lastId, rcd, trig, budget, done>>
    BY <1>5 DEF Resolve, history
  <2>2. CASE PollNext(n)
    BY <1>n, <2>1, <2>2, PollWrite
  <2>3. ASSUME NEW prev \in RunId,
               poll' = [poll EXCEPT ![n].pc = "clear", ![n].run = prev,
                          ![n].copy = [row[prev] EXCEPT !.notified = FALSE]]
        PROVE  JobInv'
    <3> DEFINE cleared == [row[prev] EXCEPT !.notified = FALSE]
    <3>1. /\ poll'[n].run = prev /\ poll'[n].copy = cleared
          /\ \A m \in Node \ {n} : poll'[m] = poll[m]
      BY <1>0, <2>3 DEF TypeOK
    <3>2. row[prev] \in Row
      BY <1>0 DEF TypeOK
    <3>3. /\ cleared.status = row[prev].status /\ cleared.job = row[prev].job
          /\ cleared.node = row[prev].node
      BY <3>2 DEF Row
    <3> HIDE DEF cleared
    <3>4. prev \notin Inherited => Known(prev, cleared)
      BY <3>3, KnownAlike DEF JobInv, JobsKnown
    <3> QED
      BY <2>1, <3>1, <3>4, PollWrite
  <2> QED
    BY <1>5, <2>2, <2>3 DEF Resolve, Unresolved
<1>6. CASE Clear(n)
  <2>1. poll[n].pc \in Saves
    BY <1>6 DEF Clear, Saves
  <2> QED
    BY <1>n, <1>6, <2>1, PollWrite DEF Clear, TrySave, history
<1> QED
  BY <1>1, <1>2, <1>3, <1>4, <1>5, <1>6 DEF PollEnds

\* The claim leaves every row that a node submitted.
LEMMA PollBeginJobs ==
    ASSUME RunInv, TypeOK', JobInv, NEW n \in Node, PollBegin(n)
    PROVE  JobInv'
<1>1. TypeOK /\ lastId <= lastId'
  <2>1. lastId' = lastId
    BY DEF PollBegin
  <2> QED
    BY <2>1 DEF RunInv, TypeOK
<1>2. \A r \in RunId \ Inherited : Claimed(n)[r] = row[r]
  <2> SUFFICES ASSUME NEW r \in RunId \ Inherited
               PROVE  Claimed(n)[r] = row[r]
    OBVIOUS
  <2>1. row[r].status = "running" => row[r].node # NoNode
    BY RunAssumption DEF JobInv, JobsKnown, Known, RunAssumption
  <2> QED
    BY <2>1 DEF Claimed
<1>3. \A r \in RunId \ Inherited : row'[r] = row[r]
  BY <1>2 DEF PollBegin
<1>4. \A m \in Node : poll'[m] = poll[m] \/ poll'[m].pc \notin Saves
  <2>1. PICK mine : poll' = [poll EXCEPT ![n].pc = "polling", ![n].todo = mine]
    BY DEF PollBegin
  <2>2. poll'[n].pc = "polling" /\ \A m \in Node \ {n} : poll'[m] = poll[m]
    BY <1>1, <2>1 DEF TypeOK
  <2> QED
    BY <2>2 DEF Saves
<1>5. UNCHANGED <<lastId, rcd, trig, budget>> /\ UNCHANGED done
  BY DEF PollBegin, history
<1> QED
  BY <1>1, <1>3, <1>4, <1>5, SameJobs

\* What the rcd answers for the job of a row is said of the run's own job.
LEMMA QueryJobs ==
    ASSUME RunInv, TypeOK', JobInv, NEW n \in Node, NEW r \in RunId, Query(n, r)
    PROVE  JobInv'
<1> DEFINE id == row[r].job
           ended == [row[r] EXCEPT !.status = Answer(n, id)]
<1>1. /\ TypeOK /\ row[r] \in Row /\ r \in poll[n].todo
      /\ row[r].status = "running" /\ id # NoJob /\ Answer(n, id) # "unfinished"
  BY DEF RunInv, TypeOK, Query
<1>2. /\ poll'[n].run = r /\ poll'[n].copy = ended
      /\ \A m \in Node \ {n} : poll'[m] = poll[m]
      /\ UNCHANGED <<row, lastId, rcd, trig, budget>> /\ UNCHANGED done
  BY <1>1 DEF Query, TypeOK, history
<1>3. row[r].node = n
  BY <1>1 DEF RunInv, OneWriter
<1>4. /\ ended.status = Answer(n, id) /\ ended.job = id /\ ended.node = n
  BY <1>1, <1>3 DEF Row
<1>5. DOMAIN rcd[n] = 1 .. Len(rcd[n])
  BY <1>1, JobsTyped
<1>6. ASSUME r \notin Inherited
      PROVE  Known(r, ended)
  <2>1. /\ \A m \in Node : \A j \in DOMAIN rcd[m] : rcd[m][j].run = r => m = n /\ j = id
        /\ budget.rcd = MaxRcdRestarts => id \in DOMAIN rcd[n] /\ rcd[n][id].run = r
    BY <1>1, <1>3, <1>6 DEF JobInv, JobsKnown, Known
  <2>2. id \in DOMAIN rcd[n] => rcd[n][id].state # "executing"
    BY <1>1, <1>5 DEF Answer
  <2>3. ~Executing(r)
    BY <1>1, <2>1, <2>2, ExecutingIs
  <2>4. /\ Answer(n, id) \in {"success", "failed"}
        /\ Answer(n, id) = "success" => id \in DOMAIN rcd[n] /\ rcd[n][id].state = "ok"
    BY <1>1, <1>5 DEF Answer
  <2>5. Answer(n, id) = "success" => rcd[n][id].run \in done
    BY <2>4 DEF JobInv, JobsOfRuns
  <2> HIDE DEF id, ended
  <2> QED
    BY <1>1, <1>4, <2>1, <2>3, <2>4, <2>5 DEF Known
<1> HIDE DEF id, ended
<1> QED
  BY <1>2, <1>6, PollWrite

\* The steps of a poll job.
LEMMA PollJobs ==
    ASSUME RunInv, TypeOK', JobInv, NEW n \in Node, PollStep(n)
    PROVE  JobInv'
<1>1. ASSUME NEW r \in RunId, PollNothing(n, r) PROVE JobInv'
  <2>1. poll[n].pc = "polling" /\ TypeOK
    BY <1>1 DEF RunInv, PollNothing
  <2>2. /\ poll'[n].pc \notin Saves
        /\ \A m \in Node \ {n} : poll'[m] = poll[m]
    BY <1>1, <2>1 DEF PollNothing, TypeOK, NoPoll, Saves
  <2> QED
    BY <1>1, <2>2, PollWrite DEF PollNothing, history
<1> QED
  BY <1>1, PollBeginJobs, PollEndsJobs, QueryJobs DEF PollStep

-----------------------------------------------------------------------------
(* Around the service *)

\* A step of the rcds alone, that starts no job.
LEMMA RcdStep ==
    ASSUME TypeOK, TypeOK', JobInv, UNCHANGED <<row, lastId, trig, poll>>,
           \A n \in Node : \A id \in DOMAIN rcd'[n] :
              /\ id \in DOMAIN rcd[n] /\ rcd'[n][id].run = rcd[n][id].run
              /\ rcd'[n][id].state = "executing" => rcd[n][id].state = "executing"
              /\ rcd'[n][id].state = "ok" => rcd[n][id].run \in done',
           done \subseteq done', budget'.rcd <= MaxRcdRestarts,
           budget'.rcd = MaxRcdRestarts =>
              /\ budget.rcd = MaxRcdRestarts
              /\ \A n \in Node : \A id \in DOMAIN rcd[n] : id \in DOMAIN rcd'[n]
    PROVE  JobInv'
<1>1. \A r, rec : Known(r, rec) => Known(r, rec)'
  BY KnownStays
<1>2. JobsOfRuns'
  BY DEF JobInv, JobsOfRuns, Copy
<1>3. JobsKnown'
  <2>1. (\A r \in RunId \ Inherited : Known(r, row[r]))'
    BY <1>1 DEF JobInv, JobsKnown
  <2>2. (\A w \in Trigger :
          trig[w].pc = "submitted" /\ trig[w].run \notin Inherited =>
             Known(trig[w].run, Copy(w)) /\ Copy(w).status = "running")'
    BY <1>1 DEF JobInv, JobsKnown, Copy, Inherited
  <2>3. (\A n \in Node :
          poll[n].pc \in {"save", "notify", "mark", "clear"} /\ poll[n].run \notin Inherited =>
             Known(poll[n].run, poll[n].copy))'
    BY <1>1 DEF JobInv, JobsKnown, Inherited
  <2> QED
    BY <2>1, <2>2, <2>3 DEF JobsKnown, Inherited
<1> QED
  BY <1>2, <1>3 DEF JobInv

\* What becomes of the job that ends.
LEMMA JobEndsAt ==
    ASSUME TypeOK, NEW n \in Node, NEW id \in 1 .. MaxRuns, JobEnds(n, id)
    PROVE  /\ id \in DOMAIN rcd[n] /\ rcd[n][id].state = "executing" /\ rcd[n][id] \in Job
           /\ \A m \in Node : DOMAIN rcd'[m] = DOMAIN rcd[m]
           /\ \A m \in Node \ {n} : rcd'[m] = rcd[m]
           /\ \A j \in DOMAIN rcd[n] \ {id} : rcd'[n][j] = rcd[n][j]
           /\ \E end \in {"ok", "error"} :
                /\ rcd'[n][id] = [rcd[n][id] EXCEPT !.state = end]
                /\ done' = IF end = "ok" THEN done \cup {rcd[n][id].run} ELSE done
<1>1. /\ id \in DOMAIN rcd[n] /\ rcd[n] \in Seq(Job) /\ rcd[n][id] \in Job
      /\ rcd[n][id].state = "executing"
  BY JobsTyped DEF TypeOK, JobEnds
<1>2. PICK end \in {"ok", "error"} :
        /\ rcd' = [rcd EXCEPT ![n][id].state = end]
        /\ done' = IF end = "ok" THEN done \cup {rcd[n][id].run} ELSE done
  BY DEF JobEnds
<1>3. rcd' = [rcd EXCEPT ![n] = [rcd[n] EXCEPT ![id] = [rcd[n][id] EXCEPT !.state = end]]]
  BY <1>2
<1>4. /\ rcd'[n] = [rcd[n] EXCEPT ![id] = [rcd[n][id] EXCEPT !.state = end]]
      /\ \A m \in Node \ {n} : rcd'[m] = rcd[m]
  BY <1>1, <1>3 DEF TypeOK
<1>5. /\ DOMAIN rcd'[n] = DOMAIN rcd[n]
      /\ \A j \in DOMAIN rcd[n] \ {id} : rcd'[n][j] = rcd[n][j]
      /\ rcd'[n][id] = [rcd[n][id] EXCEPT !.state = end]
  BY <1>1, <1>4
<1> QED
  BY <1>1, <1>2, <1>4, <1>5

\* A job that ends well makes its run one of those done.
LEMMA JobEndsJobs ==
    ASSUME RunInv, TypeOK', JobInv, NEW n \in Node, NEW id \in 1 .. MaxRuns, JobEnds(n, id)
    PROVE  JobInv'
<1>1. /\ TypeOK /\ id \in DOMAIN rcd[n] /\ rcd[n][id] \in Job
      /\ \A m \in Node : DOMAIN rcd'[m] = DOMAIN rcd[m]
      /\ \A m \in Node \ {n} : rcd'[m] = rcd[m]
      /\ \A j \in DOMAIN rcd[n] \ {id} : rcd'[n][j] = rcd[n][j]
  BY JobEndsAt DEF RunInv
<1>2. PICK end \in {"ok", "error"} :
        /\ rcd'[n][id] = [rcd[n][id] EXCEPT !.state = end]
        /\ done' = IF end = "ok" THEN done \cup {rcd[n][id].run} ELSE done
  BY <1>1, JobEndsAt
<1>3. rcd'[n][id].run = rcd[n][id].run /\ rcd'[n][id].state = end
  BY <1>1, <1>2 DEF Job
<1>4. ASSUME NEW m \in Node, NEW j \in DOMAIN rcd'[m]
      PROVE  /\ j \in DOMAIN rcd[m] /\ rcd'[m][j].run = rcd[m][j].run
             /\ rcd'[m][j].state = "executing" => rcd[m][j].state = "executing"
             /\ rcd'[m][j].state = "ok" => rcd[m][j].run \in done'
  <2>1. CASE m = n /\ j = id
    BY <1>1, <1>2, <1>3, <2>1
  <2>2. CASE ~(m = n /\ j = id)
    BY <1>1, <1>2, <1>3, <2>2 DEF JobInv, JobsOfRuns
  <2> QED
    BY <2>1, <2>2
<1>5. done \subseteq done' /\ UNCHANGED <<row, lastId, trig, poll, budget>>
  BY <1>2 DEF JobEnds
<1> QED
  BY <1>1, <1>3, <1>4, <1>5, RcdStep DEF JobInv

\* The steps around the service.
LEMMA AroundJobs ==
    ASSUME RunInv, TypeOK', JobInv, Around
    PROVE  JobInv'
<1>0. TypeOK /\ lastId <= lastId
  BY DEF RunInv, TypeOK
<1>1. ASSUME NEW n \in Node, RcdRestart(n) PROVE JobInv'
  <2>1. /\ rcd'[n] = << >> /\ \A m \in Node \ {n} : rcd'[m] = rcd[m]
        /\ budget'.rcd = budget.rcd - 1 /\ budget.rcd \in Nat /\ budget.rcd <= MaxRcdRestarts
    BY <1>0, <1>1 DEF RcdRestart, TypeOK, JobInv
  <2>2. budget'.rcd < MaxRcdRestarts
    BY <2>1, RunAssumption DEF RunAssumption
  <2>3. \A m \in Node : \A id \in DOMAIN rcd'[m] :
           id \in DOMAIN rcd[m] /\ rcd'[m][id] = rcd[m][id]
    BY <2>1
  <2>4. UNCHANGED <<row, lastId, trig, poll>> /\ UNCHANGED done
    BY <1>1 DEF RcdRestart, history
  <2>5. \A m \in Node : \A id \in DOMAIN rcd[m] :
           rcd[m][id].state = "ok" => rcd[m][id].run \in done
    BY DEF JobInv, JobsOfRuns
  <2>6. budget'.rcd <= MaxRcdRestarts /\ budget'.rcd # MaxRcdRestarts
    BY <2>1, <2>2, RunAssumption DEF RunAssumption
  <2> QED
    BY <1>0, <2>3, <2>4, <2>5, <2>6, RcdStep
<1>2. ASSUME NEW n \in Node, Crash(n) PROVE JobInv'
  <2>1. NoTrig.pc = "idle" /\ NoPoll.pc \notin Saves
    BY DEF NoTrig, NoPoll, Saves
  <2>2. \A w \in Trigger : trig'[w] = trig[w] \/ trig'[w] = NoTrig
    BY <1>2 DEF Crash
  <2>3. \A m \in Node : poll'[m] = poll[m] \/ poll'[m] = NoPoll
    BY <1>0, <1>2 DEF Crash, TypeOK
  <2>4. budget'.rcd = budget.rcd /\ UNCHANGED <<row, lastId, rcd>> /\ UNCHANGED done
    BY <1>0, <1>2 DEF Crash, TypeOK, history
  <2> QED
    BY <1>0, <2>1, <2>2, <2>3, <2>4, SameJobs
<1>3. ASSUME NEW t \in Task, DeleteRuns(t) PROVE JobInv'
  <2>1. \A r : Known(r, NoRow)
    <3>1. NoRow.job = NoJob /\ NoRow.status = "none"
      BY DEF NoRow
    <3> QED
      BY <3>1, NoJobKnown
  <2>2. \A r \in RunId : row'[r] = row[r] \/ row'[r] = NoRow
    BY <1>3 DEF DeleteRuns
  <2>3. budget'.rcd = budget.rcd /\ UNCHANGED <<lastId, rcd, trig, poll>> /\ UNCHANGED done
    BY <1>0, <1>3 DEF DeleteRuns, TypeOK, history
  <2> QED
    BY <1>0, <2>1, <2>2, <2>3, SameJobs
<1>4. CASE UNCHANGED <<row, lastId, rcd, trig, poll, budget>> /\ UNCHANGED done
  BY <1>0, <1>4, SameJobs
<1> QED
  BY <1>1, <1>2, <1>3, <1>4, JobEndsJobs DEF Around, Restart, DeleteTask, history

-----------------------------------------------------------------------------
\* No job is known at the start but that of the row of an earlier release.
LEMMA InitJobs == Init => JobInv
<1> SUFFICES ASSUME Init PROVE JobInv
  OBVIOUS
<1>1. /\ \A r \in RunId \ Inherited : row[r] = NoRow
      /\ \A n \in Node : \A id \in DOMAIN rcd[n] :
           Legacy /\ rcd[n][id] = [run |-> 1, state |-> "executing"]
      /\ \A w \in Trigger : trig[w].pc = "idle"
      /\ \A n \in Node : poll[n].pc = "idle"
      /\ lastId = (IF Legacy THEN 1 ELSE 0) /\ budget.rcd = MaxRcdRestarts
  <2>1. PICK home \in Node :
          /\ row = [r \in RunId |->
                      IF Legacy /\ r = 1
                        THEN [NoRow EXCEPT !.status = "running", !.job = 1] ELSE NoRow]
          /\ rcd = [n \in Node |->
                      IF Legacy /\ n = home
                        THEN <<[run |-> 1, state |-> "executing"]>> ELSE << >>]
    BY DEF Init
  <2>2. \A r \in RunId \ Inherited : row[r] = NoRow
    BY <2>1 DEF Inherited
  <2>3. \A n \in Node : \A id \in DOMAIN rcd[n] :
           Legacy /\ rcd[n][id] = [run |-> 1, state |-> "executing"]
    BY <2>1
  <2> QED
    BY <2>2, <2>3 DEF Init, NoTrig, NoPoll
<1>2. \A r : Known(r, NoRow)
  <2>1. NoRow.job = NoJob /\ NoRow.status = "none"
    BY DEF NoRow
  <2> QED
    BY <2>1, NoJobKnown
<1>3. JobsOfRuns
  BY <1>1 DEF JobsOfRuns
<1>4. JobsKnown
  BY <1>1, <1>2 DEF JobsKnown
<1> QED
  BY <1>1, <1>3, <1>4, RunAssumption DEF JobInv, RunAssumption

\* Every step keeps the invariant.
LEMMA NextJobs == RunInv /\ TypeOK' /\ JobInv /\ [Next]_vars => JobInv'
<1> SUFFICES ASSUME RunInv, TypeOK', JobInv, [Next]_vars PROVE JobInv'
  OBVIOUS
<1>1. CASE UNCHANGED vars
  <2>1. TypeOK /\ lastId <= lastId' /\ budget'.rcd = budget.rcd
    BY <1>1 DEF RunInv, TypeOK, vars
  <2>2. UNCHANGED <<row, rcd, trig, poll>> /\ UNCHANGED done
    BY <1>1 DEF vars, history
  <2> QED
    BY <2>1, <2>2, SameJobs
<1>2. CASE Next
  BY <1>2, TrigJobs, GuardJobs, PollJobs, AroundJobs DEF Next
<1> QED
  BY <1>1, <1>2

\* JobInv holds in every reachable state, for any numbers of nodes, tasks,
\* goroutines, runs, crashes, rcd restarts and deletions.
THEOREM JobsSafe == Spec => []JobInv
<1>1. Init => JobInv
  BY InitJobs
<1>2. RunInv /\ RunInv' /\ JobInv /\ [Next]_vars => JobInv'
  <2>1. RunInv' => TypeOK'
    BY DEF RunInv
  <2> QED
    BY <2>1, NextJobs
<1> QED
  BY <1>1, <1>2, RunSafe, PTL DEF Spec

\* No run is given up while its job still copies files.
THEOREM JobKeeps == Spec => []JobKeepsRunActive
<1>1. JobInv => JobKeepsRunActive
  BY DEF JobInv, JobsKnown, Known, JobKeepsRunActive
<1> QED
  BY <1>1, JobsSafe, PTL

\* A success is that of the run's own job, as long as no rcd has restarted.
THEOREM SuccessIsOwn == Spec => []SuccessIsTrue
<1>1. JobInv => SuccessIsTrue
  BY DEF JobInv, JobsKnown, Known, SuccessIsTrue, NoJob
<1> QED
  BY <1>1, JobsSafe, PTL

-----------------------------------------------------------------------------
(* The life of a run: LifeInv is inductive on top of RunInv and JobInv.     *)

\* No job ends but once, no poll has a new verdict, and no goroutine a new job id.
LEMMA VerdictsStay ==
    ASSUME LifeInv,
           \A n \in Node : \A id \in DOMAIN rcd'[n] :
              /\ id \in DOMAIN rcd[n] /\ rcd'[n][id].run = rcd[n][id].run
              /\ rcd[n][id].state # "executing" => rcd'[n][id].state = rcd[n][id].state,
           \A n \in Node : poll'[n].pc = "save" => poll'[n] = poll[n],
           \A w \in Trigger : trig'[w].pc = "submitted" => trig'[w] = trig[w]
    PROVE  OneJob' /\ Verdicts'
<1>1. OneJob'
  BY DEF LifeInv, OneJob
<1>2. (\A w \in Trigger : trig[w].pc = "submitted" => Copy(w).status = "running")'
  BY DEF LifeInv, Verdicts, Copy
<1>3. ASSUME NEW n \in Node, poll'[n].pc = "save", poll'[n].run \notin Inherited,
             NEW m \in Node, NEW id \in DOMAIN rcd'[m], rcd'[m][id].run = poll'[n].run
      PROVE  rcd'[m][id].state = IF poll'[n].copy.status = "success" THEN "ok" ELSE "error"
  <2>1. /\ poll'[n] = poll[n] /\ id \in DOMAIN rcd[m]
        /\ rcd[m][id].run = poll[n].run
    BY <1>3
  <2>2. rcd[m][id].state = IF poll[n].copy.status = "success" THEN "ok" ELSE "error"
    BY <1>3, <2>1 DEF LifeInv, Verdicts
  <2> QED
    BY <2>1, <2>2
<1> QED
  BY <1>1, <1>2, <1>3 DEF Verdicts, Inherited

\* What a step of the engine that touches no job leaves to show.
LEMMA VerdictsAlike ==
    ASSUME LifeInv, UNCHANGED rcd,
           \A n \in Node : poll'[n].pc = "save" => poll'[n] = poll[n],
           \A w \in Trigger : trig'[w].pc = "submitted" => trig'[w] = trig[w]
    PROVE  OneJob' /\ Verdicts'
<1>1. \A n \in Node : \A id \in DOMAIN rcd'[n] :
        /\ id \in DOMAIN rcd[n] /\ rcd'[n][id].run = rcd[n][id].run
        /\ rcd[n][id].state # "executing" => rcd'[n][id].state = rcd[n][id].state
  OBVIOUS
<1> QED
  BY <1>1, VerdictsStay

\* The job submitted is the first of its run, and no poll is about that run.
LEMMA SubmitVerdicts ==
    ASSUME RunInv, LifeInv, NEW w \in Trigger, Submit(w)
    PROVE  OneJob' /\ Verdicts'
<1> DEFINE r == trig[w].run
<1>0. JobInv
  BY DEF LifeInv
<1>1. PICK n \in Node, new \in Nat : Gets(n, new, [run |-> r, state |-> "executing"])
  BY <1>0, SubmitGets
<1> USE DEF Gets
<1>2. /\ trig[w].pc = "created"
      /\ trig'[w].pc = "submitted" => Copy(w)'.status = "running"
      /\ \A v \in Trigger \ {w} : trig'[v] = trig[v]
  <2>1. Copy(w) \in Row
    BY <1>0, TrigFacts
  <2>2. /\ trig[w].pc = "created"
        /\ \A v \in Trigger \ {w} : trig'[v] = trig[v]
        /\ trig'[w].pc = "submitted" =>
             \E k \in Nat :
                trig'[w].copy = [Copy(w) EXCEPT !.status = "running", !.job = k]
    BY <1>0, SubmitAt
  <2> QED
    BY <2>1, <2>2 DEF Copy, Row
<1>3. r \in RunId /\ Holds(w, r)
  BY <1>2 DEF RunInv, TypeOK, Holds
<1> HIDE DEF r
<1>4. \A m \in Node : \A id \in DOMAIN rcd[m] : rcd[m][id].run # r
  BY <1>0, <1>2 DEF JobInv, JobsOfRuns, r
<1>5. \A m \in Node : ~Polls(m, r)
  BY <1>3 DEF RunInv, OneWriter
<1>6. rcd'[n][new].run = r
  BY <1>1
<1>7. \A m \in Node : \A id \in DOMAIN rcd'[m] :
        \/ m = n /\ id = new
        \/ id \in DOMAIN rcd[m] /\ rcd'[m][id] = rcd[m][id]
  BY <1>1
<1>8. OneJob'
  <2> SUFFICES ASSUME NEW l \in Node, NEW m \in Node, NEW id \in DOMAIN rcd'[l],
                      NEW k \in DOMAIN rcd'[m], rcd'[l][id].run = rcd'[m][k].run
               PROVE  l = m /\ id = k
    BY DEF OneJob
  <2>1. CASE rcd'[l][id].run = r
    <3>1. rcd'[m][k].run = r
      BY <2>1
    <3>2. l = n /\ id = new
      BY <1>4, <1>7, <2>1
    <3>3. m = n /\ k = new
      BY <1>4, <1>7, <3>1
    <3> QED
      BY <3>2, <3>3
  <2>2. CASE rcd'[l][id].run # r
    BY <1>6, <1>7, <2>2 DEF LifeInv, OneJob
  <2> QED
    BY <2>1, <2>2
<1>9. UNCHANGED poll
  BY DEF Submit
<1>10. ASSUME NEW m \in Node, poll[m].pc = "save", poll[m].run \notin Inherited,
              NEW l \in Node, NEW id \in DOMAIN rcd'[l], rcd'[l][id].run = poll[m].run
       PROVE  rcd'[l][id].state = IF poll[m].copy.status = "success" THEN "ok" ELSE "error"
  <2>1. poll[m].run # r
    BY <1>5, <1>10 DEF Polls
  <2>2. id \in DOMAIN rcd[l] /\ rcd'[l][id] = rcd[l][id]
    BY <1>6, <1>7, <1>10, <2>1
  <2> QED
    BY <1>10, <2>2 DEF LifeInv, Verdicts
<1>11. \A v \in Trigger : trig'[v].pc = "submitted" => Copy(v)'.status = "running"
  BY <1>2 DEF LifeInv, Verdicts, Copy
<1> QED
  BY <1>8, <1>9, <1>10, <1>11 DEF Verdicts, Inherited

\* The answer for a run is of its own job, if that is still there.
LEMMA QueryVerdicts ==
    ASSUME RunInv, LifeInv, NEW n \in Node, NEW r \in RunId, Query(n, r)
    PROVE  OneJob' /\ Verdicts'
<1>1. /\ TypeOK /\ JobInv /\ row[r] \in Row /\ r \in poll[n].todo
      /\ row[r].status = "running" /\ row[r].job # NoJob
      /\ Answer(n, row[r].job) # "unfinished"
  BY DEF RunInv, TypeOK, Query, LifeInv
<1>2. /\ poll'[n].run = r /\ poll'[n].copy = [row[r] EXCEPT !.status = Answer(n, row[r].job)]
      /\ \A m \in Node \ {n} : poll'[m] = poll[m]
      /\ UNCHANGED <<rcd, trig>>
  BY <1>1 DEF Query, TypeOK
<1>3. row[r].node = n
  BY <1>1 DEF RunInv, OneWriter
<1>4. poll'[n].copy.status = Answer(n, row[r].job)
  BY <1>1, <1>2 DEF Row
<1>5. DOMAIN rcd[n] = 1 .. Len(rcd[n]) /\ \A id \in DOMAIN rcd[n] : rcd[n][id] \in Job
  BY <1>1, JobsTyped
<1>6. OneJob'
  BY <1>2 DEF LifeInv, OneJob
<1>7. ASSUME NEW m \in Node, poll'[m].pc = "save", poll'[m].run \notin Inherited,
             NEW l \in Node, NEW id \in DOMAIN rcd[l], rcd[l][id].run = poll'[m].run
      PROVE  rcd[l][id].state = IF poll'[m].copy.status = "success" THEN "ok" ELSE "error"
  <2>1. CASE m = n
    <3>1. l = n /\ id = row[r].job
      BY <1>1, <1>2, <1>3, <1>7, <2>1 DEF JobInv, JobsKnown, Known
    <3>2. rcd[l][id].state \in {"executing", "ok", "error"}
      BY <1>5, <3>1 DEF Job
    <3> QED
      BY <1>1, <1>4, <1>5, <1>7, <2>1, <3>1, <3>2 DEF Answer
  <2>2. CASE m # n
    BY <1>2, <1>7, <2>2 DEF LifeInv, Verdicts
  <2> QED
    BY <2>1, <2>2
<1>8. \A v \in Trigger : trig'[v].pc = "submitted" => Copy(v)'.status = "running"
  BY <1>2 DEF LifeInv, Verdicts, Copy
<1> QED
  BY <1>2, <1>6, <1>7, <1>8 DEF Verdicts, Inherited

\* A goroutine's other steps end in no new job id.
LEMMA TrigVerdicts ==
    ASSUME RunInv, LifeInv, NEW w \in Trigger, TrigStep(w)
    PROVE  OneJob' /\ Verdicts'
<1>1. TypeOK
  BY DEF RunInv
<1>2. CASE \E pc \in {"idle", "failing", "notify", "mark"} : \E copy : TrigGoes(w, pc, copy)
           /\ UNCHANGED <<rcd, poll>>
  <2>1. PICK pc \in {"idle", "failing", "notify", "mark"} : \E copy : TrigGoes(w, pc, copy)
    BY <1>2
  <2>2. trig'[w].pc = pc /\ \A v \in Trigger \ {w} : trig'[v] = trig[v]
    BY <1>1, <2>1, TrigGoesAt
  <2>3. \A v \in Trigger : trig'[v].pc = "submitted" => trig'[v] = trig[v]
    BY <2>2
  <2> QED
    BY <1>2, <2>3, VerdictsAlike
<1>3. CASE Create(w)
  <2>1. trig'[w].pc = "created" /\ \A v \in Trigger \ {w} : trig'[v] = trig[v]
    BY <1>1, <1>3 DEF Create, TypeOK
  <2>2. UNCHANGED <<rcd, poll>>
    BY <1>3 DEF Create
  <2> QED
    BY <2>1, <2>2, VerdictsAlike
<1>4. CreateFails(w) \/ PreCheckSkips(w) \/ StartFails(w) \/ SaveRunning(w) \/ SaveFailed(w)
        \/ TrigNotify(w) \/ TrigMark(w)
      => (\E pc \in {"idle", "failing", "notify", "mark"} : \E copy : TrigGoes(w, pc, copy))
           /\ UNCHANGED <<rcd, poll>>
  BY DEF CreateFails, PreCheckSkips, StartFails, SaveRunning, SaveFailed, TrigNotify, TrigMark
<1> QED
  BY <1>2, <1>3, <1>4, SubmitVerdicts DEF TrigStep

\* A poll job's other steps end in no new verdict.
LEMMA PollVerdicts ==
    ASSUME RunInv, LifeInv, NEW n \in Node, PollStep(n)
    PROVE  OneJob' /\ Verdicts'
<1>1. TypeOK /\ NoPoll.pc = "idle"
  BY DEF RunInv, NoPoll
<1>2. PollNext(n) => poll'[n].pc # "save" /\ \A m \in Node \ {n} : poll'[m] = poll[m]
  BY <1>1, PollNextAt
<1>3. CASE UNCHANGED <<rcd, trig>> /\ poll'[n].pc # "save"
           /\ \A m \in Node \ {n} : poll'[m] = poll[m]
  BY <1>3, VerdictsAlike
<1>4. CASE PollBegin(n)
  <2>1. PICK mine : poll' = [poll EXCEPT ![n].pc = "polling", ![n].todo = mine]
    BY <1>4 DEF PollBegin
  <2>2. poll'[n].pc = "polling" /\ \A m \in Node \ {n} : poll'[m] = poll[m]
    BY <1>1, <2>1 DEF TypeOK
  <2> QED
    BY <1>3, <1>4, <2>2 DEF PollBegin
<1>5. CASE PollEnds(n)
  <2>1. UNCHANGED <<rcd, trig>>
    BY <1>5 DEF PollEnds, SaveResult, SaveResultFails, PollNotify, PollMark, Resolve, Clear
  <2>2. CASE PollNext(n)
    BY <1>2, <1>3, <2>1, <2>2
  <2>3. CASE SaveResult(n)
    BY <1>1, <1>3, <2>1, <2>3 DEF SaveResult, TypeOK
  <2>4. CASE poll' = [poll EXCEPT ![n].pc = "mark", ![n].copy.notified = TRUE]
    BY <1>1, <1>3, <2>1, <2>4 DEF TypeOK
  <2>5. ASSUME NEW prev, NEW copy,
               poll' = [poll EXCEPT ![n].pc = "clear", ![n].run = prev, ![n].copy = copy]
        PROVE  poll'[n].pc # "save" /\ \A m \in Node \ {n} : poll'[m] = poll[m]
    BY <1>1, <2>5 DEF TypeOK
  <2>6. Resolve(n) => PollNext(n) \/ \E prev, copy :
                poll' = [poll EXCEPT ![n].pc = "clear", ![n].run = prev, ![n].copy = copy]
    BY DEF Resolve
  <2> QED
    BY <1>3, <1>5, <2>1, <2>2, <2>3, <2>4, <2>5, <2>6
    DEF PollEnds, SaveResultFails, PollNotify, PollMark, Clear
<1>6. ASSUME NEW r \in RunId, PollNothing(n, r)
      PROVE  OneJob' /\ Verdicts'
  <2>1. poll'[n].pc # "save" /\ \A m \in Node \ {n} : poll'[m] = poll[m]
    BY <1>1, <1>6 DEF PollNothing, TypeOK
  <2> QED
    BY <1>3, <1>6, <2>1 DEF PollNothing
<1> QED
  BY <1>4, <1>5, <1>6, QueryVerdicts DEF PollStep

\* Around the service jobs end and are forgotten, and processes die.
LEMMA AroundVerdicts ==
    ASSUME RunInv, LifeInv, Around
    PROVE  OneJob' /\ Verdicts'
<1>1. TypeOK /\ NoTrig.pc = "idle" /\ NoPoll.pc = "idle"
  BY DEF RunInv, NoTrig, NoPoll
<1>2. ASSUME NEW n \in Node, NEW id \in 1 .. MaxRuns, JobEnds(n, id)
      PROVE  OneJob' /\ Verdicts'
  <2>1. /\ rcd[n][id].state = "executing" /\ rcd[n][id] \in Job
        /\ \A m \in Node : DOMAIN rcd'[m] = DOMAIN rcd[m]
        /\ \A m \in Node \ {n} : rcd'[m] = rcd[m]
        /\ \A j \in DOMAIN rcd[n] \ {id} : rcd'[n][j] = rcd[n][j]
    BY <1>1, <1>2, JobEndsAt
  <2>2. PICK end \in {"ok", "error"} : rcd'[n][id] = [rcd[n][id] EXCEPT !.state = end]
    BY <1>1, <1>2, JobEndsAt
  <2>3. rcd'[n][id].run = rcd[n][id].run
    BY <2>1, <2>2 DEF Job
  <2>4. \A m \in Node : \A j \in DOMAIN rcd'[m] :
          /\ j \in DOMAIN rcd[m] /\ rcd'[m][j].run = rcd[m][j].run
          /\ rcd[m][j].state # "executing" => rcd'[m][j].state = rcd[m][j].state
    BY <2>1, <2>3
  <2>5. UNCHANGED <<trig, poll>>
    BY <1>2 DEF JobEnds
  <2> QED
    BY <2>4, <2>5, VerdictsStay
<1>3. ASSUME NEW n \in Node, RcdRestart(n)
      PROVE  OneJob' /\ Verdicts'
  <2>1. rcd'[n] = << >> /\ \A m \in Node \ {n} : rcd'[m] = rcd[m]
    BY <1>1, <1>3 DEF RcdRestart, TypeOK
  <2>2. \A m \in Node : \A j \in DOMAIN rcd'[m] :
          /\ j \in DOMAIN rcd[m] /\ rcd'[m][j].run = rcd[m][j].run
          /\ rcd[m][j].state # "executing" => rcd'[m][j].state = rcd[m][j].state
    BY <2>1
  <2>3. UNCHANGED <<trig, poll>>
    BY <1>3 DEF RcdRestart
  <2> QED
    BY <2>2, <2>3, VerdictsStay
<1>4. ASSUME NEW n \in Node, Crash(n)
      PROVE  OneJob' /\ Verdicts'
  <2>1. \A w \in Trigger : trig'[w] = trig[w] \/ trig'[w] = NoTrig
    BY <1>4 DEF Crash
  <2>2. \A m \in Node : poll'[m] = poll[m] \/ poll'[m] = NoPoll
    BY <1>1, <1>4 DEF Crash, TypeOK
  <2>3. UNCHANGED rcd
    BY <1>4 DEF Crash
  <2> QED
    BY <1>1, <2>1, <2>2, <2>3, VerdictsAlike
<1>5. CASE UNCHANGED <<rcd, trig, poll>>
  BY <1>5, VerdictsAlike
<1> QED
  BY <1>2, <1>3, <1>4, <1>5 DEF Around, Restart, DeleteRuns, DeleteTask

\* One job at most is known at the start.
LEMMA InitVerdicts == Init => OneJob /\ Verdicts
<1> SUFFICES ASSUME Init PROVE OneJob /\ Verdicts
  OBVIOUS
<1>1. PICK home \in Node :
        rcd = [n \in Node |-> IF Legacy /\ n = home
                                THEN <<[run |-> 1, state |-> "executing"]>> ELSE << >>]
  BY DEF Init
<1>2. \A n \in Node : \A id \in DOMAIN rcd[n] : n = home /\ id = 1
  BY <1>1
<1>3. /\ \A w \in Trigger : trig[w].pc = "idle"
      /\ \A n \in Node : poll[n].pc = "idle"
  BY DEF Init, NoTrig, NoPoll
<1> QED
  BY <1>2, <1>3 DEF OneJob, Verdicts

\* Every step keeps the invariant.
LEMMA NextLife == RunInv /\ TypeOK' /\ LifeInv /\ [Next]_vars => LifeInv'
<1> SUFFICES ASSUME RunInv, TypeOK', LifeInv, [Next]_vars PROVE LifeInv'
  OBVIOUS
<1>1. JobInv /\ JobInv'
  BY NextJobs DEF LifeInv
<1>2. CASE UNCHANGED vars
  <2>1. UNCHANGED <<rcd, trig, poll>>
    BY <1>2 DEF vars
  <2> QED
    BY <1>1, <2>1, VerdictsAlike DEF LifeInv
<1>3. ASSUME NEW w \in Trigger, NEW n \in Node, NEW t \in Task, Guard(w, n, t)
      PROVE  OneJob' /\ Verdicts'
  <2>1. TypeOK /\ UNCHANGED <<rcd, poll>>
    BY <1>3 DEF RunInv, Guard
  <2>2. (\E copy : TrigGoes(w, "passed", copy)) \/ UNCHANGED trig
    BY <1>3 DEF Guard
  <2>3. \A v \in Trigger : trig'[v].pc = "submitted" => trig'[v] = trig[v]
    BY <2>1, <2>2, TrigGoesAt
  <2> QED
    BY <2>1, <2>3, VerdictsAlike
<1>4. CASE Next
  BY <1>1, <1>3, <1>4, TrigVerdicts, PollVerdicts, AroundVerdicts DEF Next, LifeInv
<1> QED
  BY <1>2, <1>4

\* LifeInv holds in every reachable state.
THEOREM LifeSafe == Spec => []LifeInv
<1>1. Init => LifeInv
  BY InitJobs, InitVerdicts DEF LifeInv
<1>2. RunInv /\ RunInv' /\ LifeInv /\ [Next]_vars => LifeInv'
  <2>1. RunInv' => TypeOK'
    BY DEF RunInv
  <2> QED
    BY <2>1, NextLife
<1> QED
  BY <1>1, <1>2, RunSafe, PTL DEF Spec

-----------------------------------------------------------------------------
(* The engine implements RunLife: every handler is one of its actions, or    *)
(* changes nothing that it sees.  HeldStep says what a goroutine that moves   *)
(* does to the sets of runs being decided, started and refused; HeldSame,     *)
(* StatusSame and AllJobsSame say when nothing changes.                       *)

\* A step of RunLife, or none.
Lives == [Life!LifeNext]_(Life!lifeVars)

\* Where a goroutine holds a run of which the row is still pending, or deleted.
Deciders == {"created", "submitted", "failing"}

\* A row is saved: its status is.
LEMMA StatusSaved ==
    ASSUME TypeOK, NEW r \in RunId, NEW rec, Save(r, rec)
    PROVE  Statuses' = [Statuses EXCEPT ![r] = rec.status]
BY DEF TypeOK, Save, Statuses

\* No row's status changes.
LEMMA StatusSame ==
    ASSUME \A r \in RunId : row'[r].status = row[r].status
    PROVE  Statuses' = Statuses
BY DEF Statuses

\* What RunLife sees of a row.
LEMMA StatusIs == \A r \in RunId : Statuses[r] = row[r].status
BY DEF Statuses

\* A goroutine that holds a run and lets go of it, or goes on with it.
LEMMA HeldAt ==
    ASSUME RunInv, NEW w \in Trigger, trig[w].pc \in Deciders,
           \A v \in Trigger \ {w} : trig'[v] = trig[v],
           trig'[w].pc \in Deciders => trig'[w].run = trig[w].run,
           NEW pc \in Deciders
    PROVE  /\ RunsAt(pc)' = (RunsAt(pc) \ {trig[w].run})
                              \cup (IF trig'[w].pc = pc THEN {trig[w].run} ELSE {})
           /\ trig[w].run \in RunsAt(pc) <=> trig[w].pc = pc
<1>1. \A v \in Trigger \ {w} : trig[v].pc \in Deciders => trig[v].run # trig[w].run
  BY DEF RunInv, TypeOK, OneWriter, Holds, Deciders
<1>2. \A r : r \in RunsAt(pc) <=> \E v \in Trigger : trig[v].pc = pc /\ trig[v].run = r
  BY DEF RunsAt
<1>3. \A r : r \in RunsAt(pc)' <=> \E v \in Trigger : trig'[v].pc = pc /\ trig'[v].run = r
  BY DEF RunsAt
<1>4. trig[w].run \in RunsAt(pc) <=> trig[w].pc = pc
  BY <1>1, <1>2
<1>5. ASSUME NEW r
      PROVE  r \in RunsAt(pc)' <=> r \in (RunsAt(pc) \ {trig[w].run})
                              \cup (IF trig'[w].pc = pc THEN {trig[w].run} ELSE {})
  <2>1. r \in RunsAt(pc)' <=>
          (\E v \in Trigger \ {w} : trig[v].pc = pc /\ trig[v].run = r)
            \/ (trig'[w].pc = pc /\ trig[w].run = r)
    BY <1>3
  <2>2. (\E v \in Trigger \ {w} : trig[v].pc = pc /\ trig[v].run = r)
          <=> r \in RunsAt(pc) \ {trig[w].run}
    BY <1>1, <1>2
  <2> QED
    BY <2>1, <2>2
<1> QED
  BY <1>4, <1>5

\* The same, of the three sets of runs.
HeldMoves(w) ==
    /\ Deciding' = (Deciding \ {trig[w].run})
                     \cup (IF trig'[w].pc = "created" THEN {trig[w].run} ELSE {})
    /\ Accepted' = (Accepted \ {trig[w].run})
                     \cup (IF trig'[w].pc = "submitted" THEN {trig[w].run} ELSE {})
    /\ Refused' = (Refused \ {trig[w].run})
                    \cup (IF trig'[w].pc = "failing" THEN {trig[w].run} ELSE {})
    /\ trig[w].run \in Deciding <=> trig[w].pc = "created"
    /\ trig[w].run \in Accepted <=> trig[w].pc = "submitted"
    /\ trig[w].run \in Refused <=> trig[w].pc = "failing"

LEMMA HeldStep ==
    ASSUME RunInv, NEW w \in Trigger, trig[w].pc \in Deciders,
           \A v \in Trigger \ {w} : trig'[v] = trig[v],
           trig'[w].pc \in Deciders => trig'[w].run = trig[w].run
    PROVE  HeldMoves(w)
<1>1. \A pc \in Deciders :
        /\ RunsAt(pc)' = (RunsAt(pc) \ {trig[w].run})
                           \cup (IF trig'[w].pc = pc THEN {trig[w].run} ELSE {})
        /\ trig[w].run \in RunsAt(pc) <=> trig[w].pc = pc
  BY HeldAt
<1>2. "created" \in Deciders /\ "submitted" \in Deciders /\ "failing" \in Deciders
  BY DEF Deciders
<1> QED
  BY <1>1, <1>2 DEF HeldMoves, Deciding, Accepted, Refused

\* Goroutines that hold no such run do not change the sets.
LEMMA HeldSame ==
    ASSUME \A v \in Trigger : \/ trig'[v] = trig[v]
                              \/ trig[v].pc \notin Deciders /\ trig'[v].pc \notin Deciders
    PROVE  UNCHANGED <<Deciding, Accepted, Refused>>
<1>1. ASSUME NEW pc \in Deciders
      PROVE  RunsAt(pc)' = RunsAt(pc)
  <2>1. \A r : r \in RunsAt(pc) <=> \E v \in Trigger : trig[v].pc = pc /\ trig[v].run = r
    BY DEF RunsAt
  <2>2. \A r : r \in RunsAt(pc)' <=> \E v \in Trigger : trig'[v].pc = pc /\ trig'[v].run = r
    BY DEF RunsAt
  <2>3. \A r : r \in RunsAt(pc)' <=> r \in RunsAt(pc)
    BY <1>1, <2>1, <2>2
  <2> QED
    BY <2>3
<1>2. "created" \in Deciders /\ "submitted" \in Deciders /\ "failing" \in Deciders
  BY DEF Deciders
<1> QED
  BY <1>1, <1>2 DEF Deciding, Accepted, Refused

\* A run that another kind of writer holds is in none of the sets.
LEMMA NotHeld ==
    ASSUME NEW r, \A w \in Trigger : trig[w].pc \in Deciders => trig[w].run # r
    PROVE  r \notin Life!Held
<1>1. "created" \in Deciders /\ "submitted" \in Deciders /\ "failing" \in Deciders
  BY DEF Deciders
<1> QED
  BY <1>1 DEF Life!Held, Deciding, Accepted, Refused, RunsAt

\* The rcds' jobs.
LEMMA AllJobsIs ==
    /\ \A j : j \in AllJobs <=> \E n \in Node : \E id \in DOMAIN rcd[n] : rcd[n][id] = j
    /\ \A j : j \in AllJobs' <=> \E n \in Node : \E id \in DOMAIN rcd'[n] : rcd'[n][id] = j
BY DEF AllJobs

\* They are the same when the rcds are.
LEMMA AllJobsSame == UNCHANGED rcd => AllJobs' = AllJobs
BY DEF AllJobs

\* Nothing that RunLife sees.
LEMMA Stutters ==
    ASSUME UNCHANGED <<lastId, rcd, fired>>,
           \A r \in RunId : row'[r].status = row[r].status,
           \A v \in Trigger : \/ trig'[v] = trig[v]
                              \/ trig[v].pc \notin Deciders /\ trig'[v].pc \notin Deciders
    PROVE  Lives
BY StatusSame, HeldSame, AllJobsSame DEF Lives, Life!lifeVars

\* What is known of the run that goroutine w decides on.
LEMMA DeciderFacts ==
    ASSUME RunInv, LifeInv, NEW w \in Trigger, trig[w].pc \in Deciders
    PROVE  /\ TypeOK /\ trig[w].run \in RunId /\ Copy(w) \in Row
           /\ Statuses[trig[w].run] \in {"pending", "none"}
           /\ trig[w].pc = "submitted" => Copy(w).status = "running"
<1>1. TypeOK /\ trig[w].run \in RunId /\ Copy(w) \in Row
  BY DEF RunInv, TypeOK, Copy
<1>2. row[trig[w].run].status \in {"pending", "none"}
  BY DEF RunInv, WriterState, TrigState, Writing, Deciders
<1> QED
  BY <1>1, <1>2, StatusIs DEF LifeInv, Verdicts

\* Create: the run is recorded, to be decided on.
LEMMA CreateLives ==
    ASSUME RunInv, NEW w \in Trigger, Create(w)
    PROVE  Lives
<1> DEFINE pending == [Copy(w) EXCEPT !.status = "pending"]
<1>1. /\ TypeOK /\ lastId \in Nat /\ lastId + 1 \in RunId /\ Copy(w) \in Row
      /\ trig[w].pc = "passed"
  BY RunAssumption DEF RunInv, TypeOK, Create, Copy, RunId, RunAssumption
<1>2. /\ lastId' = lastId + 1 /\ Save(lastId', pending)
      /\ trig'[w].pc = "created" /\ trig'[w].run = lastId'
      /\ \A v \in Trigger \ {w} : trig'[v] = trig[v]
      /\ UNCHANGED rcd /\ UNCHANGED fired
  BY <1>1 DEF Create, Insert, TypeOK, history
<1>3. pending.status = "pending"
  BY <1>1 DEF Row
<1> HIDE DEF pending
<1>s. Statuses' = [Statuses EXCEPT ![lastId'] = pending.status]
  BY <1>1, <1>2, StatusSaved
<1>4. Statuses' = [Statuses EXCEPT ![lastId'] = "pending"]
  BY <1>3, <1>s
<1>5. /\ \A r : r \in Deciding' <=> r \in Deciding \cup {lastId'}
      /\ \A r : r \in Accepted' <=> r \in Accepted
      /\ \A r : r \in Refused' <=> r \in Refused
  <2>1. \A pc, r : r \in RunsAt(pc) <=> \E v \in Trigger : trig[v].pc = pc /\ trig[v].run = r
    BY DEF RunsAt
  <2>2. \A pc, r : r \in RunsAt(pc)' <=> \E v \in Trigger : trig'[v].pc = pc /\ trig'[v].run = r
    BY DEF RunsAt
  <2>3. ASSUME NEW pc, NEW r
        PROVE  r \in RunsAt(pc)' <=>
                 (\E v \in Trigger \ {w} : trig[v].pc = pc /\ trig[v].run = r)
                   \/ (pc = "created" /\ r = lastId')
    BY <1>2, <2>2
  <2>4. ASSUME NEW pc, NEW r, pc # "passed"
        PROVE  r \in RunsAt(pc) <=>
                 \E v \in Trigger \ {w} : trig[v].pc = pc /\ trig[v].run = r
    BY <1>1, <2>1, <2>4
  <2>5. \A pc, r : pc # "passed" =>
          (r \in RunsAt(pc)' <=> r \in RunsAt(pc) \/ (pc = "created" /\ r = lastId'))
    BY <2>3, <2>4
  <2>6. /\ \A r : r \in RunsAt("created")' <=> r \in RunsAt("created") \/ r = lastId'
        /\ \A r : r \in RunsAt("submitted")' <=> r \in RunsAt("submitted")
        /\ \A r : r \in RunsAt("failing")' <=> r \in RunsAt("failing")
    BY <2>5
  <2> QED
    BY <2>6 DEF Deciding, Accepted, Refused
<1>6. Deciding' = Deciding \cup {lastId'} /\ Accepted' = Accepted /\ Refused' = Refused
  BY <1>5
<1>7. AllJobs' = AllJobs
  BY <1>2, AllJobsSame
<1>8. Life!Record
  BY <1>1, <1>2, <1>4, <1>6, <1>7 DEF Life!Record
<1> QED
  BY <1>8 DEF Lives, Life!LifeNext

\* Guard: the run is recorded as skipped, or the goroutine goes on.
LEMMA GuardLives ==
    ASSUME RunInv, NEW w \in Trigger, NEW n \in Node, NEW t \in Task, Guard(w, n, t)
    PROVE  Lives
<1> DEFINE new == [NoRow EXCEPT !.task = t, !.node = n]
           skipped == [new EXCEPT !.status = "skipped"]
<1>1. /\ TypeOK /\ trig[w].pc = "idle"
      /\ UNCHANGED rcd /\ UNCHANGED fired
  BY DEF RunInv, Guard, history
<1>2. CASE TrigGoes(w, "passed", new) /\ UNCHANGED <<row, lastId>>
  <2>1. /\ trig'[w].pc = "passed"
        /\ \A v \in Trigger \ {w} : trig'[v] = trig[v]
    BY <1>1, <1>2, TrigGoesAt
  <2>2. \A v \in Trigger : \/ trig'[v] = trig[v]
                           \/ trig[v].pc \notin Deciders /\ trig'[v].pc \notin Deciders
    BY <1>1, <2>1 DEF Deciders
  <2> QED
    BY <1>1, <1>2, <2>2, Stutters
<1>3. CASE lastId < MaxRuns /\ Insert(skipped) /\ UNCHANGED trig
  <2>1. lastId \in Nat /\ lastId + 1 \in RunId /\ lastId' = lastId + 1 /\ Save(lastId', skipped)
    BY <1>1, <1>3, RunAssumption DEF TypeOK, RunId, RunAssumption, Insert
  <2>2. skipped.status = "skipped"
    BY DEF NoRow
  <2>3. Statuses' = [Statuses EXCEPT ![lastId'] = "skipped"]
    BY <1>1, <2>1, <2>2, StatusSaved
  <2>4. UNCHANGED <<Deciding, Accepted, Refused>>
    BY <1>3, HeldSame
  <2>5. Life!Record
    BY <1>1, <2>1, <2>3, <2>4, AllJobsSame DEF Life!Record
  <2> QED
    BY <2>5 DEF Lives, Life!LifeNext
<1> QED
  BY <1>2, <1>3 DEF Guard

\* PreCheckSkips: the run is decided against.
LEMMA SkipLives ==
    ASSUME RunInv, LifeInv, NEW w \in Trigger, PreCheckSkips(w)
    PROVE  Lives
<1> DEFINE r == trig[w].run
           skipped == [Copy(w) EXCEPT !.status = "skipped"]
<1>1. trig[w].pc \in Deciders /\ trig[w].pc = "created"
  BY DEF PreCheckSkips, Deciders
<1>2. TypeOK /\ r \in RunId /\ Copy(w) \in Row /\ Statuses[r] \in {"pending", "none"}
  BY <1>1, DeciderFacts
<1>3. /\ trig'[w].pc = "idle" /\ \A v \in Trigger \ {w} : trig'[v] = trig[v]
      /\ Save(r, skipped) /\ UNCHANGED <<lastId, rcd>> /\ UNCHANGED fired
  BY <1>2, TrigGoesAt DEF PreCheckSkips, history
<1>4. skipped.status = "skipped" /\ "idle" \notin Deciders
  BY <1>2 DEF Row, Deciders
<1> HIDE DEF skipped
<1>s. Statuses' = [Statuses EXCEPT ![r] = skipped.status]
  BY <1>2, <1>3, StatusSaved
<1>5. Statuses' = [Statuses EXCEPT ![r] = "skipped"]
  BY <1>4, <1>s
<1>h. HeldMoves(w)
  BY <1>1, <1>3, <1>4, HeldStep
<1>6. /\ Deciding' = Deciding \ {r} /\ Accepted' = Accepted /\ Refused' = Refused
      /\ r \in Deciding
  BY <1>h, <1>1, <1>3, <1>4 DEF HeldMoves
<1>7. Life!Skip(r)
  BY <1>2, <1>3, <1>5, <1>6, AllJobsSame DEF Life!Skip, Life!Becomes
<1> QED
  BY <1>2, <1>7 DEF Lives, Life!LifeNext

\* StartFails: the start is refused.
LEMMA RefuseLives ==
    ASSUME RunInv, LifeInv, NEW w \in Trigger, StartFails(w)
    PROVE  Lives
<1> DEFINE r == trig[w].run
<1>1. trig[w].pc \in Deciders /\ trig[w].pc = "created"
  BY DEF StartFails, Deciders
<1>2. TypeOK /\ r \in RunId
  BY <1>1, DeciderFacts
<1>3. /\ trig'[w].pc = "failing" /\ trig'[w].run = r
      /\ \A v \in Trigger \ {w} : trig'[v] = trig[v]
      /\ UNCHANGED <<row, lastId, rcd>> /\ UNCHANGED fired
  BY <1>2, TrigGoesAt DEF StartFails, history
<1>h. HeldMoves(w)
  BY <1>1, <1>3, HeldStep
<1>4. /\ Deciding' = Deciding \ {r} /\ Accepted' = Accepted /\ Refused' = Refused \cup {r}
      /\ r \in Deciding
  BY <1>h, <1>1, <1>3 DEF HeldMoves
<1>5. Life!Refuse(r)
  BY <1>3, <1>4, AllJobsSame, StatusSame DEF Life!Refuse
<1> QED
  BY <1>2, <1>5 DEF Lives, Life!LifeNext

\* Submit: the job is started, its answer comes or is lost.
LEMMA StartLives ==
    ASSUME RunInv, LifeInv, NEW w \in Trigger, Submit(w)
    PROVE  Lives
<1> DEFINE r == trig[w].run
           job == [run |-> r, state |-> "executing"]
<1>0. JobInv
  BY DEF LifeInv
<1>1. trig[w].pc \in Deciders /\ trig[w].pc = "created"
  BY DEF Submit, Deciders
<1>2. TypeOK /\ r \in RunId
  BY <1>1, DeciderFacts
<1>3. /\ trig'[w].pc \in {"submitted", "failing"} /\ trig'[w].run = r
      /\ \A v \in Trigger \ {w} : trig'[v] = trig[v]
  BY <1>0, SubmitAt
<1>h. HeldMoves(w)
  BY <1>1, <1>3, HeldStep
<1>4. /\ Deciding' = Deciding \ {r} /\ r \in Deciding
      /\ \/ Accepted' = Accepted \cup {r} /\ Refused' = Refused
         \/ Accepted' = Accepted /\ Refused' = Refused \cup {r}
  BY <1>h, <1>1, <1>3 DEF HeldMoves
<1>5. PICK n \in Node, new \in Nat : Gets(n, new, job)
  BY <1>0, SubmitGets
<1> USE DEF Gets
<1> HIDE DEF job
<1>6. \A j : j \in AllJobs' <=> j \in AllJobs \cup {job}
  <2>1. ASSUME NEW j, j \in AllJobs'
        PROVE  j \in AllJobs \cup {job}
    <3>1. PICK m \in Node : \E id \in DOMAIN rcd'[m] : rcd'[m][id] = j
      BY <2>1, AllJobsIs
    <3>2. PICK id \in DOMAIN rcd'[m] : rcd'[m][id] = j
      BY <3>1
    <3>3. CASE m = n /\ id = new
      BY <1>5, <3>2, <3>3
    <3>4. CASE ~(m = n /\ id = new)
      <4>1. id \in DOMAIN rcd[m] /\ rcd[m][id] = j
        BY <1>5, <3>2, <3>4
      <4> QED
        BY <4>1, AllJobsIs
    <3> QED
      BY <3>3, <3>4
  <2>2. job \in AllJobs'
    BY <1>5, AllJobsIs
  <2>3. ASSUME NEW j, j \in AllJobs
        PROVE  j \in AllJobs'
    <3>1. PICK m \in Node : \E id \in DOMAIN rcd[m] : rcd[m][id] = j
      BY <2>3, AllJobsIs
    <3>2. PICK id \in DOMAIN rcd[m] : rcd[m][id] = j
      BY <3>1
    <3>3. id \in DOMAIN rcd'[m] /\ rcd'[m][id] = j
      BY <1>5, <3>2
    <3> QED
      BY <3>3, AllJobsIs
  <2> QED
    BY <2>1, <2>2, <2>3
<1>7. \A j \in AllJobs : j.run # r
  <2>1. \A m \in Node : \A id \in DOMAIN rcd[m] : rcd[m][id].run # r
    BY <1>0, <1>1 DEF JobInv, JobsOfRuns
  <2> QED
    BY <2>1, AllJobsIs
<1>8. AllJobs' = AllJobs \cup {job} /\ UNCHANGED <<row, lastId>> /\ UNCHANGED fired
  BY <1>6 DEF Submit, history
<1>9. Life!Start(r)
  BY <1>4, <1>7, <1>8, StatusSame DEF Life!Start, job
<1> QED
  BY <1>2, <1>9 DEF Lives, Life!LifeNext

\* SaveRunning: the start is confirmed, or that fails.
LEMMA ConfirmLives ==
    ASSUME RunInv, LifeInv, NEW w \in Trigger, SaveRunning(w)
    PROVE  Lives
<1> DEFINE r == trig[w].run
<1>1. trig[w].pc \in Deciders /\ trig[w].pc = "submitted"
  BY DEF SaveRunning, Deciders
<1>2. /\ TypeOK /\ r \in RunId /\ Statuses[r] \in {"pending", "none"}
      /\ Copy(w).status = "running"
  BY <1>1, DeciderFacts
<1>3. /\ trig'[w].pc = "idle" /\ \A v \in Trigger \ {w} : trig'[v] = trig[v]
      /\ Save(r, Copy(w)) \/ UNCHANGED row
      /\ UNCHANGED <<lastId, rcd>> /\ UNCHANGED fired
  BY <1>2, TrigGoesAt DEF SaveRunning, TrySave, history
<1>4. Statuses' = [Statuses EXCEPT ![r] = "running"] \/ Statuses' = Statuses
  BY <1>2, <1>3, StatusSaved, StatusSame
<1>5. "idle" \notin Deciders
  BY DEF Deciders
<1>h. HeldMoves(w)
  BY <1>1, <1>3, <1>5, HeldStep
<1>6. /\ Accepted' = Accepted \ {r} /\ Deciding' = Deciding /\ Refused' = Refused
      /\ r \in Accepted
  BY <1>h, <1>1, <1>3, <1>5 DEF HeldMoves
<1>7. Life!Confirm(r)
  BY <1>2, <1>3, <1>4, <1>6, AllJobsSame DEF Life!Confirm, Life!Becomes
<1> QED
  BY <1>2, <1>7 DEF Lives, Life!LifeNext

\* SaveFailed: the failure is saved, or that fails too.
LEMMA FailLives ==
    ASSUME RunInv, LifeInv, NEW w \in Trigger, SaveFailed(w)
    PROVE  Lives
<1> DEFINE r == trig[w].run
           failed == [Copy(w) EXCEPT !.status = "failed"]
<1>1. trig[w].pc \in Deciders /\ trig[w].pc = "failing"
  BY DEF SaveFailed, Deciders
<1>2. TypeOK /\ r \in RunId /\ Copy(w) \in Row /\ Statuses[r] \in {"pending", "none"}
  BY <1>1, DeciderFacts
<1>3. /\ TrigGoes(w, "notify", failed) \/ TrigGoes(w, "idle", NoRow)
      /\ Save(r, failed) \/ UNCHANGED row
      /\ UNCHANGED <<lastId, rcd>> /\ UNCHANGED fired
  BY DEF SaveFailed, history
<1>4. /\ trig'[w].pc \in {"notify", "idle"}
      /\ \A v \in Trigger \ {w} : trig'[v] = trig[v]
  BY <1>2, <1>3, TrigGoesAt
<1>5. failed.status = "failed"
  BY <1>2 DEF Row
<1> HIDE DEF failed
<1>s. Statuses' = [Statuses EXCEPT ![r] = failed.status] \/ Statuses' = Statuses
  BY <1>2, <1>3, StatusSaved, StatusSame
<1>6. Statuses' = [Statuses EXCEPT ![r] = "failed"] \/ Statuses' = Statuses
  BY <1>5, <1>s
<1>7. trig'[w].pc \notin Deciders
  BY <1>4 DEF Deciders
<1>h. HeldMoves(w)
  BY <1>1, <1>4, <1>7, HeldStep
<1>8. /\ Refused' = Refused \ {r} /\ Deciding' = Deciding /\ Accepted' = Accepted
      /\ r \in Refused
  BY <1>h, <1>1, <1>4, <1>7 DEF HeldMoves
<1>9. Life!Fail(r)
  BY <1>2, <1>3, <1>6, <1>8, AllJobsSame DEF Life!Fail, Life!Becomes
<1> QED
  BY <1>2, <1>9 DEF Lives, Life!LifeNext

\* A run that has failed, or was deleted since, and is held by no goroutine that
\* decides on it: its alert is delivered.
LEMMA AlertLives ==
    ASSUME TypeOK, NEW r \in RunId, r <= lastId, r \notin Life!Held,
           row[r].status \in {"failed", "none"}, fired[r] = 0, Fire(r),
           UNCHANGED <<lastId, row, rcd>>,
           \A v \in Trigger : \/ trig'[v] = trig[v]
                              \/ trig[v].pc \notin Deciders /\ trig'[v].pc \notin Deciders
    PROVE  Lives
<1>1. fired' = [fired EXCEPT ![r] = 1]
  BY DEF Fire, TypeOK
<1>2. Statuses' = Statuses /\ Statuses[r] \in {"failed", "none"} /\ AllJobs' = AllJobs
  BY StatusSame, StatusIs, AllJobsSame
<1>3. UNCHANGED <<Deciding, Accepted, Refused>>
  BY HeldSame
<1>4. Life!Alert(r)
  BY <1>1, <1>2, <1>3 DEF Life!Alert
<1> QED
  BY <1>4 DEF Lives, Life!LifeNext

\* The same run, once its alert was delivered: the row is saved as failed.
LEMMA RememberLives ==
    ASSUME TypeOK, NEW r \in RunId, r \notin Life!Held,
           row[r].status \in {"failed", "none"}, fired[r] = 1,
           NEW rec, rec.status = "failed", Save(r, rec) \/ UNCHANGED row,
           UNCHANGED <<lastId, rcd, fired>>,
           \A v \in Trigger : \/ trig'[v] = trig[v]
                              \/ trig[v].pc \notin Deciders /\ trig'[v].pc \notin Deciders
    PROVE  Lives
<1>1. CASE UNCHANGED row
  BY <1>1, Stutters
<1>2. CASE Save(r, rec)
  <2>1. Statuses' = [Statuses EXCEPT ![r] = rec.status]
    BY <1>2, StatusSaved
  <2>2. Statuses' = [Statuses EXCEPT ![r] = "failed"]
    BY <2>1
  <2>3. Statuses[r] \in {"failed", "none"} /\ AllJobs' = AllJobs
    BY StatusIs, AllJobsSame
  <2>4. UNCHANGED <<Deciding, Accepted, Refused>>
    BY HeldSame
  <2>5. Life!Remember(r)
    BY <2>2, <2>3, <2>4 DEF Life!Remember, Life!Becomes
  <2> QED
    BY <2>5 DEF Lives, Life!LifeNext
<1> QED
  BY <1>1, <1>2

\* A goroutine that has a failure to notify.
LEMMA NotifierFacts ==
    ASSUME RunInv, NEW w \in Trigger, trig[w].pc \in {"notify", "mark"}
    PROVE  /\ TypeOK /\ trig[w].run \in RunId /\ Copy(w) \in Row
           /\ trig[w].run <= lastId /\ trig[w].run \notin Life!Held
           /\ row[trig[w].run].status \in {"failed", "none"} /\ Copy(w).status = "failed"
           /\ trig[w].pc = "notify" => fired[trig[w].run] = 0
           /\ trig[w].pc = "mark" => fired[trig[w].run] = 1
<1>1. TypeOK /\ trig[w].run \in RunId /\ Copy(w) \in Row /\ Holds(w, trig[w].run)
  BY DEF RunInv, TypeOK, Copy, Holds
<1>2. \A v \in Trigger : trig[v].pc \in Deciders => v # w /\ Holds(v, trig[v].run)
  BY DEF Deciders, Holds
<1>3. \A v \in Trigger : trig[v].pc \in Deciders => trig[v].run # trig[w].run
  BY <1>1, <1>2 DEF RunInv, OneWriter
<1>4. trig[w].run \notin Life!Held
  BY <1>3, NotHeld
<1>5. trig[w].run <= lastId
  BY <1>1 DEF RunInv, FreshIds
<1>6. TrigState(w)
  BY DEF RunInv, WriterState
<1>7. /\ row[trig[w].run].status \in {"failed", "none"} /\ Copy(w).status = "failed"
      /\ trig[w].pc = "notify" => fired[trig[w].run] = 0
      /\ trig[w].pc = "mark" => fired[trig[w].run] = 1
  BY <1>6 DEF TrigState, Writing
<1> QED
  BY <1>1, <1>4, <1>5, <1>7

\* The steps of a goroutine inside RunTask.
LEMMA TrigLives ==
    ASSUME RunInv, LifeInv, NEW w \in Trigger, TrigStep(w)
    PROVE  Lives
<1>1. TypeOK
  BY DEF RunInv
<1>2. CASE CreateFails(w)
  <2>1. /\ trig[w].pc = "passed" /\ trig'[w].pc = "idle"
        /\ \A v \in Trigger \ {w} : trig'[v] = trig[v]
        /\ UNCHANGED <<lastId, row, rcd>> /\ UNCHANGED fired
    BY <1>1, <1>2, TrigGoesAt DEF CreateFails, history
  <2>2. \A v \in Trigger : \/ trig'[v] = trig[v]
                           \/ trig[v].pc \notin Deciders /\ trig'[v].pc \notin Deciders
    BY <2>1 DEF Deciders
  <2> QED
    BY <2>1, <2>2, Stutters
<1>3. CASE TrigNotify(w)
  <2>1. trig[w].pc = "notify" /\ UNCHANGED <<lastId, row, rcd>>
    BY <1>3 DEF TrigNotify
  <2>2. /\ trig'[w].pc \in {"mark", "idle"} /\ \A v \in Trigger \ {w} : trig'[v] = trig[v]
        /\ Fire(trig[w].run) \/ UNCHANGED fired
    BY <1>1, <1>3, TrigGoesAt DEF TrigNotify
  <2>3. \A v \in Trigger : \/ trig'[v] = trig[v]
                           \/ trig[v].pc \notin Deciders /\ trig'[v].pc \notin Deciders
    BY <2>1, <2>2 DEF Deciders
  <2>4. CASE Fire(trig[w].run)
    BY <2>1, <2>3, <2>4, NotifierFacts, AlertLives
  <2>5. CASE UNCHANGED fired
    BY <2>1, <2>3, <2>5, Stutters
  <2> QED
    BY <2>2, <2>4, <2>5
<1>4. CASE TrigMark(w)
  <2>1. /\ trig[w].pc = "mark" /\ UNCHANGED <<lastId, rcd>> /\ UNCHANGED fired
        /\ Save(trig[w].run, Copy(w)) \/ UNCHANGED row
    BY <1>4 DEF TrigMark, TrySave, history
  <2>2. /\ trig'[w].pc = "idle" /\ \A v \in Trigger \ {w} : trig'[v] = trig[v]
    BY <1>1, <1>4, TrigGoesAt DEF TrigMark
  <2>3. \A v \in Trigger : \/ trig'[v] = trig[v]
                           \/ trig[v].pc \notin Deciders /\ trig'[v].pc \notin Deciders
    BY <2>1, <2>2 DEF Deciders
  <2> QED
    BY <2>1, <2>3, NotifierFacts, RememberLives
<1> QED
  BY <1>2, <1>3, <1>4, CreateLives, SkipLives, StartLives, RefuseLives, ConfirmLives, FailLives
  DEF TrigStep

\* A poll job that has a result to save, or an alert to see to.
LEMMA PollerFacts ==
    ASSUME RunInv, NEW n \in Node, poll[n].pc \in {"save", "notify", "mark", "clear"}
    PROVE  /\ TypeOK /\ poll[n].run \in RunId /\ poll[n].copy \in Row
           /\ poll[n].run <= lastId /\ poll[n].run \notin Life!Held
           /\ poll[n].pc = "save" =>
                /\ row[poll[n].run].status \in {"running", "none"}
                /\ poll[n].copy.status \in {"success", "failed"}
           /\ poll[n].pc # "save" =>
                row[poll[n].run].status \in {"failed", "none"} /\ poll[n].copy.status = "failed"
           /\ poll[n].pc = "notify" => fired[poll[n].run] = 0
           /\ poll[n].pc \in {"mark", "clear"} => fired[poll[n].run] = 1
<1>1. TypeOK /\ poll[n].run \in RunId /\ poll[n].copy \in Row
  BY DEF RunInv, TypeOK
<1>2. Polls(n, poll[n].run) \/ Clears(n, poll[n].run)
  BY DEF Polls, Clears
<1>3. \A v \in Trigger : trig[v].pc \in Deciders => trig[v].run # poll[n].run
  <2>1. \A v \in Trigger : trig[v].pc \in Deciders => Holds(v, trig[v].run)
    BY DEF Deciders, Holds
  <2> QED
    BY <1>1, <1>2, <2>1 DEF RunInv, OneWriter
<1>4. poll[n].run \notin Life!Held
  BY <1>3, NotHeld
<1>5. poll[n].run <= lastId
  BY <1>1, <1>2 DEF RunInv, FreshIds
<1>6. PollState(n)
  BY DEF RunInv, WriterState
<1>7. /\ poll[n].pc = "save" =>
           /\ row[poll[n].run].status \in {"running", "none"}
           /\ poll[n].copy.status \in {"success", "failed"}
      /\ poll[n].pc # "save" =>
           row[poll[n].run].status \in {"failed", "none"} /\ poll[n].copy.status = "failed"
      /\ poll[n].pc = "notify" => fired[poll[n].run] = 0
      /\ poll[n].pc \in {"mark", "clear"} => fired[poll[n].run] = 1
  BY <1>6 DEF PollState, Writing
<1> QED
  BY <1>1, <1>4, <1>5, <1>7

\* SaveResult: the run ends as its job did.
LEMMA FinishLives ==
    ASSUME RunInv, LifeInv, NEW n \in Node, SaveResult(n)
    PROVE  Lives
<1> DEFINE r == poll[n].run
           end == poll[n].copy.status
<1>1. /\ poll[n].pc = "save" /\ Save(r, poll[n].copy)
      /\ UNCHANGED <<lastId, rcd, trig>> /\ UNCHANGED fired
  BY DEF SaveResult, history
<1>2. /\ TypeOK /\ r \in RunId /\ r <= lastId /\ r \notin Life!Held
      /\ row[r].status \in {"running", "none"} /\ end \in {"success", "failed"}
  BY <1>1, PollerFacts
<1>3. Statuses' = [Statuses EXCEPT ![r] = end] /\ Statuses[r] \in {"running", "none"}
  BY <1>1, <1>2, StatusSaved, StatusIs
<1>4. r \notin Inherited => \A j \in AllJobs :
        j.run = r => j.state = IF end = "success" THEN "ok" ELSE "error"
  <2>1. r \notin Inherited => \A m \in Node : \A id \in DOMAIN rcd[m] :
          rcd[m][id].run = r => rcd[m][id].state = IF end = "success" THEN "ok" ELSE "error"
    BY <1>1 DEF LifeInv, Verdicts
  <2> QED
    BY <2>1, AllJobsIs
<1>5. UNCHANGED <<Deciding, Accepted, Refused>> /\ AllJobs' = AllJobs
  BY <1>1, HeldSame, AllJobsSame
<1> HIDE DEF r, end
<1>6. Life!Finish(r, end)
  BY <1>1, <1>2, <1>3, <1>4, <1>5 DEF Life!Finish, Life!Verdict, Life!Becomes
<1>7. \E s \in RunId : \E e \in {"success", "failed"} : Life!Finish(s, e)
  BY <1>2, <1>6
<1> QED
  BY <1>7 DEF Lives, Life!LifeNext

\* The steps of a poll job.
LEMMA PollLives ==
    ASSUME RunInv, LifeInv, NEW n \in Node, PollStep(n)
    PROVE  Lives
<1>1. CASE UNCHANGED <<lastId, row, rcd, trig>> /\ UNCHANGED fired
  BY <1>1, Stutters
<1>2. CASE PollBegin(n)
  <2>1. UNCHANGED <<lastId, rcd, trig>> /\ UNCHANGED fired
    BY <1>2 DEF PollBegin, history
  <2>2. \A r \in RunId : Claimed(n)[r].status = row[r].status
    BY DEF RunInv, TypeOK, Claimed, Row
  <2>3. \A r \in RunId : row'[r].status = row[r].status
    BY <1>2, <2>2 DEF PollBegin
  <2> QED
    BY <2>1, <2>3, Stutters
<1>3. CASE PollNotify(n)
  <2>1. poll[n].pc = "notify" /\ UNCHANGED <<lastId, row, rcd, trig>>
    BY <1>3 DEF PollNotify
  <2>2. CASE Fire(poll[n].run)
    BY <2>1, <2>2, PollerFacts, AlertLives
  <2> QED
    BY <1>1, <1>3, <2>1, <2>2 DEF PollNotify
<1>4. CASE PollMark(n) \/ Clear(n)
  <2>1. /\ poll[n].pc \in {"mark", "clear"} /\ UNCHANGED <<lastId, rcd, trig>>
        /\ UNCHANGED fired
        /\ Save(poll[n].run, poll[n].copy) \/ UNCHANGED row
    BY <1>4 DEF PollMark, Clear, TrySave, history
  <2>2. /\ TypeOK /\ poll[n].run \in RunId /\ poll[n].run \notin Life!Held
        /\ row[poll[n].run].status \in {"failed", "none"} /\ fired[poll[n].run] = 1
        /\ poll[n].copy.status = "failed"
    BY <2>1, PollerFacts
  <2> QED
    BY <2>1, <2>2, RememberLives
<1>5. SaveResultFails(n) \/ Resolve(n) \/ (\E r \in RunId : Query(n, r) \/ PollNothing(n, r))
        => UNCHANGED <<lastId, row, rcd, trig>> /\ UNCHANGED fired
  BY DEF SaveResultFails, Resolve, Query, PollNothing, history
<1> QED
  BY <1>1, <1>2, <1>3, <1>4, <1>5, FinishLives DEF PollStep, PollEnds

\* JobEnds: there is one job of the run, and it ends.
LEMMA JobEndsLives ==
    ASSUME RunInv, LifeInv, NEW n \in Node, NEW id \in 1 .. MaxRuns, JobEnds(n, id)
    PROVE  Lives
<1> DEFINE job == rcd[n][id]
<1>1. /\ TypeOK /\ id \in DOMAIN rcd[n] /\ job.state = "executing" /\ job \in Job
      /\ \A m \in Node : DOMAIN rcd'[m] = DOMAIN rcd[m]
      /\ \A m \in Node \ {n} : rcd'[m] = rcd[m]
      /\ \A k \in DOMAIN rcd[n] \ {id} : rcd'[n][k] = rcd[n][k]
  BY JobEndsAt DEF RunInv
<1>2. PICK end \in {"ok", "error"} : rcd'[n][id] = [job EXCEPT !.state = end]
  BY <1>1, JobEndsAt
<1>3. \A m \in Node : \A k \in DOMAIN rcd[m] : rcd[m][k] = job <=> m = n /\ k = id
  BY <1>1 DEF LifeInv, OneJob
<1>4. PICK ended : ended = [job EXCEPT !.state = end]
  OBVIOUS
<1> HIDE DEF job
<1>5. \A j : j \in AllJobs' <=> j \in (AllJobs \ {job}) \cup {ended}
  <2>1. ASSUME NEW j, j \in AllJobs'
        PROVE  j \in (AllJobs \ {job}) \cup {ended}
    <3>1. PICK m \in Node : \E k \in DOMAIN rcd'[m] : rcd'[m][k] = j
      BY <2>1, AllJobsIs
    <3>2. PICK k \in DOMAIN rcd'[m] : rcd'[m][k] = j
      BY <3>1
    <3>3. CASE m = n /\ k = id
      BY <1>2, <1>4, <3>2, <3>3
    <3>4. CASE ~(m = n /\ k = id)
      <4>1. k \in DOMAIN rcd[m] /\ rcd[m][k] = j
        BY <1>1, <3>2, <3>4
      <4>2. j # job
        BY <1>3, <3>4, <4>1
      <4> QED
        BY <4>1, <4>2, AllJobsIs
    <3> QED
      BY <3>3, <3>4
  <2>2. ended \in AllJobs'
    BY <1>1, <1>2, <1>4, AllJobsIs
  <2>3. ASSUME NEW j, j \in AllJobs, j # job
        PROVE  j \in AllJobs'
    <3>1. PICK m \in Node : \E k \in DOMAIN rcd[m] : rcd[m][k] = j
      BY <2>3, AllJobsIs
    <3>2. PICK k \in DOMAIN rcd[m] : rcd[m][k] = j
      BY <3>1
    <3>3. k \in DOMAIN rcd'[m] /\ rcd'[m][k] = j
      BY <1>1, <2>3, <3>2 DEF job
    <3> QED
      BY <3>3, AllJobsIs
  <2> QED
    BY <2>1, <2>2, <2>3
<1>6. AllJobs' = (AllJobs \ {job}) \cup {[job EXCEPT !.state = end]}
  BY <1>4, <1>5
<1>7. job \in AllJobs
  BY <1>1, AllJobsIs DEF job
<1>8. UNCHANGED <<lastId, row, trig>> /\ UNCHANGED fired
  BY DEF JobEnds
<1>9. Life!JobEnd(job, end)
  BY <1>1, <1>6, <1>7, <1>8, StatusSame, HeldSame DEF Life!JobEnd
<1> QED
  BY <1>7, <1>9 DEF Lives, Life!LifeNext

\* The steps around the service.
LEMMA AroundLives ==
    ASSUME RunInv, LifeInv, Around
    PROVE  Lives
<1>1. TypeOK
  BY DEF RunInv
<1>2. ASSUME NEW n \in Node, RcdRestart(n)
      PROVE  Lives
  <2>1. rcd'[n] = << >> /\ \A m \in Node \ {n} : rcd'[m] = rcd[m]
    BY <1>1, <1>2 DEF RcdRestart, TypeOK
  <2>2. \A m \in Node : \A id \in DOMAIN rcd'[m] : id \in DOMAIN rcd[m] /\ rcd'[m][id] = rcd[m][id]
    BY <2>1
  <2>3. AllJobs' \in SUBSET AllJobs
    BY <2>2, AllJobsIs
  <2>4. UNCHANGED <<lastId, row, trig>> /\ UNCHANGED fired
    BY <1>2 DEF RcdRestart, history
  <2>5. Life!Forget
    BY <2>3, <2>4, StatusSame, HeldSame DEF Life!Forget
  <2> QED
    BY <2>5 DEF Lives, Life!LifeNext
<1>3. ASSUME NEW n \in Node, Crash(n)
      PROVE  Lives
  <2>1. \A w \in Trigger : trig'[w] = trig[w] \/ trig'[w].pc = "idle"
    BY <1>3 DEF Crash, NoTrig
  <2>2. ASSUME NEW pc \in Deciders
        PROVE  RunsAt(pc)' \subseteq RunsAt(pc)
    BY <2>1, <2>2 DEF RunsAt, Deciders
  <2>3. /\ Deciding' \in SUBSET Deciding /\ Accepted' \in SUBSET Accepted
        /\ Refused' \in SUBSET Refused
    <3>1. "created" \in Deciders /\ "submitted" \in Deciders /\ "failing" \in Deciders
      BY DEF Deciders
    <3> QED
      BY <2>2, <3>1 DEF Deciding, Accepted, Refused
  <2>4. UNCHANGED <<lastId, row, rcd>> /\ UNCHANGED fired
    BY <1>3 DEF Crash, history
  <2>5. Life!Abandon
    BY <2>3, <2>4, StatusSame, AllJobsSame DEF Life!Abandon
  <2> QED
    BY <2>5 DEF Lives, Life!LifeNext
<1>4. ASSUME NEW t \in Task, DeleteRuns(t)
      PROVE  Lives
  <2>1. PICK gone \in SUBSET RunId : gone = {r \in RunId : row[r].task = t}
    OBVIOUS
  <2>2. row' = [r \in RunId |-> IF row[r].task = t THEN NoRow ELSE row[r]]
    BY <1>4 DEF DeleteRuns
  <2>3. NoRow.status = "none"
    BY DEF NoRow
  <2>4. \A r \in RunId : row'[r].status = IF r \in gone THEN "none" ELSE row[r].status
    BY <2>1, <2>2, <2>3
  <2>5. Statuses' = [r \in RunId |-> IF r \in gone THEN "none" ELSE Statuses[r]]
    BY <2>4 DEF Statuses
  <2>6. UNCHANGED <<lastId, rcd, trig>> /\ UNCHANGED fired
    BY <1>4 DEF DeleteRuns, history
  <2>7. Life!Delete
    BY <2>5, <2>6, AllJobsSame, HeldSame DEF Life!Delete
  <2> QED
    BY <2>7 DEF Lives, Life!LifeNext
<1>5. CASE UNCHANGED <<lastId, row, rcd, trig>> /\ UNCHANGED fired
  BY <1>5, Stutters
<1> QED
  BY <1>2, <1>3, <1>4, <1>5, JobEndsLives DEF Around, Restart, DeleteTask, history

\* At the start there is at most the run of an earlier release, and its job.
LEMMA InitLives == Init => Life!LifeInit
<1> SUFFICES ASSUME Init PROVE Life!LifeInit
  OBVIOUS
<1>1. PICK home \in Node :
          /\ row = [r \in RunId |->
                      IF Legacy /\ r = 1
                        THEN [NoRow EXCEPT !.status = "running", !.job = 1] ELSE NoRow]
          /\ rcd = [n \in Node |->
                      IF Legacy /\ n = home
                        THEN <<[run |-> 1, state |-> "executing"]>> ELSE << >>]
  BY DEF Init
<1>2. lastId \in Nat /\ Inherited = 1 .. lastId
  <2>1. CASE Legacy
    <3>1. lastId = 1 /\ Inherited = {1}
      BY <2>1 DEF Init, Inherited
    <3> QED
      BY <3>1
  <2>2. CASE ~Legacy
    <3>1. lastId = 0 /\ Inherited = {}
      BY <2>2 DEF Init, Inherited
    <3> QED
      BY <3>1
  <2> QED
    BY <2>1, <2>2
<1>3. Statuses = [r \in RunId |-> IF r \in Inherited THEN "running" ELSE "none"]
  <2>1. \A r \in RunId : row[r].status = IF r \in Inherited THEN "running" ELSE "none"
    BY <1>1 DEF Inherited, NoRow
  <2> QED
    BY <2>1 DEF Statuses
<1>4. \A pc : pc # "idle" => RunsAt(pc) = {}
  BY DEF Init, RunsAt, NoTrig
<1>5. Deciding = {} /\ Accepted = {} /\ Refused = {}
  BY <1>4 DEF Deciding, Accepted, Refused
<1>6. AllJobs = [run : Inherited, state : {"executing"}]
  <2>1. CASE Legacy
    <3>1. \A n \in Node : rcd[n] = IF n = home THEN <<[run |-> 1, state |-> "executing"]>>
                                               ELSE << >>
      BY <1>1, <2>1
    <3>2. \A j : j \in AllJobs <=> j = [run |-> 1, state |-> "executing"]
      BY <3>1, AllJobsIs
    <3>3. \A j : j \in [run : Inherited, state : {"executing"}]
                   <=> j = [run |-> 1, state |-> "executing"]
      BY <2>1 DEF Inherited
    <3> QED
      BY <3>2, <3>3
  <2>2. CASE ~Legacy
    <3>1. \A n \in Node : rcd[n] = << >>
      BY <1>1, <2>2
    <3>2. AllJobs = {}
      BY <3>1, AllJobsIs
    <3>3. [run : Inherited, state : {"executing"}] = {}
      BY <2>2 DEF Inherited
    <3> QED
      BY <3>2, <3>3
  <2> QED
    BY <2>1, <2>2
<1>7. fired = [r \in RunId |-> 0]
  BY DEF Init
<1> QED
  BY <1>2, <1>3, <1>5, <1>6, <1>7 DEF Life!LifeInit

\* Every step is a step of RunLife, or none.
LEMMA NextLives == RunInv /\ LifeInv /\ [Next]_vars => Lives
<1> SUFFICES ASSUME RunInv, LifeInv, [Next]_vars PROVE Lives
  OBVIOUS
<1>1. CASE UNCHANGED vars
  <2>1. UNCHANGED <<lastId, row, rcd, trig>> /\ UNCHANGED fired
    BY <1>1 DEF vars, history
  <2> QED
    BY <2>1, Stutters
<1>2. CASE Next
  BY <1>2, TrigLives, GuardLives, PollLives, AroundLives DEF Next
<1> QED
  BY <1>1, <1>2

\* The engine implements RunLife: whatever its goroutines, polls, crashes, rcd
\* restarts, lost answers, failed saves and deletions do, in any number, a run's
\* job is started at most once, its row goes forward only and ends as its job did,
\* and its alert is fired once, after it failed.
THEOREM EngineImplementsLife == Spec => ImplementsLife
<1>1. Init => Life!LifeInit
  BY InitLives
<1>2. RunInv /\ LifeInv /\ [Next]_vars => [Life!LifeNext]_(Life!lifeVars)
  BY NextLives DEF Lives
<1> QED
  BY <1>1, <1>2, RunSafe, LifeSafe, PTL DEF Spec, ImplementsLife, Life!LifeSpec
=============================================================================
