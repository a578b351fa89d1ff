------------------------- MODULE SchedulerGateProofs -------------------------
(***************************************************************************)
(* Proofs about SchedulerGate: after an undisturbed change of leadership   *)
(* the jobs are those the tables ask for.                                  *)
(*                                                                         *)
(* A goroutine's step has one of two shapes: a handler's, alone with its   *)
(* task (HandlerStep), or a rebuild's, alone in the process (LeadStep).    *)
(* JobStep is the common part of registering and removing, which both do.  *)
(***************************************************************************)
EXTENDS SchedulerGate, TLAPS

\* What a goroutine is.
Thread == [op : Op, pc : Pc, task : Task, copy : Row \cup {NoRow},
           todo : SUBSET Task, snap : Table]

\* NoRow is not a row.
LEMMA NoRowIsNone == NoRow \notin Row
BY GateAssumption DEF GateAssumption, Row

\* A goroutine with nothing to do.
LEMMA IdleIs ==
    /\ Idle \in Thread /\ Well(Idle) /\ Idle.pc = "idle" /\ Idle.op = "none"
    /\ Idle.todo = {} /\ Idle.task \in Task
<1>1. (CHOOSE t \in Task : TRUE) \in Task
  BY GateAssumption DEF GateAssumption
<1>2. Empty \in Table
  BY DEF Empty, Table
<1> QED
  BY <1>1, <1>2 DEF Idle, Thread, Well, Op, Pc

\* What an assignment to the program counter leaves.
LEMMA PcFields ==
    ASSUME NEW me \in Thread, NEW pc \in Pc
    PROVE  LET new == [me EXCEPT !.pc = pc]
           IN  /\ new \in Thread /\ new.pc = pc /\ new.op = me.op /\ new.task = me.task
               /\ new.copy = me.copy /\ new.todo = me.todo /\ new.snap = me.snap
BY DEF Thread

\* One goroutine is now at me, the others are where they were.
Turns(w, me) ==
    /\ worker' \in [Worker -> Thread] /\ worker'[w] = me
    /\ \A v \in Worker \ {w} : worker'[v] = worker[v]

\* The type of the goroutines, by name.
LEMMA Typed == TypeOK => worker \in [Worker -> Thread]
BY DEF TypeOK, Thread

\* What Goes, Stops and Begins do to the goroutine and leave of the others.
LEMMA GoesAt ==
    ASSUME TypeOK, NEW w \in Worker, NEW pc \in Pc, Goes(w, pc)
    PROVE  Turns(w, [worker[w] EXCEPT !.pc = pc])
<1>1. worker \in [Worker -> Thread] /\ worker[w] \in Thread
  BY Typed
<1>2. [worker[w] EXCEPT !.pc = pc] \in Thread
  BY <1>1, PcFields
<1> QED
  BY <1>1, <1>2 DEF Goes, Turns

LEMMA StopsAt ==
    ASSUME TypeOK, NEW w \in Worker, Stops(w)
    PROVE  Turns(w, Idle)
BY Typed, IdleIs DEF Stops, Turns

LEMMA BeginsAt ==
    ASSUME TypeOK, NEW w \in Worker, NEW op \in Op, NEW t \in Task, NEW pc \in Pc,
           NEW copy \in Row \cup {NoRow}, Begins(w, op, t, pc, copy)
    PROVE  /\ ~InFlight(w) /\ ops' \in 0 .. MaxOps
           /\ Turns(w, worker'[w])
           /\ worker'[w].op = op /\ worker'[w].task = t /\ worker'[w].pc = pc
           /\ worker'[w].copy = copy /\ worker'[w].todo = {}
<1> DEFINE me == [Idle EXCEPT !.op = op, !.task = t, !.pc = pc, !.copy = copy]
<1>1. /\ me \in Thread /\ me.op = op /\ me.task = t /\ me.pc = pc /\ me.copy = copy
      /\ me.todo = {}
  BY IdleIs DEF Thread
<1>2. worker' = [worker EXCEPT ![w] = me] /\ ~InFlight(w) /\ ops < MaxOps /\ ops' = ops + 1
  BY DEF Begins
<1> HIDE DEF me
<1>3. worker' \in [Worker -> Thread] /\ worker'[w] = me
      /\ \A v \in Worker \ {w} : worker'[v] = worker[v]
  BY <1>1, <1>2, Typed
<1>4. ops' \in 0 .. MaxOps
  BY <1>2, GateAssumption DEF TypeOK, GateAssumption
<1> QED
  BY <1>1, <1>2, <1>3, <1>4 DEF Turns

\* A step of one goroutine keeps the others well formed.
LEMMA StructuredStep ==
    ASSUME Structured, NEW w \in Worker, NEW me, Turns(w, me), Well(me)
    PROVE  Structured'
BY DEF Structured, Turns

-----------------------------------------------------------------------------
(* The shapes of a step *)

\* A step of handler w, alone with task t.
LEMMA HandlerStep ==
    ASSUME TypeOK, Undisturbed, NEW w \in Worker, NEW t \in Task, NEW me, Turns(w, me),
           \A v \in Worker \ {w} : ~Leads(v) /\ ~Handles(v, t),
           InFlight(w) => Handles(w, t),
           gate' = gate,
           \A s \in Task \ {t} : table'[s] = table[s] /\ jobs'[s] = jobs[s],
           \/ me.pc = "idle" /\ jobs'[t] = Wanted(t)'
           \/ me.pc # "idle" /\ me.op # "lead" /\ me.task = t /\ HandlerAt(w)'
    PROVE  Undisturbed'
<1>1. /\ worker'[w] = me
      /\ \A v \in Worker \ {w} : worker'[v] = worker[v]
  BY DEF Turns
<1>2. \A v \in Worker \ {w} : Leads(v)' = Leads(v) /\ InFlight(v)' = InFlight(v)
                           /\ \A s \in Task : Handles(v, s)' = Handles(v, s)
  BY <1>1 DEF Leads, Handles, InFlight
<1>3. ~Leads(w)' /\ \A s \in Task \ {t} : ~Handles(w, s)'
  BY <1>1 DEF Leads, Handles, InFlight
<1>4. ~Leads(w) /\ \A s \in Task \ {t} : ~Handles(w, s)
  BY DEF Leads, Handles
<1>5. Alone'
  BY <1>2, <1>3 DEF Undisturbed, Alone
<1>6. \A s \in Task \ {t} : Wanted(s)' = Wanted(s)
  BY DEF Wanted
<1>7. Resting'
  <2>1. ASSUME NEW s \in Task, (\A v \in Worker : ~Leads(v) /\ ~Handles(v, s))'
        PROVE  (jobs[s] = Wanted(s))'
    <3>1. CASE s = t
      <4>1. ~(me.pc # "idle" /\ me.op # "lead" /\ me.task = t)
        BY <1>1, <2>1, <3>1 DEF Handles, InFlight
      <4> QED
        BY <3>1, <4>1
    <3>2. CASE s # t
      <4>1. \A v \in Worker : ~Leads(v) /\ ~Handles(v, s)
        BY <1>2, <1>4, <2>1, <3>2
      <4> QED
        BY <1>6, <3>2, <4>1 DEF Undisturbed, Resting
    <3> QED
      BY <3>1, <3>2
  <2> QED
    BY <2>1 DEF Resting
<1>8. ASSUME NEW v \in Worker
      PROVE  HandlerAt(v)' /\ LeadAt(v)'
  <2>1. CASE v = w
    BY <1>1, <1>3, <2>1 DEF HandlerAt, InFlight, LeadAt
  <2>2. CASE v # w
    <3>1. worker'[v] = worker[v] /\ HandlerAt(v) /\ ~Leads(v) /\ ~Handles(v, t)
      BY <1>1, <2>2 DEF Undisturbed
    <3>2. LeadAt(v)'
      BY <1>2, <2>2, <3>1 DEF LeadAt
    <3>3. HandlerAt(v)'
      <4>1. CASE worker[v].task \in Task \ {t}
        BY <1>6, <3>1, <4>1 DEF HandlerAt, InFlight
      <4>2. CASE worker[v].task = t
        BY <3>1, <4>2 DEF HandlerAt, InFlight, Handles
      <4> QED
        BY <4>1, <4>2, Typed DEF Thread
    <3> QED
      BY <3>2, <3>3
  <2> QED
    BY <2>1, <2>2
<1> QED
  BY <1>5, <1>7, <1>8 DEF Undisturbed

\* A step of a change of leadership, alone in the process.
LEMMA LeadStep ==
    ASSUME NEW w \in Worker, NEW me, Turns(w, me),
           \A v \in Worker \ {w} : ~InFlight(v),
           \/ me.pc = "idle" /\ \A t \in Task : jobs'[t] = Wanted(t)'
           \/ me.pc # "idle" /\ me.op = "lead" /\ LeadAt(w)'
    PROVE  Undisturbed'
<1>1. worker'[w] = me /\ \A v \in Worker \ {w} : ~InFlight(v)'
  BY DEF Turns, InFlight
<1>2. \A v \in Worker, t \in Task : ~Handles(v, t)'
  BY <1>1 DEF Handles, InFlight
<1>3. \A v \in Worker : InFlight(v)' => v = w
  BY <1>1
<1>4. Alone'
  BY <1>2, <1>3 DEF Alone, Leads
<1>5. Resting'
  BY <1>1 DEF Resting, Leads, InFlight
<1>6. \A v \in Worker : HandlerAt(v)' /\ LeadAt(v)'
  <2>1. HandlerAt(w)' /\ LeadAt(w)'
    BY <1>1 DEF HandlerAt, LeadAt, Leads, InFlight
  <2>2. \A v \in Worker \ {w} : HandlerAt(v)' /\ LeadAt(v)'
    BY <1>1 DEF HandlerAt, LeadAt, Leads
  <2> QED
    BY <2>1, <2>2
<1> QED
  BY <1>4, <1>5, <1>6 DEF Undisturbed

\* A handler begins.
LEMMA BeginHandler ==
    ASSUME GateInv, NEW w \in Worker, NEW op \in {"create", "update", "delete"},
           NEW t \in Task, NEW pc \in Pc, NEW copy \in Row \cup {NoRow},
           Begins(w, op, t, pc, copy),
           disturbed' = (disturbed \/ Overlaps(op, t)), UNCHANGED <<gate, jobs>>,
           table' \in Table, \A s \in Task \ {t} : table'[s] = table[s],
           (pc \in {"save", "register"} /\ op # "delete" /\ copy \in Row) \/ pc = "drop",
           jobs[t] = Wanted(t) => HandlerAt(w)'
    PROVE  GateInv'
<1>1. /\ ~InFlight(w) /\ ops' \in 0 .. MaxOps /\ Turns(w, worker'[w])
      /\ worker'[w].op = op /\ worker'[w].task = t /\ worker'[w].pc = pc
      /\ worker'[w].copy = copy /\ worker'[w].todo = {}
  BY BeginsAt DEF GateInv, Op
<1>2. TypeOK'
  BY <1>1 DEF GateInv, TypeOK, Turns, Thread
<1>3. Well(worker'[w])
  BY <1>1 DEF Well
<1>4. Structured'
  BY <1>1, <1>3, StructuredStep DEF GateInv
<1>5. ASSUME ~disturbed' PROVE Undisturbed'
  <2>1. TypeOK /\ Undisturbed /\ ~Overlaps(op, t)
    BY <1>5 DEF GateInv
  <2>2. \A v \in Worker : ~Leads(v) /\ ~Handles(v, t)
    BY <2>1 DEF Overlaps, Leads, Handles
  <2>3. jobs[t] = Wanted(t)
    BY <2>1, <2>2 DEF Undisturbed, Resting
  <2>4. pc # "idle" /\ op # "lead"
    OBVIOUS
  <2> QED
    BY <1>1, <2>1, <2>2, <2>3, <2>4, HandlerStep
<1> QED
  BY <1>2, <1>4, <1>5 DEF GateInv

\* A handler goes on, or is done.
LEMMA HandlerMoves ==
    ASSUME GateInv, NEW w \in Worker, NEW t \in Task, NEW me, Turns(w, me), Well(me),
           Handles(w, t),
           table' \in Table, jobs' \in [Task -> Seq(Cron)], UNCHANGED <<gate, ops>>,
           disturbed' \in BOOLEAN, ~disturbed' => ~disturbed,
           \A s \in Task \ {t} : table'[s] = table[s] /\ jobs'[s] = jobs[s],
           ~disturbed' /\ HandlerAt(w) =>
              \/ me.pc = "idle" /\ jobs'[t] = Wanted(t)'
              \/ me.pc # "idle" /\ me.op # "lead" /\ me.task = t /\ HandlerAt(w)'
    PROVE  GateInv'
<1>1. TypeOK'
  BY DEF GateInv, TypeOK, Turns, Thread
<1>2. Structured'
  BY StructuredStep DEF GateInv
<1>3. ASSUME ~disturbed' PROVE Undisturbed'
  <2>1. TypeOK /\ Undisturbed /\ HandlerAt(w)
    BY <1>3 DEF GateInv, Undisturbed
  <2>2. \A v \in Worker \ {w} : ~Leads(v) /\ ~Handles(v, t)
    BY <2>1 DEF Undisturbed, Alone, Handles, Leads
  <2> QED
    BY <1>3, <2>1, <2>2, HandlerStep
<1> QED
  BY <1>1, <1>2, <1>3 DEF GateInv

\* A change of leadership goes on, or is done.
LEMMA LeadMoves ==
    ASSUME GateInv, NEW w \in Worker, NEW me, Turns(w, me), Well(me), Leads(w),
           jobs' \in [Task -> Seq(Cron)], UNCHANGED <<table, gate, ops>>,
           disturbed' \in BOOLEAN, ~disturbed' => ~disturbed,
           ~disturbed' /\ LeadAt(w) =>
              \/ me.pc = "idle" /\ \A t \in Task : jobs'[t] = Wanted(t)'
              \/ me.pc # "idle" /\ me.op = "lead" /\ LeadAt(w)'
    PROVE  GateInv'
<1>1. TypeOK'
  BY DEF GateInv, TypeOK, Turns, Thread
<1>2. Structured'
  BY StructuredStep DEF GateInv
<1>3. ASSUME ~disturbed' PROVE Undisturbed'
  <2>1. Undisturbed /\ LeadAt(w)
    BY <1>3 DEF GateInv, Undisturbed
  <2>2. \A v \in Worker \ {w} : ~InFlight(v)
    BY <2>1 DEF Undisturbed, Alone
  <2> QED
    BY <1>3, <2>1, <2>2, LeadStep
<1> QED
  BY <1>1, <1>2, <1>3 DEF GateInv

-----------------------------------------------------------------------------
(* The handlers *)

\* What is known of a goroutine that is in flight.
LEMMA InFlightIs ==
    ASSUME GateInv, NEW w \in Worker, InFlight(w)
    PROVE  /\ TypeOK /\ worker[w] \in Thread /\ worker[w].task \in Task /\ Well(worker[w])
           /\ Leads(w) \/ Handles(w, worker[w].task)
           /\ Leads(w) <=> worker[w].op = "lead"
           /\ worker[w].snap \in Table /\ table \in Table /\ jobs \in [Task -> Seq(Cron)]
           /\ disturbed \in BOOLEAN
BY Typed DEF GateInv, TypeOK, Structured, Thread, Leads, Handles

\* A row says whether it is scheduled.
LEMMA RowIs ==
    ASSUME NEW row \in Row
    PROVE  row.enabled \in BOOLEAN /\ row.cron \in Cron /\ row # NoRow /\ (Scheduled(row) <=> row.enabled)
BY NoRowIsNone DEF Row, Scheduled

LEMMA HandlerInv ==
    ASSUME GateInv, NEW w \in Worker, NEW t \in Task, Handler(w, t)
    PROVE  GateInv'
<1>0. TypeOK /\ ~Scheduled(NoRow)
  BY DEF GateInv, Scheduled
<1>1. CASE DeleteTask(w, t)
  <2>1. /\ Begins(w, "delete", t, "drop", NoRow) /\ UNCHANGED <<table, gate, jobs>>
        /\ disturbed' = (disturbed \/ Overlaps("delete", t))
    BY <1>1 DEF DeleteTask
  <2>2. worker'[w].op = "delete" /\ worker'[w].task = t /\ worker'[w].pc = "drop"
    BY <1>0, <2>1, BeginsAt DEF Op, Pc
  <2>3. jobs[t] = Wanted(t) => HandlerAt(w)'
    BY <2>1, <2>2 DEF HandlerAt, Wanted
  <2> QED
    BY <1>0, <2>1, <2>3, BeginHandler DEF TypeOK, Pc
<1>2. ASSUME NEW row \in Row, CreateTask(w, t, row) PROVE GateInv'
  <2>1. /\ Begins(w, "create", t, Apply(row), row) /\ UNCHANGED <<gate, jobs>>
        /\ table' = [table EXCEPT ![t] = row] /\ table[t] = NoRow
        /\ disturbed' = (disturbed \/ Overlaps("create", t))
    BY <1>2 DEF CreateTask
  <2>2. /\ Apply(row) \in Pc
        /\ (row.enabled /\ Apply(row) = "register") \/ (~row.enabled /\ Apply(row) = "drop")
    BY RowIs DEF Apply, Pc
  <2>3. /\ worker'[w].op = "create" /\ worker'[w].task = t /\ worker'[w].pc = Apply(row)
        /\ worker'[w].copy = row
    BY <1>0, <2>1, <2>2, BeginsAt DEF Op
  <2>4. table' \in Table /\ table'[t] = row /\ \A s \in Task \ {t} : table'[s] = table[s]
    BY <1>0, <2>1 DEF TypeOK, Table
  <2>5. jobs[t] = Wanted(t) => HandlerAt(w)'
    BY <1>0, <2>1, <2>2, <2>3, <2>4, RowIs DEF HandlerAt, Wanted
  <2> QED
    BY <2>1, <2>2, <2>4, <2>5, BeginHandler
<1>3. ASSUME NEW row \in Row, UpdateTask(w, t, row) PROVE GateInv'
  <2>1. /\ Begins(w, "update", t, "save", row) /\ UNCHANGED <<table, gate, jobs>>
        /\ disturbed' = (disturbed \/ Overlaps("update", t))
    BY <1>3 DEF UpdateTask
  <2>2. worker'[w].op = "update" /\ worker'[w].task = t /\ worker'[w].pc = "save"
    BY <1>0, <2>1, BeginsAt DEF Op, Pc
  <2>3. jobs[t] = Wanted(t) => HandlerAt(w)'
    BY <2>1, <2>2 DEF HandlerAt, Wanted
  <2> QED
    BY <1>0, <2>1, <2>3, BeginHandler DEF TypeOK, Pc
<1> QED
  BY <1>1, <1>2, <1>3 DEF Handler

LEMMA UpdateSaveInv ==
    ASSUME GateInv, NEW w \in Worker, UpdateSave(w)
    PROVE  GateInv'
<1>0. PICK t \in Task, row \in Row : t = worker[w].task /\ row = worker[w].copy
  BY InFlightIs DEF UpdateSave, InFlight, Well
<1> DEFINE me == [worker[w] EXCEPT !.pc = Apply(row)]
<1>1. /\ worker[w].pc = "save" /\ InFlight(w) /\ UNCHANGED <<gate, jobs, ops, disturbed>>
      /\ \/ table' = [table EXCEPT ![t] = row] /\ Goes(w, Apply(row))
         \/ Stops(w) /\ UNCHANGED table
  BY <1>0 DEF UpdateSave, InFlight
<1>2. /\ TypeOK /\ worker[w] \in Thread /\ t \in Task /\ Handles(w, t) /\ row \in Row
      /\ table \in Table /\ jobs \in [Task -> Seq(Cron)] /\ disturbed \in BOOLEAN
      /\ worker[w].op # "delete" /\ worker[w].op # "lead" /\ Well(worker[w])
  BY <1>0, <1>1, InFlightIs DEF Well
<1>3. CASE Stops(w) /\ UNCHANGED table
  <2>1. Turns(w, Idle)
    BY <1>2, <1>3, StopsAt
  <2>2. HandlerAt(w) => jobs'[t] = Wanted(t)'
    BY <1>0, <1>1, <1>2, <1>3 DEF HandlerAt, Wanted, Handles
  <2> HIDE DEF me
  <2> QED
    BY <1>1, <1>2, <1>3, <2>1, <2>2, IdleIs, HandlerMoves
<1>4. CASE table' = [table EXCEPT ![t] = row] /\ Goes(w, Apply(row))
  <2>1. /\ Apply(row) \in Pc
        /\ (row.enabled /\ Apply(row) = "register") \/ (~row.enabled /\ Apply(row) = "drop")
    BY <1>2, RowIs DEF Apply, Pc
  <2>2. Turns(w, me)
    BY <1>2, <1>4, <2>1, GoesAt
  <2>3. /\ me.pc = Apply(row) /\ me.op = worker[w].op /\ me.task = t /\ me.copy = row
        /\ me.todo = worker[w].todo /\ me.snap = worker[w].snap
    BY <1>0, <1>2, <2>1, PcFields
  <2> HIDE DEF me
  <2>4. Well(me)
    BY <1>2, <2>1, <2>3 DEF Well
  <2>5. table' \in Table /\ table'[t] = row /\ \A s \in Task \ {t} : table'[s] = table[s]
    BY <1>2, <1>4 DEF Table
  <2>6. HandlerAt(w) => HandlerAt(w)'
    <3>1. worker'[w] = me
      BY <2>2 DEF Turns
    <3> QED
      BY <1>0, <1>1, <1>2, <2>1, <2>3, <2>5, <3>1, RowIs DEF HandlerAt, Handles
  <2>7. me.pc # "idle"
    BY <2>1, <2>3
  <2> QED
    BY <1>1, <1>2, <2>2, <2>3, <2>4, <2>5, <2>6, <2>7, HandlerMoves
<1> QED
  BY <1>1, <1>3, <1>4

LEMMA DeleteRowInv ==
    ASSUME GateInv, NEW w \in Worker, DeleteRow(w)
    PROVE  GateInv'
<1>0. PICK t \in Task : t = worker[w].task
  BY InFlightIs DEF DeleteRow, InFlight
<1>1. /\ worker[w].pc = "deleteRow" /\ InFlight(w) /\ UNCHANGED <<gate, jobs, ops>>
      /\ Stops(w)
      /\ \/ table' = [table EXCEPT ![t] = NoRow] /\ UNCHANGED disturbed
         \/ UNCHANGED table /\ disturbed' = TRUE
  BY <1>0 DEF DeleteRow, InFlight
<1>2. /\ TypeOK /\ worker[w] \in Thread /\ t \in Task /\ Handles(w, t)
      /\ table \in Table /\ jobs \in [Task -> Seq(Cron)] /\ disturbed \in BOOLEAN
  BY <1>0, <1>1, InFlightIs DEF Well
<1>3. Turns(w, Idle)
  BY <1>1, <1>2, StopsAt
<1>4. table' \in Table /\ \A s \in Task \ {t} : table'[s] = table[s]
  BY <1>1, <1>2 DEF Table
<1>5. ~disturbed' => ~disturbed /\ table'[t] = NoRow
  BY <1>1, <1>2 DEF Table
<1>6. ~disturbed' /\ HandlerAt(w) => jobs'[t] = Wanted(t)'
  BY <1>0, <1>1, <1>2, <1>5 DEF HandlerAt, Handles, Wanted, Scheduled
<1> QED
  BY <1>1, <1>2, <1>3, <1>4, <1>5, <1>6, IdleIs, HandlerMoves

-----------------------------------------------------------------------------
(* Registration and removal *)

\* Where a registration or a removal leads to: a goroutine with a todo list goes
\* on with it, one that deletes a task goes on with its row.
LEMMA AfterAt ==
    ASSUME TypeOK, NEW w \in Worker, After(w)
    PROVE  \E me \in Thread :
             /\ Turns(w, me)
             /\ worker[w].op = "lead" => me = [worker[w] EXCEPT !.pc = "each"]
             /\ worker[w].op = "delete" => me = [worker[w] EXCEPT !.pc = "deleteRow"]
             /\ worker[w].op \notin {"lead", "delete"} => me = Idle
<1>1. CASE worker[w].op = "lead"
  <2>1. Turns(w, [worker[w] EXCEPT !.pc = "each"])
    BY <1>1, GoesAt DEF After, Pc
  <2> QED
    BY <1>1, <2>1 DEF Turns
<1>2. CASE worker[w].op = "delete"
  <2>1. Turns(w, [worker[w] EXCEPT !.pc = "deleteRow"])
    BY <1>2, GoesAt DEF After, Pc
  <2> QED
    BY <1>2, <2>1 DEF Turns
<1>3. CASE worker[w].op \notin {"lead", "delete"}
  <2>1. Turns(w, Idle)
    BY <1>3, StopsAt DEF After
  <2> QED
    BY <1>3, <2>1 DEF Turns
<1> QED
  BY <1>1, <1>2, <1>3

\* A step of a registration or a removal: it changes nothing but the jobs of its
\* own task, and goes on to pc or to what follows.
LEMMA JobStep ==
    ASSUME GateInv, NEW w \in Worker, NEW t \in Task, InFlight(w), worker[w].task = t,
           worker[w].pc \in {"register", "remove", "add", "drop", "dropping"},
           UNCHANGED <<table, gate, ops, disturbed>>,
           jobs' \in [Task -> Seq(Cron)], \A s \in Task \ {t} : jobs'[s] = jobs[s],
           \/ After(w)
           \/ Goes(w, "remove") /\ worker[w].pc = "register"
           \/ Goes(w, "add") /\ worker[w].pc = "remove"
           \/ Goes(w, "dropping") /\ worker[w].pc = "drop",
           ~disturbed /\ HandlerAt(w) /\ worker[w].op # "lead" =>
              \/ worker'[w].pc = "idle" /\ jobs'[t] = Wanted(t)
              \/ worker'[w].pc # "idle" /\ HandlerAt(w)',
           ~disturbed /\ LeadAt(w) /\ worker[w].op = "lead" => LeadAt(w)'
    PROVE  GateInv'
<1>0. PICK me : me = worker'[w]
  OBVIOUS
<1>1. /\ TypeOK /\ worker[w] \in Thread /\ Well(worker[w])
      /\ (Leads(w) \/ Handles(w, t)) /\ (Leads(w) <=> worker[w].op = "lead")
      /\ worker[w].snap \in Table /\ table \in Table /\ disturbed \in BOOLEAN
  BY InFlightIs
<1>2. /\ Turns(w, me) /\ Well(me)
      /\ me.pc # "idle" => me.op = worker[w].op /\ me.task = t
      /\ worker[w].op = "lead" => me.pc # "idle"
  <2>1. CASE After(w)
    <3>1. PICK to \in Thread :
             /\ Turns(w, to)
             /\ worker[w].op = "lead" => to = [worker[w] EXCEPT !.pc = "each"]
             /\ worker[w].op = "delete" => to = [worker[w] EXCEPT !.pc = "deleteRow"]
             /\ worker[w].op \notin {"lead", "delete"} => to = Idle
      BY <1>1, <2>1, AfterAt
    <3>2. to = me
      BY <1>0, <3>1 DEF Turns
    <3>3. \A pc \in {"each", "deleteRow"} :
            LET new == [worker[w] EXCEPT !.pc = pc]
            IN  /\ new.pc = pc /\ new.op = worker[w].op /\ new.task = t
                /\ new.copy = worker[w].copy /\ new.todo = worker[w].todo
                /\ new.snap = worker[w].snap
      BY <1>1, PcFields DEF Pc
    <3>4. CASE worker[w].op = "lead"
      BY <1>1, <3>1, <3>2, <3>3, <3>4 DEF Well
    <3>5. CASE worker[w].op = "delete"
      BY <1>1, <3>1, <3>2, <3>3, <3>5 DEF Well
    <3>6. CASE worker[w].op \notin {"lead", "delete"}
      BY <3>1, <3>2, <3>6, IdleIs
    <3> QED
      BY <3>4, <3>5, <3>6
  <2>2. ASSUME NEW pc \in {"remove", "add", "dropping"}, Goes(w, pc),
               pc \in {"remove", "add"} => worker[w].pc \in {"register", "remove"},
               pc = "dropping" => worker[w].pc = "drop"
        PROVE  /\ Turns(w, me) /\ Well(me)
               /\ me.pc # "idle" /\ me.op = worker[w].op /\ me.task = t
    <3> DEFINE new == [worker[w] EXCEPT !.pc = pc]
    <3>1. pc \in Pc
      BY DEF Pc
    <3>2. Turns(w, new)
      BY <1>1, <2>2, <3>1, GoesAt
    <3>3. /\ new.pc = pc /\ new.op = worker[w].op /\ new.task = t
          /\ new.copy = worker[w].copy /\ new.todo = worker[w].todo
          /\ new.snap = worker[w].snap
      BY <1>1, <3>1, PcFields
    <3>4. new = me
      BY <1>0, <3>2 DEF Turns
    <3> HIDE DEF new
    <3> QED
      BY <1>1, <2>2, <3>2, <3>3, <3>4 DEF Well
  <2> QED
    BY <2>1, <2>2
<1>3. CASE Leads(w)
  BY <1>0, <1>1, <1>2, <1>3, LeadMoves
<1>4. CASE Handles(w, t) /\ worker[w].op # "lead"
  <2>1. Wanted(t)' = Wanted(t)
    BY DEF Wanted
  <2> QED
    BY <1>0, <1>1, <1>2, <1>4, <2>1, HandlerMoves
<1> QED
  BY <1>1, <1>3, <1>4

\* Goroutine w is now at pc, with what it had.
Moved(w, pc) ==
    /\ worker'[w].pc = pc /\ worker'[w].op = worker[w].op
    /\ worker'[w].task = worker[w].task /\ worker'[w].copy = worker[w].copy
    /\ worker'[w].todo = worker[w].todo /\ worker'[w].snap = worker[w].snap

\* Where Goes and After lead to, with what.
LEMMA MovedAt ==
    ASSUME TypeOK, NEW w \in Worker
    PROVE  /\ \A pc \in Pc : Goes(w, pc) => Moved(w, pc)
           /\ After(w) =>
                /\ worker[w].op = "lead" => Moved(w, "each")
                /\ worker[w].op = "delete" => Moved(w, "deleteRow")
                /\ worker[w].op \notin {"lead", "delete"} => worker'[w].pc = "idle"
<1>1. worker[w] \in Thread
  BY Typed
<1>2. ASSUME NEW pc \in Pc, Goes(w, pc) PROVE Moved(w, pc)
  <2>1. worker'[w] = [worker[w] EXCEPT !.pc = pc]
    BY <1>2, GoesAt DEF Turns
  <2> QED
    BY <1>1, <2>1, PcFields DEF Moved
<1>3. ASSUME After(w), worker[w].op = "lead" PROVE Moved(w, "each")
  <2>1. Goes(w, "each")
    BY <1>3 DEF After
  <2> QED
    BY <1>2, <2>1 DEF Pc
<1>4. ASSUME After(w), worker[w].op = "delete" PROVE Moved(w, "deleteRow")
  <2>1. Goes(w, "deleteRow")
    BY <1>4 DEF After
  <2> QED
    BY <1>2, <2>1 DEF Pc
<1>5. ASSUME After(w), worker[w].op \notin {"lead", "delete"} PROVE worker'[w].pc = "idle"
  <2>1. Stops(w)
    BY <1>5 DEF After
  <2> QED
    BY <2>1, StopsAt, IdleIs DEF Turns
<1> QED
  BY <1>2, <1>3, <1>4, <1>5

LEMMA RegisterInv ==
    ASSUME GateInv, NEW w \in Worker, Register(w)
    PROVE  GateInv'
<1>1. PICK t \in Task : t = worker[w].task
  BY InFlightIs DEF Register, InFlight
<1>2. /\ worker[w].pc = "register" /\ InFlight(w)
      /\ UNCHANGED <<table, gate, jobs, ops, disturbed>>
      /\ (gate /\ Goes(w, "remove")) \/ (~gate /\ After(w))
  BY DEF Register, InFlight
<1>3. TypeOK /\ Well(worker[w]) /\ jobs \in [Task -> Seq(Cron)]
  BY <1>2, InFlightIs
<1>4. /\ Goes(w, "remove") => Moved(w, "remove")
      /\ After(w) /\ worker[w].op \notin {"lead", "delete"} => worker'[w].pc = "idle"
  BY <1>3, MovedAt DEF Pc
<1>5. worker[w].op # "delete"
  BY <1>2, <1>3 DEF Well
<1>6. ~disturbed /\ HandlerAt(w) /\ worker[w].op # "lead" =>
         \/ worker'[w].pc = "idle" /\ jobs'[t] = Wanted(t)
         \/ worker'[w].pc # "idle" /\ HandlerAt(w)'
  BY <1>1, <1>2, <1>4, <1>5 DEF HandlerAt, Wanted, Moved
<1>7. ~disturbed /\ LeadAt(w) /\ worker[w].op = "lead" => LeadAt(w)'
  <2> SUFFICES ASSUME LeadAt(w), worker[w].op = "lead"
               PROVE  LeadAt(w)'
    OBVIOUS
  <2>1. gate /\ Moved(w, "remove")
    BY <1>2, <1>4 DEF LeadAt, Leads
  <2>2. \A s \in Task : Wanted(s)' = Wanted(s)
    BY <1>2 DEF Wanted
  <2> QED
    BY <1>2, <2>1, <2>2 DEF LeadAt, Leads, Moved
<1> QED
  BY <1>1, <1>2, <1>3, <1>6, <1>7, JobStep

LEMMA RegisterRemovesInv ==
    ASSUME GateInv, NEW w \in Worker, RegisterRemoves(w)
    PROVE  GateInv'
<1>1. PICK t \in Task : t = worker[w].task
  BY InFlightIs DEF RegisterRemoves, InFlight
<1>2. /\ worker[w].pc = "remove" /\ InFlight(w)
      /\ UNCHANGED <<table, gate, ops, disturbed>>
      /\ jobs' = [jobs EXCEPT ![t] = << >>] /\ Goes(w, "add")
  BY <1>1 DEF RegisterRemoves, InFlight
<1>3. TypeOK /\ Moved(w, "add") /\ jobs \in [Task -> Seq(Cron)]
  BY <1>2, InFlightIs, MovedAt DEF Pc
<1>4. /\ jobs' \in [Task -> Seq(Cron)] /\ jobs'[t] = << >>
      /\ \A s \in Task \ {t} : jobs'[s] = jobs[s]
  <2>1. << >> \in Seq(Cron)
    OBVIOUS
  <2> QED
    BY <1>2, <1>3, <2>1
<1>5. ~disturbed /\ HandlerAt(w) /\ worker[w].op # "lead" =>
         worker'[w].pc # "idle" /\ HandlerAt(w)'
  BY <1>1, <1>2, <1>3, <1>4 DEF HandlerAt, Moved
<1>6. ~disturbed /\ LeadAt(w) /\ worker[w].op = "lead" => LeadAt(w)'
  <2>1. \A s \in Task : Wanted(s)' = Wanted(s)
    BY <1>2 DEF Wanted
  <2> QED
    BY <1>1, <1>2, <1>3, <1>4, <2>1 DEF LeadAt, Leads, Moved, InFlight
<1> QED
  BY <1>1, <1>2, <1>3, <1>4, <1>5, <1>6, JobStep

LEMMA RegisterAddsInv ==
    ASSUME GateInv, NEW w \in Worker, RegisterAdds(w)
    PROVE  GateInv'
<1>1. PICK t \in Task, row \in Row : t = worker[w].task /\ row = worker[w].copy
  <2>1. worker[w].task \in Task /\ worker[w].copy \in Row
    BY InFlightIs DEF RegisterAdds, InFlight, Well
  <2> QED
    BY <2>1
<1>2. /\ worker[w].pc = "add" /\ InFlight(w) /\ UNCHANGED <<table, gate, ops, disturbed>>
      /\ jobs' = [jobs EXCEPT ![t] = Append(jobs[t], row.cron)] /\ After(w)
  BY <1>1 DEF RegisterAdds, InFlight
<1>3. /\ TypeOK /\ Well(worker[w]) /\ jobs \in [Task -> Seq(Cron)] /\ row.cron \in Cron
      /\ worker[w].op = "lead" => Moved(w, "each")
      /\ worker[w].op \notin {"lead", "delete"} => worker'[w].pc = "idle"
  BY <1>2, InFlightIs, MovedAt, RowIs
<1>4. /\ jobs' \in [Task -> Seq(Cron)]
      /\ jobs[t] = << >> => jobs'[t] = <<row.cron>>
      /\ \A s \in Task \ {t} : jobs'[s] = jobs[s]
  <2>1. jobs[t] \in Seq(Cron) /\ Append(jobs[t], row.cron) \in Seq(Cron)
    BY <1>3
  <2>2. jobs'[t] = Append(jobs[t], row.cron) /\ jobs' \in [Task -> Seq(Cron)]
    BY <1>2, <1>3, <2>1
  <2>3. Append(<< >>, row.cron) = <<row.cron>>
    OBVIOUS
  <2> QED
    BY <1>2, <1>3, <2>2, <2>3
<1>5. worker[w].op # "delete"
  BY <1>2, <1>3 DEF Well
<1>6. ~disturbed /\ HandlerAt(w) /\ worker[w].op # "lead" =>
         worker'[w].pc = "idle" /\ jobs'[t] = Wanted(t)
  BY <1>1, <1>2, <1>3, <1>4, <1>5 DEF HandlerAt, Wanted
<1>7. ~disturbed /\ LeadAt(w) /\ worker[w].op = "lead" => LeadAt(w)'
  <2> SUFFICES ASSUME LeadAt(w), worker[w].op = "lead"
               PROVE  LeadAt(w)'
    OBVIOUS
  <2>1. \A s \in Task : Wanted(s)' = Wanted(s)
    BY <1>2 DEF Wanted
  <2>2. Leads(w) /\ gate /\ table[t] = row /\ Scheduled(row) /\ jobs[t] = << >>
    BY <1>1, <1>2 DEF LeadAt, Leads
  <2>3. jobs'[t] = Wanted(t)
    BY <1>4, <2>2 DEF Wanted
  <2> QED
    BY <1>1, <1>2, <1>3, <1>4, <2>1, <2>2, <2>3 DEF LeadAt, Leads, Moved
<1> QED
  BY <1>1, <1>2, <1>3, <1>4, <1>6, <1>7, JobStep

LEMMA DropInv ==
    ASSUME GateInv, NEW w \in Worker, Drop(w)
    PROVE  GateInv'
<1>1. PICK t \in Task : t = worker[w].task
  BY InFlightIs DEF Drop, InFlight
<1>2. /\ worker[w].pc = "drop" /\ InFlight(w)
      /\ UNCHANGED <<table, gate, jobs, ops, disturbed>>
      /\ (gate /\ Goes(w, "dropping")) \/ (~gate /\ After(w))
  BY DEF Drop, InFlight
<1>3. TypeOK /\ worker[w].op # "lead" /\ jobs \in [Task -> Seq(Cron)]
  BY <1>2, InFlightIs DEF Well
<1>4. /\ Goes(w, "dropping") => Moved(w, "dropping")
      /\ After(w) /\ worker[w].op = "delete" => Moved(w, "deleteRow")
      /\ After(w) /\ worker[w].op # "delete" => worker'[w].pc = "idle"
  BY <1>3, MovedAt DEF Pc
<1>5. ~disturbed /\ HandlerAt(w) /\ worker[w].op # "lead" =>
         \/ worker'[w].pc = "idle" /\ jobs'[t] = Wanted(t)
         \/ worker'[w].pc # "idle" /\ HandlerAt(w)'
  <2>1. CASE gate
    BY <1>1, <1>2, <1>4, <2>1 DEF HandlerAt, Moved
  <2>2. CASE ~gate /\ worker[w].op = "delete"
    BY <1>1, <1>2, <1>4, <2>2 DEF HandlerAt, Moved
  <2>3. CASE ~gate /\ worker[w].op # "delete"
    BY <1>1, <1>2, <1>4, <2>3 DEF HandlerAt, Wanted
  <2> QED
    BY <2>1, <2>2, <2>3
<1> QED
  BY <1>1, <1>2, <1>3, <1>5, JobStep

LEMMA DropRemovesInv ==
    ASSUME GateInv, NEW w \in Worker, DropRemoves(w)
    PROVE  GateInv'
<1>1. PICK t \in Task : t = worker[w].task
  BY InFlightIs DEF DropRemoves, InFlight
<1>2. /\ worker[w].pc = "dropping" /\ InFlight(w)
      /\ UNCHANGED <<table, gate, ops, disturbed>>
      /\ jobs' = [jobs EXCEPT ![t] = << >>] /\ After(w)
  BY <1>1 DEF DropRemoves, InFlight
<1>3. TypeOK /\ worker[w].op # "lead" /\ jobs \in [Task -> Seq(Cron)]
  BY <1>2, InFlightIs DEF Well
<1>4. /\ jobs' \in [Task -> Seq(Cron)] /\ jobs'[t] = << >>
      /\ \A s \in Task \ {t} : jobs'[s] = jobs[s]
  <2>1. << >> \in Seq(Cron)
    OBVIOUS
  <2> QED
    BY <1>2, <1>3, <2>1
<1>5. /\ worker[w].op = "delete" => Moved(w, "deleteRow")
      /\ worker[w].op # "delete" => worker'[w].pc = "idle"
  BY <1>2, <1>3, MovedAt
<1>6. ~disturbed /\ HandlerAt(w) /\ worker[w].op # "lead" =>
         \/ worker'[w].pc = "idle" /\ jobs'[t] = Wanted(t)
         \/ worker'[w].pc # "idle" /\ HandlerAt(w)'
  <2>1. CASE worker[w].op = "delete"
    BY <1>1, <1>2, <1>4, <1>5, <2>1 DEF HandlerAt, Moved
  <2>2. CASE worker[w].op # "delete"
    BY <1>1, <1>2, <1>4, <1>5, <2>2 DEF HandlerAt, Wanted
  <2> QED
    BY <2>1, <2>2
<1> QED
  BY <1>1, <1>2, <1>3, <1>4, <1>6, JobStep

-----------------------------------------------------------------------------
(* SetLeader *)

\* What is known of a change of leadership that is under way.
LEMMA LeadIs ==
    ASSUME GateInv, NEW w \in Worker, worker[w].pc \in {"find", "each", "clear"}
    PROVE  /\ TypeOK /\ Leads(w) /\ worker[w] \in Thread /\ Well(worker[w])
           /\ worker[w].op = "lead" /\ disturbed \in BOOLEAN
           /\ table \in Table /\ jobs \in [Task -> Seq(Cron)]
<1>1. InFlight(w)
  BY DEF InFlight
<1> QED
  BY <1>1, InFlightIs DEF Well

LEMMA SyncFindInv ==
    ASSUME GateInv, NEW w \in Worker, SyncFind(w)
    PROVE  GateInv'
<1> DEFINE wanted == {t \in Task : Scheduled(table[t])}
           me == [worker[w] EXCEPT !.pc = "each", !.snap = table, !.todo = wanted]
<1>1. /\ worker[w].pc = "find" /\ UNCHANGED <<table, gate, jobs, ops>>
      /\ \/ worker' = [worker EXCEPT ![w] = me] /\ UNCHANGED disturbed
         \/ Stops(w) /\ disturbed' = TRUE
  BY DEF SyncFind
<1>2. /\ TypeOK /\ Leads(w) /\ worker[w] \in Thread /\ worker[w].op = "lead"
      /\ disturbed \in BOOLEAN /\ table \in Table /\ jobs \in [Task -> Seq(Cron)]
  BY <1>1, LeadIs
<1>3. CASE Stops(w) /\ disturbed' = TRUE
  <2>1. Turns(w, Idle)
    BY <1>2, <1>3, StopsAt
  <2> HIDE DEF me, wanted
  <2> QED
    BY <1>1, <1>2, <1>3, <2>1, IdleIs, LeadMoves
<1>4. CASE worker' = [worker EXCEPT ![w] = me] /\ UNCHANGED disturbed
  <2>1. /\ me \in Thread /\ me.pc = "each" /\ me.snap = table /\ me.todo = wanted
        /\ me.op = "lead"
    BY <1>2 DEF Thread, Pc
  <2>2. Turns(w, me)
    <3> HIDE DEF me
    <3> QED
      BY <1>2, <1>4, <2>1, Typed DEF Turns
  <2>3. Well(me)
    <3> HIDE DEF me
    <3> QED
      BY <2>1 DEF Well
  <2> HIDE DEF me
  <2>4. LeadAt(w) => LeadAt(w)'
    <3> SUFFICES ASSUME LeadAt(w) PROVE LeadAt(w)'
      OBVIOUS
    <3>1. gate
      BY <1>1, <1>2 DEF LeadAt
    <3>2. worker'[w] = me
      BY <2>2 DEF Turns
    <3> QED
      BY <1>1, <2>1, <3>1, <3>2 DEF LeadAt, Leads
  <2> QED
    BY <1>1, <1>2, <1>4, <2>1, <2>2, <2>3, <2>4, LeadMoves
<1> QED
  BY <1>1, <1>3, <1>4

LEMMA SyncEachInv ==
    ASSUME GateInv, NEW w \in Worker, NEW t \in Task, SyncEach(w, t)
    PROVE  GateInv'
<1> DEFINE me == [worker[w] EXCEPT !.pc = "register", !.task = t,
                                   !.copy = worker[w].snap[t], !.todo = worker[w].todo \ {t}]
<1>1. /\ worker[w].pc = "each" /\ t \in worker[w].todo
      /\ worker' = [worker EXCEPT ![w] = me] /\ UNCHANGED <<table, gate, jobs, ops, disturbed>>
  BY DEF SyncEach
<1>2. /\ TypeOK /\ Leads(w) /\ worker[w] \in Thread /\ Well(worker[w])
      /\ worker[w].op = "lead" /\ worker[w].snap \in Table
      /\ disturbed \in BOOLEAN /\ jobs \in [Task -> Seq(Cron)]
  BY <1>1, LeadIs DEF Thread
<1>3. Scheduled(worker[w].snap[t]) /\ worker[w].snap[t] \in Row
  BY <1>1, <1>2 DEF Well, Table, Scheduled
<1>4. /\ me \in Thread /\ me.pc = "register" /\ me.task = t /\ me.copy = worker[w].snap[t]
      /\ me.todo = worker[w].todo \ {t} /\ me.op = "lead" /\ me.snap = worker[w].snap
  BY <1>2, <1>3 DEF Thread, Pc
<1> HIDE DEF me
<1>5. Turns(w, me)
  BY <1>1, <1>2, <1>4, Typed DEF Turns
<1>6. Well(me)
  BY <1>2, <1>3, <1>4 DEF Well
<1>7. LeadAt(w) => LeadAt(w)'
  <2>1. worker'[w] = me
    BY <1>5 DEF Turns
  <2>2. \A s \in Task : Wanted(s)' = Wanted(s)
    BY <1>1 DEF Wanted
  <2> QED
    BY <1>1, <1>2, <1>3, <1>4, <2>1, <2>2 DEF LeadAt, Leads
<1> QED
  BY <1>1, <1>2, <1>4, <1>5, <1>6, <1>7, LeadMoves

LEMMA SyncCleanupInv ==
    ASSUME GateInv, NEW w \in Worker, SyncCleanup(w)
    PROVE  GateInv'
<1>1. /\ worker[w].pc = "each" /\ worker[w].todo = {} /\ Stops(w)
      /\ jobs' = [t \in Task |-> IF Scheduled(worker[w].snap[t]) THEN jobs[t] ELSE << >>]
      /\ UNCHANGED <<table, gate, ops, disturbed>>
  BY DEF SyncCleanup
<1>2. /\ TypeOK /\ Leads(w) /\ disturbed \in BOOLEAN /\ jobs \in [Task -> Seq(Cron)]
  BY <1>1, LeadIs
<1>3. Turns(w, Idle)
  BY <1>1, <1>2, StopsAt
<1>4. jobs' \in [Task -> Seq(Cron)]
  <2>1. << >> \in Seq(Cron)
    OBVIOUS
  <2> QED
    BY <1>1, <1>2, <2>1
<1>5. LeadAt(w) => \A t \in Task : jobs'[t] = Wanted(t)'
  <2> SUFFICES ASSUME LeadAt(w), NEW t \in Task PROVE jobs'[t] = Wanted(t)'
    OBVIOUS
  <2>1. /\ gate /\ worker[w].snap = table
        /\ Scheduled(table[t]) => jobs[t] = Wanted(t)
    BY <1>1, <1>2 DEF LeadAt
  <2>2. Wanted(t)' = Wanted(t)
    BY <1>1 DEF Wanted
  <2>3. CASE Scheduled(table[t])
    BY <1>1, <2>1, <2>2, <2>3
  <2>4. CASE ~Scheduled(table[t])
    BY <1>1, <2>1, <2>2, <2>4 DEF Wanted
  <2> QED
    BY <2>3, <2>4
<1> QED
  BY <1>1, <1>2, <1>3, <1>4, <1>5, IdleIs, LeadMoves

LEMMA RemoveUserJobsInv ==
    ASSUME GateInv, NEW w \in Worker, RemoveUserJobs(w)
    PROVE  GateInv'
<1>1. /\ worker[w].pc = "clear" /\ Stops(w)
      /\ jobs' = [t \in Task |-> << >>] /\ UNCHANGED <<table, gate, ops, disturbed>>
  BY DEF RemoveUserJobs
<1>2. TypeOK /\ Leads(w) /\ disturbed \in BOOLEAN
  BY <1>1, LeadIs
<1>3. Turns(w, Idle)
  BY <1>1, <1>2, StopsAt
<1>4. jobs' \in [Task -> Seq(Cron)] /\ \A t \in Task : jobs'[t] = << >>
  <2>1. << >> \in Seq(Cron)
    OBVIOUS
  <2> QED
    BY <1>1, <2>1
<1>5. LeadAt(w) => \A t \in Task : jobs'[t] = Wanted(t)'
  BY <1>1, <1>2, <1>4 DEF LeadAt, Wanted
<1> QED
  BY <1>1, <1>2, <1>3, <1>4, <1>5, IdleIs, LeadMoves

LEMMA SetLeaderInv ==
    ASSUME GateInv, NEW w \in Worker, NEW value \in BOOLEAN, SetLeader(w, value)
    PROVE  GateInv'
<1> DEFINE pc == IF value THEN "find" ELSE "clear"
<1>1. /\ gate' = value /\ Begins(w, "lead", Idle.task, pc, NoRow)
      /\ disturbed' = Overlaps("lead", Idle.task) /\ UNCHANGED <<table, jobs>>
  BY DEF SetLeader
<1>2. pc \in Pc /\ pc \in {"find", "clear"} /\ (pc = "clear" <=> ~value) /\ TypeOK
  BY DEF Pc, GateInv
<1> HIDE DEF pc
<1>3. /\ ~InFlight(w) /\ ops' \in 0 .. MaxOps /\ Turns(w, worker'[w])
      /\ worker'[w].op = "lead" /\ worker'[w].pc = pc /\ worker'[w].todo = {}
  BY <1>1, <1>2, IdleIs, BeginsAt DEF Op
<1>4. TypeOK'
  <2>1. disturbed' \in BOOLEAN
    BY <1>1 DEF Overlaps
  <2> QED
    BY <1>1, <1>3, <2>1 DEF GateInv, TypeOK, Turns, Thread
<1>5. Structured'
  <2>1. Well(worker'[w])
    BY <1>2, <1>3 DEF Well
  <2> QED
    BY <1>3, <2>1, StructuredStep DEF GateInv
<1>6. ASSUME ~disturbed' PROVE Undisturbed'
  <2>1. \A v \in Worker \ {w} : ~InFlight(v)
    BY <1>1, <1>6 DEF Overlaps
  <2>2. LeadAt(w)'
    BY <1>1, <1>2, <1>3 DEF LeadAt
  <2>3. pc # "idle"
    BY <1>2
  <2> QED
    BY <1>3, <2>1, <2>2, <2>3, LeadStep
<1> QED
  BY <1>4, <1>5, <1>6 DEF GateInv

\* Without leadership no row asks for a job, so another node may write any.
LEMMA OtherNodeInv ==
    ASSUME GateInv, NEW t \in Task, NEW row \in Row \cup {NoRow}, OtherNodeWrites(t, row)
    PROVE  GateInv'
<1>1. /\ ops < MaxOps /\ ops' = ops + 1 /\ table' = [table EXCEPT ![t] = row]
      /\ disturbed' = (disturbed \/ gate) /\ UNCHANGED <<gate, jobs, worker>>
  BY DEF OtherNodeWrites
<1>2. TypeOK'
  <2>1. table' \in Table /\ disturbed' \in BOOLEAN
    BY <1>1 DEF GateInv, TypeOK, Table
  <2>2. ops' \in 0 .. MaxOps
    BY <1>1, GateAssumption DEF GateInv, TypeOK, GateAssumption
  <2> QED
    BY <1>1, <2>1, <2>2 DEF GateInv, TypeOK
<1>3. Structured'
  BY <1>1 DEF GateInv, Structured
<1>4. ASSUME ~disturbed' PROVE Undisturbed'
  <2>1. ~gate /\ ~gate' /\ Undisturbed
    BY <1>1, <1>4 DEF GateInv
  <2>2. \A s \in Task : Wanted(s) = << >> /\ Wanted(s)' = << >>
    BY <2>1 DEF Wanted
  <2>3. /\ \A v \in Worker : (Leads(v)' <=> Leads(v)) /\ (InFlight(v)' <=> InFlight(v))
        /\ \A v \in Worker, s \in Task : Handles(v, s)' <=> Handles(v, s)
    BY <1>1 DEF Leads, Handles, InFlight
  <2>4. Alone'
    BY <2>1, <2>3 DEF Undisturbed, Alone
  <2>5. Resting'
    BY <1>1, <2>1, <2>2, <2>3 DEF Undisturbed, Resting
  <2>6. ASSUME NEW v \in Worker PROVE HandlerAt(v)' /\ LeadAt(v)'
    <3>1. HandlerAt(v) /\ LeadAt(v) /\ Structured
      BY <2>1 DEF Undisturbed, GateInv
    <3>2. worker[v].task \in Task
      BY Typed DEF GateInv, Thread
    <3>3. HandlerAt(v)'
      BY <1>1, <2>1, <2>2, <2>3, <3>1, <3>2 DEF HandlerAt
    <3>4. LeadAt(v)'
      BY <1>1, <2>1, <2>3, <3>1 DEF LeadAt
    <3> QED
      BY <3>3, <3>4
  <2> QED
    BY <2>4, <2>5, <2>6 DEF Undisturbed
<1> QED
  BY <1>2, <1>3, <1>4 DEF GateInv

-----------------------------------------------------------------------------
\* At the start the gate is closed and nothing is registered or under way.
LEMMA InitInv == Init => GateInv
<1> SUFFICES ASSUME Init PROVE GateInv
  OBVIOUS
<1>1. /\ worker \in [Worker -> Thread] /\ \A w \in Worker : worker[w] = Idle
      /\ \A t \in Task : jobs[t] = << >>
  BY IdleIs DEF Init
<1>2. TypeOK
  <2>1. jobs \in [Task -> Seq(Cron)]
    <3>1. << >> \in Seq(Cron)
      OBVIOUS
    <3> QED
      BY <3>1 DEF Init
  <2>2. ops \in 0 .. MaxOps
    BY GateAssumption DEF Init, GateAssumption
  <2> QED
    BY <1>1, <2>1, <2>2 DEF Init, TypeOK, Thread
<1>3. Structured
  BY <1>1, IdleIs DEF Structured
<1>4. \A w \in Worker : ~InFlight(w)
  BY <1>1, IdleIs DEF InFlight
<1>5. Undisturbed
  <2>1. \A t \in Task : jobs[t] = Wanted(t)
    BY <1>1 DEF Init, Wanted
  <2> QED
    BY <1>4, <2>1 DEF Undisturbed, Alone, Resting, HandlerAt, LeadAt, Leads, Handles
<1> QED
  BY <1>2, <1>3, <1>5 DEF GateInv

\* Every step keeps the invariant.
LEMMA NextInv == GateInv /\ [Next]_vars => GateInv'
<1> SUFFICES ASSUME GateInv, [Next]_vars PROVE GateInv'
  OBVIOUS
<1>1. CASE UNCHANGED vars
  BY <1>1 DEF vars, GateInv, TypeOK, Structured, Undisturbed, Alone, Resting, HandlerAt,
      LeadAt, Leads, Handles, InFlight, Wanted
<1>2. ASSUME NEW w \in Worker, Step(w) PROVE GateInv'
  BY <1>2, UpdateSaveInv, DeleteRowInv, RegisterInv, RegisterRemovesInv, RegisterAddsInv,
     DropInv, DropRemovesInv, SyncFindInv, SyncEachInv, SyncCleanupInv, RemoveUserJobsInv
  DEF Step
<1>3. ASSUME NEW w \in Worker, NEW t \in Task, Handler(w, t) PROVE GateInv'
  BY <1>3, HandlerInv
<1>4. ASSUME NEW w \in Worker, NEW value \in BOOLEAN, SetLeader(w, value) PROVE GateInv'
  BY <1>4, SetLeaderInv
<1>5. ASSUME NEW t \in Task, NEW row \in Row \cup {NoRow}, OtherNodeWrites(t, row)
      PROVE  GateInv'
  BY <1>5, OtherNodeInv
<1> QED
  BY <1>1, <1>2, <1>3, <1>4, <1>5 DEF Next

\* GateInv holds in every reachable state, for any numbers of tasks, goroutines
\* and operations: what SetLeader and the task handlers do to the jobs of a node.
THEOREM GateSafe == Spec => []GateInv
<1>1. Init => GateInv
  BY InitInv
<1>2. GateInv /\ [Next]_vars => GateInv'
  BY NextInv
<1> QED
  BY <1>1, <1>2, PTL DEF Spec

\* Every variable keeps its type.
THEOREM TypeCorrect == Spec => []TypeOK
<1>1. GateInv => TypeOK
  BY DEF GateInv
<1> QED
  BY <1>1, GateSafe, PTL

\* Whenever nothing is under way after an undisturbed change of leadership, the
\* jobs are those that the gate and the tables ask for.
THEOREM JobsAsWanted == Spec => []JobsMatchTable
<1>1. GateInv => JobsMatchTable
  BY DEF GateInv, Undisturbed, Resting, Leads, Handles, Quiet, JobsMatchTable
<1> QED
  BY <1>1, GateSafe, PTL
=============================================================================
