---------------------------- MODULE SchedulerGate ----------------------------
(***************************************************************************)
(* The cron jobs of one node: the leader gate and the registry of          *)
(* internal/scheduler/service.go, and the task handlers of internal/api    *)
(* that write a task and then its job.                                     *)
(*                                                                         *)
(* The gate is flipped by the callbacks of the election, in goroutines of  *)
(* their own; a gate that opens rebuilds the jobs from the table, one that *)
(* closes drops them all.  Nothing but the gate's own mutex keeps these    *)
(* and the handlers apart.  A check task is registered like a sync task;   *)
(* one without a cron expression is treated like a disabled one.           *)
(***************************************************************************)
EXTENDS Naturals, Sequences

CONSTANTS
    Task,
    Cron,    \* cron expressions, all valid
    Worker,  \* goroutines: requests being handled and callbacks of the election
    NoRow,   \* no row in the table
    MaxOps   \* model bound: operations begun

ASSUME GateAssumption ==
    /\ MaxOps \in Nat /\ Task # {}
    /\ NoRow \notin [enabled : BOOLEAN, cron : Cron]

VARIABLES
    table,     \* the task tables of the shared database
    gate,      \* Service.leader
    jobs,      \* the cron expressions a task has jobs for, oldest first
    worker,    \* the goroutines
    ops,       \* operations begun
    disturbed  \* history: something happened that only the next rebuild repairs

vars == <<table, gate, jobs, worker, ops, disturbed>>

Row == [enabled : BOOLEAN, cron : Cron]
Table == [Task -> Row \cup {NoRow}]

Op == {"none", "create", "update", "delete", "lead"}
Pc == {"idle", "save", "register", "remove", "add", "drop", "dropping", "deleteRow",
       "find", "each", "clear"}

Empty == [t \in Task |-> NoRow]
Idle == [op |-> "none", pc |-> "idle", task |-> CHOOSE t \in Task : TRUE, copy |-> NoRow,
         todo |-> {}, snap |-> Empty]

TypeOK ==
    /\ table \in Table
    /\ gate \in BOOLEAN
    /\ jobs \in [Task -> Seq(Cron)]
    /\ worker \in [Worker -> [op : Op, pc : Pc, task : Task, copy : Row \cup {NoRow},
                              todo : SUBSET Task, snap : Table]]
    /\ ops \in 0 .. MaxOps
    /\ disturbed \in BOOLEAN

Init ==
    /\ table \in Table
    /\ gate = FALSE
    /\ jobs = [t \in Task |-> << >>]
    /\ worker = [w \in Worker |-> Idle]
    /\ ops = 0
    /\ disturbed = FALSE

-----------------------------------------------------------------------------
Scheduled(row) == row # NoRow /\ row.enabled

InFlight(w) == worker[w].pc # "idle"

\* The operation op on t would overlap with another one that it conflicts with:
\* a change of leadership with everything, two handlers when it is the same task.
Overlaps(op, t) ==
    \E w \in Worker :
        InFlight(w) /\ (op = "lead" \/ worker[w].op = "lead" \/ worker[w].task = t)

Begins(w, op, t, pc, copy) ==
    /\ ~InFlight(w) /\ ops < MaxOps
    /\ ops' = ops + 1
    /\ worker' = [worker EXCEPT ![w] =
                    [Idle EXCEPT !.op = op, !.task = t, !.pc = pc, !.copy = copy]]

Goes(w, pc) == worker' = [worker EXCEPT ![w].pc = pc]
Stops(w) == worker' = [worker EXCEPT ![w] = Idle]

\* applyTaskSchedule and applyCheckSchedule
Apply(row) == IF row.enabled THEN "register" ELSE "drop"

\* What follows a registration or a removal: SyncFromDB takes the next task,
\* DeleteTask deletes the row, the other handlers are done.
After(w) ==
    CASE worker[w].op = "lead" -> Goes(w, "each")
      [] worker[w].op = "delete" -> Goes(w, "deleteRow")
      [] OTHER -> Stops(w)

-----------------------------------------------------------------------------
(* The handlers *)

CreateTask(w, t, row) ==
    /\ table[t] = NoRow
    /\ Begins(w, "create", t, Apply(row), row)
    /\ table' = [table EXCEPT ![t] = row]
    /\ disturbed' = (disturbed \/ Overlaps("create", t))
    /\ UNCHANGED <<gate, jobs>>

\* The row is loaded, and fields of the copy are changed.
UpdateTask(w, t, row) ==
    /\ table[t] # NoRow
    /\ Begins(w, "update", t, "save", row)
    /\ disturbed' = (disturbed \/ Overlaps("update", t))
    /\ UNCHANGED <<table, gate, jobs>>

\* The whole row is written, and inserted again when it has been deleted.
UpdateSave(w) ==
    /\ worker[w].pc = "save"
    /\ \/ /\ table' = [table EXCEPT ![worker[w].task] = worker[w].copy]
          /\ Goes(w, Apply(worker[w].copy))
       \/ Stops(w) /\ UNCHANGED table
    /\ UNCHANGED <<gate, jobs, ops, disturbed>>

DeleteTask(w, t) ==
    /\ table[t] # NoRow
    /\ Begins(w, "delete", t, "drop", NoRow)
    /\ disturbed' = (disturbed \/ Overlaps("delete", t))
    /\ UNCHANGED <<table, gate, jobs>>

\* The row goes after its job; an error here is ignored.
DeleteRow(w) ==
    /\ worker[w].pc = "deleteRow"
    /\ \/ /\ table' = [table EXCEPT ![worker[w].task] = NoRow]
          /\ UNCHANGED disturbed
       \/ UNCHANGED table /\ disturbed' = TRUE
    /\ Stops(w)
    /\ UNCHANGED <<gate, jobs, ops>>

\* The other node's leader writes the table.
OtherNodeWrites(t, row) ==
    /\ ops < MaxOps /\ ops' = ops + 1
    /\ table' = [table EXCEPT ![t] = row]
    /\ disturbed' = (disturbed \/ gate)
    /\ UNCHANGED <<gate, jobs, worker>>

-----------------------------------------------------------------------------
(* RegisterTask and RemoveTask: the gate is read first, then it may change *)

Register(w) ==
    /\ worker[w].pc = "register"
    /\ IF gate THEN Goes(w, "remove") ELSE After(w)
    /\ UNCHANGED <<table, gate, jobs, ops, disturbed>>

\* Mutant of RegisterRemoves: a task's old job is left beside the new one.
RegisterKeeps(w) ==
    /\ worker[w].pc = "remove"
    /\ Goes(w, "add")
    /\ UNCHANGED <<table, gate, jobs, ops, disturbed>>

RegisterRemoves(w) ==
    /\ worker[w].pc = "remove"
    /\ jobs' = [jobs EXCEPT ![worker[w].task] = << >>]
    /\ Goes(w, "add")
    /\ UNCHANGED <<table, gate, ops, disturbed>>

RegisterAdds(w) ==
    /\ worker[w].pc = "add"
    /\ jobs' = [jobs EXCEPT ![worker[w].task] = Append(@, worker[w].copy.cron)]
    /\ After(w)
    /\ UNCHANGED <<table, gate, ops, disturbed>>

Drop(w) ==
    /\ worker[w].pc = "drop"
    /\ IF gate THEN Goes(w, "dropping") ELSE After(w)
    /\ UNCHANGED <<table, gate, jobs, ops, disturbed>>

DropRemoves(w) ==
    /\ worker[w].pc = "dropping"
    /\ jobs' = [jobs EXCEPT ![worker[w].task] = << >>]
    /\ After(w)
    /\ UNCHANGED <<table, gate, ops, disturbed>>

-----------------------------------------------------------------------------
(* SetLeader *)

\* The flip; setting the gate to what it is does nothing.  A change of leadership
\* that nothing overlaps with makes up for all earlier disturbances.
SetLeader(w, value) ==
    /\ gate # value
    /\ gate' = value
    /\ Begins(w, "lead", Idle.task, IF value THEN "find" ELSE "clear", NoRow)
    /\ disturbed' = Overlaps("lead", Idle.task)
    /\ UNCHANGED <<table, jobs>>

\* SyncFromDB reads the tables; when that fails the gate stays open without jobs.
SyncFind(w) ==
    /\ worker[w].pc = "find"
    /\ \/ /\ worker' = [worker EXCEPT ![w].pc = "each", ![w].snap = table,
                                      ![w].todo = {t \in Task : Scheduled(table[t])}]
          /\ UNCHANGED disturbed
       \/ Stops(w) /\ disturbed' = TRUE
    /\ UNCHANGED <<table, gate, jobs, ops>>

SyncEach(w, t) ==
    /\ worker[w].pc = "each" /\ t \in worker[w].todo
    /\ worker' = [worker EXCEPT ![w].pc = "register", ![w].task = t,
                                ![w].copy = worker[w].snap[t],
                                ![w].todo = @ \ {t}]
    /\ UNCHANGED <<table, gate, jobs, ops, disturbed>>

\* Mutant of SyncCleanup: jobs nobody asks for any more are left alone.
SyncNoCleanup(w) ==
    /\ worker[w].pc = "each" /\ worker[w].todo = {}
    /\ Stops(w)
    /\ UNCHANGED <<table, gate, jobs, ops, disturbed>>

\* At last the jobs of tasks that the tables read did not ask for are removed.
SyncCleanup(w) ==
    /\ worker[w].pc = "each" /\ worker[w].todo = {}
    /\ jobs' = [t \in Task |-> IF Scheduled(worker[w].snap[t]) THEN jobs[t] ELSE << >>]
    /\ Stops(w)
    /\ UNCHANGED <<table, gate, ops, disturbed>>

RemoveUserJobs(w) ==
    /\ worker[w].pc = "clear"
    /\ jobs' = [t \in Task |-> << >>]
    /\ Stops(w)
    /\ UNCHANGED <<table, gate, ops, disturbed>>

-----------------------------------------------------------------------------
Handler(w, t) ==
    \/ DeleteTask(w, t)
    \/ \E row \in Row : CreateTask(w, t, row) \/ UpdateTask(w, t, row)

Step(w) ==
    \/ UpdateSave(w) \/ DeleteRow(w)
    \/ Register(w) \/ RegisterRemoves(w) \/ RegisterAdds(w) \/ Drop(w) \/ DropRemoves(w)
    \/ SyncFind(w) \/ SyncCleanup(w) \/ RemoveUserJobs(w)
    \/ \E t \in Task : SyncEach(w, t)

Next ==
    \/ \E w \in Worker :
         \/ Step(w)
         \/ \E t \in Task : Handler(w, t)
         \/ \E value \in BOOLEAN : SetLeader(w, value)
    \/ \E t \in Task, row \in Row \cup {NoRow} : OtherNodeWrites(t, row)

Spec == Init /\ [][Next]_vars

-----------------------------------------------------------------------------
(* Properties *)

Quiet == \A w \in Worker : ~InFlight(w)

Wanted(t) == IF gate /\ Scheduled(table[t]) THEN <<table[t].cron>> ELSE << >>

\* When nothing is under way, every enabled task has one job with the table's
\* cron expression on the leader, a standby has none, and nothing is scheduled
\* for a task that is disabled or gone: whatever went wrong before the last
\* change of leadership is repaired by it, and requests for different tasks may
\* overlap as they like.
JobsMatchTable == Quiet /\ ~disturbed => \A t \in Task : jobs[t] = Wanted(t)

\* Where a goroutine is, and that what becomes a job is a row.
Well(me) ==
    /\ me.pc \in {"save", "register", "remove", "add"} => me.copy \in Row
    /\ me.todo \subseteq {t \in Task : Scheduled(me.snap[t])}
    /\ me.pc \in {"find", "each", "clear"} => me.op = "lead"
    /\ me.pc \in {"save", "drop", "dropping", "deleteRow"} => me.op # "lead"
    /\ me.pc = "deleteRow" => me.op = "delete"
    /\ me.op = "delete" => me.pc \in {"drop", "dropping", "deleteRow"}

Structured == \A w \in Worker : Well(worker[w])

Leads(w) == InFlight(w) /\ worker[w].op = "lead"
Handles(w, t) == InFlight(w) /\ worker[w].op # "lead" /\ worker[w].task = t

\* A change of leadership is alone, a handler is alone with its task.
Alone ==
    /\ \A v, w \in Worker : Leads(v) /\ InFlight(w) => v = w
    /\ \A v, w \in Worker, t \in Task : Handles(v, t) /\ Handles(w, t) => v = w

\* What is under way for no goroutine is as it should be.
Resting ==
    \A t \in Task : (\A w \in Worker : ~Leads(w) /\ ~Handles(w, t)) => jobs[t] = Wanted(t)

\* The jobs of the task that handler w is at: none on a standby; the leader's
\* registration is of the row in the table.
HandlerAt(w) ==
    LET t == worker[w].task
        pc == worker[w].pc
    IN  InFlight(w) /\ worker[w].op # "lead" =>
          /\ pc = "save" => jobs[t] = Wanted(t)
          /\ ~gate => jobs[t] = << >>
          /\ pc \in {"remove", "add", "dropping"} => gate
          /\ pc \in {"add", "deleteRow"} => jobs[t] = << >>
          /\ gate /\ pc \in {"register", "remove", "add"} =>
               table[t] = worker[w].copy /\ Scheduled(table[t])
          /\ gate /\ pc \in {"drop", "dropping"} /\ worker[w].op # "delete" =>
               ~Scheduled(table[t])

\* A rebuild has registered the scheduled tasks that it is past.
LeadAt(w) ==
    LET t == worker[w].task
        pc == worker[w].pc
    IN  Leads(w) =>
          /\ pc = "clear" <=> ~gate
          /\ pc \in {"each", "register", "remove", "add"} =>
               /\ worker[w].snap = table
               /\ \A s \in Task \ worker[w].todo :
                    (pc = "each" \/ s # t) /\ Scheduled(table[s]) => jobs[s] = Wanted(s)
          /\ pc \in {"register", "remove", "add"} =>
               table[t] = worker[w].copy /\ Scheduled(table[t])
          /\ pc = "add" => jobs[t] = << >>

Undisturbed == Alone /\ Resting /\ \A w \in Worker : HandlerAt(w) /\ LeadAt(w)

\* The inductive invariant behind JobsMatchTable.
GateInv == TypeOK /\ Structured /\ (~disturbed => Undisturbed)
=============================================================================
