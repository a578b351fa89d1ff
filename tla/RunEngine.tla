------------------------------ MODULE RunEngine ------------------------------
(***************************************************************************)
(* The life of a sync run: internal/services/runner.go with the alerting   *)
(* of alerts.go and the deletion of tasks in api/handlers_tasks.go.        *)
(*                                                                         *)
(* Every node has one rcd (the rclone daemon that runs jobs), any number   *)
(* of goroutines inside RunTask (a cron job, a manual trigger, run-once)   *)
(* and one poll-running-runs job.  They share the sync_runs table.  A      *)
(* goroutine writes a row with Save: the whole row, from its own copy,     *)
(* inserted again when it is no longer there.                              *)
(***************************************************************************)
EXTENDS Naturals, Sequences, FiniteSets

CONSTANTS
    Node,
    NoNode,         \* the empty node_id of rows older than node attribution
    Task,
    Trigger,        \* goroutines that may be inside RunTask at the same time
    Legacy,         \* whether the table starts with a row without a node id
    MaxRuns,        \* model bound: rows ever created
    MaxCrashes,     \* model bound: process crashes
    MaxRcdRestarts, \* model bound: rcd restarts
    MaxDeletes      \* model bound: task deletions

ASSUME RunAssumption ==
    /\ NoNode \notin Node /\ Task # {}
    /\ Legacy \in BOOLEAN
    /\ MaxRuns \in Nat \ {0} /\ MaxCrashes \in Nat
    /\ MaxRcdRestarts \in Nat /\ MaxDeletes \in Nat

VARIABLES
    tasks,    \* sync_tasks: the tasks that exist
    row,      \* sync_runs, by id; status "none" where there is no row
    lastId,   \* AUTO_INCREMENT of sync_runs
    rcd,      \* each node's rcd: its jobs, by job id
    up,       \* nodes whose process runs
    trig,     \* the goroutines inside RunTask
    poll,     \* each node's poll-running-runs job
    deleting, \* tasks whose DeleteTask handler has deleted the runs already
    budget,   \* crashes, rcd restarts and deletions that may still happen
    fired,    \* history: firing webhooks delivered, by run
    done      \* history: runs whose own sync job succeeded

history == <<fired, done>>
vars == <<tasks, row, lastId, rcd, up, trig, poll, deleting, budget, history>>

RunId == 1 .. MaxRuns
NoJob == 0
Active == {"pending", "running"}
Terminal == {"success", "failed", "skipped"}

Row == [status : {"none"} \cup Active \cup Terminal, task : Task,
        node : Node \cup {NoNode}, job : Nat, notified : BOOLEAN]
Job == [run : RunId, state : {"executing", "ok", "error"}]

TrigPc == {"idle", "passed", "created", "submitted", "failing", "notify", "mark"}
PollPc == {"idle", "polling", "save", "notify", "mark", "resolve", "clear"}

TypeOK ==
    /\ tasks \subseteq Task
    /\ row \in [RunId -> Row]
    /\ lastId \in 0 .. MaxRuns
    /\ rcd \in [Node -> Seq(Job)]
    /\ up \subseteq Node
    /\ trig \in [Trigger -> [pc : TrigPc, run : RunId, copy : Row]]
    /\ poll \in [Node -> [pc : PollPc, todo : SUBSET RunId, run : RunId, copy : Row]]
    /\ deleting \subseteq Task
    /\ budget \in [crash : Nat, rcd : Nat, delete : Nat]
    /\ fired \in [RunId -> Nat]
    /\ done \subseteq RunId

NoRow == [status |-> "none", task |-> CHOOSE t \in Task : TRUE, node |-> NoNode,
          job |-> NoJob, notified |-> FALSE]
NoTrig == [pc |-> "idle", run |-> 1, copy |-> NoRow]
NoPoll == [pc |-> "idle", todo |-> {}, run |-> 1, copy |-> NoRow]

\* A legacy row is running, its job is known to one rcd, its node_id is empty.
Init ==
    /\ tasks = Task
    /\ \E home \in Node :
         /\ row = [r \in RunId |->
                     IF Legacy /\ r = 1
                       THEN [NoRow EXCEPT !.status = "running", !.job = 1]
                       ELSE NoRow]
         /\ rcd = [n \in Node |->
                     IF Legacy /\ n = home
                       THEN <<[run |-> 1, state |-> "executing"]>>
                       ELSE << >>]
    /\ lastId = IF Legacy THEN 1 ELSE 0
    /\ up = Node
    /\ trig = [w \in Trigger |-> NoTrig]
    /\ poll = [n \in Node |-> NoPoll]
    /\ deleting = {}
    /\ budget = [crash |-> MaxCrashes, rcd |-> MaxRcdRestarts, delete |-> MaxDeletes]
    /\ fired = [r \in RunId |-> 0]
    /\ done = {}

-----------------------------------------------------------------------------
(* RunTask *)

\* Where goroutine w goes next, and the copy of its run it holds there.
TrigGoes(w, pc, copy) ==
    trig' = [trig EXCEPT ![w] =
               IF pc = "idle" THEN NoTrig ELSE [@ EXCEPT !.pc = pc, !.copy = copy]]

Save(r, rec) == row' = [row EXCEPT ![r] = rec]

\* A database call may fail, and the caller go on without the write.
TrySave(r, rec) == Save(r, rec) \/ UNCHANGED row

Copy(w) == trig[w].copy
Insert(rec) == lastId' = lastId + 1 /\ Save(lastId + 1, rec)

HasActive(t) == \E r \in RunId : row[r].task = t /\ row[r].status \in Active

\* The task is loaded and an active run of it looked for; when there is one
\* the trigger leaves a skipped row and returns.
Guard(w, n, t) ==
    /\ trig[w].pc = "idle" /\ n \in up /\ t \in tasks
    /\ LET new == [NoRow EXCEPT !.task = t, !.node = n]
       IN  IF HasActive(t)
             THEN /\ lastId < MaxRuns
                  /\ Insert([new EXCEPT !.status = "skipped"])
                  /\ UNCHANGED trig
             ELSE TrigGoes(w, "passed", new) /\ UNCHANGED <<row, lastId>>
    /\ UNCHANGED <<tasks, rcd, up, poll, deleting, budget, history>>

\* The pending row is inserted; RunTask returns when that fails.
CreateFails(w) ==
    /\ trig[w].pc = "passed"
    /\ TrigGoes(w, "idle", NoRow)
    /\ UNCHANGED <<tasks, row, lastId, rcd, up, poll, deleting, budget, history>>

Create(w) ==
    /\ trig[w].pc = "passed" /\ lastId < MaxRuns
    /\ LET pending == [Copy(w) EXCEPT !.status = "pending"]
       IN  /\ Insert(pending)
           /\ trig' = [trig EXCEPT ![w] =
                         [pc |-> "created", run |-> lastId + 1, copy |-> pending]]
    /\ UNCHANGED <<tasks, rcd, up, poll, deleting, budget, history>>

\* runPreCheck decides against the sync: both sides agree, or the check failed
\* to complete.
PreCheckSkips(w) ==
    /\ trig[w].pc = "created"
    /\ Save(trig[w].run, [Copy(w) EXCEPT !.status = "skipped"])
    /\ TrigGoes(w, "idle", NoRow)
    /\ UNCHANGED <<tasks, lastId, rcd, up, poll, deleting, budget, history>>

\* Mutant of Submit: the running row is saved here already, and once more later.
SubmitSavesTwice(w) ==
    /\ trig[w].pc = "created"
    /\ LET n == Copy(w).node
           running == [Copy(w) EXCEPT !.status = "running", !.job = Len(rcd[n]) + 1]
       IN  /\ rcd' = [rcd EXCEPT ![n] =
                        Append(@, [run |-> trig[w].run, state |-> "executing"])]
           /\ TrigGoes(w, "submitted", running)
           /\ Save(trig[w].run, running)
    /\ UNCHANGED <<tasks, lastId, up, poll, deleting, budget, history>>

\* Mutant of Submit: a call that times out is made again, and two jobs run.
SubmitRetried(w) ==
    /\ trig[w].pc = "created"
    /\ LET n == Copy(w).node
           job == [run |-> trig[w].run, state |-> "executing"]
       IN  /\ rcd' = [rcd EXCEPT ![n] = @ \o <<job, job>>]
           /\ TrigGoes(w, "submitted",
                       [Copy(w) EXCEPT !.status = "running", !.job = Len(rcd[n]) + 2])
    /\ UNCHANGED <<tasks, row, lastId, up, poll, deleting, budget, history>>

\* StartSync: the rcd starts a job; its answer, the job id, may be lost.
Submit(w) ==
    /\ trig[w].pc = "created"
    /\ LET n == Copy(w).node
           id == Len(rcd[n]) + 1
       IN  /\ rcd' = [rcd EXCEPT ![n] =
                        Append(@, [run |-> trig[w].run, state |-> "executing"])]
           /\ \/ TrigGoes(w, "submitted",
                          [Copy(w) EXCEPT !.status = "running", !.job = id])
              \/ TrigGoes(w, "failing", Copy(w))
    /\ UNCHANGED <<tasks, row, lastId, up, poll, deleting, budget, history>>

\* A side that does not resolve, a pre-check that cannot start, or a rcd that
\* refuses the job.
StartFails(w) ==
    /\ trig[w].pc = "created"
    /\ TrigGoes(w, "failing", Copy(w))
    /\ UNCHANGED <<tasks, row, lastId, rcd, up, poll, deleting, budget, history>>

\* The running row is saved, with the job id; when that fails RunTask returns.
SaveRunning(w) ==
    /\ trig[w].pc = "submitted"
    /\ TrigGoes(w, "idle", NoRow)
    /\ TrySave(trig[w].run, Copy(w))
    /\ UNCHANGED <<tasks, lastId, rcd, up, poll, deleting, budget, history>>

\* Mutant of SaveFailed: a start of which no answer came is tried again.
SaveFailedRetries(w) ==
    /\ trig[w].pc = "failing"
    /\ TrigGoes(w, "created", Copy(w))
    /\ UNCHANGED <<tasks, row, lastId, rcd, up, poll, deleting, budget, history>>

\* The start failure is saved; when that fails too, RunTask returns.
SaveFailed(w) ==
    /\ trig[w].pc = "failing"
    /\ LET failed == [Copy(w) EXCEPT !.status = "failed"]
       IN  \/ Save(trig[w].run, failed) /\ TrigGoes(w, "notify", failed)
           \/ TrigGoes(w, "idle", NoRow) /\ UNCHANGED row
    /\ UNCHANGED <<tasks, lastId, rcd, up, poll, deleting, budget, history>>

\* NotifySyncRunFailure: the webhook is delivered to Alertmanager, or not.
Fire(r) == fired' = [fired EXCEPT ![r] = @ + 1]

TrigNotify(w) ==
    /\ trig[w].pc = "notify"
    /\ \/ /\ Copy(w).task \in tasks /\ Fire(trig[w].run)
          /\ TrigGoes(w, "mark", [Copy(w) EXCEPT !.notified = TRUE])
       \/ TrigGoes(w, "idle", NoRow) /\ UNCHANGED fired
    /\ UNCHANGED <<tasks, row, lastId, rcd, up, poll, deleting, budget, done>>

\* A delivered webhook is remembered in notified_at.
TrigMark(w) ==
    /\ trig[w].pc = "mark"
    /\ TrySave(trig[w].run, Copy(w))
    /\ TrigGoes(w, "idle", NoRow)
    /\ UNCHANGED <<tasks, lastId, rcd, up, poll, deleting, budget, history>>

-----------------------------------------------------------------------------
(* PollRunningRuns and PollRun *)

\* A poll that is done with its run takes the next one of the list.
PollNext(n) ==
    poll' = [poll EXCEPT ![n] =
               IF @.todo = {} THEN NoPoll
               ELSE [NoPoll EXCEPT !.pc = "polling", !.todo = poll[n].todo]]

\* Mutant of Claimed: the UPDATE forgets that node_id must be empty.
ClaimedAny(n) ==
    [r \in RunId |-> IF row[r].status = "running"
                       THEN [row[r] EXCEPT !.node = n] ELSE row[r]]

Claimed(n) ==
    [r \in RunId |-> IF row[r].status = "running" /\ row[r].node = NoNode
                       THEN [row[r] EXCEPT !.node = n] ELSE row[r]]

\* Mutant of PollBegin: every running row is polled, whoever submitted it.
PollBeginAll(n) ==
    /\ n \in up /\ poll[n].pc = "idle"
    /\ LET mine == {r \in RunId : row[r].status = "running"}
       IN  /\ mine # {}
           /\ poll' = [poll EXCEPT ![n].pc = "polling", ![n].todo = mine]
    /\ UNCHANGED <<tasks, row, lastId, rcd, up, trig, deleting, budget, history>>

\* The claim of rows without a node, which may fail, then the list of this
\* node's running rows.
PollBegin(n) ==
    /\ n \in up /\ poll[n].pc = "idle"
    /\ row' \in {Claimed(n), row}
    /\ LET mine == {r \in RunId : row'[r].status = "running" /\ row'[r].node = n}
       IN  /\ mine # {}
           /\ poll' = [poll EXCEPT ![n].pc = "polling", ![n].todo = mine]
    /\ UNCHANGED <<tasks, lastId, rcd, up, trig, deleting, budget, history>>

\* Mutant of Answer: finished is taken for success.
AnswerFinished(n, id) ==
    IF id \notin 1 .. Len(rcd[n]) THEN "failed"
    ELSE IF rcd[n][id].state = "executing" THEN "unfinished" ELSE "success"

\* Mutant of Answer: a 404 is retried like an unreachable rcd.
AnswerRetries404(n, id) ==
    IF id \notin 1 .. Len(rcd[n]) \/ rcd[n][id].state = "executing" THEN "unfinished"
    ELSE IF rcd[n][id].state = "ok" THEN "success" ELSE "failed"

\* What the rcd answers for a job id: the job under that id, or that there is
\* none; an unreachable rcd answers nothing.
Answer(n, id) ==
    IF id \in 1 .. Len(rcd[n])
      THEN CASE rcd[n][id].state = "executing" -> "unfinished"
             [] rcd[n][id].state = "ok" -> "success"
             [] OTHER -> "failed"
      ELSE "failed"

\* PollRun reads the row again and asks for its job's status.  A row that is
\* no longer running, a transient error and an unfinished job change nothing.
Query(n, r) ==
    /\ poll[n].pc = "polling" /\ r \in poll[n].todo
    /\ row[r].status = "running" /\ row[r].job # NoJob
    /\ Answer(n, row[r].job) # "unfinished"
    /\ poll' = [poll EXCEPT ![n] =
                  [pc |-> "save", todo |-> @.todo \ {r}, run |-> r,
                   copy |-> [row[r] EXCEPT !.status = Answer(n, row[r].job)]]]
    /\ UNCHANGED <<tasks, row, lastId, rcd, up, trig, deleting, budget, history>>

PollNothing(n, r) ==
    /\ poll[n].pc = "polling" /\ r \in poll[n].todo
    /\ poll' = [poll EXCEPT ![n] =
                  IF @.todo = {r} THEN NoPoll
                  ELSE [@ EXCEPT !.todo = poll[n].todo \ {r}]]
    /\ UNCHANGED <<tasks, row, lastId, rcd, up, trig, deleting, budget, history>>

\* The final status is saved; a failure is notified, a success resolves.
SaveResult(n) ==
    /\ poll[n].pc = "save"
    /\ Save(poll[n].run, poll[n].copy)
    /\ poll' = [poll EXCEPT ![n].pc =
                  IF poll[n].copy.status = "failed" THEN "notify" ELSE "resolve"]
    /\ UNCHANGED <<tasks, lastId, rcd, up, trig, deleting, budget, history>>

\* The row is still running: the next poll asks again.
SaveResultFails(n) ==
    /\ poll[n].pc = "save"
    /\ PollNext(n)
    /\ UNCHANGED <<tasks, row, lastId, rcd, up, trig, deleting, budget, history>>

\* Mutant of PollNotify: notified_at is set whether or not the webhook got through.
PollNotifyMarks(n) ==
    /\ poll[n].pc = "notify"
    /\ poll' = [poll EXCEPT ![n].pc = "mark", ![n].copy.notified = TRUE]
    /\ Fire(poll[n].run) \/ UNCHANGED fired
    /\ UNCHANGED <<tasks, row, lastId, rcd, up, trig, deleting, budget, done>>

PollNotify(n) ==
    /\ poll[n].pc = "notify"
    /\ \/ /\ poll[n].copy.task \in tasks /\ ~poll[n].copy.notified
          /\ Fire(poll[n].run)
          /\ poll' = [poll EXCEPT ![n].pc = "mark", ![n].copy.notified = TRUE]
       \/ PollNext(n) /\ UNCHANGED fired
    /\ UNCHANGED <<tasks, row, lastId, rcd, up, trig, deleting, budget, done>>

PollMark(n) ==
    /\ poll[n].pc = "mark"
    /\ TrySave(poll[n].run, poll[n].copy)
    /\ PollNext(n)
    /\ UNCHANGED <<tasks, lastId, rcd, up, trig, deleting, budget, history>>

\* NotifySyncRunResolved: when a webhook is configured, the latest failed run of
\* the task that was notified is resolved, delivered or not.
Unresolved(t) ==
    {r \in RunId : row[r].task = t /\ row[r].status = "failed" /\ row[r].notified}

Resolve(n) ==
    /\ poll[n].pc = "resolve"
    /\ \/ PollNext(n)
       \/ LET t == poll[n].copy.task
          IN  /\ t \in tasks
              /\ \E prev \in Unresolved(t) :
                   /\ \A r \in Unresolved(t) : r <= prev
                   /\ poll' = [poll EXCEPT ![n].pc = "clear", ![n].run = prev,
                                 ![n].copy = [row[prev] EXCEPT !.notified = FALSE]]
    /\ UNCHANGED <<tasks, row, lastId, rcd, up, trig, deleting, budget, history>>

Clear(n) ==
    /\ poll[n].pc = "clear"
    /\ TrySave(poll[n].run, poll[n].copy)
    /\ PollNext(n)
    /\ UNCHANGED <<tasks, lastId, rcd, up, trig, deleting, budget, history>>
-----------------------------------------------------------------------------
(* Around the service *)

\* A job ends in the rcd, well or badly.
JobEnds(n, id) ==
    /\ id \in 1 .. Len(rcd[n]) /\ rcd[n][id].state = "executing"
    /\ \E end \in {"ok", "error"} :
         /\ rcd' = [rcd EXCEPT ![n][id].state = end]
         /\ done' = IF end = "ok" THEN done \cup {rcd[n][id].run} ELSE done
    /\ UNCHANGED <<tasks, row, lastId, up, trig, poll, deleting, budget, fired>>

\* A restarted rcd has forgotten its jobs and counts job ids from one again.
RcdRestart(n) ==
    /\ budget.rcd > 0 /\ rcd[n] # << >>
    /\ rcd' = [rcd EXCEPT ![n] = << >>]
    /\ budget' = [budget EXCEPT !.rcd = @ - 1]
    /\ UNCHANGED <<tasks, row, lastId, up, trig, poll, deleting, history>>

\* A node's process dies with all its goroutines; its rcd lives on.
Crash(n) ==
    /\ n \in up /\ budget.crash > 0
    /\ up' = up \ {n}
    /\ trig' = [w \in Trigger |-> IF Copy(w).node = n THEN NoTrig ELSE trig[w]]
    /\ poll' = [poll EXCEPT ![n] = NoPoll]
    /\ budget' = [budget EXCEPT !.crash = @ - 1]
    /\ UNCHANGED <<tasks, row, lastId, rcd, deleting, history>>

Restart(n) ==
    /\ n \in Node \ up
    /\ up' = up \cup {n}
    /\ UNCHANGED <<tasks, row, lastId, rcd, trig, poll, deleting, budget, history>>

\* DeleteTask deletes the runs, then the task, in two statements.
DeleteRuns(t) ==
    /\ t \in tasks \ deleting /\ budget.delete > 0
    /\ row' = [r \in RunId |-> IF row[r].task = t THEN NoRow ELSE row[r]]
    /\ deleting' = deleting \cup {t}
    /\ budget' = [budget EXCEPT !.delete = @ - 1]
    /\ UNCHANGED <<tasks, lastId, rcd, up, trig, poll, history>>

DeleteTask(t) ==
    /\ t \in deleting
    /\ tasks' = tasks \ {t} /\ deleting' = deleting \ {t}
    /\ UNCHANGED <<row, lastId, rcd, up, trig, poll, budget, history>>

-----------------------------------------------------------------------------
TrigStep(w) ==
    \/ CreateFails(w) \/ Create(w) \/ PreCheckSkips(w) \/ Submit(w) \/ StartFails(w) \/ SaveRunning(w)
    \/ SaveFailed(w) \/ TrigNotify(w) \/ TrigMark(w)

PollEnds(n) ==
    SaveResult(n) \/ SaveResultFails(n) \/ PollNotify(n) \/ PollMark(n) \/ Resolve(n) \/ Clear(n)

PollStep(n) ==
    \/ PollBegin(n) \/ PollEnds(n)
    \/ \E r \in RunId : Query(n, r) \/ PollNothing(n, r)

Around ==
    \/ \E n \in Node, id \in 1 .. MaxRuns : JobEnds(n, id)
    \/ \E n \in Node : RcdRestart(n) \/ Crash(n) \/ Restart(n)
    \/ \E t \in Task : DeleteRuns(t) \/ DeleteTask(t)

Next ==
    \/ \E w \in Trigger : TrigStep(w) \/ \E n \in Node, t \in Task : Guard(w, n, t)
    \/ \E n \in Node : PollStep(n)
    \/ Around

Spec == Init /\ [][Next]_vars

\* Goroutines run on, gocron starts the poll job every POLL_INTERVAL_SECONDS, a
\* job ends some day; a rcd that can answer is not unreachable for ever, and the
\* database does not refuse a save for ever.
Fairness ==
    /\ \A w \in Trigger : WF_vars(TrigStep(w))
    /\ \A n \in Node :
         /\ WF_vars(PollStep(n)) /\ SF_vars(SaveResult(n))
         /\ \A r \in RunId : SF_vars(Query(n, r)) /\ WF_vars(JobEnds(n, r))

FairSpec == Spec /\ Fairness

-----------------------------------------------------------------------------
(* Properties *)

Executing(r) ==
    \E n \in Node : \E id \in 1 .. Len(rcd[n]) :
        rcd[n][id] = [run |-> r, state |-> "executing"]

\* docs/api.md, trigger: when the task already has an active run, the new one is
\* recorded as skipped; so no task ever has two pending or running runs.
OneActiveRun ==
    \A r, s \in RunId :
        row[r].status \in Active /\ row[s].status \in Active
            /\ row[r].task = row[s].task => r = s

\* The row without a node id: only its claim, by whoever comes first, says which
\* rcd is asked for its job.
Inherited == IF Legacy THEN {1} ELSE {}

\* A run whose job id was recorded is not given up while that job still copies
\* files: polls by other nodes, crashes, rcd restarts with reused job ids and
\* deletions never turn its row terminal under the job.  The concurrency guard
\* relies on it.
JobKeepsRunActive ==
    \A r \in RunId \ Inherited :
        row[r].status \in Terminal /\ row[r].job # NoJob => ~Executing(r)

\* A finished run stays what it was, until it is deleted: no whole-row Save
\* from a stale copy revives or rewrites it.
FinishedRunsStay ==
    \A r \in RunId :
        row[r].status \in Terminal => row'[r].status \in {row[r].status, "none"}
TerminalIsFinal == [][FinishedRunsStay]_vars

\* Webhook de-duplication by notified_at: however triggers, polls, crashes and
\* resolutions interleave, a run fires at most once, and a row marked as
\* notified did fire.
AlertOnce ==
    \A r \in RunId : fired[r] <= 1 /\ (row[r].notified => fired[r] = 1)

\* Goroutine w has created run r and still writes to it; the poll job of n does.
Holds(w, r) ==
    trig[w].pc \in {"created", "submitted", "failing", "notify", "mark"} /\ trig[w].run = r
Polls(n, r) == poll[n].pc \in {"save", "notify", "mark"} /\ poll[n].run = r
Clears(n, r) == poll[n].pc = "clear" /\ poll[n].run = r

\* Nothing is known of an id that has not been given out.
FreshIds ==
    /\ \A r \in RunId : r > lastId => row[r].status = "none" /\ fired[r] = 0
    /\ \A r \in RunId : row[r].status = "none" => ~row[r].notified
    /\ \A r \in RunId, w \in Trigger : Holds(w, r) => r <= lastId
    /\ \A r \in RunId, n \in Node :
         Polls(n, r) \/ Clears(n, r) \/ r \in poll[n].todo => r <= lastId

\* A run has one writer: the goroutine that created it, until its job id is
\* saved, then the poll job of one node, then only resolutions.
OneWriter ==
    /\ \A r \in RunId, v, w \in Trigger : Holds(v, r) /\ Holds(w, r) => v = w
    /\ \A r \in RunId, m, n \in Node : Polls(m, r) /\ Polls(n, r) => m = n
    /\ \A r \in RunId, w \in Trigger, n \in Node :
         Holds(w, r) => ~Polls(n, r) /\ ~Clears(n, r) /\ r \notin poll[n].todo
    /\ \A r \in RunId, m, n \in Node :
         Polls(m, r) => ~Clears(n, r) /\ r \notin poll[n].todo
    /\ \A r \in RunId, n \in Node :
         (Polls(n, r) \/ r \in poll[n].todo) /\ row[r].status = "running"
             => row[r].node = n

\* What the row of run r looks like, and whether r has fired, while its writer is
\* about to save rec: it may have been deleted.
Writing(r, rec, statuses, shots) ==
    /\ row[r].status \in statuses \cup {"none"} /\ ~row[r].notified
    /\ fired[r] = shots /\ (rec.notified <=> shots = 1)

TrigState(w) ==
    /\ trig[w].pc = "passed" => ~Copy(w).notified
    /\ trig[w].pc \in {"created", "submitted", "failing"} =>
         Writing(trig[w].run, Copy(w), {"pending"}, 0) /\ Copy(w).status # "none"
    /\ trig[w].pc \in {"notify", "mark"} =>
         /\ Writing(trig[w].run, Copy(w), {"failed"}, IF trig[w].pc = "mark" THEN 1 ELSE 0)
         /\ Copy(w).status = "failed"

PollState(n) ==
    /\ poll[n].pc = "save" =>
         /\ Writing(poll[n].run, poll[n].copy, {"running"}, 0)
         /\ poll[n].copy.status \in {"success", "failed"}
    /\ poll[n].pc \in {"notify", "mark"} =>
         /\ Writing(poll[n].run, poll[n].copy, {"failed"}, IF poll[n].pc = "mark" THEN 1 ELSE 0)
         /\ poll[n].copy.status = "failed"
    /\ poll[n].pc = "clear" =>
         /\ row[poll[n].run].status \in {"failed", "none"} /\ fired[poll[n].run] = 1
         /\ poll[n].copy.status = "failed" /\ ~poll[n].copy.notified

WriterState == (\A w \in Trigger : TrigState(w)) /\ (\A n \in Node : PollState(n))

\* A running run has not fired, and waits for a poll alone; a notified one has
\* fired, and has no writer left.
Settled ==
    \A r \in RunId :
        /\ row[r].status = "running" =>
             fired[r] = 0 /\ ~row[r].notified /\ \A w \in Trigger : ~Holds(w, r)
        /\ row[r].notified =>
             /\ fired[r] = 1
             /\ \A w \in Trigger : ~Holds(w, r)
             /\ \A n \in Node : ~Polls(n, r)
        /\ fired[r] <= 1

\* A goroutine inside RunTask writes a run of the node it runs on.
OnLiveNode == \A w \in Trigger : trig[w].pc # "idle" => Copy(w).node \in up

\* The inductive invariant behind AlertOnce and TerminalIsFinal.
RunInv == TypeOK /\ OnLiveNode /\ FreshIds /\ OneWriter /\ WriterState /\ Settled

\* Until a rcd restarts, a run reported as a success is one whose own job
\* succeeded, though every rcd counts its job ids from one.
SuccessIsTrue ==
    \A r \in RunId \ Inherited :
        row[r].status = "success" /\ budget.rcd = MaxRcdRestarts => r \in done

\* What a row or a copy of run r says of the run's job: on which rcd and under
\* which id it is, if that has not forgotten it; and that it has ended, when
\* the run has.
Known(r, rec) ==
    /\ rec.status \in {"none", "pending"} => rec.job = NoJob
    /\ rec.status \in {"running", "success"} => rec.job # NoJob
    /\ rec.job # NoJob =>
         /\ rec.node \in Node
         /\ \A n \in Node : \A id \in DOMAIN rcd[n] :
              rcd[n][id].run = r => n = rec.node /\ id = rec.job
         /\ rec.status \in Terminal => ~Executing(r)
         /\ budget.rcd = MaxRcdRestarts =>
              /\ rec.job \in DOMAIN rcd[rec.node] /\ rcd[rec.node][rec.job].run = r
              /\ rec.status = "success" => r \in done

\* Jobs are those of runs given out, and of none that is still to be submitted.
JobsOfRuns ==
    /\ \A n \in Node : \A id \in DOMAIN rcd[n] :
         /\ rcd[n][id].run <= lastId
         /\ rcd[n][id].state = "ok" => rcd[n][id].run \in done
         /\ \A w \in Trigger : trig[w].pc = "created" => rcd[n][id].run # trig[w].run
    /\ \A w \in Trigger :
         trig[w].pc \notin {"idle", "submitted"} => Copy(w).job = NoJob

\* Rows, and copies about to be saved, are right about their jobs.
JobsKnown ==
    /\ \A r \in RunId \ Inherited : Known(r, row[r])
    /\ \A w \in Trigger :
         trig[w].pc = "submitted" /\ trig[w].run \notin Inherited =>
             Known(trig[w].run, Copy(w)) /\ Copy(w).status = "running"
    /\ \A n \in Node :
         poll[n].pc \in {"save", "notify", "mark", "clear"} /\ poll[n].run \notin Inherited =>
             Known(poll[n].run, poll[n].copy)

\* The inductive invariant, on top of RunInv, behind JobKeepsRunActive and
\* SuccessIsTrue.
JobInv == budget.rcd <= MaxRcdRestarts /\ JobsOfRuns /\ JobsKnown

\* No two jobs are of one run.
OneJob ==
    \A m, n \in Node : \A id \in DOMAIN rcd[m], k \in DOMAIN rcd[n] :
        rcd[m][id].run = rcd[n][k].run => m = n /\ id = k

\* What a poll is about to save is how the run's job ended, if the rcd still has it;
\* and what a goroutine with a job id is about to save is that the run is running.
Verdicts ==
    /\ \A n \in Node :
         poll[n].pc = "save" /\ poll[n].run \notin Inherited =>
             \A m \in Node : \A id \in DOMAIN rcd[m] :
                 rcd[m][id].run = poll[n].run =>
                     rcd[m][id].state =
                         IF poll[n].copy.status = "success" THEN "ok" ELSE "error"
    /\ \A w \in Trigger : trig[w].pc = "submitted" => Copy(w).status = "running"

\* The inductive invariant, on top of RunInv, behind ImplementsLife.
LifeInv == JobInv /\ OneJob /\ Verdicts

\* A goroutine decides on a run, knows that its job was started, or that no answer
\* came; the rows' statuses, and all the jobs that the rcds know.
RunsAt(pc) == {trig[w].run : w \in {v \in Trigger : trig[v].pc = pc}}
Deciding == RunsAt("created")
Accepted == RunsAt("submitted")
Refused == RunsAt("failing")
Statuses == [r \in RunId |-> row[r].status]
AllJobs == UNION {{rcd[n][id] : id \in DOMAIN rcd[n]} : n \in Node}

\* A run lives as RunLife says: whatever goroutines, polls, crashes, rcd restarts,
\* lost answers, failed saves and deletions interleave, its job is started at most
\* once, its row goes forward only and ends as its job did, and its alert is fired
\* once, after it failed.
Life == INSTANCE RunLife WITH
    Run <- RunId, issued <- lastId, status <- Statuses, jobs <- AllJobs,
    deciding <- Deciding, accepted <- Accepted, refused <- Refused, alerts <- fired

ImplementsLife == Life!LifeSpec

\* "Exactly one node polls them": two nodes never hold a result for one run,
\* rows without a node id included.
PolledByOneNode ==
    \A m, n \in Node :
        poll[m].pc = "save" /\ poll[n].pc = "save" /\ poll[m].run = poll[n].run
            => m = n

\* A running run of a live node is completed: its job ends or is gone, and the
\* poll finds out.
RunCompletes ==
    \A r \in RunId, n \in Node :
        (row[r].status = "running" /\ row[r].node = n /\ n \in up)
            ~> (row[r].status # "running" \/ n \notin up)
=============================================================================
