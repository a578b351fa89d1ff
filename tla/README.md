# Formal models of rclone-sync

TLA+ models of the service in this repository (Go, `internal/`): a web console
that runs rclone sync and check tasks by cron, on one node or on two nodes that
share a MySQL database. The models cover what the service promises about
*which node schedules*, *what becomes of a run*, *what a pre-check decides*,
*which rows refer to which*, *who may do what*, *what becomes of the tables of the
Python build* and *which rclone daemons are left running*.

Every operation on the shared database is a step of its own; between two steps
of a goroutine, any other goroutine, tick, callback, poll, crash or restart can
happen.

## 1. Inventory

### Leader election — `internal/cluster/elector.go`, wired in `internal/api/app.go`

*State*: the `leader_lease` row (owner, lease end, epoch) shared by all nodes;
per process `isLeader` under a mutex. *Operations*: `Join`, `HeartbeatTick`
(renew), `ElectTick` (observe or take over), `Stop`; `setLeaderState` flips
`isLeader` and then, outside the mutex, calls `OnAcquired`/`OnLost`, which call
`scheduler.SetLeader`. *Hard*: two ticks of one node in two gocron goroutines;
times taken long before they are used; clock skew; failed transactions and lost
commit acknowledgements; crash, stop, restart under the same node id; a join
that fails. *Right means*: a running lease is never taken over; a replaced
leader steps down; a free lease is taken; the gate follows the election.

### Sync runs — `internal/services/runner.go`, `alerts.go`

*State*: `sync_runs` rows (status, node, job id, `notified_at`), each node's rcd
with its jobs, the tasks. *Operations*: `RunTask` (guard, pending row,
pre-check, submit, running row), `PollRunningRuns`/`PollRun`, firing and
resolving alerts, deletion with the task. *Hard*: a guard that is a read
followed by an insert; whole-row `Save`s from old copies; job ids that are
counters of one rcd process and start again when it restarts; crashes between
insert, submission and save; answers that never arrive. *Right means*: finished
runs stay what they are; a run is not given up while its job copies; a success
is the run's own; one alert per failure; every running run is finished.

### Checks and pre-checks — `internal/services/checker.go`, `runPreCheck`

*State*: `check_runs` rows, the rcd's check jobs, the waiting trigger.
*Operations*: `RunCheck`, `PollCheck`, `PollRunningChecks`, `WaitForCheck` with
its deadline, the verdict of `runPreCheck`. *Hard*: two pollers of the same row,
a deadline that races the answer, a check that finds nothing wrong but could not
read some files. *Right means*: a sync goes ahead only on what the check really
came to; the row goes on saying why; every check ends.

### Scheduler — `internal/scheduler/service.go`, task handlers of `internal/api`

*State*: the gate (`Service.leader`), the gocron jobs, the task tables.
*Operations*: `SetLeader`, `SyncFromDB`, `RegisterTask`, `RemoveTask` and their
check variants; Create/Update/DeleteTask write the row and then the job. *Hard*:
only the gate has a mutex: handlers, rebuilds and removals overlap. *Right
means*: jobs match the table on the leader; a standby has none.

### Storage sources, data sources, tasks and their references — `internal/api/handlers_*.go`

*State*: the rows of `storage_sources_v2`, `data_sources_v2`, `sync_tasks_v2`,
`check_tasks_v2`; a data source names its storage source, a task its data
sources, a sync task perhaps a check task as its pre-check. There are no foreign
keys. *Operations*: create, update, verify, delete, each with a check before a
write. *Hard*: check and write are statements of their own; whole-row `Save`s
from the copy a request loaded; counts whose error is ignored; targets that the
migration log names. *Right means*: a reference breaks in those windows or not
at all.

### Users and permissions — `middleware.go`, `handlers_auth.go`, `handlers_users.go`, `handlers_task_permissions.go`, `handlers_task_bindings.go`

*State*: users with a role, three tables of bindings (object, user, level).
*Operations*: login, password changes, creation, update and deletion of users;
access check, creation, update and deletion of bindings, the creator's binding,
deletion of an object. *Hard*: the password is hashed between read and `Save`;
rights are checked and then used; what was deleted is inserted again by a `Save`.
*Right means*: rows are what the last decision made them; rights come from those
who have them; the last administrator does not vanish.

### Legacy migration — `internal/services/legacy.go`, `internal/migrate`, `internal/auth/bootstrap.go`

*State*: the tables of the Python build, the new tables, `migration_log`.
*Operations*: the fan-out of each legacy config into a source, a data source and
a log row, at every start of a server and half-way through `migrate-legacy`; the
copy of the other tables under their old ids; the first administrator. *Hard*: no
transactions; several processes; crashes; ids given out in tables whose ids are to
be preserved. *Right means*: once, completely, and harmless when run again.

### rcd process manager — `internal/rclone/manager.go`, `internal/api/app.go`, `internal/cli`

*State*: the rcd process (in a process group of its own), `Manager.cmd`, the two
pid files. *Operations*: `Start` (probe, launch, record, wait, give up), `Stop`,
`kill`; the steps of `App.Start` around them, `App.Shutdown` in the goroutine of
the signal handler, the `stop` command. *Hard*: an rcd that hangs, dies or cannot
bind; an rcd of somebody else on the address; two servers; a signal at any moment.
*Right means*: failed starts and `stop` leave no rcd; everything comes to an end.

### Not modelled

| part | why |
|---|---|
| job monitor | counters and times behind one mutex, read by one page; nothing depends on them |
| remote pushes, option and fs-spec conversion | conversions without a state of their own |
| settings, logs, run lists and exports, permission lists | key-value rows and read-only queries |
| tokens, password hashes | stateless; `Access` has the row that is read for every request |
| bindings, settings, schedules and runs in `migrate-legacy` | the same look-up and insert as for the tables modelled, and nothing refers to them |
| database layer | its transactions are the atomic steps of the modules |
| UI proxy, static files, web console, flags and environment | I/O and presentation |

### How the parts interact

The ticks of the elector are gocron jobs of the scheduler; the elector's
callbacks open and close the scheduler's gate; the gate decides which node has
cron jobs; a cron job, a manual trigger (on any node, no gate) or `run-once`
calls `RunTask`; `RunTask` may start a check and wait for it; the poll jobs of
each node finish the runs and checks that node submitted; everything meets in
the database. A server launches its rcd before it migrates, bootstraps,
elects and serves; every handler runs behind authentication and, for objects,
the access check. The modules are cut at these calls: what one module takes from
another (a gate that may open or close at any time, a trigger that may come at
any time on any node) is unconstrained there, so every behaviour of the
composition is included.

## 2. Modules

| module | models | state ↔ code |
|---|---|---|
| `LeaderElection` | elector.go, its life cycle in app.go | `rowExists, owner, until, epoch` = the `leader_lease` row; `isLeader` = the elector's field; `gate` = `Service.leader`; `hb`, `el` = where each tick is; `hbNow`, `elNow` = the time it took; `granted`, `overtaken` are history |
| `LeaseService` | what the election promises (abstract) | one lease, `entitled` and `acting` clients |
| `LeaderElectionProofs` | theorems of the election | |
| `RunEngine` | runner.go, sync alerts, task deletion | `row` = `sync_runs`; `rcd` = each node's job list; `trig` = goroutines in `RunTask`; `poll` = `poll-running-runs`; `fired`, `done` are history |
| `RunLife` | what the run engine promises of a run (abstract) | `status` of each run; who decides on it, had its start `accepted` or `refused`; the rcds' `jobs`; `alerts` |
| `RunEngineProofs` | theorems of the run engine: writers, alerts, finished runs, jobs, the refinement | |
| `CheckEngine` | checker.go, `runPreCheck`, check alerts | `check` = `check_runs`; `at` = waiters and `poll-running-checks`; `sync` = the trigger's verdict; `truth`, `fired` are history |
| `CheckEngineProofs` | theorems of the check engine | |
| `SchedulerGate` | service.go, task handlers | `table` = task tables; `jobs` = gocron's user jobs; `worker` = requests and callbacks; `disturbed` is history |
| `SchedulerGateProofs` | theorems of the scheduler | |
| `Catalog` | handlers of sources, data sources and tasks | `present`, `refs` = the four tables; `req` = requests in flight, with the copy they will save and what is left to check; `used`, `unguarded` are history |
| `CatalogProofs` | theorems of the catalog | |
| `RcdManager` | manager.go, start and end of a server, `stop` | `rcd` = the process each server launched; `outside` = what else is on the address; `main`, `sig` = a server's two goroutines; `cmd` = `Manager.cmd`; `pidFile`, `rcdPid` = the pid files; `stop` = the command; `untracked` is history |
| `RcdManagerProofs` | theorems of the rcd manager | |
| `LegacyMigration` | legacy.go, `migrate.Run`, bootstrap.go | `users, sources, data, tasks` = the new tables by id; `log` = `migration_log`; `proc` = each process and its place in the loops; `migrated`, `misread` are history |
| `LegacyMigrationProofs` | theorems of the migration | |
| `Access` | middleware, users, bindings | `users`, `level` = users and the three binding tables; `objects` = what they are about; `req` = requests in flight; `due`, `stale`, `admins` are history |
| `AccessProofs` | theorems of access | |
| `MC…` | instances for TLC | clock skews, symmetry sets |

### Steps

* **Ticks.** A tick is at most: transaction, row count, state flip, callback.
  `ElectTick`'s read and its CAS are in one transaction, but an UPDATE sees
  other nodes' later commits, so `ElectExpired` and `ElectCas` are two steps; the
  CAS uses the time taken at the read. `HeartbeatCheck` and `HeartbeatRenew` are
  two steps because `IsLeader` is asked before the UPDATE. A rolled-back
  transaction is `HeartbeatFails`/`ElectFails`/`StopFails`; a commit whose answer
  is lost is a branch of `ElectCas`. Ticks of a process that is stopping go on
  until it exits, as in `App.Shutdown` (elector first, scheduler later).
  `Now(n)` is true time plus a constant skew. The rows of `cluster_nodes` decide
  nothing and are left out. The first `ElectTick` of `App.Start` is a tick like
  the others; it is not run in parallel with gocron's first one, 30 s later.
* **Runs.** One step per database statement or rcd call. A `Save` writes the
  goroutine's whole copy, and writes a deleted row again (GORM's Save). The
  claim of rows without a node and the list after it are one step: rows that
  change in between are read again by `PollRun` anyway. A webhook is delivered or
  not; when nothing is configured it is not. `Query` and the pre-check's
  `PreCheckSkips` stand for everything the rcd or the check may answer.
* **The rcd** is external: it appends jobs under ids counted from one, ends them
  well or badly, and forgets them all when it restarts. A job id it does not
  know gets a definite 4xx answer, as `TestPollRunJobGoneIsTerminal` has it; an
  rcd that answered 5xx for it would be asked for ever.
* **Checks.** One node and its rcd: other nodes do not touch its checks
  (`RunEngine` has that part). A scheduled or manual check is one whose waiter
  has died; check deletion is not in this module. `Outcome` is what a job can come
  to as far as the verdict tells it apart: agreement, a difference, files that could
  not be read (`unread`: rclone's output says `success: false` without any
  difference), or an error of the whole job, which reports no result of its own.
  `runPreCheck` looks for `success: false` in the result only, so `Judge` goes ahead
  after `Unsuccessful`, the second and the third.
* **Gate.** `SetLeader` is a flip and then a rebuild or a removal, in a goroutine
  of its own. Removing all jobs of a list is one step: a job registered after
  the list was taken is the same as one registered after the removal. Handlers
  may run whether the gate is open or not: `RequireLeader` asks the elector, not
  the gate. A check task is registered like a sync task, one without a cron
  expression counts as disabled. Cron expressions are valid (the handlers check
  them before the write).

* **Catalog.** A request loads its row, looks for each target, then writes; a
  deletion counts table by table, then deletes. `Create` stands for four handlers
  that differ in `RefsOf`, what a row may refer to; `Delete` for four that differ
  in `Counted`. `Update` names in `todo` what the request looks for again: a task's
  data sources always, the rest when the request mentions it. The catalog of the
  first state is any consistent one. `GiveUp` is every refusal, failed statement
  and crash in between; a request has no effect before its one write. (The
  bindings and runs that go with a task belong to `Access` and `RunEngine`.)
* **Access.** A request is: authentication (the row is read for each request), the
  access check or the load of the row, the write. The three kinds of objects have
  handlers alike but for one difference: bindings of a task are deleted with it,
  those of a data source stay. A `Save` of a row that is gone inserts it again;
  where a newer binding for the same pair exists, MySQL overwrites it and SQLite
  refuses, so both happen. `old` marks a copy whose row changed since.
* **Migration.** One step per statement; the count of the users and the creation of
  the first administrator, with the hashing of the password in between, are two
  (`CountUsers`, `CreateAdmin`). Ids matter and are modelled: the database
  gives out one more than the largest. Names are unique, which is what stops a
  second fan-out of a config. A server whose fan-out fails starts all the same; a
  command fails.
* **rcd.** The two goroutines of a server interleave; the process ends with
  whichever returns first. The two goroutines inside `kill` and `Start` that wait
  for the process are folded into what they wait for. An rcd that hangs is one
  whose `Bind` and `Exit` are never taken. A probe that times out is a fault.

## 3. Runs

| run | instance | result |
|---|---|---|
| `election_safety` | 2 nodes, lease 1, skew 1, clock to 1, 3 starts, all failures | `GateFollows`, `LeaseExclusion`, `ElectionInv` (with `TypeOK`) hold, `ImplementsLease` refines `LeaseService` |
| `election_live` | 2 nodes, no skew, clock to 1, 2 starts, failures of one node | `StaleLeaderStepsDown`, `FreeLeaseIsTaken` hold |
| `run_safety` | 2 nodes, 2 triggers, 2 runs, a crash, a rcd restart, a deletion | `LifeInv` (with `JobInv`), `JobKeepsRunActive`, `SuccessIsTrue`, `AlertOnce`, `RunInv` (with `TypeOK`), `TerminalIsFinal` hold, `ImplementsLife` refines `RunLife` |
| `run_completes` | 2 nodes, a legacy row and a run, a crash, a rcd restart | `PolledByOneNode`, `RunCompletes` hold |
| `run_two_active` | 2 triggers | `OneActiveRun` **violated** |
| `check_precheck` | 1 waiter, 2 checks, a crash, a rcd restart | `CheckInv`, `VerdictIsTrue`, `VerdictIsRecorded`, `CheckAlertsTwiceAtMost`, `CheckEnds` hold |
| `sched_jobs` | 2 tasks, 2 cron expressions, 2 goroutines, 5 operations | `GateInv` (with `TypeOK`), `JobsMatchTable` hold |
| `catalog` | 2 storage sources, 2 data sources (one in the migration log), a check task, a sync task, 2 handlers, 3 requests, 1 failed count | `ReferencesResolve`, `CatalogInv` (with `TypeOK`) hold |
| `rcd_manager` | 2 servers, 1 fault, a stop command, a foreign process or rcd | `FailedStartLeavesNoRcd`, `StopLeavesNoRcd`, `RcdInv`, `StartEnds`, `SignalEnds` hold |
| `rcd_left_running` | 1 server, no fault | `ServerEndsRcd` **violated** |
| `legacy_migration` | 2 configs (one migrated by the Python build), 2 users, 1 source, 2 data sources, 3 tasks, 2 servers, 2 commands, 2 faults | `MigrationInv` (with `TypeOK`), `FanOutOnce`, `TasksResolve`, `TaskKeepsData`, `FanOutCompletes`, `RerunChangesNothing` hold |
| `access` | 3 users, a data source and a task, 2 requests at a time, 4 in all | `AccessInv`, `UserAsDecided`, `BindingAsDecided`, `GrantsComeFromAdmins`, `LastAdminStays` hold |

**Bounds.** `MaxClock = 1` with a lease of 1 lets a lease be granted, run out at
its last instant and be taken over; with skew 1 the fast node takes it at the
first instant. Three starts are two nodes and a restart under the same id. Two
runs suffice for every interplay of runs: a pair is active, a pair collides on
a job id, a success resolves one earlier failure. Two goroutines are enough for
the races of the scheduler, all of which are pairs; five operations are a gain,
a loss and a gain of leadership with two writes in between. A window of the
catalog has two sides, a writer and a deletion: two handlers; a third request
builds or breaks what they race for, in a catalog that is already there. A
change of access that races another is two requests; two more make the object,
the user or the binding they are about. Two servers are the least that share an
rcd, a directory or a migration; a command runs a second time as the other one.
Four ids are two preserved ones and two new ones. Deadlock is not checked: the
bounds run out and a process may stay down.

**Fairness.** Election: gocron repeats each tick of a live process, and the
database does not reject all of a node's takeovers for ever. No fairness of
heartbeats, of time or of restarts is used. Runs and checks: goroutines go on,
the poll jobs are repeated every `POLL_INTERVAL_SECONDS`, an rclone job ends,
neither the rcd's answers nor the saves fail for ever. rcd manager: each
server's two goroutines go on, as every wait in them has a time limit (5 s for
a probe, 15 s for an answer, 10 s before a SIGKILL); nothing is assumed of an
rcd. The violated properties are safety properties and need no fairness.

**What the violated runs show** (details under `findings` in `PROJECT.json`):

1. *Two active runs* (runner.go:92). The guard is a read, then an insert.
2. *The rcd survives a graceful stop* (app.go:214). `ListenAndServe` returns as soon as
   `srv.Shutdown` is called; main ends the process while `Shutdown`, in the
   handler's goroutine, has yet to come to `Manager.Stop`.

**What the properties leave room for.** The code has more behaviours of this kind.
The models contain them, and the properties are stated so that they hold beside
them:

* *Callbacks overtake each other* (elector.go:287). A tick flips `isLeader`, and
  before it calls back, the other tick flips it again and calls back first. The
  gate then disagrees with the election until leadership changes again
  (`overtaken`). `GateFollows` says that nothing else makes the two disagree while
  no callback is under way.
* *Pending for ever* (runner.go:110). Polls look at running rows only, and the
  guard skips the task from then on. `JobKeepsRunActive` is about recorded jobs.
* *Someone else's success* (runner.go:228). After an rcd restart an old row's job
  id can name a newer run's job: `SuccessIsTrue` and the verdict properties are
  stated up to the first rcd restart.
* *A sync after an unreadable check* (runner.go:180). A check job that could not read
  some files, and found no difference in the others, ends with `success: false` in its
  result like one that found a difference (checker.go:102-138, whose message counts
  the errors), and the sync goes ahead. `docs/api.md:290` says that a check that itself
  errs blocks the sync (检查本身出错/超时 → 阻止同步), and logs and comments here
  speak of differences found. `VerdictIsTrue` says what the code does: it goes ahead
  after a difference or unread files, and after nothing else.
* *Two alerts for a check* (checker.go:143). Waiter and poll job both fire; no
  check is fired for more than twice.
* *A job on a standby* (service.go:166). The gate is read before the job is added:
  `JobsMatchTable` speaks of moments when nothing is in flight and no conflicting
  overlap happened since the last change of leadership.
* *Broken references* (`unguarded` in `Catalog`): a row written after the deletion
  of its target had counted, or the other way round; a failed count; a target
  named by the migration log, for which nobody looks.
* *Undone decisions* (`stale` in `Access`): a login or a change of password that
  read the user before a demotion, disabling or deletion undoes it; an update of
  a binding that was deleted meanwhile makes it anew.
* *A taken id* (migrate.go:66, `TakenSources` and `TakenData`): the fan-out comes
  before the copy of storage sources (migrate.go:76) and of data sources and gives
  its rows ids that legacy rows have. Those are then found to be there and are not
  copied. A task of a legacy data source whose id was taken works on another
  config's data; one whose data source was copied, but not its storage source, works
  in another config's storage under the id that it always had. `migrate.go:2-5` says
  that ids are preserved verbatim, so that references need no remapping, and
  `README.md:7` of the repository that ids do not change (ID 不变). `TaskKeepsData`
  says that a taken id, the one or the other, is the only way. The same can happen
  to a legacy user when a server that starts first has made the administrator
  under id 1.
* *An administrator after the migration* (bootstrap.go:22). A server counts the users,
  hashes the password, and creates the administrator: a migration that goes through
  in between has filled the table. `bootstrap.go:13` says "iff the users table is
  empty". `RerunChangesNothing` says that nothing else is added later, that only a
  server that had counted before adds it, under an id that no legacy user has, and
  that no process counts an empty table any more.
* *Stuck fan-out* (legacy.go:101). A crash between the three inserts leaves a source
  without a log row. Every later attempt fails on its unique name and leaves the
  configs behind it alone; `FanOutCompletes` is about processes that did not fail.
* *Untracked rcds* (`untracked` in `RcdManager`): rcd.pid overwritten or removed by
  another server of the same directory, or not yet written. A signal that comes
  while `Manager.Start` waits ends the server without its rcd, which `stop` still
  finds.

**Simplifications.** Where the code does a little more or less than a step here:

* *Election*: when the transaction of `Stop` cannot even begin, `isLeader` stays true
  in a process that is leaving (elector.go:225); `StopFails` clears it. MySQL may
  report no affected row for a renewal that changes nothing, and the node then steps
  down for nothing; in the model a renewal of one's own lease succeeds or fails.
  `GateFollows` excepts `overtaken` nodes, so it says nothing of what the overtaking
  does, only that nothing else does it.
* *Runs*: `PreCheckSkips` is saved at once. A save that fails there makes the run a
  failed one, as does every other error before the submission.
* *rcd*: `Undo` removes rcd.pid also where `Manager.Stop` finds `cmd` cleared and
  returns, so the model has more behaviours there; `stop` reads the pid file, looks
  for the process and signals it in one step.
* *Scheduler*: `SyncFromDB` reads its two tables in one step, and a task that
  `RegisterTask` refuses is not passed over, as valid expressions are not refused.
* *Catalog, Access*: a `Save` of a deleted row inserts it. On MySQL it can instead
  overwrite a newer row with the same unique name (a data source of the same owner
  and name, a user of the same username); that is modelled for bindings only. A
  request that changes role and `disabled` at once is two requests here, and the
  two look-ups before the change of a binding are one step.

Each property of a passing run has a mutant in `PROJECT.json`: a plausible bug
(defined next to the operator it changes, "Mutant of …") that violates it.

## 4. Proofs

`LeaderElectionProofs` proves, for every set of nodes, lease duration, constant
clock skew and number of starts:

* `ElectionSafe`: `Spec => []ElectionInv`,
* `TypeCorrect`: `Spec => []TypeOK`,
* `NoEarlyTakeover`: `Spec => []LeaseExclusion`,
* `GateRight`: `Spec => []GateFollows`,
* `ElectionImplementsLease`: `Spec => ImplementsLease`.

They assume `ElectionAssumption` only: naturals for the bounds, skews in
`0 .. MaxSkew`, `NoNode` not a node, `Failing` a set of nodes.

*Argument.* `LeaseExclusion` says of a node that takes itself for the leader (or
whose CAS has just been committed): it owns the row, or the lease it wrote last
has run out, up to skew. It is not inductive: a takeover checks `until`, and the
claim is about `granted[n]`, what the node wrote. `OwnerWroteUntil` connects
them (`until = granted[owner]`: renewals and takeovers write only the writer's
own row, a release clears both), and `TickTimes` says that the times the ticks
use are never ahead of any clock, so that `until <= elNow[m]` at a takeover gives
`granted[n] <= clock + MaxSkew`; it also says that a dead process has no tick in
flight, so a restart begins without a belief. `CallbacksPending` is behind
`GateFollows`: of a node that is not `overtaken` at most one tick has yet to call
back, and what it will say is what `isLeader` says. `ElectionInv` is the conjunction;
there is a lemma for the first state and one for each group of actions, with
one step per action.

*Refinement.* The row is the lease; a committed CAS entitles its node,
`setLeaderState` makes it act; ticks that read, fail or call back stutter. A
takeover is a `Grant`, for which `TickTimes` bounds the time; a renewal an
`Extend`; a stop a `Release` or a `StepDown`.

`RunEngineProofs` proves, for every set of nodes, tasks and goroutines and every
number of runs, crashes, rcd restarts and deletions, with or without a row of an
earlier release:

* `RunSafe`: `Spec => []RunInv`,
* `TypeCorrect`: `Spec => []TypeOK`,
* `AlertsOnce`: `Spec => []AlertOnce`,
* `OnePoller`: `Spec => []PolledByOneNode`,
* `RunsAreFinal`: `Spec => TerminalIsFinal`.

They assume `RunAssumption` only: naturals for the bounds, at least one task and
one row, `NoNode` not a node. The bounds are parameters of the model: the
theorems hold whatever they are, so none of them hides a case.

*Argument.* Every write is a whole-row `Save` from a copy, so what keeps an alert
from firing twice, or a finished run from coming back, is that no copy is ever
stale in the columns that matter. `RunInv` says why. `OneWriter`: a run is
written by the goroutine that created it, until that saves the job id and lets
go, then by the poll job of the node in its row, which holds it once, then only
by resolutions. `WriterState`: while somebody is about to save a copy, the row
is what the copy was made from, or deleted. `Settled`: a running row has not
fired; a notified one has, once, and has no writer. `FreshIds`: nobody knows of
an id that has not been given out. `OnLiveNode` is needed for the types: a job id
comes from the rcd of the goroutine's node. Each step has one of three shapes,
and a lemma each: a goroutine writes its own run (`WriterStep`), a poll job does
(`PollWriterStep`), a step only lets go of runs (`RecedingStep`: crashes,
deletions, failed saves); `Guard`, `Create`, `PollBegin`, `Query`, `Resolve` and
`Clear`, which hand a run to somebody, are proved one by one. The step that
claims the rows without a node is where `OnePoller` could fail: a claimed row had
no node, so no other poll job has it on its list.

It goes on from there with the jobs of runs:

* `JobsSafe`: `Spec => []JobInv`,
* `JobKeeps`: `Spec => []JobKeepsRunActive`,
* `SuccessIsOwn`: `Spec => []SuccessIsTrue`.

*Argument.* Neither property is inductive: a poll job saves an answer it got some
steps ago, and the job id it asked for came from a goroutine that has long
returned. `Known(r, rec)` is what a row or a copy of run `r` is right about: the
run's job is nowhere but under the recorded id of the recorded node's rcd, unless
that has forgotten it; it has ended when the run has; and up to the first rcd
restart it is there, and did succeed when the run says so. `JobsKnown` has it of
every row, and of every copy that somebody is about to save, so that a `Save`
keeps it, however late. It stays true because jobs only end or are forgotten
(`KnownStays`), and because a run's one job is started by `Submit`, for which
`JobsOfRuns` says that a run still to be submitted has no job. A poll asks the
right rcd because `OneWriter` gives it rows of its own node only. A reused job id
can only tell a poll that another job has not ended or how it ended, after the
rcd has forgotten the run's own; so `JobKeepsRunActive` needs no bound on rcd
restarts and `SuccessIsTrue` does. The row without a node id is left out of both: it
may be claimed by a node whose rcd never had its job.

And with the whole life of a run:

* `LifeSafe`: `Spec => []LifeInv`,
* `EngineImplementsLife`: `Spec => ImplementsLife`.

*Refinement.* `RunLife` says what the properties above say piece by piece, as a
machine: a run is recorded, decided on, its start accepted or refused, confirmed
and finished; its job is started once and ends or is forgotten; its alert is
delivered once. The runs that goroutines hold before the submission, after an
accepted one and after a refused one are `deciding`, `accepted` and `refused`; the
status of a run is that of its row, the jobs are those of all rcds, `issued` is the
last id. Every handler's step is one step of `RunLife` or changes nothing of it: a
`Save` that fails is a `Confirm` or `Fail` without effect, a crash an `Abandon`, a
Save of an alert that brings back a deleted row a `Remember`. That a `Save` is a
step of the abstract machine at all needs `RunInv` (the row still is what the copy
was made from); that `Start` finds no job of the run needs `JobInv`; that `JobEnd`
is about one job needs `OneJob`; and that a run finishes as its job did, though the
answer is some steps old, needs `Verdicts`. The three make up `LifeInv`. Runs
without a node id (`Inherited`) may finish otherwise. The lost answer is `Start`
with a refused run: its job goes on, the run says failed, and no second job is
started for it. Job ids do not occur in `RunLife`, so the theorem also says that
ids reused after an rcd restart never give a run the end of another's job as long
as its own is known.

`CheckEngineProofs` proves, for every set of waiters and every number of checks,
crashes and rcd restarts, from `CheckAssumption` (naturals for the bounds, the poll
job is not a waiter):

* `CheckSafe`: `Spec => []CheckInv`,
* `TypeCorrect`: `Spec => []TypeOK`,
* `Verdicts`: `Spec => []VerdictIsTrue`,
* `Recorded`: `Spec => []VerdictIsRecorded`,
* `AlertsTwice`: `Spec => []CheckAlertsTwiceAtMost`.

*Argument.* A check has two writers, its waiter and the poll job, each with a copy
of the row, so nothing like `OneWriter` holds here. What makes up for it: a check has
one waiter (`Ownership`) and one job (`Jobs`), so whatever either writer read of the
job's outcome is the same (`Results`, with `Sound` for rows and copies alike); a
deadline is the only way to end a check without its result, and the waiter that
takes it has given up, so for as long as it has not, and after it has seen the end,
every copy about to be written carries the result (`Kept`). A writer that fires has
one shot (`Shots`): the waiter's begins when it has a check and ends with its
webhook, the poll job's ends for good when the row has left `running`, for which
`Phases` says that nobody notifies of a check that has not ended. `Jobs`, `Results`
and `Kept` hold until the rcd restarts, as do the properties they are for: then job
ids begin again and a row may be given another job's outcome. The steps have some
twenty shapes in terms of what they do to a goroutine's record, a row and a verdict
(`At`, `Saved`, `Decided`), with a lemma each.

`SchedulerGateProofs` proves, for all tasks, cron expressions, goroutines and
operations, from `GateAssumption` (there is a task, `NoRow` is not a row):

* `GateSafe`: `Spec => []GateInv`,
* `TypeCorrect`: `Spec => []TypeOK`,
* `JobsAsWanted`: `Spec => []JobsMatchTable`.

*Argument.* `JobsMatchTable` speaks of quiet moments, so the invariant has to say
what each goroutine in flight owes. Undisturbed, a change of leadership is alone
in the process and a handler alone with its task (`Alone`); tasks that nobody is
at are as they should be (`Resting`). A handler's task has no jobs on a standby,
none between removal and addition, and what is about to be registered is the row
in the table (`HandlerAt`); a rebuild has read the table as it still is, and has
registered what it is past (`LeadAt`). Both kinds of goroutine use the same
registration, in `JobStep`; otherwise a step is a handler's (`HandlerStep`) or a
rebuild's (`LeadStep`). Another node's write does no harm to a standby, where no
row asks for a job (`OtherNodeInv`), and disturbs a leader.

`CatalogProofs` proves, for all tables, handlers, requests and faults, from
`CatalogAssumption` (the tables are disjoint, the log names data sources):

* `CatalogSafe`: `Spec => []CatalogInv`,
* `TypeCorrect`: `Spec => []TypeOK`,
* `References`: `Spec => []ReferencesResolve`.

*Argument.* A reference is written by one request and broken by another, so each
must account for the other. `HeldTargets`: what a writer has looked for is still
there, or its deletion was noticed as unguarded. `CountedTables`: what a deletion
has counted refers to its target no more, unless the count failed or the
reference came later. `Shape` and `Counted` fit together (`CountedCovers`): no
row refers to a table whose deletion does not count the referring one; the
mutant of `Counted` breaks this. `Reserved` keeps ids from being used twice.

`RcdManagerProofs` proves, for any number of servers and faults:

* `RcdSafe`: `Spec => []RcdInv`,
* `FailedStart`: `Spec => []FailedStartLeavesNoRcd`,
* `StopEnds`: `Spec => []StopLeavesNoRcd`.

*Argument.* A failed start leaves no rcd because a server that is up knows of its
rcd as long as that is alive (`Owned`), and every way to fail either kills what
`cmd` names or has seen it dead. `stop` leaves none because a live rcd is the one
that rcd.pid names, or untracked (`Tracked`); `Target` says that what `stop` waits
for has existed, so that no process is launched under a number it has killed.

`AccessProofs` proves, for all users, objects and requests, from
`AccessAssumption`:

* `AccessSafe`: `Spec => []AccessInv`,
* `UsersAsDecided`: `Spec => []UserAsDecided`,
* `BindingsAsDecided`: `Spec => []BindingAsDecided`,
* `GrantsFromAdmins`: `Spec => GrantsComeFromAdmins`,
* `LastAdmin`: `Spec => LastAdminStays`.

*Argument.* A `Save` writes a copy, so rows are as decided if copies are fresh:
`CopiesAreFresh` says that a copy not marked old equals the row, and that nobody
is about to delete themselves. That is what `LastAdminStays` needs: whoever removes
the last administrator is somebody else, hence no administrator any more, or
changes their own row, or saves an old copy. `AdminsKnown` and `ChecksHold` say
that a request past its check belongs to somebody who has been an administrator
of the object, which is all that can be said after the check: the rights may be
gone by the time of the write. Each request's step is described once (`UserSteps`,
`ObjectSteps`: what it does to rows, `OwnStep`, `OthersStep`: to copies), and the
parts of the invariant follow from these descriptions.

`LegacyMigrationProofs` proves, for all legacy tables, servers, commands, ids and
faults, from `MigrationAssumption` (there is a legacy user, legacy rows refer to
legacy rows, the migration log names legacy data sources):

* `MigrationSafe`: `Spec => []MigrationInv`,
* `TypeCorrect`: `Spec => []TypeOK`,
* `FansOutOnce`: `Spec => []FanOutOnce`,
* `TasksResolved`: `Spec => []TasksResolve`,
* `TasksKeepData`: `Spec => []TaskKeepsData`,
* `FanOutCompleted`: `Spec => []FanOutCompletes`,
* `RerunSafe`: `Spec => RerunChangesNothing`.

*Argument.* Tables only grow, by one row in a step at most (`TableStep`), and no row
is ever changed; so what a process has found or made stays. A config is made into
three rows by three statements, and only the unique name of its source keeps others
away: `Alone` says that nobody else is half-way through the same config, `Holds`
what the process has made of it so far, `Rows` what holds of finished rows.
`TaskKeepsData` follows from `Rows`: a task's reference is the data source that
`Remap` finds; a row of sources or of data sources is made of a config or is the
legacy one of its id, on the source it was on; and whoever copies a data source has
the sources behind it (`Copied`), so that one is there, legacy unless taken. For
`FanOutCompletes`, `Faultless` says that without faults somebody always leads: of
the processes that fan out, one makes, or will make, the first open config, and
whoever fails on the name of a source leaves it to the process that made it. For
`RerunChangesNothing`, `Copied` says what a command has behind it, and `AllCopied`
what is there when one has gone through: nobody then finds anything to insert, but
for a config whose log row cannot be read (`misread`; one that the Python build had
logged may then be made a second time), and for the administrator of a server at
`create`. `CountedFirst` has it that nobody comes there once there are users, and
`NextIdFresh` that the administrator's id is nobody else's. That an id given out is new rests on a table
having a largest id, which follows from the library's theorem on least elements.

*Only model-checked*: the liveness properties (`StaleLeaderStepsDown`,
`FreeLeaseIsTaken`, `RunCompletes`, `CheckEnds`, `StartEnds`, `SignalEnds`), since
fairness and `ENABLED` are out of the prover's reach. Every invariant and every
action property of a passing run is stated by a theorem.

## 5. Plan

Done: LeaderElection with LeaseService and its proofs; RunEngine with RunLife and
its proofs; CheckEngine, SchedulerGate, Catalog, RcdManager, Access and
LegacyMigration with theirs. Left, in this order:

1. Deletion of checks in `CheckEngine`; tables of bindings in `LegacyMigration`.
2. A specification of what a reader of the catalog may rely on, refined by `Catalog`.
