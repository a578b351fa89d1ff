--------------------------- MODULE LegacyMigration ---------------------------
(***************************************************************************)
(* The tables of the Python build copied into the new ones: the fan-out of *)
(* legacy storage configs, each into a storage source and a data source of *)
(* its own, which every server runs when it starts and the migrate-legacy  *)
(* command runs half-way (internal/services/legacy.go), and the copy of    *)
(* the other tables under the ids they had (internal/migrate/migrate.go).  *)
(*                                                                         *)
(* Nothing is a transaction: each row is looked for and inserted by two    *)
(* statements, and a config becomes three rows.  Servers and commands run  *)
(* at the same time, and each of them may fail or die after any statement. *)
(* Names of legacy rows are taken to be different from one another; a task *)
(* has one side here, the other one is treated alike.                      *)
(***************************************************************************)
EXTENDS Naturals, FiniteSetsExt

CONSTANTS
    Config,     \* ids of the legacy storage configs
    LUser,      \* ids of the legacy users, the first of whom is an administrator
    LSource,    \* ids of the legacy storage sources
    LData,      \* ids of the legacy data sources
    SourceOf,   \* the legacy storage source of each legacy data source
    LTask,      \* ids of the legacy tasks
    RefOf,      \* what a legacy task refers to: a config, or a data source
    Logged,     \* the data source of the configs that the Python build has migrated
    Server,     \* processes that start as servers
    Command,    \* processes that run migrate-legacy
    MaxId,      \* model bound: ids of new rows
    MaxFaults   \* model bound: inserts that fail, processes that die

Id == 1..MaxId

ASSUME MigrationAssumption ==
    /\ Config \cup LUser \cup LSource \cup LData \cup LTask \subseteq Id
    /\ LUser # {}
    /\ SourceOf \in [LData -> LSource]
    /\ RefOf \in [LTask -> [config : Config] \cup [data : LData]]
    /\ DOMAIN Logged \subseteq Config /\ \A c \in DOMAIN Logged : Logged[c] \in LData
    /\ Server \cap Command = {}
    /\ MaxId \in Nat /\ MaxFaults \in Nat

Process == Server \cup Command

VARIABLES
    users,      \* users_v2: the rows by id, and where they come from
    sources,    \* storage_sources_v2
    data,       \* data_sources_v2, with the storage source of each row
    log,        \* migration_log: config to data source, 0 when there is no row
    tasks,      \* sync_tasks_v2 and check_tasks_v2: task to data source, 0 for none
    proc,       \* where each process is
    faults,
    migrated,   \* history: a command has succeeded that had an owner for the fan-out
    misread     \* history: a row of the migration log was not seen

tables == <<users, sources, data, log, tasks>>
history == <<migrated, misread>>
vars == <<tables, proc, faults, history>>

Absent == [from |-> "none", id |-> 0]
Fan(c) == [from |-> "config", id |-> c]
Legacy(i) == [from |-> "legacy", id |-> i]
Boot == [from |-> "bootstrap", id |-> 0]
NoData == [row |-> Absent, source |-> 0]

Ended == {"done", "failed"}
CopyPc == {"users", "sources", "data", "tasks"}

\* What a row may be made of.
Origin ==
    {Absent, Boot} \cup {Fan(c) : c \in Config}
      \cup {Legacy(i) : i \in LUser \cup LSource \cup LData}

FanOutPc == {"config", "source", "data source", "log"}
HalfPc == {"data source", "log"}

TypeOK ==
    /\ users \in [Id -> Origin] /\ sources \in [Id -> Origin]
    /\ data \in [Id -> {NoData} \cup [row : Origin \ {Absent}, source : Id]]
    /\ log \in [Config -> 0..MaxId] /\ tasks \in [LTask -> 0..MaxId]
    /\ proc \in [Process -> [pc : {"idle", "owner", "boot", "create"} \cup FanOutPc \cup CopyPc \cup Ended,
                             todo : SUBSET Id, absent : BOOLEAN, new : 0..MaxId,
                             owner : BOOLEAN]]
    /\ faults \in Nat /\ migrated \in BOOLEAN /\ misread \in BOOLEAN

Idle == [pc |-> "idle", todo |-> {}, absent |-> FALSE, new |-> 0, owner |-> FALSE]

Init ==
    /\ users = [i \in Id |-> Absent] /\ sources = [i \in Id |-> Absent]
    /\ data = [i \in Id |-> NoData]
    /\ log = [c \in Config |-> IF c \in DOMAIN Logged THEN Logged[c] ELSE 0]
    /\ tasks = [t \in LTask |-> 0]
    /\ proc = [p \in Process |-> Idle]
    /\ faults = 0 /\ migrated = FALSE /\ misread = FALSE

-----------------------------------------------------------------------------
Used(table) ==
    {i \in Id : CASE table = "users" -> users[i] # Absent
                  [] table = "sources" -> sources[i] # Absent
                  [] table = "data" -> data[i] # NoData}

\* AUTO_INCREMENT: one more than the largest id, given out or explicit.
NextId(table) == 1 + Max({0} \cup Used(table))

\* The row that a process is at: ids in ascending order.
Row(p) == Min(proc[p].todo)

Goto(p, pc, todo) ==
    proc' = [proc EXCEPT ![p].pc = pc, ![p].todo = todo, ![p].absent = FALSE]

\* The row is dealt with.
Skip(p) == Goto(p, proc[p].pc, proc[p].todo \ {Row(p)})

\* Mutant of Abort: an error ends the row, not the fan-out.
AbortRow(p) ==
    IF proc[p].pc \in FanOutPc THEN Goto(p, "config", proc[p].todo \ {Row(p)})
    ELSE Goto(p, IF p \in Server THEN "boot" ELSE "failed", {})

\* An error ends the fan-out of a server, which starts all the same, and the command.
Abort(p) == Goto(p, IF p \in Server THEN "boot" ELSE "failed", {})

\* Where the fan-out ends, or has nothing to do.
FannedOut(p) == IF p \in Server THEN Goto(p, "boot", {}) ELSE Goto(p, "sources", LSource)

-----------------------------------------------------------------------------
(* MigrateLegacyStorageConfigs *)

Begin(p) ==
    /\ proc[p].pc = "idle"
    /\ IF p \in Command THEN Goto(p, "users", LUser)
       ELSE IF Config = {} THEN Goto(p, "boot", {})
       ELSE Goto(p, "owner", {})
    /\ UNCHANGED <<tables, faults, history>>

\* Without an administrator to own the new data sources nothing is done.
FindOwner(p) ==
    /\ proc[p].pc = "owner"
    /\ IF \E i \in Id : users[i] \in {Boot, Legacy(Min(LUser))}
         THEN proc' = [proc EXCEPT ![p].pc = "config", ![p].todo = Config, ![p].owner = TRUE]
         ELSE FannedOut(p)
    /\ UNCHANGED <<tables, faults, history>>

\* Mutant of LookUpLog: a config that has been migrated ends the loop.
LookUpLogReturns(p) ==
    /\ proc[p].pc = "config"
    /\ IF proc[p].todo = {} \/ log[Row(p)] # 0 THEN FannedOut(p)
       ELSE Goto(p, "source", proc[p].todo)
    /\ UNCHANGED <<tables, faults, history>>

LookUpLog(p) ==
    /\ proc[p].pc = "config"
    /\ IF proc[p].todo = {} THEN FannedOut(p)
       ELSE IF log[Row(p)] # 0 THEN Skip(p)
       ELSE Goto(p, "source", proc[p].todo)
    /\ UNCHANGED <<tables, faults, history>>

\* Mutant of CreateSource: names need not be unique.
CreateSourceAgain(p) ==
    /\ proc[p].pc = "source" /\ NextId("sources") \in Id
    /\ sources' = [sources EXCEPT ![NextId("sources")] = Fan(Row(p))]
    /\ proc' = [proc EXCEPT ![p].pc = "data source", ![p].new = NextId("sources")]
    /\ UNCHANGED <<users, data, log, tasks, faults, history>>

\* The name of a storage source is unique: a source that another process, or an
\* earlier attempt, has made of this config is an error.
CreateSource(p) ==
    /\ proc[p].pc = "source"
    /\ IF \E i \in Id : sources[i] = Fan(Row(p))
         THEN Abort(p) /\ UNCHANGED sources
         ELSE /\ NextId("sources") \in Id
              /\ sources' = [sources EXCEPT ![NextId("sources")] = Fan(Row(p))]
              /\ proc' = [proc EXCEPT ![p].pc = "data source", ![p].new = NextId("sources")]
    /\ UNCHANGED <<users, data, log, tasks, faults, history>>

CreateDataSource(p) ==
    /\ proc[p].pc = "data source" /\ NextId("data") \in Id
    /\ data' = [data EXCEPT ![NextId("data")] =
                               [row |-> Fan(Row(p)), source |-> proc[p].new]]
    /\ proc' = [proc EXCEPT ![p].pc = "log", ![p].new = NextId("data")]
    /\ UNCHANGED <<users, sources, log, tasks, faults, history>>

\* Table and config are the key: a row that the look-up missed is an error.
CreateLog(p) ==
    /\ proc[p].pc = "log"
    /\ IF log[Row(p)] # 0
         THEN Abort(p) /\ UNCHANGED log
         ELSE /\ log' = [log EXCEPT ![Row(p)] = proc[p].new]
              /\ Goto(p, "config", proc[p].todo \ {Row(p)})
    /\ UNCHANGED <<users, sources, data, tasks, faults, history>>

\* BootstrapAdmin, later in the start of a server.  No administrator configured, a
\* count or a hash that fails: nothing to do.

\* Mutant of CountUsers: looks for the configured name, not for any user.
CountUsersByName(p) ==
    /\ proc[p].pc = "boot"
    /\ \/ (\A i \in Id : users[i] # Boot) /\ Goto(p, "create", {})
       \/ Goto(p, "done", {})
    /\ UNCHANGED <<tables, faults, history>>

\* An administrator is only wanted in an empty table; the password is hashed next.
CountUsers(p) ==
    /\ proc[p].pc = "boot"
    /\ \/ Used("users") = {} /\ Goto(p, "create", {})
       \/ Goto(p, "done", {})
    /\ UNCHANGED <<tables, faults, history>>

\* By now the table need not be empty.  The name is unique: another server's
\* administrator is an error, which like any other is logged and passed over.
CreateAdmin(p) ==
    /\ proc[p].pc = "create"
    /\ \/ /\ \A i \in Id : users[i] # Boot
          /\ NextId("users") \in Id
          /\ users' = [users EXCEPT ![NextId("users")] = Boot]
       \/ UNCHANGED users
    /\ Goto(p, "done", {})
    /\ UNCHANGED <<sources, data, log, tasks, faults, history>>

-----------------------------------------------------------------------------
(* migrate.Run *)

\* Mutant of Remap: configs and data sources share ids.
RemapAsIs(t) == IF "data" \in DOMAIN RefOf[t] THEN RefOf[t].data ELSE RefOf[t].config

\* remapSide: a data source as it is, a config by the migration log.
Remap(t) == IF "data" \in DOMAIN RefOf[t] THEN RefOf[t].data ELSE log[RefOf[t].config]

There(table, i) == IF table = "tasks" THEN tasks[i] # 0 ELSE i \in Used(table)

\* insertIfAbsent looks for the id; a task whose storage is not mapped is skipped.
Look(p) ==
    LET table == proc[p].pc
    IN  /\ table \in CopyPc /\ proc[p].todo # {} /\ ~proc[p].absent
        /\ IF There(table, Row(p)) \/ (table = "tasks" /\ Remap(Row(p)) = 0)
             THEN Skip(p)
             ELSE proc' = [proc EXCEPT ![p].absent = TRUE]
        /\ UNCHANGED <<tables, faults, history>>

\* A row that has come in between is an error: the id is the primary key.
Insert(p) ==
    LET table == proc[p].pc
        i == Row(p)
    IN  /\ proc[p].absent
        /\ IF There(table, i)
             THEN Abort(p) /\ UNCHANGED tables
             ELSE /\ users' = IF table = "users" THEN [users EXCEPT ![i] = Legacy(i)] ELSE users
                  /\ sources' = IF table = "sources" THEN [sources EXCEPT ![i] = Legacy(i)]
                                ELSE sources
                  /\ data' = IF table = "data"
                               THEN [data EXCEPT ![i] = [row |-> Legacy(i),
                                                         source |-> SourceOf[i]]]
                               ELSE data
                  /\ tasks' = IF table = "tasks" THEN [tasks EXCEPT ![i] = Remap(i)] ELSE tasks
                  /\ Skip(p)
                  /\ UNCHANGED log
        /\ UNCHANGED <<faults, history>>

\* Mutant of NextTable: tasks before the data sources they refer to.
NextTableTasksFirst(p) ==
    /\ proc[p].pc \in CopyPc /\ proc[p].todo = {}
    /\ CASE proc[p].pc = "users" -> Goto(p, "owner", {})
         [] proc[p].pc = "sources" -> Goto(p, "tasks", LTask)
         [] proc[p].pc = "tasks" -> Goto(p, "data", LData)
         [] proc[p].pc = "data" -> Goto(p, "done", {})
    /\ migrated' = (migrated \/ (proc[p].pc = "data" /\ proc[p].owner))
    /\ UNCHANGED <<tables, faults, misread>>

\* Users, the fan-out, storage sources, data sources, tasks.
NextTable(p) ==
    /\ proc[p].pc \in CopyPc /\ proc[p].todo = {}
    /\ CASE proc[p].pc = "users" -> Goto(p, "owner", {})
         [] proc[p].pc = "sources" -> Goto(p, "data", LData)
         [] proc[p].pc = "data" -> Goto(p, "tasks", LTask)
         [] proc[p].pc = "tasks" -> Goto(p, "done", {})
    /\ migrated' = (migrated \/ (proc[p].pc = "tasks" /\ proc[p].owner))
    /\ UNCHANGED <<tables, faults, misread>>

-----------------------------------------------------------------------------
Fault == faults < MaxFaults /\ faults' = faults + 1

\* Any error of the look-up counts as a row that is not there.
LookUpFails(p) ==
    /\ Fault
    /\ proc[p].pc = "config" /\ proc[p].todo # {}
    /\ misread' = (misread \/ log[Row(p)] # 0)
    /\ Goto(p, "source", proc[p].todo)
    /\ UNCHANGED <<tables, migrated>>

InsertFails(p) ==
    /\ Fault
    /\ proc[p].pc \in {"source", "data source", "log"} \/ proc[p].absent
    /\ Abort(p)
    /\ UNCHANGED <<tables, history>>

Dies(p) ==
    /\ Fault
    /\ proc[p].pc \notin {"idle"} \cup Ended
    /\ Goto(p, "failed", {})
    /\ UNCHANGED <<tables, history>>

Next ==
    \E p \in Process :
        \/ Begin(p) \/ FindOwner(p) \/ LookUpLog(p)
        \/ CreateSource(p) \/ CreateDataSource(p) \/ CreateLog(p)
        \/ CountUsers(p) \/ CreateAdmin(p) \/ Look(p) \/ Insert(p) \/ NextTable(p)
        \/ LookUpFails(p) \/ InsertFails(p) \/ Dies(p)

Spec == Init /\ [][Next]_vars

-----------------------------------------------------------------------------
(* Correctness *)

\* However many servers and commands run, fail and run again, a config is made
\* into one storage source and one data source on it, and the log names that
\* data source.
FanOutOnce ==
    /\ \A i, j \in Id :
         /\ (sources[i].from = "config" /\ sources[i] = sources[j]) => i = j
         /\ (data[i].row.from = "config" /\ data[i].row = data[j].row) => i = j
    /\ \A i \in Id : data[i].row.from = "config" => sources[data[i].source] = data[i].row
    /\ \A c \in Config \ DOMAIN Logged : log[c] # 0 => data[log[c]].row = Fan(c)

\* A task is only copied when the data source it will work on is there, and the
\* storage source of that one, whatever was skipped before.
TasksResolve ==
    \A t \in LTask : tasks[t] # 0 => /\ data[tasks[t]] # NoData
                                     /\ sources[data[tasks[t]].source] # Absent

\* A task of a config that was fanned out.  Any other one has a legacy data source:
\* its own, or the one that the Python build made of its config.
MadeOfConfig(t) == "config" \in DOMAIN RefOf[t] /\ RefOf[t].config \notin DOMAIN Logged
DataOf(t) == IF "data" \in DOMAIN RefOf[t] THEN RefOf[t].data ELSE Logged[RefOf[t].config]

\* Ids of legacy rows that a fan-out has given to rows of its own: it comes before the
\* tables of sources and of data sources are copied, and looks at the new ones only.
TakenSources == {i \in LSource : sources[i].from = "config"}
TakenData == {i \in LData : data[i].row.from = "config"}

\* "IDs are preserved verbatim", so a task of a legacy data source has that one's
\* id, and works on that data source in the storage it was in, unless a fan-out had
\* taken the id of the one or of the other: the code does let it, and this is the
\* only way.  A task of a config works on what was made of that config, always.
TaskKeepsData ==
    \A t \in LTask : tasks[t] # 0 =>
        IF MadeOfConfig(t)
        THEN LET own == Fan(RefOf[t].config)
             IN  data[tasks[t]].row = own /\ sources[data[tasks[t]].source] = own
        ELSE LET d == DataOf(t)
             IN  /\ tasks[t] = d
                 /\ d \notin TakenData =>
                      /\ data[d] = [row |-> Legacy(d), source |-> SourceOf[d]]
                      /\ SourceOf[d] \notin TakenSources =>
                           sources[SourceOf[d]] = Legacy(SourceOf[d])

\* Processes that fan out at the same time get in each other's way, and one of them
\* gets through: if nothing failed or died, every config has been migrated.
FanOutCompletes ==
    (/\ faults = 0
     /\ \A p \in Process : proc[p].pc \in Ended
     /\ \E p \in Process : proc[p].owner)
    => \A c \in Config : log[c] # 0

\* "Re-running is safe": when a command has gone through once, later ones, and
\* servers that start, change nothing, as long as they can read the migration log.
\* What they may still see is the administrator of a server that had counted the
\* users before there were any: it gets an id that no legacy user has, and nobody
\* who counts them now goes that way.  ("Iff the users table is empty", it says at
\* BootstrapAdmin: empty when they were counted, is what the code does.)
RerunChangesNothing ==
    [][migrated /\ ~misread =>
         /\ UNCHANGED <<sources, data, log, tasks>>
         /\ \A p \in Process : proc'[p].pc = "create" => proc[p].pc = "create"
         /\ \A i \in Id : users'[i] # users[i] =>
              /\ i \notin LUser /\ users[i] = Absent /\ users'[i] = Boot
              /\ \E p \in Server : proc[p].pc = "create" /\ proc'[p].pc = "done"]_vars

-----------------------------------------------------------------------------
(* The inductive invariant *)

\* The configs that the migration log does not have.
Open == {c \in Config : log[c] = 0}

HasSource(c) == \E i \in Id : sources[i] = Fan(c)
HasData(c) == \E i \in Id : data[i].row = Fan(c)

\* Where a process is and what it has before it.  A config that is still open is
\* before every process that fans out, so none is passed over.
Located(p) ==
    /\ proc[p].pc \in CopyPc => p \in Command
    /\ proc[p].pc \in {"boot", "create"} => p \in Server
    /\ proc[p].pc \in {"idle", "users", "owner"} => ~proc[p].owner
    /\ proc[p].absent => proc[p].pc \in CopyPc /\ proc[p].todo # {}
    /\ proc[p].pc \in FanOutPc =>
         proc[p].owner /\ proc[p].todo \subseteq Config /\ Open \subseteq proc[p].todo
    /\ proc[p].pc \in {"source"} \cup HalfPc => proc[p].todo # {}
    /\ proc[p].pc \in HalfPc => proc[p].new \in Id
    /\ proc[p].pc = "users" => proc[p].todo \subseteq LUser
    /\ proc[p].pc = "sources" => proc[p].todo \subseteq LSource
    /\ proc[p].pc = "data" => proc[p].todo \subseteq LData
    /\ proc[p].pc = "tasks" => proc[p].todo \subseteq LTask

\* A source or data source is a legacy one, under its id and in its storage, or one
\* made of a config; the source of a data source is there.  What the log names is
\* there too, and so is what tasks name.
Rows ==
    /\ FanOutOnce
    /\ \A i \in Id : sources[i].from # "config" /\ sources[i] # Absent =>
         i \in LSource /\ sources[i] = Legacy(i)
    /\ \A i \in Id : data[i] # NoData =>
         /\ \/ data[i].row.from = "config"
            \/ i \in LData /\ data[i] = [row |-> Legacy(i), source |-> SourceOf[i]]
         /\ sources[data[i].source] # Absent
    /\ \A c \in DOMAIN Logged : log[c] = Logged[c]
    /\ \A t \in LTask : tasks[t] # 0 => tasks[t] = Remap(t) /\ data[tasks[t]] # NoData

\* What a process holds between the statements that make a config into three rows,
\* and between the two that copy a task.
Holds(p) ==
    /\ proc[p].pc = "data source" =>
         sources[proc[p].new] = Fan(Row(p)) /\ ~HasData(Row(p))
    /\ proc[p].pc = "log" => data[proc[p].new].row = Fan(Row(p))
    /\ (proc[p].pc \in {"source"} \cup HalfPc /\ Row(p) \in DOMAIN Logged) => misread
    /\ (proc[p].pc = "tasks" /\ proc[p].absent) => Remap(Row(p)) # 0

\* No two processes are half-way through the same config.
Alone ==
    \A p, q \in Process :
        (proc[p].pc \in HalfPc /\ proc[q].pc \in HalfPc /\ Row(p) = Row(q)) => p = q

\* What a command has copied of the tables that are behind it.
Copied(p) ==
    /\ proc[p].pc = "users" => LUser \ proc[p].todo \subseteq Used("users")
    /\ proc[p].pc \in {"owner", "sources", "data", "tasks"} \cup FanOutPc =>
         LUser \subseteq Used("users")
    /\ proc[p].pc = "sources" => LSource \ proc[p].todo \subseteq Used("sources")
    /\ proc[p].pc \in {"data", "tasks"} => LSource \subseteq Used("sources")
    /\ proc[p].pc = "data" => LData \ proc[p].todo \subseteq Used("data")
    /\ proc[p].pc = "tasks" => LData \subseteq Used("data")
    /\ (proc[p].pc \in {"sources", "data", "tasks"} /\ proc[p].owner) => Open = {}
    /\ (proc[p].pc = "tasks" /\ proc[p].owner) =>
         \A t \in LTask \ proc[p].todo : tasks[t] # 0

\* What is there when a command with an owner for the fan-out has gone through.
AllCopied ==
    /\ Open = {} /\ LUser \subseteq Used("users")
    /\ LSource \subseteq Used("sources") /\ LData \subseteq Used("data")
    /\ \A t \in LTask : tasks[t] # 0

\* The process that the others make way for: it will make, or has begun to make, the
\* first open config into its rows.
Leads(p) ==
    \/ proc[p].pc = "config" /\ ~HasSource(Min(Open))
    \/ proc[p].pc = "source" /\ Row(p) = Min(Open) /\ ~HasSource(Min(Open))
    \/ proc[p].pc \in HalfPc /\ Row(p) = Min(Open)

\* Without faults, what is begun is finished, and one process leads until all is done.
Faultless ==
    /\ ~misread
    /\ \A c \in Open : HasSource(c) =>
         \E p \in Process : proc[p].pc \in HalfPc /\ Row(p) = c
    /\ IF \E p \in Process : proc[p].owner
         THEN Open # {} => \E p \in Process : Leads(p)
         ELSE \A c \in Config : ~HasSource(c)

\* Every step keeps this, and with it FanOutOnce, TasksResolve, TaskKeepsData,
\* FanOutCompletes and RerunChangesNothing.
MigrationInv ==
    /\ TypeOK /\ Rows /\ Alone
    /\ \A p \in Process : Located(p) /\ Holds(p)
    /\ \A p \in Command : Copied(p)
    /\ migrated => AllCopied
    /\ faults = 0 => Faultless
=============================================================================
