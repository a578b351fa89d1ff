----------------------- MODULE LegacyMigrationProofs -----------------------
(***************************************************************************)
(* Whatever the legacy tables hold, however many servers and commands run, *)
(* and wherever they fail or die, MigrationInv is kept, and the properties *)
(* of LegacyMigration follow from it.                                      *)
(***************************************************************************)
EXTENDS LegacyMigration, WellFoundedInduction, TLAPS

Pcs == {"idle", "owner", "boot", "create"} \cup FanOutPc \cup CopyPc \cup Ended

Procs == [pc : Pcs, todo : SUBSET Id, absent : BOOLEAN, new : 0..MaxId, owner : BOOLEAN]

DataRow == {NoData} \cup [row : Origin \ {Absent}, source : Id]

\* A step of one process.
Moves(p) ==
  \/ Begin(p) \/ FindOwner(p) \/ LookUpLog(p)
  \/ CreateSource(p) \/ CreateDataSource(p) \/ CreateLog(p)
  \/ CountUsers(p) \/ CreateAdmin(p) \/ Look(p) \/ Insert(p) \/ NextTable(p)
  \/ LookUpFails(p) \/ InsertFails(p) \/ Dies(p)

\* What a step does to the tables: nothing, or one more row in one of them.
Quiet == UNCHANGED tables

\* A copied user, or the administrator of a server that has counted.
AddsUser(p) ==
  /\ \E i \in Id, row \in Origin \ {Absent} :
       /\ users[i] = Absent /\ users' = [users EXCEPT ![i] = row]
       /\ \/ proc[p].pc = "create" /\ Goto(p, "done", {}) /\ row = Boot
          \/ i \in LUser
  /\ UNCHANGED <<sources, data, log, tasks>>

MakesSource(p) ==
  /\ proc[p].pc = "source" /\ ~HasSource(Row(p))
  /\ \E i \in Id : /\ sources[i] = Absent
                   /\ sources' = [sources EXCEPT ![i] = Fan(Row(p))]
                   /\ proc' = [proc EXCEPT ![p].pc = "data source", ![p].new = i]
  /\ UNCHANGED <<users, data, log, tasks>>

CopiesSource(p) ==
  /\ proc[p].pc = "sources"
  /\ \E i \in LSource : sources[i] = Absent /\ sources' = [sources EXCEPT ![i] = Legacy(i)]
  /\ UNCHANGED <<users, data, log, tasks>>

MakesData(p) ==
  /\ proc[p].pc = "data source"
  /\ \E i \in Id :
       /\ data[i] = NoData
       /\ data' = [data EXCEPT ![i] = [row |-> Fan(Row(p)), source |-> proc[p].new]]
       /\ proc' = [proc EXCEPT ![p].pc = "log", ![p].new = i]
  /\ UNCHANGED <<users, sources, log, tasks>>

CopiesData(p) ==
  /\ proc[p].pc = "data"
  /\ \E i \in LData :
       /\ data[i] = NoData
       /\ data' = [data EXCEPT ![i] = [row |-> Legacy(i), source |-> SourceOf[i]]]
  /\ UNCHANGED <<users, sources, log, tasks>>

MakesLog(p) ==
  /\ proc[p].pc = "log" /\ log[Row(p)] = 0
  /\ log' = [log EXCEPT ![Row(p)] = proc[p].new]
  /\ Goto(p, "config", proc[p].todo \ {Row(p)})
  /\ UNCHANGED <<users, sources, data, tasks>>

CopiesTask(p) ==
  /\ proc[p].pc = "tasks" /\ proc[p].absent /\ tasks[Row(p)] = 0
  /\ tasks' = [tasks EXCEPT ![Row(p)] = Remap(Row(p))]
  /\ UNCHANGED <<users, sources, data, log>>

-----------------------------------------------------------------------------
(* The least and the greatest element, which rows and ids are chosen by *)

\* A non-empty set of naturals has a least element.
LEMMA LeastElement ==
  ASSUME NEW S \in SUBSET Nat, S # {}
  PROVE  \E x \in S : \A y \in S : x <= y
<1>1. PICK x \in S : \A y \in S : <<y, x>> \notin OpToRel(<, Nat)
  BY WFMin, NatLessThanWellFounded, Zenon
<1>2. \A y \in S : ~(y < x)
  <2>1. x \in Nat /\ \A y \in S : y \in Nat  OBVIOUS
  <2>2. QED  BY <1>1, <2>1, Zenon DEF OpToRel
<1>3. QED  BY <1>2, SMT

\* Min is that element.
LEMMA MinLeast ==
  ASSUME NEW S \in SUBSET Nat, S # {}
  PROVE  Min(S) \in S /\ \A y \in S : Min(S) <= y
  BY LeastElement DEF Min

\* Max is the greatest element of a bounded set.
LEMMA MaxGreatest ==
  ASSUME NEW n \in Nat, NEW S \in SUBSET (0..n), S # {}
  PROVE  Max(S) \in S /\ \A y \in S : Max(S) >= y
<1> DEFINE T == {n - s : s \in S}
<1>1. PICK x \in T : \A y \in T : x <= y
  <2>1. T \in SUBSET Nat
    <3>1. \A s \in S : n - s \in Nat  OBVIOUS
    <3>2. QED  BY <3>1
  <2>2. T # {}  OBVIOUS
  <2>3. QED  BY <2>1, <2>2, LeastElement
<1>2. PICK s \in S : x = n - s  BY <1>1
<1>3. \A y \in S : n - y \in T  OBVIOUS
<1>4. \A y \in S : s >= y  BY <1>1, <1>2, <1>3
<1>5. QED  BY <1>2, <1>4 DEF Max

\* Ids are natural numbers.
LEMMA IdNat == Id \subseteq Nat /\ 0 \notin Id
  BY MigrationAssumption DEF Id

\* An id that is given out has not been used.
LEMMA NextIdFresh ==
  ASSUME NEW table, NextId(table) \in Id
  PROVE  NextId(table) \notin Used(table)
<1>1. Used(table) \subseteq Id  BY Zenon DEF Used
<1>2. PICK S : S = {0} \cup Used(table)  OBVIOUS
<1>3. S \in SUBSET (0..MaxId) /\ S # {}  BY <1>1, <1>2, MigrationAssumption DEF Id
<1>4. Max(S) \in S /\ \A i \in S : Max(S) >= i
  <2>1. MaxId \in Nat  BY MigrationAssumption
  <2>2. QED  BY <1>3, <2>1, MaxGreatest
<1>5. Max(S) \in Nat /\ \A i \in Used(table) : Max(S) >= i /\ i \in Nat
  <2>1. \A i \in S : i \in Nat  BY <1>3
  <2>2. \A i \in Used(table) : i \in S  BY <1>2
  <2>3. QED  BY <1>4, <2>1, <2>2
<1>6. NextId(table) = 1 + Max(S)  BY <1>2 DEF NextId
<1>7. QED  BY <1>5, <1>6

-----------------------------------------------------------------------------
(* What the types say, and the steps of a process *)

\* The fields of a process.
LEMMA ProcFields ==
  ASSUME TypeOK, NEW p \in Process
  PROVE  /\ proc[p].pc \in Pcs /\ proc[p].todo \in SUBSET Id /\ proc[p].absent \in BOOLEAN
         /\ proc[p].new \in 0..MaxId /\ proc[p].owner \in BOOLEAN
  BY DEF TypeOK, Pcs

\* The row that a process is at.
LEMMA RowIn ==
  ASSUME TypeOK, NEW p \in Process, proc[p].todo # {}
  PROVE  /\ Row(p) \in proc[p].todo /\ Row(p) \in Id
         /\ \A i \in proc[p].todo : Row(p) <= i
<1>1. proc[p].todo \in SUBSET Id  BY ProcFields
<1>2. QED  BY <1>1, MinLeast, IdNat DEF Row

\* Only one process moves, and what it has become.
LEMMA Moved ==
  ASSUME TypeOK, NEW p \in Process, NEW pc, NEW todo, Goto(p, pc, todo)
  PROVE  /\ proc'[p].pc = pc /\ proc'[p].todo = todo /\ proc'[p].absent = FALSE
         /\ proc'[p].new = proc[p].new /\ proc'[p].owner = proc[p].owner
         /\ \A q \in Process \ {p} : proc'[q] = proc[q]
<1>1. proc \in [Process -> Procs]  BY DEF TypeOK, Procs, Pcs
<1>2. proc' = [proc EXCEPT ![p] = [proc[p] EXCEPT !.pc = pc, !.todo = todo, !.absent = FALSE]]
  BY <1>1 DEF Goto, Procs
<1>3. proc'[p] = [proc[p] EXCEPT !.pc = pc, !.todo = todo, !.absent = FALSE]  BY <1>1, <1>2
<1>4. proc[p] \in Procs  BY <1>1
<1>5. \A q \in Process \ {p} : proc'[q] = proc[q]  BY <1>1, <1>2
<1>6. QED  BY <1>3, <1>4, <1>5 DEF Procs

\* A move keeps the type.
LEMMA MovedType ==
  ASSUME TypeOK, NEW p \in Process, NEW pc \in Pcs, NEW todo \in SUBSET Id, Goto(p, pc, todo)
  PROVE  proc' \in [Process -> Procs]
<1>1. proc \in [Process -> Procs]  BY DEF TypeOK, Procs, Pcs
<1>2. proc' = [proc EXCEPT ![p] = [proc[p] EXCEPT !.pc = pc, !.todo = todo, !.absent = FALSE]]
  BY <1>1 DEF Goto, Procs
<1>3. [proc[p] EXCEPT !.pc = pc, !.todo = todo, !.absent = FALSE] \in Procs  BY <1>1 DEF Procs
<1>4. QED  BY <1>1, <1>2, <1>3

\* The row of a process, in the table that it is at.
LEMMA RowOf ==
  ASSUME TypeOK, NEW p \in Process, Located(p), proc[p].todo # {}
  PROVE  /\ proc[p].pc \in FanOutPc => Row(p) \in Config
         /\ proc[p].pc = "users" => Row(p) \in LUser
         /\ proc[p].pc = "sources" => Row(p) \in LSource
         /\ proc[p].pc = "data" => Row(p) \in LData
         /\ proc[p].pc = "tasks" => Row(p) \in LTask
  BY RowIn DEF Located

\* What a row can be made of.
LEMMA OriginIn ==
  /\ \A c \in Config : Fan(c) \in Origin \ {Absent}
  /\ \A i \in LUser \cup LSource \cup LData : Legacy(i) \in Origin \ {Absent}
  /\ Boot \in Origin \ {Absent}
  BY DEF Origin, Absent, Fan, Legacy, Boot

\* A task refers to a data source.
LEMMA RemapIn ==
  ASSUME TypeOK, NEW t \in LTask
  PROVE  Remap(t) \in 0..MaxId
<1>1. RefOf[t] \in [config : Config] \cup [data : LData] /\ LData \subseteq Id
  BY MigrationAssumption
<1>2. CASE RefOf[t] \in [data : LData]
  <2>1. "data" \in DOMAIN RefOf[t] /\ RefOf[t].data \in Id  BY <1>1, <1>2
  <2>2. QED  BY <2>1 DEF Remap, Id
<1>3. CASE RefOf[t] \in [config : Config]
  <2>1. "data" \notin DOMAIN RefOf[t] /\ RefOf[t].config \in Config  BY <1>3
  <2>2. QED  BY <2>1 DEF Remap, TypeOK
<1>4. QED  BY <1>1, <1>2, <1>3

\* Only the process that takes a step moves.
LEMMA OthersStay ==
  ASSUME TypeOK, NEW p \in Process,
         Moves(p),
         NEW q \in Process \ {p}
  PROVE  proc'[q] = proc[q]
<1>1. \A pc, todo : Goto(p, pc, todo) => proc'[q] = proc[q]  BY DEF Goto, TypeOK
<1>2. Skip(p) => proc'[q] = proc[q]  BY <1>1 DEF Skip
<1>3. Abort(p) => proc'[q] = proc[q]  BY <1>1 DEF Abort
<1>4. FannedOut(p) => proc'[q] = proc[q]  BY <1>1 DEF FannedOut
<1>5. NextTable(p) => \E pc, todo : Goto(p, pc, todo)
  <2>1. proc[p].pc \in {"users", "sources", "data", "tasks"} => 
          (\/ proc[p].pc = "users" \/ proc[p].pc = "sources"
          \/ proc[p].pc = "data" \/ proc[p].pc = "tasks")
    OBVIOUS
  <2>2. QED  BY <2>1 DEF NextTable, CopyPc
<1>6. QED
  BY <1>1, <1>2, <1>3, <1>4, <1>5
  DEF Moves, Begin, FindOwner, LookUpLog, CreateSource, CreateDataSource, CreateLog,
      CountUsers, CreateAdmin, Look, Insert, LookUpFails, InsertFails, Dies, TypeOK

-----------------------------------------------------------------------------
(* The type invariant *)

\* The types of the tables.
TablesOK ==
  /\ users \in [Id -> Origin] /\ sources \in [Id -> Origin] /\ data \in [Id -> DataRow]
  /\ log \in [Config -> 0..MaxId] /\ tasks \in [LTask -> 0..MaxId]

\* The type invariant in parts.
LEMMA TypeParts ==
  TypeOK <=> /\ TablesOK /\ proc \in [Process -> Procs]
             /\ faults \in Nat /\ migrated \in BOOLEAN /\ misread \in BOOLEAN
  BY DEF TypeOK, TablesOK, DataRow, Procs, Pcs

\* So it is in the next state.
LEMMA TypePartsNext ==
  TypeOK' <=> /\ TablesOK' /\ proc' \in [Process -> Procs]
              /\ faults' \in Nat /\ migrated' \in BOOLEAN /\ misread' \in BOOLEAN
  BY DEF TypeOK, TablesOK, DataRow, Procs, Pcs

\* Every move goes to a place there is.
LEMMA ProcType ==
  ASSUME TypeOK, NEW p \in Process, Located(p),
         Moves(p)
  PROVE  proc' \in [Process -> Procs]
<1>1. /\ proc \in [Process -> Procs] /\ proc[p].pc \in Pcs /\ proc[p].todo \in SUBSET Id
      /\ proc[p].todo \ {Row(p)} \in SUBSET Id
  BY ProcFields, TypeParts
<1>2. {} \in SUBSET Id /\ Config \in SUBSET Id /\ LUser \in SUBSET Id
      /\ LSource \in SUBSET Id /\ LData \in SUBSET Id /\ LTask \in SUBSET Id
  BY MigrationAssumption
<1>3. \A pc \in Pcs, todo \in SUBSET Id : Goto(p, pc, todo) => proc' \in [Process -> Procs]
  BY MovedType
<1>4. Skip(p) => proc' \in [Process -> Procs]  BY <1>1, <1>3 DEF Skip
<1>5. Abort(p) => proc' \in [Process -> Procs]
  <2>1. (IF p \in Server THEN "boot" ELSE "failed") \in Pcs  BY DEF Pcs, Ended
  <2>2. QED  BY <1>2, <1>3, <2>1 DEF Abort
<1>6. FannedOut(p) => proc' \in [Process -> Procs]
  <2>1. "boot" \in Pcs /\ "sources" \in Pcs  BY DEF Pcs, CopyPc
  <2>2. QED  BY <1>2, <1>3, <2>1 DEF FannedOut
<1>7. CASE Begin(p)
  <2>1. "users" \in Pcs /\ "boot" \in Pcs /\ "owner" \in Pcs  BY DEF Pcs, CopyPc
  <2>2. QED  BY <1>2, <1>3, <1>7, <2>1 DEF Begin
<1>8. CASE FindOwner(p)
  <2>1. "config" \in Pcs  BY DEF Pcs, FanOutPc
  <2>2. QED  BY <1>1, <1>2, <1>6, <1>8, <2>1 DEF FindOwner, Procs
<1>9. CASE LookUpLog(p)
  <2>1. "source" \in Pcs  BY DEF Pcs, FanOutPc
  <2>2. QED  BY <1>1, <1>3, <1>4, <1>6, <1>9, <2>1 DEF LookUpLog
<1>10. CASE CreateSource(p)
  <2>1. "data source" \in Pcs /\ (NextId("sources") \in Id => NextId("sources") \in 0..MaxId)
    BY DEF Pcs, FanOutPc, Id
  <2>2. PICK n : n = NextId("sources")  OBVIOUS
  <2>3. CASE Abort(p)  BY <1>5, <2>3
  <2>4. CASE n \in Id /\ proc' = [proc EXCEPT ![p].pc = "data source", ![p].new = n]
    BY <1>1, <2>1, <2>2, <2>4 DEF Procs
  <2>5. Abort(p) \/ (n \in Id /\ proc' = [proc EXCEPT ![p].pc = "data source", ![p].new = n])
    BY <1>10, <2>2, Zenon DEF CreateSource
  <2>6. QED  BY <2>3, <2>4, <2>5
<1>11. CASE CreateDataSource(p)
  <2>1. "log" \in Pcs /\ (NextId("data") \in Id => NextId("data") \in 0..MaxId)
    BY DEF Pcs, FanOutPc, Id
  <2>2. QED  BY <1>1, <1>11, <2>1 DEF CreateDataSource, Procs
<1>12. CASE CreateLog(p)
  <2>1. "config" \in Pcs  BY DEF Pcs, FanOutPc
  <2>2. Abort(p) \/ Goto(p, "config", proc[p].todo \ {Row(p)})  BY <1>12 DEF CreateLog
  <2>3. proc[p].todo \ {Row(p)} \in SUBSET Id  BY <1>1 DEF Procs
  <2>4. QED  BY <1>3, <1>5, <2>1, <2>2, <2>3
<1>13. CASE CountUsers(p) \/ CreateAdmin(p)
  <2>1. "create" \in Pcs /\ "done" \in Pcs  BY DEF Pcs, Ended
  <2>2. QED  BY <1>2, <1>3, <1>13, <2>1 DEF CountUsers, CreateAdmin
<1>14. CASE Look(p)  BY <1>1, <1>4, <1>14 DEF Look, Procs
<1>15. CASE Insert(p)  BY <1>4, <1>5, <1>15 DEF Insert
<1>16. CASE NextTable(p)
  <2>1. "owner" \in Pcs /\ "data" \in Pcs /\ "tasks" \in Pcs /\ "done" \in Pcs
    BY DEF Pcs, CopyPc, Ended
  <2>2. \/ Goto(p, "owner", {}) \/ Goto(p, "data", LData) \/ Goto(p, "tasks", LTask)
        \/ Goto(p, "done", {})
    BY <1>16 DEF NextTable, CopyPc
  <2>3. QED  BY <1>2, <1>3, <2>1, <2>2
<1>17. CASE LookUpFails(p)
  <2>1. "source" \in Pcs  BY DEF Pcs, FanOutPc
  <2>2. QED  BY <1>1, <1>3, <1>17, <2>1 DEF LookUpFails
<1>18. CASE InsertFails(p)  BY <1>5, <1>18 DEF InsertFails
<1>19. CASE Dies(p)
  <2>1. "failed" \in Pcs  BY DEF Pcs, Ended
  <2>2. QED  BY <1>2, <1>3, <1>19, <2>1 DEF Dies
<1>20. QED
  BY <1>7, <1>8, <1>9, <1>10, <1>11, <1>12, <1>13, <1>14, <1>15, <1>16, <1>17, <1>18, <1>19
  DEF Moves

-----------------------------------------------------------------------------
(* The tables *)

\* A source is made under an id that is free, or the process gives up.
LEMMA CreateSourceShape ==
  ASSUME NEW p \in Process, CreateSource(p)
  PROVE  (Abort(p) /\ UNCHANGED sources) \/ MakesSource(p)
<1>1. CASE \E i \in Id : sources[i] = Fan(Row(p))  BY <1>1 DEF CreateSource
<1>2. CASE ~\E i \in Id : sources[i] = Fan(Row(p))
  <2>1. PICK n : n = NextId("sources")  OBVIOUS
  <2>2. n \in Id /\ sources' = [sources EXCEPT ![n] = Fan(Row(p))]
        /\ proc' = [proc EXCEPT ![p].pc = "data source", ![p].new = n]
    BY <1>2, <2>1, Zenon DEF CreateSource
  <2>3. sources[n] = Absent  BY <2>1, <2>2, NextIdFresh DEF Used
  <2>4. QED  BY <1>2, <2>2, <2>3 DEF CreateSource, MakesSource, HasSource
<1>3. QED  BY <1>1, <1>2

\* A data source is made under an id that is free.
LEMMA CreateDataSourceShape ==
  ASSUME NEW p \in Process, CreateDataSource(p)
  PROVE  MakesData(p)
<1>1. PICK n : n = NextId("data")  OBVIOUS
<1>2. n \in Id /\ data' = [data EXCEPT ![n] = [row |-> Fan(Row(p)), source |-> proc[p].new]]
      /\ proc' = [proc EXCEPT ![p].pc = "log", ![p].new = n]
  BY <1>1 DEF CreateDataSource
<1>3. data[n] = NoData  BY <1>1, <1>2, NextIdFresh DEF Used
<1>4. QED  BY <1>2, <1>3 DEF CreateDataSource, MakesData

\* A step adds at most one row to one table.
LEMMA TableStep ==
  ASSUME TypeOK, NEW p \in Process, Located(p), Moves(p)
  PROVE  \/ Quiet \/ AddsUser(p) \/ MakesSource(p) \/ CopiesSource(p) \/ MakesData(p)
         \/ CopiesData(p) \/ MakesLog(p) \/ CopiesTask(p)
<1>1. CASE \/ Begin(p) \/ FindOwner(p) \/ LookUpLog(p) \/ Look(p) \/ NextTable(p)
           \/ CountUsers(p) \/ LookUpFails(p) \/ InsertFails(p) \/ Dies(p)
  BY <1>1 DEF Begin, FindOwner, LookUpLog, CountUsers, Look, NextTable, LookUpFails, InsertFails,
              Dies, Quiet
<1>2. CASE CreateSource(p)  BY <1>2, CreateSourceShape DEF CreateSource, Quiet, tables
<1>3. CASE CreateDataSource(p)  BY <1>3, CreateDataSourceShape
<1>4. CASE CreateLog(p)
  <2>1. CASE log[Row(p)] # 0  BY <1>4, <2>1 DEF CreateLog, Quiet, tables
  <2>2. CASE log[Row(p)] = 0  BY <1>4, <2>2 DEF CreateLog, MakesLog
  <2>3. QED  BY <2>1, <2>2
<1>5. CASE CreateAdmin(p)
  <2>1. CASE UNCHANGED users  BY <1>5, <2>1 DEF CreateAdmin, Quiet, tables
  <2>2. CASE NextId("users") \in Id /\ users' = [users EXCEPT ![NextId("users")] = Boot]
    <3>1. PICK n \in Id : n = NextId("users")  BY <2>2
    <3>2. users[n] = Absent  BY <3>1, NextIdFresh DEF Used
    <3>3. users' = [users EXCEPT ![n] = Boot]  BY <2>2, <3>1
    <3>4. QED  BY <1>5, <3>2, <3>3, OriginIn DEF CreateAdmin, AddsUser
  <2>3. QED  BY <1>5, <2>1, <2>2 DEF CreateAdmin
<1>6. CASE Insert(p)
  <2>1. proc[p].pc \in {"users", "sources", "data", "tasks"} /\ proc[p].todo # {}
    BY <1>6 DEF Insert, Located, CopyPc
  <2>2. CASE There(proc[p].pc, Row(p))  BY <1>6, <2>2 DEF Insert, Quiet
  <2>3. CASE ~There(proc[p].pc, Row(p)) /\ proc[p].pc = "users"
    <3>1. Row(p) \in LUser /\ Row(p) \in Id  BY <2>1, <2>3, RowOf, RowIn
    <3>2. users[Row(p)] = Absent  BY <2>3, <3>1 DEF There, Used
    <3>3. users' = [users EXCEPT ![Row(p)] = Legacy(Row(p))]
          /\ UNCHANGED <<sources, data, log, tasks>>
      BY <1>6, <2>3 DEF Insert
    <3>4. QED  BY <3>1, <3>2, <3>3, OriginIn DEF AddsUser
  <2>4. CASE ~There(proc[p].pc, Row(p)) /\ proc[p].pc = "sources"
    <3>1. Row(p) \in LSource /\ Row(p) \in Id  BY <2>1, <2>4, RowOf, RowIn
    <3>2. sources[Row(p)] = Absent  BY <2>4, <3>1 DEF There, Used
    <3>3. sources' = [sources EXCEPT ![Row(p)] = Legacy(Row(p))]
          /\ UNCHANGED <<users, data, log, tasks>>
      BY <1>6, <2>4 DEF Insert
    <3>4. QED  BY <2>4, <3>1, <3>2, <3>3 DEF CopiesSource
  <2>5. CASE ~There(proc[p].pc, Row(p)) /\ proc[p].pc = "data"
    <3>1. Row(p) \in LData /\ Row(p) \in Id  BY <2>1, <2>5, RowOf, RowIn
    <3>2. data[Row(p)] = NoData  BY <2>5, <3>1 DEF There, Used
    <3>3. data' = [data EXCEPT ![Row(p)] = [row |-> Legacy(Row(p)), source |-> SourceOf[Row(p)]]]
          /\ UNCHANGED <<users, sources, log, tasks>>
      BY <1>6, <2>5 DEF Insert
    <3>4. QED  BY <2>5, <3>1, <3>2, <3>3 DEF CopiesData
  <2>6. CASE ~There(proc[p].pc, Row(p)) /\ proc[p].pc = "tasks"
    BY <1>6, <2>6 DEF Insert, CopiesTask, There
  <2>7. QED  BY <2>1, <2>2, <2>3, <2>4, <2>5, <2>6
<1>7. QED  BY <1>1, <1>2, <1>3, <1>4, <1>5, <1>6 DEF Moves

\* The tables keep their types.
LEMMA TablesType ==
  ASSUME TypeOK, NEW p \in Process, Located(p), Moves(p)
  PROVE  TablesOK'
<1> USE DEF TablesOK
<1>1. TablesOK  BY TypeParts
<1>2. CASE Quiet  BY <1>1, <1>2 DEF Quiet, tables
<1>3. CASE AddsUser(p)  BY <1>1, <1>3 DEF AddsUser
<1>4. CASE MakesSource(p)
  <2>1. Fan(Row(p)) \in Origin  BY <1>4, RowOf, OriginIn DEF MakesSource, Located, FanOutPc
  <2>2. QED  BY <1>1, <1>4, <2>1 DEF MakesSource
<1>5. CASE CopiesSource(p)  BY <1>1, <1>5, OriginIn DEF CopiesSource
<1>6. CASE MakesData(p)
  <2>1. Fan(Row(p)) \in Origin \ {Absent} /\ proc[p].new \in Id
    BY <1>6, RowOf, OriginIn DEF MakesData, Located, FanOutPc, HalfPc
  <2>2. [row |-> Fan(Row(p)), source |-> proc[p].new] \in DataRow  BY <2>1 DEF DataRow
  <2>3. QED  BY <1>1, <1>6, <2>2 DEF MakesData
<1>7. CASE CopiesData(p)
  <2>1. \A i \in LData : SourceOf[i] \in Id  BY MigrationAssumption
  <2>2. \A i \in LData : [row |-> Legacy(i), source |-> SourceOf[i]] \in DataRow
    BY <2>1, OriginIn DEF DataRow
  <2>3. QED  BY <1>1, <1>7, <2>2 DEF CopiesData
<1>8. CASE MakesLog(p)
  <2>1. proc[p].new \in 0..MaxId  BY ProcFields
  <2>2. QED  BY <1>1, <1>8, <2>1 DEF MakesLog
<1>9. CASE CopiesTask(p)
  <2>1. Row(p) \in LTask  BY <1>9, RowOf DEF CopiesTask, Located
  <2>2. Remap(Row(p)) \in 0..MaxId  BY <2>1, RemapIn
  <2>3. QED  BY <1>1, <1>9, <2>2 DEF CopiesTask
<1>10. QED  BY <1>2, <1>3, <1>4, <1>5, <1>6, <1>7, <1>8, <1>9, TableStep

\* Rows are never changed or taken away.
Grows ==
  /\ \A i \in Id : (users[i] # Absent) => users'[i] = users[i]
  /\ \A i \in Id : (sources[i] # Absent) => sources'[i] = sources[i]
  /\ \A i \in Id : (data[i] # NoData) => data'[i] = data[i]
  /\ \A c \in Config : (log[c] # 0) => log'[c] = log[c]
  /\ \A t \in LTask : (tasks[t] # 0) => tasks'[t] = tasks[t]

\* No step changes a row that is there.
LEMMA TablesGrow ==
  ASSUME TypeOK, NEW p \in Process, Located(p), Moves(p)
  PROVE  Grows
<1> USE DEF Grows
<1>1. TablesOK  BY TypeParts
<1>2. CASE Quiet  BY <1>2 DEF Quiet, tables
<1>3. CASE AddsUser(p)  BY <1>1, <1>3 DEF AddsUser, TablesOK
<1>4. CASE MakesSource(p)  BY <1>1, <1>4 DEF MakesSource, TablesOK
<1>5. CASE CopiesSource(p)  BY <1>1, <1>5 DEF CopiesSource, TablesOK
<1>6. CASE MakesData(p)  BY <1>1, <1>6 DEF MakesData, TablesOK
<1>7. CASE CopiesData(p)  BY <1>1, <1>7 DEF CopiesData, TablesOK
<1>8. CASE MakesLog(p)  BY <1>1, <1>8 DEF MakesLog, TablesOK
<1>9. CASE CopiesTask(p)  BY <1>1, <1>9 DEF CopiesTask, TablesOK
<1>10. QED  BY <1>2, <1>3, <1>4, <1>5, <1>6, <1>7, <1>8, <1>9, TableStep

\* The rows of each table.
LEMMA UsedIs ==
  /\ Used("users") = {i \in Id : users[i] # Absent}
  /\ Used("sources") = {i \in Id : sources[i] # Absent}
  /\ Used("data") = {i \in Id : data[i] # NoData}
  BY DEF Used

\* So it is in the next state.
LEMMA UsedIsNext ==
  /\ Used("users")' = {i \in Id : users'[i] # Absent}
  /\ Used("sources")' = {i \in Id : sources'[i] # Absent}
  /\ Used("data")' = {i \in Id : data'[i] # NoData}
  BY DEF Used

\* So what has been copied stays copied, and what is done is not open again.
LEMMA StaysUsed ==
  ASSUME TypeOK, Grows
  PROVE  /\ Used("users") \subseteq Used("users")' /\ Used("sources") \subseteq Used("sources")'
         /\ Used("data") \subseteq Used("data")' /\ Open' \subseteq Open
         /\ \A c \in Config : (c \notin Open) => log'[c] = log[c]
         /\ \A t \in LTask : (Remap(t) # 0) => Remap(t)' = Remap(t)
<1>1. Used("users") \subseteq Used("users")'  BY UsedIs, UsedIsNext DEF Grows
<1>2. Used("sources") \subseteq Used("sources")'  BY UsedIs, UsedIsNext DEF Grows
<1>3. Used("data") \subseteq Used("data")'  BY UsedIs, UsedIsNext DEF Grows
<1>4. Open' \subseteq Open /\ \A c \in Config : (c \notin Open) => log'[c] = log[c]
  BY DEF Grows, Open
<1>5. ASSUME NEW t \in LTask, Remap(t) # 0  PROVE Remap(t)' = Remap(t)
  <2>1. RefOf[t] \in [config : Config] \cup [data : LData]  BY MigrationAssumption
  <2>2. CASE "data" \in DOMAIN RefOf[t]  BY <2>2 DEF Remap
  <2>3. CASE "data" \notin DOMAIN RefOf[t]
    <3>1. RefOf[t].config \in Config  BY <2>1, <2>3
    <3>2. QED  BY <1>5, <2>3, <3>1 DEF Remap, Grows
  <2>4. QED  BY <2>2, <2>3
<1>6. QED  BY <1>1, <1>2, <1>3, <1>4, <1>5

-----------------------------------------------------------------------------
(* The rows and what they refer to *)

\* Each config into one source and one data source, its data source on its source.
SourceOnce ==
  \A i, j \in Id : (sources[i].from = "config" /\ sources[i] = sources[j]) => i = j
DataOnce ==
  \A i, j \in Id : (data[i].row.from = "config" /\ data[i].row = data[j].row) => i = j
DataOnSource ==
  \A i \in Id : data[i].row.from = "config" => sources[data[i].source] = data[i].row
SourceIs ==
  \A i \in Id : sources[i].from # "config" /\ sources[i] # Absent =>
    i \in LSource /\ sources[i] = Legacy(i)
DataThere ==
  \A i \in Id : data[i] # NoData =>
    /\ \/ data[i].row.from = "config"
       \/ i \in LData /\ data[i] = [row |-> Legacy(i), source |-> SourceOf[i]]
    /\ sources[data[i].source] # Absent
LogNames ==
  /\ \A c \in Config \ DOMAIN Logged : log[c] # 0 => data[log[c]].row = Fan(c)
  /\ \A c \in DOMAIN Logged : log[c] = Logged[c]
TasksName ==
  \A t \in LTask : tasks[t] # 0 => tasks[t] = Remap(t) /\ data[tasks[t]] # NoData

\* Rows in parts.
LEMMA RowsParts ==
  Rows <=> /\ SourceOnce /\ DataOnce /\ DataOnSource /\ SourceIs /\ DataThere
           /\ LogNames /\ TasksName
  BY DEF Rows, FanOutOnce, SourceOnce, DataOnce, DataOnSource, SourceIs, DataThere, LogNames,
         TasksName

\* So they are in the next state.
LEMMA RowsPartsNext ==
  Rows' <=> /\ SourceOnce' /\ DataOnce' /\ DataOnSource' /\ SourceIs' /\ DataThere'
            /\ LogNames' /\ TasksName'
  BY DEF Rows, FanOutOnce, SourceOnce, DataOnce, DataOnSource, SourceIs, DataThere, LogNames,
         TasksName

\* A row that is made of a config names it.
LEMMA FanFields ==
  /\ \A c : Fan(c).from = "config" /\ Fan(c).id = c /\ Fan(c) # Absent
  /\ \A i : Legacy(i).from = "legacy" /\ Legacy(i).id = i /\ Legacy(i) # Absent
  /\ \A c, d : Fan(c) = Fan(d) => c = d
  /\ Absent.from = "none" /\ Boot.from = "bootstrap" /\ NoData.row = Absent
<1>1. \A c : Fan(c).from = "config" /\ Fan(c).id = c /\ Fan(c) # Absent
  BY DEF Fan, Absent
<1>2. \A i : Legacy(i).from = "legacy" /\ Legacy(i).id = i /\ Legacy(i) # Absent
  BY DEF Legacy, Absent
<1>3. \A c, d : Fan(c) = Fan(d) => c = d  BY <1>1
<1>4. Absent.from = "none" /\ Boot.from = "bootstrap" /\ NoData.row = Absent
  BY DEF Absent, Boot, NoData
<1>5. QED  BY <1>1, <1>2, <1>3, <1>4

\* A source that is made of a config.
LEMMA FromConfig ==
  ASSUME NEW row \in Origin, row.from = "config"
  PROVE  \E c \in Config : row = Fan(c)
  BY FanFields DEF Origin

\* The source of a data source, and its row.
LEMMA DataFields ==
  ASSUME TypeOK, NEW i \in Id
  PROVE  /\ data[i] # NoData => data[i].source \in Id /\ data[i].row # Absent
         /\ data[i].row \in Origin
         /\ data[i].row # Absent => data[i] # NoData
<1>1. data[i] \in {NoData} \cup [row : Origin \ {Absent}, source : Id]  BY DEF TypeOK
<1>2. CASE data[i] = NoData
  <2>1. NoData.row = Absent /\ Absent \in Origin  BY FanFields DEF Origin
  <2>2. QED  BY <1>2, <2>1
<1>3. CASE data[i] \in [row : Origin \ {Absent}, source : Id]  BY <1>3, FanFields
<1>4. QED  BY <1>1, <1>2, <1>3

\* A step that leaves the data and the log alone keeps what they say of sources.
LEMMA SourceStep ==
  ASSUME TypeOK, Rows, NEW p \in Process, Located(p), Moves(p),
         MakesSource(p) \/ CopiesSource(p)
  PROVE  Rows'
<1>1. SourceOnce /\ DataOnce /\ DataOnSource /\ SourceIs /\ DataThere /\ LogNames /\ TasksName
  BY RowsParts
<1>2. PICK i \in Id, row \in Origin :
        /\ sources[i] = Absent /\ sources' = [sources EXCEPT ![i] = row]
        /\ (row.from = "config" => row = Fan(Row(p)) /\ ~HasSource(Row(p)))
        /\ row # Absent /\ (row.from # "config" => i \in LSource /\ row = Legacy(i))
  <2>1. CASE MakesSource(p)
    <3>1. Fan(Row(p)) \in Origin \ {Absent}
      BY <2>1, RowOf, OriginIn DEF MakesSource, Located, FanOutPc
    <3>2. QED  BY <2>1, <3>1, FanFields DEF MakesSource
  <2>2. CASE CopiesSource(p)
    <3>1. PICK i \in LSource : sources[i] = Absent /\ sources' = [sources EXCEPT ![i] = Legacy(i)]
      BY <2>2 DEF CopiesSource
    <3>2. Legacy(i) \in Origin \ {Absent} /\ Legacy(i).from # "config" /\ i \in Id
      BY OriginIn, FanFields, MigrationAssumption
    <3>3. QED  BY <3>1, <3>2
  <2>3. QED  BY <2>1, <2>2
<1>3. UNCHANGED <<data, log, tasks>>  BY DEF MakesSource, CopiesSource
<1>4. sources \in [Id -> Origin]  BY DEF TypeOK
<1>5. SourceOnce'
  <2>1. \A j \in Id : sources[j] # Fan(Row(p)) \/ row.from # "config"
    BY <1>2 DEF HasSource
  <2>2. \A j \in Id \ {i} : sources'[j] = sources[j]  BY <1>2, <1>4
  <2>3. sources'[i] = row  BY <1>2, <1>4
  <2>4. QED  BY <1>1, <1>2, <2>1, <2>2, <2>3 DEF SourceOnce
<1>6. \A j \in Id : sources[j] # Absent => sources'[j] = sources[j]  BY <1>2, <1>4
<1>7. SourceIs' /\ DataOnSource' /\ DataThere'
  <2>1. \A j \in Id : data[j] # NoData => /\ data[j].source \in Id
                                        /\ sources'[data[j].source] = sources[data[j].source]
    BY <1>1, <1>6, DataFields DEF DataThere
  <2>2. \A j \in Id : data[j].row.from = "config" => data[j] # NoData  BY FanFields
  <2>3. SourceIs'  BY <1>1, <1>2, <1>4 DEF SourceIs
  <2>4. QED  BY <1>1, <1>3, <2>1, <2>2, <2>3 DEF DataOnSource, DataThere
<1>8. DataOnce' /\ LogNames' /\ TasksName'
  <2>1. \A t \in LTask : Remap(t)' = Remap(t)  BY <1>3 DEF Remap
  <2>2. QED  BY <1>1, <1>3, <2>1 DEF DataOnce, LogNames, TasksName
<1>9. QED  BY <1>5, <1>7, <1>8, RowsPartsNext

\* A new data source is on a source that is there, and is the only one of its config.
LEMMA DataStep ==
  ASSUME TypeOK, Rows, NEW p \in Process, Located(p), Holds(p), p \in Command => Copied(p),
         MakesData(p) \/ CopiesData(p)
  PROVE  Rows'
<1>1. SourceOnce /\ DataOnce /\ DataOnSource /\ SourceIs /\ DataThere /\ LogNames /\ TasksName
  BY RowsParts
<1>2. PICK i \in Id, d \in DataRow :
        /\ data[i] = NoData /\ data' = [data EXCEPT ![i] = d]
        /\ d # NoData /\ d.source \in Id /\ sources[d.source] # Absent
        /\ (d.row.from = "config" => /\ d.row = Fan(Row(p)) /\ ~HasData(Row(p))
                                    /\ sources[d.source] = d.row)
        /\ \/ d.row.from = "config"
           \/ i \in LData /\ d = [row |-> Legacy(i), source |-> SourceOf[i]]
  <2>1. CASE MakesData(p)
    <3>1. PICK d : d = [row |-> Fan(Row(p)), source |-> proc[p].new]  OBVIOUS
    <3>2. Fan(Row(p)) \in Origin \ {Absent} /\ proc[p].new \in Id
      BY <2>1, RowOf, OriginIn DEF MakesData, Located, FanOutPc, HalfPc
    <3>3. d \in DataRow /\ d.row = Fan(Row(p)) /\ d.source = proc[p].new
      BY <3>1, <3>2 DEF DataRow
    <3>4. d.row.from = "config" /\ d.row # Absent /\ d # NoData  BY <3>3, FanFields
    <3>5. sources[proc[p].new] = Fan(Row(p)) /\ ~HasData(Row(p))
      BY <2>1 DEF MakesData, Holds
    <3>6. QED  BY <2>1, <3>1, <3>2, <3>3, <3>4, <3>5 DEF MakesData
  <2>2. CASE CopiesData(p)
    <3>1. PICK i \in LData :
            /\ data[i] = NoData
            /\ data' = [data EXCEPT ![i] = [row |-> Legacy(i), source |-> SourceOf[i]]]
      BY <2>2 DEF CopiesData
    <3>2. PICK d : d = [row |-> Legacy(i), source |-> SourceOf[i]]  OBVIOUS
    <3>3. i \in Id /\ SourceOf[i] \in LSource /\ SourceOf[i] \in Id  BY MigrationAssumption
    <3>4. d \in DataRow /\ d.row = Legacy(i) /\ d.source = SourceOf[i]
      BY <3>2, <3>3, OriginIn DEF DataRow
    <3>5. d.row.from # "config" /\ d # NoData  BY <3>4, FanFields
    <3>6. sources[SourceOf[i]] # Absent
      BY <2>2, <3>3, UsedIs DEF CopiesData, Located, CopyPc, Copied
    <3>7. QED  BY <3>1, <3>2, <3>3, <3>4, <3>5, <3>6
  <2>3. QED  BY <2>1, <2>2
<1>3. UNCHANGED <<sources, log, tasks>>  BY DEF MakesData, CopiesData
<1>4. data \in [Id -> DataRow]  BY DEF TypeOK, DataRow
<1>5. /\ \A j \in Id \ {i} : data'[j] = data[j]
      /\ data'[i] = d
  BY <1>2, <1>4
<1>6. DataOnce'
  <2>1. \A j \in Id : data[j].row # Fan(Row(p)) \/ d.row.from # "config"
    BY <1>2 DEF HasData
  <2>2. QED  BY <1>1, <1>2, <1>5, <2>1 DEF DataOnce
<1>7. SourceOnce' /\ DataOnSource' /\ SourceIs' /\ DataThere'
  BY <1>1, <1>2, <1>3, <1>5 DEF SourceOnce, DataOnSource, SourceIs, DataThere
<1>8. LogNames'
  <2>1. \A c \in Config \ DOMAIN Logged : log[c] # 0 => log[c] \in Id /\ log[c] # i
    <3>1. \A c \in Config : log[c] # 0 => log[c] \in Id  BY MigrationAssumption DEF TypeOK, Id
    <3>2. \A c : Fan(c) # data[i].row  BY <1>2, FanFields
    <3>3. QED  BY <1>1, <3>1, <3>2 DEF LogNames
  <2>2. QED  BY <1>1, <1>3, <1>5, <2>1 DEF LogNames
<1>9. TasksName'
  <2>1. \A t \in LTask : Remap(t)' = Remap(t)  BY <1>3 DEF Remap
  <2>2. \A t \in LTask : tasks[t] # 0 => tasks[t] \in Id  BY MigrationAssumption DEF TypeOK, Id
  <2>3. QED  BY <1>1, <1>2, <1>3, <1>5, <2>1, <2>2 DEF TasksName
<1>10. QED  BY <1>6, <1>7, <1>8, <1>9, RowsPartsNext

\* A new row of the log names the data source that was made of the config.
LEMMA LogStep ==
  ASSUME TypeOK, Rows, NEW p \in Process, Located(p), Holds(p), MakesLog(p)
  PROVE  Rows'
<1>1. SourceOnce /\ DataOnce /\ DataOnSource /\ SourceIs /\ DataThere /\ LogNames /\ TasksName
  BY RowsParts
<1>2. UNCHANGED <<sources, data, tasks>>  BY DEF MakesLog
<1>3. Row(p) \in Config /\ data[proc[p].new].row = Fan(Row(p))
  BY RowOf DEF MakesLog, Located, FanOutPc, HalfPc, Holds
<1>4. log' = [log EXCEPT ![Row(p)] = proc[p].new] /\ log[Row(p)] = 0 /\ log \in [Config -> 0..MaxId]
  BY DEF MakesLog, TypeOK
<1>5. LogNames'
  <2>1. Row(p) \notin DOMAIN Logged
    <3>1. \A c \in DOMAIN Logged : Logged[c] # 0  BY MigrationAssumption, IdNat
    <3>2. QED  BY <1>1, <1>4, <3>1 DEF LogNames
  <2>2. DOMAIN Logged \subseteq Config  BY MigrationAssumption
  <2>3. QED  BY <1>1, <1>2, <1>3, <1>4, <2>1, <2>2 DEF LogNames
<1>6. TasksName'
  <2>1. ASSUME NEW t \in LTask, tasks[t] # 0  PROVE tasks[t] = Remap(t)'
    <3>1. Grows
      BY <1>2, <1>4 DEF Grows, MakesLog
    <3>2. QED  BY <1>1, <2>1, <3>1, StaysUsed DEF TasksName
  <2>2. QED  BY <1>1, <1>2, <2>1 DEF TasksName
<1>7. QED  BY <1>1, <1>2, <1>5, <1>6, RowsPartsNext
       DEF SourceOnce, DataOnce, DataOnSource, SourceIs, DataThere

\* A task is copied when the data source that it will work on is there.
LEMMA TaskStep ==
  ASSUME TypeOK, Rows, NEW p \in Process, Located(p), Holds(p), p \in Command => Copied(p),
         CopiesTask(p)
  PROVE  Rows'
<1>1. SourceOnce /\ DataOnce /\ DataOnSource /\ SourceIs /\ DataThere /\ LogNames /\ TasksName
  BY RowsParts
<1>2. UNCHANGED <<sources, data, log>>  BY DEF CopiesTask
<1>3. PICK t \in LTask : t = Row(p)
  BY RowOf DEF CopiesTask, Located
<1>4. tasks' = [tasks EXCEPT ![t] = Remap(t)] /\ Remap(t) # 0 /\ LData \subseteq Used("data")
  BY <1>3 DEF CopiesTask, Holds, Located, CopyPc, Copied
<1>5. data[Remap(t)] # NoData
  <2>1. RefOf[t] \in [config : Config] \cup [data : LData]  BY MigrationAssumption
  <2>2. \A i \in LData : data[i] # NoData  BY <1>4, UsedIs
  <2>3. CASE "data" \in DOMAIN RefOf[t]  BY <2>1, <2>2, <2>3 DEF Remap
  <2>4. CASE "data" \notin DOMAIN RefOf[t]
    <3>1. PICK c \in Config : c = RefOf[t].config /\ Remap(t) = log[c]
      BY <2>1, <2>4 DEF Remap
    <3>2. CASE c \in DOMAIN Logged
      <4>1. log[c] = Logged[c] /\ Logged[c] \in LData
        BY <1>1, <3>2, MigrationAssumption DEF LogNames
      <4>2. QED  BY <2>2, <3>1, <4>1
    <3>3. CASE c \notin DOMAIN Logged
      <4>1. data[log[c]].row = Fan(c)  BY <1>1, <1>4, <3>1, <3>3 DEF LogNames
      <4>2. QED  BY <3>1, <4>1, FanFields
    <3>4. QED  BY <3>2, <3>3
  <2>5. QED  BY <2>3, <2>4
<1>6. TasksName'
  <2>1. \A u \in LTask : Remap(u)' = Remap(u)  BY <1>2 DEF Remap
  <2>2. tasks \in [LTask -> 0..MaxId]  BY DEF TypeOK
  <2>3. QED  BY <1>1, <1>2, <1>4, <1>5, <2>1, <2>2 DEF TasksName
<1>7. QED  BY <1>1, <1>2, <1>6, RowsPartsNext
       DEF SourceOnce, DataOnce, DataOnSource, SourceIs, DataThere, LogNames

\* Every step keeps what the rows say of one another.
LEMMA RowsStep ==
  ASSUME TypeOK, Rows, NEW p \in Process, Located(p), Holds(p), p \in Command => Copied(p),
         Moves(p)
  PROVE  Rows'
<1>1. CASE UNCHANGED <<sources, data, log, tasks>>
  <2>1. \A t \in LTask : Remap(t)' = Remap(t)  BY <1>1 DEF Remap
  <2>2. QED
    BY <1>1, <2>1, RowsParts, RowsPartsNext
    DEF SourceOnce, DataOnce, DataOnSource, SourceIs, DataThere, LogNames, TasksName
<1>2. Quiet \/ AddsUser(p) => UNCHANGED <<sources, data, log, tasks>>
  BY DEF Quiet, tables, AddsUser
<1>3. QED  BY <1>1, <1>2, TableStep, SourceStep, DataStep, LogStep, TaskStep

-----------------------------------------------------------------------------
(* The processes that a step leaves alone *)

\* What has been misread stays so, and a command that has gone through has.
LEMMA HistoryGrows ==
  ASSUME NEW p \in Process, Moves(p)
  PROVE  (misread => misread') /\ (migrated => migrated')
<1>1. CASE UNCHANGED history  BY <1>1, Zenon DEF history
<1>2. CASE NextTable(p)  BY <1>2, Zenon DEF NextTable
<1>3. CASE LookUpFails(p)  BY <1>3, Zenon DEF LookUpFails
<1>4. Moves(p) => UNCHANGED history \/ NextTable(p) \/ LookUpFails(p)
  BY DEF Moves, Begin, FindOwner, LookUpLog, CreateSource, CreateDataSource, CreateLog,
         CountUsers, CreateAdmin, Look, Insert, InsertFails, Dies, history
<1>5. QED  BY <1>1, <1>2, <1>3, <1>4

\* No other process can make data of the config that one is half-way through.
LEMMA DataOfOthers ==
  ASSUME TypeOK, Alone, NEW p \in Process, Located(p), Moves(p),
         NEW q \in Process \ {p}, proc[q].pc = "data source", ~HasData(Row(q))
  PROVE  ~HasData(Row(q))'
<1>1. Row(q)' = Row(q)  BY OthersStay DEF Row
<1>2. CASE data' = data  BY <1>1, <1>2 DEF HasData
<1>3. CASE MakesData(p)
  <2>1. Row(p) # Row(q)  BY <1>3 DEF Alone, MakesData, HalfPc
  <2>2. PICK i \in Id :
          data' = [data EXCEPT ![i] = [row |-> Fan(Row(p)), source |-> proc[p].new]]
    BY <1>3 DEF MakesData
  <2>3. \A j \in Id : data'[j].row = data[j].row \/ data'[j].row = Fan(Row(p))
    BY <2>2 DEF TypeOK
  <2>4. Fan(Row(p)) # Fan(Row(q))  BY <2>1, FanFields
  <2>5. QED  BY <1>1, <2>3, <2>4 DEF HasData
<1>4. CASE CopiesData(p)
  <2>1. PICK i \in LData :
          data' = [data EXCEPT ![i] = [row |-> Legacy(i), source |-> SourceOf[i]]]
    BY <1>4 DEF CopiesData
  <2>2. \A j \in Id : data'[j].row = data[j].row \/ data'[j].row = Legacy(i)
    BY <2>1 DEF TypeOK
  <2>3. Legacy(i) # Fan(Row(q))  BY FanFields
  <2>4. QED  BY <1>1, <2>2, <2>3 DEF HasData
<1>5. QED
  BY <1>2, <1>3, <1>4, TableStep
  DEF Quiet, tables, AddsUser, MakesSource, CopiesSource, MakesLog, CopiesTask

\* The other processes are where they were, and hold what they held.
LEMMA OtherStep ==
  ASSUME TypeOK, Alone, NEW p \in Process, Located(p), Moves(p),
         NEW q \in Process \ {p}, Located(q), Holds(q), q \in Command => Copied(q)
  PROVE  Located(q)' /\ Holds(q)' /\ (q \in Command => Copied(q)')
<1>1. proc'[q] = proc[q] /\ Row(q)' = Row(q)  BY OthersStay DEF Row
<1>2. Grows  BY TablesGrow
<1>3. Located(q)'  BY <1>1, <1>2, StaysUsed DEF Located
<1>4. Holds(q)'
  <2>1. ASSUME proc[q].pc = "data source"
        PROVE  sources'[proc[q].new] = Fan(Row(q)) /\ ~HasData(Row(q))'
    <3>1. sources[proc[q].new] = Fan(Row(q)) /\ ~HasData(Row(q)) /\ proc[q].new \in Id
      BY <2>1 DEF Holds, Located, HalfPc
    <3>2. sources'[proc[q].new] = Fan(Row(q))  BY <1>2, <3>1, FanFields DEF Grows
    <3>3. QED  BY <2>1, <3>1, <3>2, DataOfOthers
  <2>2. ASSUME proc[q].pc = "log"  PROVE data'[proc[q].new].row = Fan(Row(q))
    <3>1. data[proc[q].new].row = Fan(Row(q)) /\ proc[q].new \in Id
      BY <2>2 DEF Holds, Located, HalfPc
    <3>2. data[proc[q].new] # NoData  BY <3>1, FanFields
    <3>3. QED  BY <1>2, <3>1, <3>2 DEF Grows
  <2>3. ASSUME proc[q].pc = "tasks", proc[q].absent  PROVE Remap(Row(q))' # 0
    <3>1. PICK t \in LTask : t = Row(q)  BY <2>3, RowOf DEF Located
    <3>2. Row(q)' = t /\ Remap(t) # 0  BY <1>1, <2>3, <3>1 DEF Holds
    <3>3. Remap(t)' # 0  BY <1>2, <3>2, StaysUsed
    <3>4. QED  BY <3>2, <3>3 DEF Remap
  <2>4. ASSUME proc[q].pc \in {"source"} \cup HalfPc, Row(q) \in DOMAIN Logged  PROVE misread'
    BY <2>4, HistoryGrows DEF Holds
  <2>5. QED  BY <1>1, <2>1, <2>2, <2>3, <2>4 DEF Holds
<1>5. ASSUME Copied(q)  PROVE Copied(q)'
  <2>1. \A t \in LTask : (tasks[t] # 0) => tasks'[t] # 0  BY <1>2 DEF Grows
  <2>2. Open = {} => Open' = {}  BY <1>2, StaysUsed
  <2>3. /\ Used("users") \subseteq Used("users")' /\ Used("sources") \subseteq Used("sources")'
        /\ Used("data") \subseteq Used("data")'
    BY <1>2, StaysUsed
  <2>4. QED  BY <1>1, <1>5, <2>1, <2>2, <2>3 DEF Copied
<1>6. QED  BY <1>3, <1>4, <1>5

-----------------------------------------------------------------------------
(* The process that takes a step *)

\* What the invariant says of one process, after a step.
Placed(p) == Located(p)' /\ Holds(p)' /\ (p \in Command => Copied(p)')

\* Nothing is asked of a process that has come to its end, nor of a server that is
\* past the fan-out.
LEMMA Parked ==
  ASSUME TypeOK, NEW p \in Process, NEW pc \in {"boot", "create", "failed", "done"},
         Goto(p, pc, {}), pc \in {"boot", "create"} => p \in Server
  PROVE  Placed(p)
<1>1. /\ proc'[p].pc \in {"boot", "create", "failed", "done"} /\ proc'[p].absent = FALSE
      /\ proc'[p].pc \in {"boot", "create"} => p \in Server
  BY Moved
<1>2. QED  BY <1>1 DEF Placed, Located, Holds, Copied, FanOutPc, HalfPc, CopyPc

\* An error parks the process.
LEMMA AbortStep ==
  ASSUME TypeOK, NEW p \in Process, Abort(p)
  PROVE  Placed(p)
<1>1. (p \in Server /\ Goto(p, "boot", {})) \/ Goto(p, "failed", {})  BY DEF Abort
<1>2. QED  BY <1>1, Parked

\* A command goes on to the storage sources when the fan-out is over or has no owner.
LEMMA FannedOutStep ==
  ASSUME TypeOK, NEW p \in Process, FannedOut(p), LUser \subseteq Used("users")' \/ p \notin Command,
         proc[p].owner => Open' = {}
  PROVE  Placed(p)
<1>1. CASE p \in Server  BY <1>1, Parked DEF FannedOut
<1>2. CASE p \notin Server
  <2>1. Goto(p, "sources", LSource) /\ p \in Command  BY <1>2 DEF FannedOut, Process
  <2>2. /\ proc'[p].pc = "sources" /\ proc'[p].todo = LSource
        /\ proc'[p].absent = FALSE /\ proc'[p].owner = proc[p].owner
    <3>1. proc'[p].pc = "sources"  BY <2>1, Moved
    <3>2. proc'[p].todo = LSource  BY <2>1, Moved
    <3>3. proc'[p].absent = FALSE /\ proc'[p].owner = proc[p].owner  BY <2>1, Moved
    <3>4. QED  BY <3>1, <3>2, <3>3
  <2>3. Located(p)'
    BY <2>1, <2>2 DEF Located, FanOutPc, HalfPc, CopyPc
  <2>4. Copied(p)'  BY <1>2, <2>1, <2>2 DEF Copied, FanOutPc, HalfPc
  <2>5. Holds(p)'  BY <2>2 DEF Holds, HalfPc
  <2>6. QED  BY <2>3, <2>4, <2>5 DEF Placed
<1>3. QED  BY <1>1, <1>2

\* The start of a process.
LEMMA BeginPlaced ==
  ASSUME TypeOK, NEW p \in Process, Located(p), Begin(p)
  PROVE  Placed(p)
<1>1. CASE p \in Command
  <2>1. Goto(p, "users", LUser)  BY <1>1 DEF Begin
  <2>2. /\ proc'[p].pc = "users" /\ proc'[p].todo = LUser
        /\ proc'[p].absent = FALSE /\ proc'[p].owner = proc[p].owner
    <3>1. proc'[p].pc = "users"  BY <2>1, Moved
    <3>2. proc'[p].todo = LUser  BY <2>1, Moved
    <3>3. proc'[p].absent = FALSE /\ proc'[p].owner = proc[p].owner  BY <2>1, Moved
    <3>4. QED  BY <3>1, <3>2, <3>3
  <2>3. ~proc[p].owner  BY DEF Located, Begin
  <2>4. QED  BY <1>1, <2>2, <2>3 DEF Placed, Located, Holds, Copied, FanOutPc, HalfPc, CopyPc
<1>2. CASE p \notin Command /\ Config = {}  BY <1>2, Parked DEF Begin, Process
<1>3. CASE p \notin Command /\ Config # {}
  <2>1. Goto(p, "owner", {})  BY <1>3 DEF Begin
  <2>2. /\ proc'[p].pc = "owner" /\ proc'[p].absent = FALSE /\ proc'[p].owner = proc[p].owner
    BY <2>1, Moved
  <2>3. ~proc[p].owner  BY DEF Located, Begin
  <2>4. QED  BY <1>3, <2>2, <2>3 DEF Placed, Located, Holds, Copied, FanOutPc, HalfPc, CopyPc
<1>4. QED  BY <1>1, <1>2, <1>3

\* The fan-out begins with every config before it, or is passed over.
LEMMA FindOwnerPlaced ==
  ASSUME TypeOK, NEW p \in Process, Located(p), p \in Command => Copied(p), FindOwner(p)
  PROVE  Placed(p)
<1>1. /\ proc[p].pc = "owner" /\ ~proc[p].owner /\ ~proc[p].absent
      /\ (p \in Command => LUser \subseteq Used("users")) /\ UNCHANGED users
  BY DEF FindOwner, Located, Copied, CopyPc, tables
<1>2. p \in Command => LUser \subseteq Used("users")'  BY <1>1, UsedIs, UsedIsNext
<1>3. CASE FannedOut(p)  BY <1>1, <1>2, <1>3, FannedOutStep
<1>4. CASE proc' = [proc EXCEPT ![p].pc = "config", ![p].todo = Config, ![p].owner = TRUE]
  <2>1. proc'[p].pc = "config" /\ proc'[p].todo = Config /\ proc'[p].owner = TRUE
        /\ proc'[p].absent = FALSE
    BY <1>1, <1>4 DEF TypeOK
  <2>2. Open' \subseteq Config  BY DEF Open
  <2>3. QED  BY <1>2, <2>1, <2>2 DEF Placed, Located, Holds, Copied, FanOutPc, HalfPc, CopyPc
<1>5. QED  BY <1>3, <1>4 DEF FindOwner

\* A config is passed over only when the log has it.
LEMMA LookUpLogPlaced ==
  ASSUME TypeOK, Rows, NEW p \in Process, Located(p), p \in Command => Copied(p),
         LookUpLog(p) \/ LookUpFails(p)
  PROVE  Placed(p)
<1>1. /\ proc[p].pc = "config" /\ proc[p].owner
      /\ proc[p].todo \subseteq Config /\ Open \subseteq proc[p].todo
      /\ (p \in Command => LUser \subseteq Used("users")) /\ UNCHANGED <<users, log>>
  BY DEF LookUpLog, LookUpFails, Located, Copied, FanOutPc, tables
<1>2. (p \in Command => LUser \subseteq Used("users")') /\ Open' = Open
  BY <1>1, UsedIs, UsedIsNext DEF Open
<1>3. CASE LookUpLog(p) /\ proc[p].todo = {}
  <2>1. FannedOut(p) /\ Open' = {}  BY <1>1, <1>2, <1>3 DEF LookUpLog
  <2>2. QED  BY <1>2, <2>1, FannedOutStep
<1>4. CASE LookUpLog(p) /\ proc[p].todo # {} /\ log[Row(p)] # 0
  <2>1. Goto(p, "config", proc[p].todo \ {Row(p)})  BY <1>1, <1>4 DEF LookUpLog, Skip
  <2>2. /\ proc'[p].pc = "config" /\ proc'[p].todo = proc[p].todo \ {Row(p)}
        /\ proc'[p].absent = FALSE /\ proc'[p].owner = proc[p].owner
    <3>1. proc'[p].pc = "config"  BY <2>1, Moved
    <3>2. proc'[p].todo = proc[p].todo \ {Row(p)}  BY <2>1, Moved
    <3>3. proc'[p].absent = FALSE /\ proc'[p].owner = proc[p].owner  BY <2>1, Moved
    <3>4. QED  BY <3>1, <3>2, <3>3
  <2>3. Row(p) \notin Open  BY <1>4 DEF Open
  <2>4. Located(p)'
    BY <1>1, <1>2, <2>2, <2>3 DEF Located, FanOutPc, HalfPc, CopyPc
  <2>5. p \in Command => Copied(p)'
    BY <1>2, <2>2 DEF Copied, FanOutPc, HalfPc
  <2>6. Holds(p)'  BY <2>2 DEF Holds, HalfPc
  <2>7. QED  BY <2>4, <2>5, <2>6 DEF Placed
<1>5. CASE proc[p].todo # {} /\ Goto(p, "source", proc[p].todo)
           /\ (log[Row(p)] # 0 => misread')
  <2>1. /\ proc'[p].pc = "source" /\ proc'[p].todo = proc[p].todo
        /\ proc'[p].absent = FALSE /\ proc'[p].owner = proc[p].owner
    BY <1>5, Moved
  <2>2. Row(p)' = Row(p)  BY <2>1 DEF Row
  <2>3. Row(p) \in DOMAIN Logged => log[Row(p)] # 0
    BY MigrationAssumption, IdNat DEF Rows
  <2>4. QED
    BY <1>1, <1>2, <1>5, <2>1, <2>2, <2>3
    DEF Placed, Located, Holds, Copied, FanOutPc, HalfPc, CopyPc
<1>6. LookUpFails(p) => proc[p].todo # {} /\ Goto(p, "source", proc[p].todo)
                        /\ (log[Row(p)] # 0 => misread')
  BY Zenon DEF LookUpFails
<1>7. (LookUpLog(p) /\ proc[p].todo # {} /\ log[Row(p)] = 0) => Goto(p, "source", proc[p].todo)
  BY DEF LookUpLog
<1>8. QED  BY <1>3, <1>4, <1>5, <1>6, <1>7

\* A process that has made a source holds it, and there is no data on it yet.
LEMMA CreateSourcePlaced ==
  ASSUME TypeOK, Rows, NEW p \in Process, Located(p), Holds(p), p \in Command => Copied(p),
         CreateSource(p)
  PROVE  Placed(p)
<1>1. CASE Abort(p)  BY <1>1, AbortStep
<1>2. CASE MakesSource(p)
  <2>1. PICK i \in Id : /\ sources' = [sources EXCEPT ![i] = Fan(Row(p))]
                       /\ proc' = [proc EXCEPT ![p].pc = "data source", ![p].new = i]
    BY <1>2 DEF MakesSource
  <2>2. /\ proc'[p].pc = "data source" /\ proc'[p].new = i /\ proc'[p].todo = proc[p].todo
        /\ proc'[p].absent = proc[p].absent /\ proc'[p].owner = proc[p].owner
        /\ sources'[i] = Fan(Row(p))
    BY <2>1 DEF TypeOK
  <2>3. /\ proc[p].pc = "source" /\ ~HasSource(Row(p)) /\ UNCHANGED <<users, data, log, tasks>>
        /\ ~proc[p].absent /\ proc[p].owner /\ proc[p].todo # {}
        /\ proc[p].todo \subseteq Config /\ Open \subseteq proc[p].todo
    BY <1>2 DEF MakesSource, Located, FanOutPc, CopyPc
  <2>4. Row(p)' = Row(p)  BY <2>2 DEF Row
  <2>5. (p \in Command => LUser \subseteq Used("users")') /\ Open' = Open
    BY <2>3, UsedIs, UsedIsNext DEF Open, Copied, FanOutPc
  <2>6. ~HasData(Row(p))
    <3>1. \A j \in Id : data[j].row = Fan(Row(p)) =>
            data[j].source \in Id /\ sources[data[j].source] = Fan(Row(p))
      BY RowsParts, DataFields, FanFields DEF DataOnSource
    <3>2. QED  BY <2>3, <3>1 DEF HasData, HasSource
  <2>7. ~HasData(Row(p))'  BY <2>3, <2>4, <2>6 DEF HasData
  <2>8. Row(p) \in DOMAIN Logged => misread'  BY <2>3, <1>2, HistoryGrows DEF Holds, Moves
  <2>9. Located(p)'
    BY <2>2, <2>3, <2>5 DEF Located, FanOutPc, HalfPc, CopyPc
  <2>10. Holds(p)'
    BY <2>2, <2>4, <2>7, <2>8 DEF Holds
  <2>11. QED
    BY <2>2, <2>5, <2>9, <2>10 DEF Placed, Copied, FanOutPc
<1>3. QED  BY <1>1, <1>2, CreateSourceShape

\* A process that has made a data source holds it.
LEMMA CreateDataSourcePlaced ==
  ASSUME TypeOK, NEW p \in Process, Located(p), Holds(p), p \in Command => Copied(p),
         CreateDataSource(p)
  PROVE  Placed(p)
<1>1. MakesData(p)  BY CreateDataSourceShape
<1>2. PICK i \in Id :
        /\ data' = [data EXCEPT ![i] = [row |-> Fan(Row(p)), source |-> proc[p].new]]
        /\ proc' = [proc EXCEPT ![p].pc = "log", ![p].new = i]
  BY <1>1 DEF MakesData
<1>3. /\ proc'[p].pc = "log" /\ proc'[p].new = i /\ proc'[p].todo = proc[p].todo
      /\ proc'[p].absent = proc[p].absent /\ proc'[p].owner = proc[p].owner
      /\ data'[i].row = Fan(Row(p))
  BY <1>2 DEF TypeOK
<1>4. /\ proc[p].pc = "data source" /\ UNCHANGED <<users, log>>
      /\ ~proc[p].absent /\ proc[p].owner /\ proc[p].todo # {}
      /\ proc[p].todo \subseteq Config /\ Open \subseteq proc[p].todo
  BY <1>1 DEF MakesData, Located, FanOutPc, HalfPc, CopyPc
<1>5. Row(p)' = Row(p)  BY <1>3 DEF Row
<1>6. (p \in Command => LUser \subseteq Used("users")') /\ Open' = Open
  BY <1>4, UsedIs, UsedIsNext DEF Open, Copied, FanOutPc
<1>7. Row(p) \in DOMAIN Logged => misread'
  BY <1>4, HistoryGrows DEF Holds, Moves, HalfPc
<1>8. Located(p)'  BY <1>3, <1>4, <1>6 DEF Located, FanOutPc, HalfPc, CopyPc
<1>9. Holds(p)'  BY <1>3, <1>5, <1>7 DEF Holds
<1>10. QED  BY <1>3, <1>6, <1>8, <1>9 DEF Placed, Copied, FanOutPc

\* A process that has logged a config goes on to the others.
LEMMA CreateLogPlaced ==
  ASSUME TypeOK, NEW p \in Process, Located(p), p \in Command => Copied(p), CreateLog(p)
  PROVE  Placed(p)
<1>1. CASE Abort(p)  BY <1>1, AbortStep
<1>2. CASE MakesLog(p)
  <2>1. /\ proc'[p].pc = "config" /\ proc'[p].todo = proc[p].todo \ {Row(p)}
        /\ proc'[p].absent = FALSE /\ proc'[p].owner = proc[p].owner
    BY <1>2, Moved DEF MakesLog
  <2>2. /\ proc[p].pc = "log" /\ UNCHANGED users /\ proc[p].owner /\ proc[p].todo # {}
        /\ proc[p].todo \subseteq Config /\ Open \subseteq proc[p].todo /\ proc[p].new # 0
    BY <1>2, IdNat DEF MakesLog, Located, FanOutPc, HalfPc
  <2>3. Row(p) \in Config  BY <2>2, RowOf DEF FanOutPc
  <2>4. log' = [log EXCEPT ![Row(p)] = proc[p].new]  BY <1>2 DEF MakesLog
  <2>5. Open' \subseteq Open \ {Row(p)}  BY <2>2, <2>3, <2>4 DEF Open, TypeOK
  <2>6. p \in Command => LUser \subseteq Used("users")'
    BY <2>2, UsedIs, UsedIsNext DEF Copied, FanOutPc
  <2>7. QED
    BY <2>1, <2>2, <2>5, <2>6 DEF Placed, Located, Holds, Copied, FanOutPc, HalfPc, CopyPc
<1>3. QED  BY <1>1, <1>2 DEF CreateLog, MakesLog

\* When no config is open, every task has a data source to work on.
LEMMA RemapDefined ==
  ASSUME Open = {}, NEW t \in LTask
  PROVE  Remap(t) # 0
<1>1. RefOf[t] \in [config : Config] \cup [data : LData]  BY MigrationAssumption
<1>2. CASE "data" \in DOMAIN RefOf[t]
  <2>1. RefOf[t].data \in Id  BY <1>1, <1>2, MigrationAssumption
  <2>2. QED  BY <1>2, <2>1, IdNat DEF Remap
<1>3. CASE "data" \notin DOMAIN RefOf[t]
  <2>1. RefOf[t].config \in Config  BY <1>1, <1>3
  <2>2. QED  BY <1>3, <2>1 DEF Remap, Open
<1>4. QED  BY <1>2, <1>3

\* A row may be left behind when it is there.
LEMMA SkipPlaced ==
  ASSUME TypeOK, NEW p \in Command, p \in Process, Located(p), Copied(p), Grows, Skip(p),
         proc[p].pc \in CopyPc, proc[p].todo # {},
         proc[p].pc = "users" => Row(p) \in Used("users")',
         proc[p].pc = "sources" => Row(p) \in Used("sources")',
         proc[p].pc = "data" => Row(p) \in Used("data")',
         (proc[p].pc = "tasks" /\ proc[p].owner) => tasks'[Row(p)] # 0
  PROVE  Placed(p)
<1>1. /\ proc'[p].pc = proc[p].pc /\ proc'[p].todo = proc[p].todo \ {Row(p)}
      /\ proc'[p].absent = FALSE /\ proc'[p].owner = proc[p].owner
  BY Moved DEF Skip
<1>2. Located(p)'  BY <1>1 DEF Located, FanOutPc, HalfPc, CopyPc
<1>3. Holds(p)'  BY <1>1 DEF Holds, HalfPc, CopyPc
<1>4. /\ Used("users") \subseteq Used("users")' /\ Used("sources") \subseteq Used("sources")'
      /\ Used("data") \subseteq Used("data")' /\ (Open = {} => Open' = {})
      /\ \A t \in LTask : (tasks[t] # 0) => tasks'[t] # 0
  BY StaysUsed DEF Grows
<1>5. Copied(p)'
  <2>1. proc[p].pc = "users" => LUser \ proc'[p].todo \subseteq Used("users")'
    BY <1>1, <1>4 DEF Copied
  <2>2. proc[p].pc = "sources" => LSource \ proc'[p].todo \subseteq Used("sources")'
    BY <1>1, <1>4 DEF Copied
  <2>3. proc[p].pc = "data" => LData \ proc'[p].todo \subseteq Used("data")'
    BY <1>1, <1>4 DEF Copied
  <2>4. (proc[p].pc = "tasks" /\ proc[p].owner) =>
          \A t \in LTask \ proc'[p].todo : tasks'[t] # 0
    BY <1>1, <1>4 DEF Copied
  <2>5. QED  BY <1>1, <1>4, <2>1, <2>2, <2>3, <2>4 DEF Copied, FanOutPc, CopyPc
<1>6. QED  BY <1>2, <1>3, <1>5 DEF Placed

\* A row that is there is left behind, and a task that refers to nothing.
LEMMA LookPlaced ==
  ASSUME TypeOK, NEW p \in Process, Located(p), p \in Command => Copied(p), Look(p)
  PROVE  Placed(p)
<1>1. /\ proc[p].pc \in CopyPc /\ proc[p].todo # {} /\ UNCHANGED tables
      /\ p \in Command /\ Copied(p)
  BY DEF Look, Located
<1>2. UNCHANGED <<users, sources, data, log, tasks>>  BY <1>1 DEF tables
<1>3. Grows  BY TablesGrow DEF Moves
<1>4. CASE /\ There(proc[p].pc, Row(p)) \/ (proc[p].pc = "tasks" /\ Remap(Row(p)) = 0)
           /\ Skip(p)
  <2>1. proc[p].pc = "users" => Row(p) \in Used("users")'
    BY <1>2, <1>4, UsedIs, UsedIsNext DEF There
  <2>2. proc[p].pc = "sources" => Row(p) \in Used("sources")'
    BY <1>2, <1>4, UsedIs, UsedIsNext DEF There
  <2>3. proc[p].pc = "data" => Row(p) \in Used("data")'
    BY <1>2, <1>4, UsedIs, UsedIsNext DEF There
  <2>4. (proc[p].pc = "tasks" /\ proc[p].owner) => tasks'[Row(p)] # 0
    <3>1. ASSUME proc[p].pc = "tasks", proc[p].owner  PROVE Remap(Row(p)) # 0
      BY <1>1, <3>1, RowOf, RemapDefined DEF Copied
    <3>2. QED  BY <1>2, <1>4, <3>1 DEF There
  <2>5. QED  BY <1>1, <1>3, <1>4, <2>1, <2>2, <2>3, <2>4, SkipPlaced
<1>5. CASE /\ ~(proc[p].pc = "tasks" /\ Remap(Row(p)) = 0)
           /\ proc' = [proc EXCEPT ![p].absent = TRUE]
  <2>1. /\ proc'[p].pc = proc[p].pc /\ proc'[p].todo = proc[p].todo
        /\ proc'[p].absent = TRUE /\ proc'[p].owner = proc[p].owner
    BY <1>5 DEF TypeOK
  <2>2. Row(p)' = Row(p)  BY <2>1 DEF Row
  <2>3. proc[p].pc = "tasks" => Remap(Row(p))' = Remap(Row(p))  BY <1>2, <2>2 DEF Remap
  <2>4. Located(p)'  BY <1>1, <2>1 DEF Located, FanOutPc, HalfPc, CopyPc
  <2>5. Holds(p)'  BY <1>1, <1>5, <2>1, <2>3 DEF Holds, HalfPc, CopyPc
  <2>6. Open' = Open  BY <1>2 DEF Open
  <2>7. Used("users")' = Used("users") /\ Used("sources")' = Used("sources")
        /\ Used("data")' = Used("data")
    BY <1>2, UsedIs, UsedIsNext
  <2>8. Copied(p)'  BY <1>1, <1>2, <2>1, <2>6, <2>7 DEF Copied
  <2>9. QED  BY <2>4, <2>5, <2>8 DEF Placed
<1>6. QED  BY <1>4, <1>5 DEF Look

\* A row that has been inserted is there.
LEMMA InsertPlaced ==
  ASSUME TypeOK, NEW p \in Process, Located(p), Holds(p), p \in Command => Copied(p), Insert(p)
  PROVE  Placed(p)
<1>1. CASE Abort(p)  BY <1>1, AbortStep
<1>2. CASE ~There(proc[p].pc, Row(p))
  <2>1. /\ proc[p].pc \in CopyPc /\ proc[p].todo # {} /\ p \in Command /\ Copied(p)
        /\ Skip(p) /\ proc[p].absent /\ Row(p) \in Id
    BY <1>2, RowIn DEF Insert, Located
  <2>2. Grows  BY TablesGrow DEF Moves
  <2>3. proc[p].pc = "users" => Row(p) \in Used("users")'
    <3>1. proc[p].pc = "users" => users' = [users EXCEPT ![Row(p)] = Legacy(Row(p))]
      BY <1>2 DEF Insert
    <3>2. QED  BY <2>1, <3>1, FanFields, UsedIsNext DEF TypeOK
  <2>4. proc[p].pc = "sources" => Row(p) \in Used("sources")'
    <3>1. proc[p].pc = "sources" => sources' = [sources EXCEPT ![Row(p)] = Legacy(Row(p))]
      BY <1>2 DEF Insert
    <3>2. QED  BY <2>1, <3>1, FanFields, UsedIsNext DEF TypeOK
  <2>5. proc[p].pc = "data" => Row(p) \in Used("data")'
    <3>1. proc[p].pc = "data" =>
            data' = [data EXCEPT ![Row(p)] = [row |-> Legacy(Row(p)), source |-> SourceOf[Row(p)]]]
      BY <1>2 DEF Insert
    <3>2. [row |-> Legacy(Row(p)), source |-> SourceOf[Row(p)]] # NoData
      BY FanFields DEF NoData
    <3>3. QED  BY <2>1, <3>1, <3>2, UsedIsNext DEF TypeOK
  <2>6. (proc[p].pc = "tasks" /\ proc[p].owner) => tasks'[Row(p)] # 0
    <3>1. proc[p].pc = "tasks" => tasks' = [tasks EXCEPT ![Row(p)] = Remap(Row(p))]
      BY <1>2 DEF Insert
    <3>2. proc[p].pc = "tasks" => Row(p) \in LTask /\ Remap(Row(p)) # 0
      BY <2>1, RowOf DEF Holds
    <3>3. QED  BY <3>1, <3>2 DEF TypeOK
  <2>7. QED  BY <2>1, <2>2, <2>3, <2>4, <2>5, <2>6, SkipPlaced
<1>3. QED  BY <1>1, <1>2 DEF Insert

\* A command that has come to the end of a table has copied it.
LEMMA NextTablePlaced ==
  ASSUME TypeOK, NEW p \in Process, Located(p), p \in Command => Copied(p), NextTable(p)
  PROVE  Placed(p)
<1>1. /\ proc[p].pc \in CopyPc /\ proc[p].todo = {} /\ UNCHANGED tables
      /\ p \in Command /\ Copied(p)
  BY DEF NextTable, Located, tables
<1>2. /\ Used("users")' = Used("users") /\ Used("sources")' = Used("sources")
      /\ Used("data")' = Used("data") /\ Open' = Open
  BY <1>1, UsedIs, UsedIsNext DEF tables, Open
<1>3. CASE proc[p].pc = "users" /\ Goto(p, "owner", {})
  <2>1. /\ proc'[p].pc = "owner" /\ proc'[p].absent = FALSE /\ proc'[p].owner = proc[p].owner
    BY <1>3, Moved
  <2>2. QED
    BY <1>1, <1>2, <1>3, <2>1 DEF Placed, Located, Holds, Copied, FanOutPc, HalfPc, CopyPc
<1>4. CASE proc[p].pc = "sources" /\ Goto(p, "data", LData)
  <2>1. /\ proc'[p].pc = "data" /\ proc'[p].absent = FALSE /\ proc'[p].owner = proc[p].owner
        /\ proc'[p].todo = LData
    BY <1>4, Moved
  <2>2. QED
    BY <1>1, <1>2, <1>4, <2>1 DEF Placed, Located, Holds, Copied, FanOutPc, HalfPc, CopyPc
<1>5. CASE proc[p].pc = "data" /\ Goto(p, "tasks", LTask)
  <2>1. /\ proc'[p].pc = "tasks" /\ proc'[p].absent = FALSE /\ proc'[p].owner = proc[p].owner
        /\ proc'[p].todo = LTask
    BY <1>5, Moved
  <2>2. QED
    BY <1>1, <1>2, <1>5, <2>1 DEF Placed, Located, Holds, Copied, FanOutPc, HalfPc, CopyPc
<1>6. CASE proc[p].pc = "tasks" /\ Goto(p, "done", {})  BY <1>6, Parked
<1>7. QED  BY <1>1, <1>3, <1>4, <1>5, <1>6 DEF NextTable, CopyPc

\* So a process is well placed after each of its steps.
LEMMA OwnStep ==
  ASSUME TypeOK, Rows, NEW p \in Process, Located(p), Holds(p), p \in Command => Copied(p),
         Moves(p)
  PROVE  Placed(p)
<1>1. /\ CountUsers(p) => p \in Server /\ (Goto(p, "create", {}) \/ Goto(p, "done", {}))
      /\ CreateAdmin(p) => Goto(p, "done", {})
  BY DEF CountUsers, CreateAdmin, Located
<1>2. InsertFails(p) => Abort(p)  BY DEF InsertFails
<1>3. Dies(p) => Goto(p, "failed", {})  BY DEF Dies
<1>4. CountUsers(p) \/ CreateAdmin(p) \/ InsertFails(p) \/ Dies(p) => Placed(p)
  BY <1>1, <1>2, <1>3, Parked, AbortStep
<1>5. QED
  BY <1>4, BeginPlaced, FindOwnerPlaced, LookUpLogPlaced, CreateSourcePlaced,
     CreateDataSourcePlaced, CreateLogPlaced, LookPlaced, InsertPlaced, NextTablePlaced
  DEF Moves

-----------------------------------------------------------------------------
(* The processes together *)

\* A process comes half-way by making a source, and stays there with its config.
LEMMA HalfStep ==
  ASSUME TypeOK, NEW p \in Process, Located(p), Moves(p), proc'[p].pc \in HalfPc
  PROVE  \/ MakesSource(p)
         \/ proc[p].pc \in HalfPc /\ Row(p)' = Row(p)
<1> USE DEF HalfPc
<1>1. \A pc, todo : Goto(p, pc, todo) => proc'[p].pc = pc  BY Moved
<1>2. ~Abort(p) /\ ~FannedOut(p)
  <2>1. (IF p \in Server THEN "boot" ELSE "failed") \notin HalfPc  OBVIOUS
  <2>2. QED  BY <1>1, <2>1 DEF Abort, FannedOut
<1>3. proc[p].pc \in {"config"} \cup CopyPc => ~Skip(p)  BY <1>1 DEF Skip, CopyPc
<1>4. ~(Begin(p) \/ LookUpLog(p) \/ CreateLog(p) \/ CountUsers(p) \/ CreateAdmin(p)
        \/ LookUpFails(p) \/ InsertFails(p) \/ Dies(p))
  BY <1>1, <1>2, <1>3
  DEF Begin, LookUpLog, CreateLog, CountUsers, CreateAdmin, LookUpFails, InsertFails, Dies
<1>5. ~NextTable(p)  BY <1>1 DEF NextTable, CopyPc
<1>6. ~Look(p)
  <2>1. ASSUME Look(p)  PROVE proc'[p].pc = proc[p].pc
    <3>1. CASE proc' = [proc EXCEPT ![p].absent = TRUE]  BY <3>1 DEF TypeOK
    <3>2. CASE Skip(p)  BY <1>1, <3>2 DEF Skip
    <3>3. QED  BY <2>1, <3>1, <3>2 DEF Look
  <2>2. QED  BY <2>1 DEF Look, CopyPc
<1>7. ~Insert(p)  BY <1>2, <1>3 DEF Insert, Located
<1>8. ~FindOwner(p)
  <2>1. proc' # [proc EXCEPT ![p].pc = "config", ![p].todo = Config, ![p].owner = TRUE]
    BY DEF TypeOK
  <2>2. QED  BY <1>2, <2>1 DEF FindOwner
<1>9. CreateSource(p) => MakesSource(p)  BY <1>2, CreateSourceShape
<1>10. ASSUME CreateDataSource(p)  PROVE proc[p].pc \in HalfPc /\ Row(p)' = Row(p)
  <2>1. proc'[p].todo = proc[p].todo  BY <1>10 DEF CreateDataSource, TypeOK
  <2>2. QED  BY <1>10, <2>1 DEF CreateDataSource, Row
<1>11. QED  BY <1>4, <1>5, <1>6, <1>7, <1>8, <1>9, <1>10 DEF Moves

\* A process half-way through a config has made its source.
LEMMA HalfHasSource ==
  ASSUME TypeOK, Rows, NEW q \in Process, Located(q), Holds(q), proc[q].pc \in HalfPc
  PROVE  HasSource(Row(q))
<1>1. proc[q].new \in Id  BY DEF Located
<1>2. CASE proc[q].pc = "data source"  BY <1>1, <1>2 DEF Holds, HasSource
<1>3. CASE proc[q].pc = "log"
  <2>1. data[proc[q].new].row = Fan(Row(q))  BY <1>3 DEF Holds
  <2>2. data[proc[q].new].source \in Id /\ sources[data[proc[q].new].source] = Fan(Row(q))
    BY <1>1, <2>1, RowsParts, DataFields, FanFields DEF DataOnSource
  <2>3. QED  BY <2>2 DEF HasSource
<1>4. QED  BY <1>2, <1>3 DEF HalfPc

\* No two processes come half-way through the same config.
LEMMA AloneStep ==
  ASSUME TypeOK, Rows, Alone, \A q \in Process : Located(q) /\ Holds(q),
         NEW p \in Process, Moves(p)
  PROVE  Alone'
<1>1. \A q \in Process \ {p} : proc'[q] = proc[q] /\ Row(q)' = Row(q)  BY OthersStay DEF Row
<1>2. ASSUME NEW q \in Process \ {p}, proc'[p].pc \in HalfPc, proc[q].pc \in HalfPc,
             Row(p)' = Row(q)
      PROVE  FALSE
  <2>1. CASE MakesSource(p)
    <3>1. proc'[p].todo = proc[p].todo
      <4>1. PICK i \in Id : proc' = [proc EXCEPT ![p].pc = "data source", ![p].new = i]
        BY <2>1 DEF MakesSource
      <4>2. QED  BY <4>1 DEF TypeOK
    <3>2. Row(p)' = Row(p)  BY <3>1 DEF Row
    <3>3. QED  BY <1>2, <2>1, <3>2, HalfHasSource DEF MakesSource
  <2>2. CASE proc[p].pc \in HalfPc /\ Row(p)' = Row(p)  BY <1>2, <2>2 DEF Alone
  <2>3. QED  BY <1>2, <2>1, <2>2, HalfStep
<1>3. ASSUME NEW q \in Process, NEW r \in Process, q # r,
             proc'[q].pc \in HalfPc, proc'[r].pc \in HalfPc, Row(q)' = Row(r)'
      PROVE  FALSE
  BY <1>1, <1>2, <1>3 DEF Alone
<1>4. QED  BY <1>3 DEF Alone

\* When a command with an owner has gone through, everything has been copied.
LEMMA AllCopiedStep ==
  ASSUME TypeOK, NEW p \in Process, Located(p), p \in Command => Copied(p), Moves(p),
         migrated => AllCopied, migrated'
  PROVE  AllCopied'
<1>1. Grows  BY TablesGrow
<1>2. AllCopied
  <2>1. CASE migrated  BY <2>1
  <2>2. CASE NextTable(p) /\ proc[p].pc = "tasks" /\ proc[p].owner
    <3>1. Copied(p) /\ proc[p].todo = {}  BY <2>2 DEF Located, CopyPc, NextTable
    <3>2. QED  BY <2>2, <3>1 DEF Copied, AllCopied, CopyPc
  <2>3. Moves(p) => UNCHANGED migrated \/ NextTable(p)
    BY DEF Moves, Begin, FindOwner, LookUpLog, CreateSource, CreateDataSource, CreateLog,
           CountUsers, CreateAdmin, Look, Insert, LookUpFails, InsertFails, Dies, history
  <2>4. NextTable(p) => (migrated' = (migrated \/ (proc[p].pc = "tasks" /\ proc[p].owner)))
    BY Zenon DEF NextTable
  <2>5. CASE UNCHANGED migrated  BY <2>1, <2>5
  <2>6. CASE NextTable(p)
    <3>1. migrated \/ (proc[p].pc = "tasks" /\ proc[p].owner)  BY <2>4, <2>6, Zenon
    <3>2. QED  BY <2>1, <2>2, <2>6, <3>1
  <2>7. QED  BY <2>3, <2>5, <2>6
<1>3. \A t \in LTask : (tasks[t] # 0) => tasks'[t] # 0  BY <1>1 DEF Grows
<1>4. QED  BY <1>1, <1>2, <1>3, StaysUsed DEF AllCopied

\* The first of the open configs.
LEMMA FirstOpen ==
  ASSUME Open # {}
  PROVE  Min(Open) \in Open /\ \A c \in Open : Min(Open) <= c
<1>1. Open \in SUBSET Nat  BY IdNat, MigrationAssumption DEF Open
<1>2. QED  BY <1>1, MinLeast

\* A process that fans out is never past it.
LEMMA RowFirst ==
  ASSUME TypeOK, NEW q \in Process, Located(q), proc[q].pc \in FanOutPc, Open # {}
  PROVE  /\ Row(q) \in Config /\ Row(q) <= Min(Open)
         /\ Row(q) \in Open => Row(q) = Min(Open)
<1>1. Open \subseteq proc[q].todo /\ proc[q].todo # {}  BY DEF Located
<1>2. Row(q) \in Config /\ Row(q) \in Id /\ \A i \in proc[q].todo : Row(q) <= i
  BY <1>1, RowOf, RowIn
<1>3. Min(Open) \in Open /\ Min(Open) \in Config /\ \A c \in Open : Min(Open) <= c
  BY FirstOpen DEF Open
<1>4. Row(q) \in Nat /\ Min(Open) \in Nat  BY <1>2, <1>3, IdNat, MigrationAssumption
<1>5. QED  BY <1>1, <1>2, <1>3, <1>4

\* A step makes a source of no other config than its own.
LEMMA SourceMade ==
  ASSUME TypeOK, NEW p \in Process, Located(p), Moves(p), NEW c \in Config, HasSource(c)'
  PROVE  HasSource(c) \/ (MakesSource(p) /\ c = Row(p))
<1>1. CASE sources' = sources  BY <1>1 DEF HasSource
<1>2. CASE MakesSource(p)
  <2>1. PICK i \in Id : sources' = [sources EXCEPT ![i] = Fan(Row(p))]
    BY <1>2 DEF MakesSource
  <2>2. \A j \in Id : sources'[j] = sources[j] \/ sources'[j] = Fan(Row(p))
    BY <2>1 DEF TypeOK
  <2>3. Fan(c) = Fan(Row(p)) => c = Row(p)  BY FanFields
  <2>4. QED  BY <1>2, <2>2, <2>3 DEF HasSource
<1>3. CASE CopiesSource(p)
  <2>1. PICK i \in LSource : sources' = [sources EXCEPT ![i] = Legacy(i)]
    BY <1>3 DEF CopiesSource
  <2>2. \A j \in Id : sources'[j] = sources[j] \/ sources'[j] = Legacy(i)
    BY <2>1 DEF TypeOK
  <2>3. Fan(c) # Legacy(i)  BY FanFields
  <2>4. QED  BY <2>2, <2>3 DEF HasSource
<1>4. QED
  BY <1>1, <1>2, <1>3, TableStep
  DEF Quiet, tables, AddsUser, MakesData, CopiesData, MakesLog, CopiesTask

\* Where nothing fails, a process that fans out takes the next step of it.
LEMMA FaultlessMove ==
  ASSUME TypeOK, NEW p \in Process, Located(p), Moves(p), faults' = 0
  PROVE  /\ faults = 0
         /\ proc[p].pc = "config" => LookUpLog(p)
         /\ proc[p].pc = "source" => CreateSource(p)
         /\ proc[p].pc = "data source" => CreateDataSource(p)
         /\ proc[p].pc = "log" => CreateLog(p)
<1>1. ~Fault  BY DEF Fault, TypeOK
<1>2. faults' = faults
  BY <1>1 DEF Moves, Begin, FindOwner, LookUpLog, CreateSource, CreateDataSource, CreateLog,
         CountUsers, CreateAdmin, Look, Insert, NextTable, LookUpFails, InsertFails, Dies
<1>3. Insert(p) => proc[p].pc \in CopyPc  BY DEF Insert, Located
<1>4. QED
  BY <1>1, <1>2, <1>3
  DEF Moves, Begin, FindOwner, LookUpLog, CreateSource, CreateDataSource, CreateLog,
      CountUsers, CreateAdmin, Look, NextTable, LookUpFails, InsertFails, Dies, CopyPc

\* Nothing is misread where nothing fails.
LEMMA FaultlessReads ==
  ASSUME NEW p \in Process, Moves(p), ~Fault, ~misread
  PROVE  ~misread'
<1>1. misread' = misread
  BY DEF Moves, Begin, FindOwner, LookUpLog, CreateSource, CreateDataSource, CreateLog,
         CountUsers, CreateAdmin, Look, Insert, NextTable, LookUpFails, InsertFails, Dies, history
<1>2. QED  BY <1>1, Zenon

\* An owner stays one, and a process becomes one only where the fan-out begins.
LEMMA OwnerStep ==
  ASSUME TypeOK, NEW p \in Process, Moves(p)
  PROVE  /\ proc[p].owner => proc'[p].owner
         /\ proc'[p].owner => proc[p].owner \/ proc'[p].pc = "config"
<1>1. \A pc, todo : Goto(p, pc, todo) => proc'[p].owner = proc[p].owner  BY Moved
<1>2. Abort(p) \/ FannedOut(p) \/ Skip(p) => proc'[p].owner = proc[p].owner
  BY <1>1 DEF Abort, FannedOut, Skip
<1>3. CASE proc'[p].owner = proc[p].owner  BY <1>3, Zenon
<1>4. CASE proc' = [proc EXCEPT ![p].pc = "config", ![p].todo = Config, ![p].owner = TRUE]
  <2>1. proc'[p].owner = TRUE /\ proc'[p].pc = "config"  BY <1>4 DEF TypeOK
  <2>2. QED  BY <2>1
<1>5. CASE \/ Begin(p) \/ LookUpLog(p) \/ CreateLog(p) \/ CountUsers(p) \/ CreateAdmin(p)
           \/ Insert(p) \/ LookUpFails(p) \/ InsertFails(p) \/ Dies(p)
  <2>1. proc'[p].owner = proc[p].owner
    BY <1>1, <1>2, <1>5
    DEF Begin, LookUpLog, CreateLog, CountUsers, CreateAdmin, Insert, LookUpFails, InsertFails, Dies
  <2>2. QED  BY <2>1, <1>3
<1>6. CASE FindOwner(p)  BY <1>2, <1>3, <1>4, <1>6 DEF FindOwner
<1>7. CASE CreateSource(p)
  <2>1. proc'[p].owner = proc[p].owner
    <3>1. CASE Abort(p)  BY <1>2, <3>1
    <3>2. CASE MakesSource(p)
      <4>1. PICK i \in Id : proc' = [proc EXCEPT ![p].pc = "data source", ![p].new = i]
        BY <3>2 DEF MakesSource
      <4>2. QED  BY <4>1 DEF TypeOK
    <3>3. QED  BY <1>7, <3>1, <3>2, CreateSourceShape
  <2>2. QED  BY <2>1, <1>3
<1>8. CASE CreateDataSource(p)
  <2>1. proc'[p].owner = proc[p].owner  BY <1>8 DEF CreateDataSource, TypeOK
  <2>2. QED  BY <2>1, <1>3
<1>9. CASE Look(p)
  <2>1. proc' = [proc EXCEPT ![p].absent = TRUE] => proc'[p].owner = proc[p].owner
    BY DEF TypeOK
  <2>2. QED  BY <1>2, <1>3, <1>9, <2>1 DEF Look
<1>10. CASE NextTable(p)
  <2>1. proc'[p].owner = proc[p].owner  BY <1>1, <1>10 DEF NextTable, CopyPc
  <2>2. QED  BY <2>1, <1>3
<1>11. QED  BY <1>5, <1>6, <1>7, <1>8, <1>9, <1>10 DEF Moves

-----------------------------------------------------------------------------
(* Where nothing fails *)

\* What the invariant says of the tables and of every process.
Sound ==
  /\ TypeOK /\ Rows /\ Alone
  /\ \A p \in Process : Located(p) /\ Holds(p)

\* An open config that has a source is being made into its rows.
Begun ==
  \A c \in Open : HasSource(c) => \E p \in Process : proc[p].pc \in HalfPc /\ Row(p) = c

\* A process that makes a source makes that of the first open config.
LEMMA MakesFirst ==
  ASSUME Sound, ~misread, NEW p \in Process, MakesSource(p)
  PROVE  Row(p) \in Open /\ Row(p) = Min(Open)
<1>1. proc[p].pc = "source" /\ Located(p) /\ Holds(p) /\ ~HasSource(Row(p))
  BY DEF Sound, MakesSource
<1>2. Row(p) \in Config  BY <1>1, RowOf DEF Sound, Located, FanOutPc
<1>3. log[Row(p)] = 0
  <2>1. Row(p) \notin DOMAIN Logged  BY <1>1 DEF Holds
  <2>2. ASSUME log[Row(p)] # 0  PROVE FALSE
    <3>1. PICK i \in Id : i = log[Row(p)]
      BY <1>2, <2>2, MigrationAssumption DEF Sound, TypeOK, Id
    <3>2. data[i].row = Fan(Row(p))
      BY <1>2, <2>1, <2>2, <3>1, RowsParts DEF Sound, LogNames
    <3>3. data[i].source \in Id /\ sources[data[i].source] = Fan(Row(p))
      BY <3>2, RowsParts, DataFields, FanFields DEF Sound, DataOnSource
    <3>4. QED  BY <1>1, <3>3 DEF HasSource
  <2>3. QED  BY <2>2
<1>4. Row(p) \in Open  BY <1>2, <1>3 DEF Open
<1>5. QED  BY <1>1, <1>4, RowFirst DEF Sound, FanOutPc

\* What is begun is finished.
LEMMA BegunStep ==
  ASSUME Sound, Begun, NEW p \in Process, Moves(p), faults' = 0
  PROVE  Begun'
<1>1. /\ TypeOK /\ Located(p) /\ Open' \subseteq Open
      /\ \A q \in Process \ {p} : proc'[q] = proc[q] /\ Row(q)' = Row(q)
  BY OthersStay, TablesGrow, StaysUsed DEF Sound, Row
<1>2. ASSUME NEW c \in Config, c \in Open', HasSource(c)'
      PROVE  \E q \in Process : proc'[q].pc \in HalfPc /\ Row(q)' = c
  <2>1. CASE MakesSource(p) /\ c = Row(p)
    <3>1. PICK i \in Id : proc' = [proc EXCEPT ![p].pc = "data source", ![p].new = i]
      BY <2>1 DEF MakesSource
    <3>2. proc'[p].pc = "data source" /\ proc'[p].todo = proc[p].todo  BY <1>1, <3>1 DEF TypeOK
    <3>3. Row(p)' = Row(p)  BY <3>2 DEF Row
    <3>4. QED  BY <2>1, <3>2, <3>3 DEF HalfPc
  <2>2. CASE HasSource(c)
    <3>1. PICK q \in Process : proc[q].pc \in HalfPc /\ Row(q) = c  BY <1>1, <1>2, <2>2 DEF Begun
    <3>2. CASE q # p  BY <1>1, <3>1, <3>2
    <3>3. CASE q = p /\ proc[p].pc = "data source"
      <4>1. CreateDataSource(p)  BY <1>1, <3>3, FaultlessMove
      <4>2. proc'[p].pc = "log" /\ proc'[p].todo = proc[p].todo
        BY <1>1, <4>1 DEF CreateDataSource, TypeOK
      <4>3. Row(p)' = Row(p)  BY <4>2 DEF Row
      <4>4. QED  BY <3>1, <3>3, <4>2, <4>3 DEF HalfPc
    <3>4. CASE q = p /\ proc[p].pc = "log"
      <4>1. CreateLog(p) /\ log[c] = 0 /\ proc[p].new # 0
        BY <1>1, <1>2, <3>4, FaultlessMove, IdNat DEF Open, Located, HalfPc
      <4>2. log' = [log EXCEPT ![c] = proc[p].new]  BY <3>1, <3>4, <4>1 DEF CreateLog
      <4>3. log'[c] # 0  BY <1>1, <1>2, <4>1, <4>2 DEF TypeOK
      <4>4. QED  BY <1>2, <4>3 DEF Open
    <3>5. QED  BY <3>1, <3>2, <3>3, <3>4 DEF HalfPc
  <2>3. QED  BY <1>1, <1>2, <2>1, <2>2, SourceMade
<1>3. Open' \subseteq Config  BY DEF Open
<1>4. QED  BY <1>2, <1>3 DEF Begun

\* The process that has logged a config leads with the next: whoever had begun that
\* one would have passed over the first.
LEMMA LogLeads ==
  ASSUME Sound, Begun, NEW p \in Process, Moves(p), MakesLog(p), Open' # {}
  PROVE  Leads(p)'
<1>1. PICK m : m = Min(Open)  OBVIOUS
<1>2. /\ TypeOK /\ Located(p) /\ proc[p].pc \in FanOutPc /\ proc[p].new # 0
      /\ log[Row(p)] = 0 /\ log' = [log EXCEPT ![Row(p)] = proc[p].new]
      /\ UNCHANGED sources
  BY IdNat DEF Sound, MakesLog, Located, FanOutPc, HalfPc
<1>3. Row(p) \in Open
  <2>1. proc[p].todo # {}  BY <1>2 DEF Located, MakesLog, HalfPc
  <2>2. Row(p) \in Config  BY <1>2, <2>1, RowOf
  <2>3. QED  BY <1>2, <2>2 DEF Open
<1>4. Row(p) = m /\ m \in Open /\ \A c \in Open : m <= c
  BY <1>1, <1>2, <1>3, RowFirst, FirstOpen
<1>5. Open' = Open \ {m}  BY <1>2, <1>4 DEF Open, TypeOK
<1>6. PICK n : n = Min(Open')  OBVIOUS
<1>7. n \in Open'
  <2>1. Open' \in SUBSET Nat  BY IdNat, MigrationAssumption DEF Open
  <2>2. QED  BY <1>6, <2>1, MinLeast
<1>8. ~HasSource(n)
  <2>1. ASSUME HasSource(n)  PROVE FALSE
    <3>1. PICK q \in Process : proc[q].pc \in HalfPc /\ Row(q) = n
      BY <1>5, <1>7, <2>1 DEF Begun
    <3>2. n \in Open /\ n # m  BY <1>5, <1>7
    <3>3. n = m  BY <1>1, <1>4, <3>1, <3>2, RowFirst DEF Sound, HalfPc, FanOutPc
    <3>4. QED  BY <3>2, <3>3
  <2>2. QED  BY <2>1
<1>9. ~HasSource(Min(Open))'  BY <1>2, <1>6, <1>8 DEF HasSource
<1>10. proc'[p].pc = "config"  BY <1>2, Moved DEF MakesLog
<1>11. QED  BY <1>9, <1>10 DEF Leads

\* A process that leads goes on leading until the log has its config, and one that makes
\* a source takes over.
LEMMA LeadStep ==
  ASSUME Sound, Begun, ~misread, NEW p \in Process, Moves(p), faults' = 0, Open' # {},
         NEW l \in Process, Leads(l)
  PROVE  \E q \in Process : Leads(q)'
<1>1. /\ TypeOK /\ Located(p) /\ Open' \subseteq Open /\ Open # {}
      /\ \A q \in Process \ {p} : proc'[q] = proc[q] /\ Row(q)' = Row(q)
  BY OthersStay, TablesGrow, StaysUsed DEF Sound, Row
<1>2. CASE MakesLog(p)  BY <1>2, LogLeads
<1>3. CASE MakesSource(p)
  <2>1. Row(p) = Min(Open) /\ Open' = Open  BY <1>3, MakesFirst DEF MakesSource, Open
  <2>2. PICK i \in Id : proc' = [proc EXCEPT ![p].pc = "data source", ![p].new = i]
    BY <1>3 DEF MakesSource
  <2>3. proc'[p].pc = "data source" /\ proc'[p].todo = proc[p].todo  BY <1>1, <2>2 DEF TypeOK
  <2>4. Row(p)' = Row(p) /\ Min(Open)' = Min(Open)  BY <2>1, <2>3 DEF Row
  <2>5. QED  BY <2>1, <2>3, <2>4 DEF Leads, HalfPc
<1>4. CASE ~MakesLog(p) /\ ~MakesSource(p)
  <2>1. log' = log
    BY <1>1, <1>4, TableStep
    DEF Quiet, tables, AddsUser, CopiesSource, MakesData, CopiesData, CopiesTask
  <2>2. PICK m : m = Min(Open)  OBVIOUS
  <2>3. m \in Open /\ m \in Config  BY <1>1, <2>2, FirstOpen DEF Open
  <2>4. Open' = Open /\ Min(Open)' = m  BY <2>1, <2>2 DEF Open
  <2>5. HasSource(m)' => HasSource(m)  BY <1>1, <1>4, <2>3, SourceMade
  <2>6. HasSource(Min(Open))' <=> HasSource(m)'  BY <2>4 DEF HasSource
  <2>7. CASE l # p  BY <1>1, <2>2, <2>4, <2>5, <2>6, <2>7 DEF Leads
  <2>8. CASE l = p /\ proc[p].pc = "config"
    <3>1. LookUpLog(p) /\ ~HasSource(m)  BY <1>1, <2>2, <2>8, FaultlessMove DEF Leads, HalfPc
    <3>2. proc[p].todo # {}  BY <1>1, <2>8 DEF Located, FanOutPc
    <3>3. CASE log[Row(p)] # 0
      <4>1. Goto(p, "config", proc[p].todo \ {Row(p)})
        BY <2>8, <3>1, <3>2, <3>3 DEF LookUpLog, Skip
      <4>2. proc'[p].pc = "config"  BY <1>1, <4>1, Moved
      <4>3. QED  BY <2>5, <2>6, <3>1, <4>2 DEF Leads
    <3>4. CASE log[Row(p)] = 0
      <4>1. Goto(p, "source", proc[p].todo)  BY <3>1, <3>2, <3>4 DEF LookUpLog
      <4>2. proc'[p].pc = "source" /\ proc'[p].todo = proc[p].todo
        <5>1. TypeOK  BY <1>1
        <5>2. QED  BY <4>1, <5>1, Moved
      <4>3. Row(p)' = Row(p)  BY <4>2 DEF Row
      <4>4. Row(p) \in Open
        <5>1. Row(p) \in Config  BY <1>1, <2>8, <3>2, RowOf DEF FanOutPc
        <5>2. QED  BY <3>4, <5>1 DEF Open
      <4>5. Row(p) = m  BY <1>1, <2>2, <2>8, <4>4, RowFirst DEF FanOutPc
      <4>6. QED  BY <2>4, <2>5, <2>6, <3>1, <4>2, <4>3, <4>5 DEF Leads
    <3>5. QED  BY <3>3, <3>4
  <2>9. CASE l = p /\ proc[p].pc = "source"
    <3>1. CreateSource(p) /\ Row(p) = m /\ ~HasSource(m)
      BY <1>1, <2>2, <2>9, FaultlessMove DEF Leads, HalfPc
    <3>2. MakesSource(p)
      <4>1. ~\E i \in Id : sources[i] = Fan(Row(p))  BY <3>1 DEF HasSource
      <4>2. sources' # sources
        <5>1. PICK n : n = NextId("sources")  OBVIOUS
        <5>2. n \in Id /\ sources' = [sources EXCEPT ![n] = Fan(Row(p))]
          BY <3>1, <4>1, <5>1, Zenon DEF CreateSource
        <5>3. QED  BY <1>1, <4>1, <5>2 DEF TypeOK
      <4>3. QED  BY <3>1, <4>2, CreateSourceShape
    <3>3. QED  BY <1>4, <3>2
  <2>10. CASE l = p /\ proc[p].pc = "data source"
    <3>1. CreateDataSource(p) /\ Row(p) = m  BY <1>1, <2>2, <2>10, FaultlessMove DEF Leads
    <3>2. proc'[p].pc = "log" /\ proc'[p].todo = proc[p].todo
      BY <1>1, <3>1 DEF CreateDataSource, TypeOK
    <3>3. Row(p)' = Row(p)  BY <3>2 DEF Row
    <3>4. QED  BY <2>4, <3>1, <3>2, <3>3 DEF Leads, HalfPc
  <2>11. CASE l = p /\ proc[p].pc = "log"
    <3>1. CreateLog(p) /\ Row(p) = m  BY <1>1, <2>2, <2>11, FaultlessMove DEF Leads
    <3>2. log[Row(p)] = 0  BY <2>3, <3>1 DEF Open
    <3>3. MakesLog(p)  BY <3>1, <3>2 DEF CreateLog, MakesLog
    <3>4. QED  BY <1>4, <3>3
  <2>12. QED  BY <2>7, <2>8, <2>9, <2>10, <2>11 DEF Leads, HalfPc
<1>5. QED  BY <1>2, <1>3, <1>4

\* So without faults one process leads until all is done.
LEMMA FaultlessStep ==
  ASSUME Sound, faults = 0 => Faultless, NEW p \in Process, Moves(p), faults' = 0
  PROVE  Faultless'
<1>1. TypeOK /\ Located(p) /\ Open' \subseteq Open  BY TablesGrow, StaysUsed DEF Sound
<1>2. Faultless /\ ~misread /\ Begun  BY <1>1, FaultlessMove DEF Faultless, Begun
<1>3. ~misread'
  <2>1. ~Fault  BY <1>1 DEF Fault, TypeOK
  <2>2. QED  BY <1>2, <2>1, FaultlessReads
<1>4. Begun'  BY <1>2, BegunStep
<1>5. \A q \in Process \ {p} : proc'[q] = proc[q]  BY <1>1, OthersStay
<1>6. CASE \E q \in Process : proc[q].owner
  <2>1. \E q \in Process : proc'[q].owner  BY <1>1, <1>5, <1>6, OwnerStep
  <2>2. ASSUME Open' # {}  PROVE \E q \in Process : Leads(q)'
    <3>1. PICK l \in Process : Leads(l)  BY <1>1, <1>2, <1>6, <2>2 DEF Faultless
    <3>2. QED  BY <1>2, <2>2, <3>1, LeadStep
  <2>3. QED  BY <1>3, <1>4, <2>1, <2>2 DEF Faultless, Begun
<1>7. CASE ~\E q \in Process : proc[q].owner
  <2>1. \A c \in Config : ~HasSource(c)  BY <1>2, <1>7 DEF Faultless
  <2>2. ~MakesSource(p)  BY <1>1, <1>7 DEF MakesSource, Located, FanOutPc
  <2>3. \A c \in Config : ~HasSource(c)'  BY <1>1, <2>1, <2>2, SourceMade
  <2>4. CASE \E q \in Process : proc'[q].owner
    <3>1. proc'[p].pc = "config"  BY <1>1, <1>5, <1>7, <2>4, OwnerStep
    <3>2. Open' # {} => Leads(p)'
      <4>1. ASSUME Open' # {}  PROVE ~HasSource(Min(Open))'
        <5>1. PICK n : n = Min(Open')  OBVIOUS
        <5>2. Open' \in SUBSET Nat /\ Open' \subseteq Config
          BY IdNat, MigrationAssumption DEF Open
        <5>3. n \in Config  BY <4>1, <5>1, <5>2, MinLeast
        <5>4. ~HasSource(n)'  BY <2>3, <5>3
        <5>5. QED  BY <5>1, <5>4 DEF HasSource
      <4>2. QED  BY <3>1, <4>1 DEF Leads
    <3>3. QED  BY <1>3, <1>4, <2>4, <3>2 DEF Faultless, Begun
  <2>5. CASE ~\E q \in Process : proc'[q].owner
    BY <1>3, <1>4, <2>3, <2>5 DEF Faultless, Begun
  <2>6. QED  BY <2>4, <2>5
<1>8. QED  BY <1>6, <1>7

-----------------------------------------------------------------------------
(* The invariant, and what follows from it *)

\* MigrationInv in parts.
LEMMA InvParts ==
  /\ MigrationInv <=> /\ Sound /\ \A p \in Command : Copied(p)
                      /\ (migrated => AllCopied) /\ (faults = 0 => Faultless)
  /\ MigrationInv' <=> /\ Sound' /\ \A p \in Command : Copied(p)'
                       /\ (migrated' => AllCopied') /\ (faults' = 0 => Faultless')
  BY DEF MigrationInv, Sound

\* It holds at the start.
LEMMA MigrationInit == Init => MigrationInv
<1> SUFFICES ASSUME Init  PROVE MigrationInv  OBVIOUS
<1>1. /\ \A p \in Process : proc[p] = Idle
      /\ \A i \in Id : users[i] = Absent /\ sources[i] = Absent /\ data[i] = NoData
      /\ \A t \in LTask : tasks[t] = 0
      /\ faults = 0 /\ migrated = FALSE /\ misread = FALSE
  BY DEF Init
<1>2. /\ Idle.pc = "idle" /\ Idle.absent = FALSE /\ Idle.owner = FALSE /\ Idle \in Procs
  BY MigrationAssumption DEF Idle, Procs, Pcs
<1>3. TypeOK
  <2>1. Absent \in Origin /\ NoData \in DataRow  BY DEF Origin, DataRow
  <2>2. \A c \in DOMAIN Logged : Logged[c] \in 0..MaxId  BY MigrationAssumption DEF Id
  <2>3. log \in [Config -> 0..MaxId]  BY <2>2, MigrationAssumption DEF Init
  <2>4. TablesOK  BY <2>1, <2>3, MigrationAssumption DEF Init, TablesOK
  <2>5. proc \in [Process -> Procs]  BY <1>2 DEF Init
  <2>6. QED  BY <1>1, <2>4, <2>5, TypeParts
<1>4. Rows
  <2>1. SourceOnce /\ DataOnce /\ DataOnSource /\ SourceIs /\ DataThere /\ TasksName
    BY <1>1, FanFields
    DEF SourceOnce, DataOnce, DataOnSource, SourceIs, DataThere, TasksName
  <2>2. LogNames
    BY MigrationAssumption DEF LogNames, Init
  <2>3. QED  BY <2>1, <2>2, RowsParts
<1>5. Alone  BY <1>1, <1>2 DEF Alone, HalfPc
<1>6. \A p \in Process : Located(p) /\ Holds(p)
  BY <1>1, <1>2 DEF Located, Holds, FanOutPc, HalfPc, CopyPc
<1>7. \A p \in Command : Copied(p)
  BY <1>1, <1>2 DEF Copied, FanOutPc, Process
<1>8. Faultless
  <2>1. \A c \in Config : ~HasSource(c)  BY <1>1, FanFields DEF HasSource
  <2>2. Open \subseteq Config  BY DEF Open
  <2>3. QED  BY <1>1, <1>2, <2>1, <2>2 DEF Faultless
<1>9. QED  BY <1>1, <1>3, <1>4, <1>5, <1>6, <1>7, <1>8 DEF MigrationInv

\* Every step keeps it.
LEMMA MigrationStep == MigrationInv /\ [Next]_vars => MigrationInv'
<1> SUFFICES ASSUME MigrationInv, [Next]_vars  PROVE MigrationInv'  OBVIOUS
<1>1. /\ Sound /\ TypeOK /\ Rows /\ Alone /\ \A p \in Process : Located(p) /\ Holds(p)
      /\ \A p \in Command : Copied(p)
      /\ (migrated => AllCopied) /\ (faults = 0 => Faultless)
  BY InvParts DEF Sound
<1>2. CASE UNCHANGED vars
  <2>1. UNCHANGED <<users, sources, data, log, tasks, proc, faults, migrated, misread>>
    BY <1>2 DEF vars, tables, history
  <2>2. /\ Open' = Open /\ \A p \in Process : Row(p)' = Row(p)
        /\ \A t : Remap(t)' = Remap(t)
        /\ \A c : HasSource(c)' = HasSource(c) /\ HasData(c)' = HasData(c)
        /\ Used("users")' = Used("users") /\ Used("sources")' = Used("sources")
        /\ Used("data")' = Used("data")
    BY <2>1 DEF Open, Row, Remap, HasSource, HasData, Used
  <2>3. TypeOK'  BY <1>1, <2>1 DEF TypeOK
  <2>4. Rows'  BY <1>1, <2>1, <2>2 DEF Rows, FanOutOnce
  <2>5. Alone'  BY <1>1, <2>1, <2>2 DEF Alone
  <2>6. \A p \in Process : Located(p)'  BY <1>1, <2>1, <2>2 DEF Located
  <2>7. \A p \in Process : Holds(p)'  BY <1>1, <2>1, <2>2 DEF Holds
  <2>8. \A p \in Command : Copied(p)'  BY <1>1, <2>1, <2>2 DEF Copied
  <2>9. migrated' => AllCopied'  BY <1>1, <2>1, <2>2 DEF AllCopied
  <2>10. faults' = 0 => Faultless'
    <3>1. \A p \in Process : Leads(p)' = Leads(p)  BY <2>1, <2>2 DEF Leads, HasSource
    <3>2. QED  BY <1>1, <2>1, <2>2, <3>1 DEF Faultless
  <2>11. QED
    BY <2>3, <2>4, <2>5, <2>6, <2>7, <2>8, <2>9, <2>10 DEF MigrationInv
<1>3. ASSUME NEW p \in Process, Moves(p)  PROVE MigrationInv'
  <2>1. /\ faults' \in Nat /\ migrated' \in BOOLEAN /\ misread' \in BOOLEAN
    <3>1. faults' = faults \/ faults' = faults + 1
      BY <1>3 DEF Moves, Begin, FindOwner, LookUpLog, CreateSource, CreateDataSource, CreateLog,
         CountUsers, CreateAdmin, Look, Insert, NextTable, LookUpFails, InsertFails, Dies, Fault
    <3>2. UNCHANGED history \/ NextTable(p) \/ LookUpFails(p)
      BY <1>3 DEF Moves, Begin, FindOwner, LookUpLog, CreateSource, CreateDataSource, CreateLog,
         CountUsers, CreateAdmin, Look, Insert, InsertFails, Dies, history
    <3>3. migrated' \in BOOLEAN /\ misread' \in BOOLEAN
      BY <1>1, <3>2, Zenon DEF history, NextTable, LookUpFails, TypeOK
    <3>4. QED  BY <1>1, <3>1, <3>3 DEF TypeOK
  <2>2. TypeOK'  BY <1>1, <1>3, <2>1, TablesType, ProcType, TypePartsNext
  <2>3. Rows'  BY <1>1, <1>3, RowsStep
  <2>4. Alone'  BY <1>1, <1>3, AloneStep
  <2>5. \A q \in Process : Located(q)' /\ Holds(q)' /\ (q \in Command => Copied(q)')
    <3>1. ASSUME NEW q \in Process \ {p}
          PROVE  Located(q)' /\ Holds(q)' /\ (q \in Command => Copied(q)')
      BY <1>1, <1>3, <3>1, OtherStep
    <3>2. Placed(p)  BY <1>1, <1>3, OwnStep
    <3>3. QED  BY <3>1, <3>2 DEF Placed
  <2>6. \A q \in Command : Copied(q)'  BY <2>5 DEF Process
  <2>7. migrated' => AllCopied'  BY <1>1, <1>3, AllCopiedStep
  <2>8. faults' = 0 => Faultless'  BY <1>1, <1>3, FaultlessStep
  <2>9. Sound'  BY <2>2, <2>3, <2>4, <2>5 DEF Sound
  <2>10. QED  BY <2>6, <2>7, <2>8, <2>9, InvParts
<1>4. QED  BY <1>2, <1>3 DEF Next, Moves

\* Whatever the legacy tables, the processes and their faults, the invariant holds.
THEOREM MigrationSafe == Spec => []MigrationInv
<1>1. QED  BY MigrationInit, MigrationStep, PTL DEF Spec

\* The tables and the processes keep their types.
THEOREM TypeCorrect == Spec => []TypeOK
<1>1. MigrationInv => TypeOK  BY DEF MigrationInv
<1>2. QED  BY <1>1, MigrationSafe, PTL

\* However many servers and commands fan out at once, fail and start again, each
\* config becomes one storage source and one data source, which the log names.
THEOREM FansOutOnce == Spec => []FanOutOnce
<1>1. MigrationInv => FanOutOnce  BY DEF MigrationInv, Rows
<1>2. QED  BY <1>1, MigrationSafe, PTL

\* A copied task has its data source and that one its storage source.
THEOREM TasksResolved == Spec => []TasksResolve
<1>1. ASSUME MigrationInv  PROVE TasksResolve
  <2>1. \A t \in LTask : tasks[t] # 0 => tasks[t] \in Id
    BY <1>1, MigrationAssumption DEF MigrationInv, TypeOK, Id
  <2>2. QED  BY <1>1, <2>1, RowsParts DEF MigrationInv, TasksName, DataThere, TasksResolve
<1>2. QED  BY <1>1, MigrationSafe, PTL

\* A copied task of a legacy data source has that one's id, and works on it in the
\* storage it was in, unless a fan-out has taken the id of the one or of the other;
\* a task of a config works on what was made of that config.
THEOREM TasksKeepData == Spec => []TaskKeepsData
<1>1. ASSUME MigrationInv, NEW t \in LTask, tasks[t] # 0
      PROVE  IF MadeOfConfig(t)
             THEN LET own == Fan(RefOf[t].config)
                  IN  data[tasks[t]].row = own /\ sources[data[tasks[t]].source] = own
             ELSE LET d == DataOf(t)
                  IN  /\ tasks[t] = d
                      /\ d \notin TakenData =>
                           /\ data[d] = [row |-> Legacy(d), source |-> SourceOf[d]]
                           /\ SourceOf[d] \notin TakenSources =>
                                sources[SourceOf[d]] = Legacy(SourceOf[d])
  <2>1. /\ tasks[t] = Remap(t) /\ tasks[t] \in Id /\ data[tasks[t]] # NoData
        /\ LogNames /\ DataThere /\ DataOnSource /\ SourceIs
    BY <1>1, RowsParts, MigrationAssumption DEF MigrationInv, TypeOK, TasksName, Id
  <2>2. RefOf[t] \in [config : Config] \cup [data : LData]  BY MigrationAssumption
  <2>3. CASE MadeOfConfig(t)
    <3>1. /\ "data" \notin DOMAIN RefOf[t]
          /\ RefOf[t].config \in Config \ DOMAIN Logged
      BY <2>2, <2>3 DEF MadeOfConfig
    <3>2. tasks[t] = log[RefOf[t].config]  BY <2>1, <3>1 DEF Remap
    <3>3. data[tasks[t]].row = Fan(RefOf[t].config)  BY <1>1, <2>1, <3>1, <3>2 DEF LogNames
    <3>4. sources[data[tasks[t]].source] = Fan(RefOf[t].config)
      BY <2>1, <3>3, FanFields DEF DataOnSource
    <3>5. QED  BY <2>3, <3>3, <3>4
  <2>4. CASE ~MadeOfConfig(t)
    <3>1. PICK d : d = DataOf(t)  OBVIOUS
    <3>2. tasks[t] = d /\ d \in LData
      <4>1. CASE "data" \in DOMAIN RefOf[t]
        BY <2>1, <2>2, <3>1, <4>1 DEF DataOf, Remap
      <4>2. CASE "data" \notin DOMAIN RefOf[t]
        <5>1. RefOf[t].config \in DOMAIN Logged  BY <2>2, <2>4, <4>2 DEF MadeOfConfig
        <5>2. log[RefOf[t].config] = Logged[RefOf[t].config]  BY <2>1, <5>1 DEF LogNames
        <5>3. QED  BY <2>1, <3>1, <4>2, <5>1, <5>2, MigrationAssumption DEF DataOf, Remap
      <4>3. QED  BY <4>1, <4>2
    <3>3. ASSUME d \notin TakenData
          PROVE  /\ data[d] = [row |-> Legacy(d), source |-> SourceOf[d]]
                 /\ SourceOf[d] \notin TakenSources => sources[SourceOf[d]] = Legacy(SourceOf[d])
      <4>1. data[d].row.from # "config"  BY <3>2, <3>3 DEF TakenData
      <4>2. data[d] = [row |-> Legacy(d), source |-> SourceOf[d]]
        BY <2>1, <3>2, <4>1 DEF DataThere
      <4>3. sources[SourceOf[d]] # Absent
        <5>1. data[d].source = SourceOf[d]  BY <4>2
        <5>2. QED  BY <2>1, <3>2, <5>1 DEF DataThere
      <4>4. SourceOf[d] \in LSource /\ SourceOf[d] \in Id  BY <3>2, MigrationAssumption
      <4>5. SourceOf[d] \notin TakenSources => sources[SourceOf[d]] = Legacy(SourceOf[d])
        BY <2>1, <4>3, <4>4 DEF SourceIs, TakenSources
      <4>6. QED  BY <4>2, <4>5
    <3>4. QED  BY <2>4, <3>1, <3>2, <3>3
  <2>5. QED  BY <2>3, <2>4
<1>2. MigrationInv => TaskKeepsData  BY <1>1 DEF TaskKeepsData
<1>3. QED  BY <1>2, MigrationSafe, PTL

\* Where nothing fails, processes that fan out at once get every config migrated.
THEOREM FanOutCompleted == Spec => []FanOutCompletes
<1>1. ASSUME MigrationInv, faults = 0, \A p \in Process : proc[p].pc \in Ended,
             \E p \in Process : proc[p].owner
      PROVE  \A c \in Config : log[c] # 0
  <2>1. Open # {} => \E p \in Process : Leads(p)  BY <1>1 DEF MigrationInv, Faultless
  <2>2. \A p \in Process : ~Leads(p)  BY <1>1 DEF Leads, Ended, HalfPc
  <2>3. QED  BY <2>1, <2>2 DEF Open
<1>2. MigrationInv => FanOutCompletes  BY <1>1 DEF FanOutCompletes
<1>3. QED  BY <1>2, MigrationSafe, PTL

\* When there are users, no process goes on to make an administrator.
LEMMA CountedFirst ==
  ASSUME TypeOK, NEW p \in Process, Moves(p), Used("users") # {},
         NEW q \in Process, proc'[q].pc = "create"
  PROVE  proc[q].pc = "create"
<1>1. CASE q # p  BY <1>1, OthersStay
<1>2. CASE q = p
  <2>1. \A pc, todo : Goto(p, pc, todo) => proc'[p].pc = pc  BY Moved
  <2>2. ~Abort(p) /\ ~FannedOut(p)
    <3>1. (IF p \in Server THEN "boot" ELSE "failed") # "create"  OBVIOUS
    <3>2. QED  BY <1>2, <2>1, <3>1 DEF Abort, FannedOut
  <2>3. Skip(p) => proc[p].pc = "create"  BY <1>2, <2>1 DEF Skip
  <2>4. ~(Begin(p) \/ CreateLog(p) \/ CountUsers(p) \/ CreateAdmin(p)
          \/ LookUpFails(p) \/ InsertFails(p) \/ Dies(p))
    BY <1>2, <2>1, <2>2
    DEF Begin, CreateLog, CountUsers, CreateAdmin, LookUpFails, InsertFails, Dies
  <2>5. LookUpLog(p) => proc[p].pc = "create"  BY <1>2, <2>1, <2>2, <2>3 DEF LookUpLog
  <2>6. ~NextTable(p)  BY <1>2, <2>1 DEF NextTable, CopyPc
  <2>7. Look(p) => proc[p].pc = "create"
    <3>1. proc' = [proc EXCEPT ![p].absent = TRUE] => proc'[p].pc = proc[p].pc  BY DEF TypeOK
    <3>2. QED  BY <1>2, <2>3, <3>1 DEF Look
  <2>8. Insert(p) => proc[p].pc = "create"  BY <2>2, <2>3 DEF Insert
  <2>9. ~FindOwner(p)
    <3>1. proc' = [proc EXCEPT ![p].pc = "config", ![p].todo = Config, ![p].owner = TRUE]
            => proc'[p].pc = "config"
      BY DEF TypeOK
    <3>2. QED  BY <1>2, <2>2, <3>1 DEF FindOwner
  <2>10. ~CreateSource(p)
    <3>1. ASSUME MakesSource(p)  PROVE FALSE
      <4>1. PICK i \in Id : proc' = [proc EXCEPT ![p].pc = "data source", ![p].new = i]
        BY <3>1 DEF MakesSource
      <4>2. proc'[p].pc = "data source"  BY <4>1 DEF TypeOK
      <4>3. QED  BY <1>2, <4>2
    <3>2. QED  BY <2>2, <3>1, CreateSourceShape
  <2>11. ~CreateDataSource(p)
    <3>1. ASSUME MakesData(p)  PROVE FALSE
      <4>1. PICK i \in Id : proc' = [proc EXCEPT ![p].pc = "log", ![p].new = i]
        BY <3>1 DEF MakesData
      <4>2. proc'[p].pc = "log"  BY <4>1 DEF TypeOK
      <4>3. QED  BY <1>2, <4>2
    <3>2. QED  BY <3>1, CreateDataSourceShape
  <2>12. QED
    BY <1>2, <2>4, <2>5, <2>6, <2>7, <2>8, <2>9, <2>10, <2>11 DEF Moves
<1>3. QED  BY <1>1, <1>2

\* When a command has gone through, nothing that starts later adds a row, and what a
\* server that had counted no users before may still add is its administrator.
THEOREM RerunSafe == Spec => RerunChangesNothing
<1>1. ASSUME MigrationInv, NEW p \in Process, Moves(p), migrated, ~misread
      PROVE  /\ UNCHANGED <<sources, data, log, tasks>>
             /\ \A q \in Process : proc'[q].pc = "create" => proc[q].pc = "create"
             /\ \A i \in Id : users'[i] # users[i] =>
                  /\ i \notin LUser /\ users[i] = Absent /\ users'[i] = Boot
                  /\ \E q \in Server : proc[q].pc = "create" /\ proc'[q].pc = "done"
  <2>1. /\ Sound /\ TypeOK /\ Located(p) /\ Holds(p) /\ AllCopied /\ Open = {}
        /\ \A c \in Config : log[c] # 0
    BY <1>1, InvParts DEF Sound, AllCopied, Open
  <2>2. /\ Used("users") # {} /\ \A i \in LUser : users[i] # Absent
    <3>1. LUser \subseteq Used("users") /\ LUser # {}
      BY <2>1, MigrationAssumption DEF AllCopied
    <3>2. QED  BY <3>1, UsedIs
  <2>3. ~MakesSource(p)  BY <1>1, <2>1, MakesFirst
  <2>4. ~CopiesSource(p)  BY <2>1, UsedIs DEF AllCopied, CopiesSource
  <2>5. ~MakesData(p)
    <3>1. ASSUME MakesData(p)  PROVE FALSE
      <4>1. proc[p].pc = "data source" /\ ~HasData(Row(p)) /\ Row(p) \notin DOMAIN Logged
        BY <1>1, <2>1, <3>1 DEF MakesData, Holds, HalfPc
      <4>2. Row(p) \in Config  BY <2>1, <4>1, RowOf DEF Located, FanOutPc, HalfPc
      <4>3. log[Row(p)] \in Id
        BY <2>1, <4>2, MigrationAssumption DEF TypeOK, Id
      <4>4. data[log[Row(p)]].row = Fan(Row(p))
        BY <2>1, <4>1, <4>2, RowsParts DEF Sound, LogNames
      <4>5. QED  BY <4>1, <4>3, <4>4 DEF HasData
    <3>2. QED  BY <3>1
  <2>6. ~CopiesData(p)  BY <2>1, UsedIs DEF AllCopied, CopiesData
  <2>7. ~MakesLog(p)  BY <2>1, RowOf DEF MakesLog, Located, FanOutPc, HalfPc
  <2>8. ~CopiesTask(p)  BY <2>1, RowOf DEF CopiesTask, Located, AllCopied
  <2>9. UNCHANGED <<sources, data, log, tasks>>
    BY <1>1, <2>1, <2>3, <2>4, <2>5, <2>6, <2>7, <2>8, TableStep DEF Quiet, tables, AddsUser
  <2>10. \A q \in Process : proc'[q].pc = "create" => proc[q].pc = "create"
    BY <1>1, <2>1, <2>2, CountedFirst
  <2>11. ASSUME NEW i \in Id, users'[i] # users[i]
         PROVE  /\ i \notin LUser /\ users[i] = Absent /\ users'[i] = Boot
                /\ \E q \in Server : proc[q].pc = "create" /\ proc'[q].pc = "done"
    <3>1. AddsUser(p)
      BY <1>1, <2>1, <2>3, <2>4, <2>5, <2>6, <2>7, <2>8, <2>11, TableStep DEF Quiet, tables
    <3>2. PICK j \in Id, row \in Origin \ {Absent} :
            /\ users[j] = Absent /\ users' = [users EXCEPT ![j] = row]
            /\ (proc[p].pc = "create" /\ Goto(p, "done", {}) /\ row = Boot) \/ j \in LUser
      BY <3>1 DEF AddsUser
    <3>3. proc[p].pc = "create" /\ Goto(p, "done", {}) /\ row = Boot  BY <2>2, <3>2
    <3>4. i = j /\ users'[i] = Boot  BY <2>1, <2>11, <3>2, <3>3 DEF TypeOK
    <3>5. p \in Server /\ proc'[p].pc = "done"  BY <2>1, <3>3, Moved DEF Located
    <3>6. QED  BY <2>2, <3>2, <3>3, <3>4, <3>5
  <2>12. QED  BY <2>9, <2>10, <2>11
<1>2. ASSUME MigrationInv, [Next]_vars  PROVE [migrated /\ ~misread =>
        /\ UNCHANGED <<sources, data, log, tasks>>
        /\ \A p \in Process : proc'[p].pc = "create" => proc[p].pc = "create"
        /\ \A i \in Id : users'[i] # users[i] =>
             /\ i \notin LUser /\ users[i] = Absent /\ users'[i] = Boot
             /\ \E p \in Server : proc[p].pc = "create" /\ proc'[p].pc = "done"]_vars
  BY <1>1, <1>2 DEF Next, Moves
<1>3. QED  BY <1>2, MigrationSafe, PTL DEF Spec, RerunChangesNothing

============================================================================
