------------------------------- MODULE Catalog -------------------------------
(***************************************************************************)
(* Storage sources, data sources, check tasks and sync tasks, and the      *)
(* references between them: a data source lives on a storage source, a     *)
(* task copies or compares between data sources, a sync task may name a    *)
(* check task as its pre-check (internal/api).                             *)
(*                                                                         *)
(* There are no foreign keys.  A handler that writes a reference looks     *)
(* first whether its target exists, a handler that deletes a row counts    *)
(* first who refers to it, and each of these is a statement of its own:    *)
(* handlers interleave between them.  A row is saved as a whole, from the  *)
(* copy the request loaded, and inserted again when it has been deleted.   *)
(* Who may send which request is the subject of module Access; the jobs    *)
(* of the tasks are that of SchedulerGate.                                 *)
(***************************************************************************)
EXTENDS Naturals, Sequences

CONSTANTS
    Source, Data, Check, Sync,  \* ids of the four tables; an id is never reused
    Migrated,     \* data sources the migration log names
    Handler,      \* goroutines that serve requests
    MaxRequests,  \* model bound: requests served
    MaxFaults     \* model bound: counts that fail

Obj == Source \cup Data \cup Check \cup Sync
Table == {Source, Data, Check, Sync}

ASSUME CatalogAssumption ==
    /\ Obj # {}
    /\ Source \cap (Data \cup Check \cup Sync) = {}
    /\ Data \cap (Check \cup Sync) = {}
    /\ Check \cap Sync = {}
    /\ Migrated \subseteq Data
    /\ MaxRequests \in Nat /\ MaxFaults \in Nat

VARIABLES
    present,   \* the rows there are
    used,      \* the ids given out so far
    refs,      \* the rows that a row refers to, as last written
    req,       \* the requests being served
    budget,    \* requests and faults left
    unguarded  \* history: references no check protects, see References below

vars == <<present, used, refs, req, budget, unguarded>>

\* pc "write": the copy refs is to be saved once the ids in todo have been found.
\* pc "delete": the tables in left are still to be counted; those in blind could
\* not be.
Idle == [pc |-> "idle", obj |-> CHOOSE o \in Obj : TRUE, refs |-> {}, todo |-> {},
         left |-> << >>, blind |-> {}]

TypeOK ==
    /\ present \subseteq used /\ used \subseteq Obj
    /\ refs \in [Obj -> SUBSET Obj]
    /\ req \in [Handler -> [pc : {"idle", "write", "delete"}, obj : Obj, refs : SUBSET Obj,
                            todo : SUBSET Obj, left : Seq(Table), blind : SUBSET Table]]
    /\ budget \in [requests : Nat, faults : Nat]
    /\ unguarded \subseteq Obj \X Obj

-----------------------------------------------------------------------------
(* References *)

Pairs == {{a, b} : a \in Data, b \in Data}

\* What a row of each table may refer to.
RefsOf(o) ==
    CASE o \in Source -> {{}}
      [] o \in Data -> {{s} : s \in Source}
      [] o \in Check -> Pairs
      [] o \in Sync -> Pairs \cup {p \cup {c} : p \in Pairs, c \in Check}

\* Mutant of Counted: only sync tasks are looked at.
CountedSyncOnly(o) ==
    CASE o \in Source -> <<Data>>
      [] o \in Data \cup Check -> <<Sync>>
      [] o \in Sync -> << >>

\* The tables a deletion counts, in this order.
Counted(o) ==
    CASE o \in Source -> <<Data>>
      [] o \in Data -> <<Sync, Check>>
      [] o \in Check -> <<Sync>>
      [] o \in Sync -> << >>

Users(p) == {o \in present : p \in refs[o]}

\* The request of h has counted the users of p that are in o's table already.
Past(h, o, p) ==
    /\ req[h].pc = "delete" /\ req[h].obj = p
    /\ \A i \in DOMAIN req[h].left : o \notin req[h].left[i]

\* The request of h will write a reference to p into o without looking again.
Holds(h, o, p) ==
    req[h].pc = "write" /\ req[h].obj = o /\ p \in req[h].refs \ req[h].todo

\* A catalog that earlier requests have built: every reference resolves.
Init ==
    /\ present \in SUBSET Obj /\ used = present
    /\ LET rows == {r \in UNION {RefsOf(o) : o \in present} : r \subseteq present}
       IN  \E built \in [present -> rows] :
             /\ \A o \in present : built[o] \in RefsOf(o)
             /\ refs = [o \in Obj |-> IF o \in present THEN built[o] ELSE {}]
    /\ req = [h \in Handler |-> Idle]
    /\ budget = [requests |-> MaxRequests, faults |-> MaxFaults]
    /\ unguarded = {}

-----------------------------------------------------------------------------
(* Requests that write *)

Begins(h, rec) ==
    /\ req[h].pc = "idle" /\ budget.requests > 0
    /\ req' = [req EXCEPT ![h] = rec]
    /\ budget' = [budget EXCEPT !.requests = @ - 1]

Ends(h) == req' = [req EXCEPT ![h] = Idle]

Writing(o, want, todo) ==
    [Idle EXCEPT !.pc = "write", !.obj = o, !.refs = want, !.todo = todo]

\* CreateStorageSource, CreateDataSource, CreateTask and CreateCheckTask: every
\* target is looked for.  The id is given out by the INSERT; it is named here.
Create(h, o, want) ==
    /\ o \notin used /\ want \in RefsOf(o)
    /\ Begins(h, Writing(o, want, want))
    /\ used' = used \cup {o}
    /\ UNCHANGED <<present, refs, unguarded>>

\* A task given by legacy storage ids: the migration log names its data sources,
\* and nobody looks whether they are still there.
CreateLegacy(h, o, want) ==
    /\ o \in (Check \cup Sync) \ used /\ want \in RefsOf(o)
    /\ want \cap Data \subseteq Migrated
    /\ Begins(h, Writing(o, want, want \cap Check))
    /\ used' = used \cup {o}
    /\ unguarded' = unguarded \cup {<<o, p>> : p \in (want \cap Data) \ present}
    /\ UNCHANGED <<present, refs>>

\* UpdateStorageSource, UpdateDataSource, UpdateTask and UpdateCheckTask load the
\* row and change fields of the copy.  A data source's storage source and a
\* task's pre-check are looked for when the request names them, a task's data
\* sources always.
Update(h, o, want, todo) ==
    /\ o \in present /\ want \in RefsOf(o)
    /\ todo \subseteq want /\ want \ refs[o] \subseteq todo
    /\ o \in Check \cup Sync => want \cap Data \subseteq todo
    /\ Begins(h, Writing(o, want, todo))
    /\ UNCHANGED <<present, used, refs, unguarded>>

\* VerifyDataSource: looks for the storage source, probes it for as long as that
\* takes, and saves the whole row to note the result.
Verify(h, o) ==
    /\ o \in Data \cap present
    /\ Begins(h, Writing(o, refs[o], refs[o]))
    /\ UNCHANGED <<present, used, refs, unguarded>>

\* One target is looked for: data sources before the pre-check.
FindTarget(h, p) ==
    /\ req[h].pc = "write" /\ p \in req[h].todo
    /\ p \in Check => req[h].todo \cap Data = {}
    /\ IF p \in present
         THEN req' = [req EXCEPT ![h].todo = @ \ {p}]
         ELSE Ends(h)
    /\ UNCHANGED <<present, used, refs, budget, unguarded>>

\* Insert, or Save of the whole row.
Write(h) ==
    LET o == req[h].obj
    IN  /\ req[h].pc = "write" /\ req[h].todo = {}
        /\ present' = present \cup {o}
        /\ refs' = [refs EXCEPT ![o] = req[h].refs]
        /\ unguarded' = unguarded \cup
             {<<o, p>> : p \in {q \in req[h].refs : \E g \in Handler : Past(g, o, q)}}
        /\ Ends(h)
        /\ UNCHANGED <<used, budget>>

-----------------------------------------------------------------------------
(* Requests that delete *)

\* DeleteStorageSource, DeleteDataSource, DeleteTask and DeleteCheckTask
Delete(h, o) ==
    /\ o \in present
    /\ Begins(h, [Idle EXCEPT !.pc = "delete", !.obj = o, !.left = Counted(o)])
    /\ UNCHANGED <<present, used, refs, unguarded>>

\* Mutant of CountUsers: the second count is only made when the first found one.
CountUsersOnce(h) ==
    /\ req[h].pc = "delete" /\ req[h].left # << >>
    /\ IF Users(req[h].obj) \cap Head(req[h].left) = {}
         THEN req' = [req EXCEPT ![h].left = << >>]
         ELSE Ends(h)
    /\ UNCHANGED <<present, used, refs, budget, unguarded>>

\* One table is counted; a row that is in use is not deleted.
CountUsers(h) ==
    /\ req[h].pc = "delete" /\ req[h].left # << >>
    /\ IF Users(req[h].obj) \cap Head(req[h].left) = {}
         THEN req' = [req EXCEPT ![h].left = Tail(@)]
         ELSE Ends(h)
    /\ UNCHANGED <<present, used, refs, budget, unguarded>>

\* The error of a count is not looked at: the variable stays zero.
CountFails(h) ==
    /\ req[h].pc = "delete" /\ req[h].left # << >>
    /\ budget.faults > 0
    /\ req' = [req EXCEPT ![h].left = Tail(@), ![h].blind = @ \cup {Head(req[h].left)}]
    /\ budget' = [budget EXCEPT !.faults = @ - 1]
    /\ UNCHANGED <<present, used, refs, unguarded>>

\* The row goes.  (The runs and bindings of a task went before it.)
Remove(h) ==
    LET p == req[h].obj
    IN  /\ req[h].pc = "delete" /\ req[h].left = << >>
        /\ present' = present \ {p}
        /\ unguarded' = unguarded
             \cup {<<o, p>> : o \in {u \in Obj : \E g \in Handler : Holds(g, u, p)}}
             \cup {<<o, p>> : o \in Users(p) \cap UNION req[h].blind}
        /\ Ends(h)
        /\ UNCHANGED <<used, refs, budget>>

\* A request is refused, a statement of it fails, or its process dies.
GiveUp(h) ==
    /\ req[h].pc # "idle"
    /\ Ends(h)
    /\ UNCHANGED <<present, used, refs, budget, unguarded>>

Next ==
    \E h \in Handler :
        \/ \E o \in Obj : \/ \E want \in RefsOf(o) : \/ Create(h, o, want)
                                                      \/ CreateLegacy(h, o, want)
                                                      \/ \E todo \in SUBSET want :
                                                           Update(h, o, want, todo)
                          \/ Verify(h, o)
                          \/ FindTarget(h, o)
                          \/ Delete(h, o)
        \/ Write(h)
        \/ CountUsers(h)
        \/ CountFails(h)
        \/ Remove(h)
        \/ GiveUp(h)

Spec == Init /\ [][Next]_vars

-----------------------------------------------------------------------------
(* Correctness *)

(***************************************************************************)
(* A reference is unguarded when it was written after a deletion of its    *)
(* target had counted, or its target was deleted while a request that had  *)
(* looked for it, or loaded a row with it, had yet to write it, or after a *)
(* count that failed, or when the migration log named a target that was    *)
(* gone.                                                                   *)
(***************************************************************************)

\* Every reference of a row resolves, but for those the windows between a check
\* and its write leave unguarded: in whatever order requests create, change,
\* verify and delete rows, no row is deleted under one that refers to it.
ReferencesResolve ==
    \A o \in present : \A p \in refs[o] : p \in present \/ <<o, p>> \in unguarded

\* A target that a request counts on is there, or its deletion was noticed.
HeldTargets ==
    \A h \in Handler, o \in Obj, p \in Obj :
        Holds(h, o, p) => p \in present \/ <<o, p>> \in unguarded

\* A table that a deletion has counted has no row that refers to its target,
\* unless that count failed or the reference came later.
CountedTables ==
    \A h \in Handler, p \in Obj : \A o \in Users(p) :
        Past(h, o, p) => <<o, p>> \in unguarded \/ o \in UNION req[h].blind

\* References only go to a table whose deletions count the referring one.
Shape ==
    /\ \A o \in present : refs[o] \in RefsOf(o)
    /\ \A h \in Handler : req[h].pc = "write" => req[h].refs \in RefsOf(req[h].obj)

\* A row is only written under an id that was given out.
Reserved == \A h \in Handler : req[h].pc = "write" => req[h].obj \in used

\* The inductive invariant: references resolve because each of the two sides of
\* a check-then-act pair accounts for the other one.
CatalogInv ==
    /\ TypeOK
    /\ Shape
    /\ ReferencesResolve
    /\ HeldTargets
    /\ CountedTables
    /\ Reserved
=============================================================================
