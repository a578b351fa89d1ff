------------------------------- MODULE Access -------------------------------
(***************************************************************************)
(* Users, their roles, and the bindings that give them a level of access   *)
(* to data sources and tasks: internal/api/middleware.go,                  *)
(* handlers_auth.go, handlers_users.go, handlers_task_permissions.go,      *)
(* handlers_task_bindings.go and the bindings of handlers_data_sources.go. *)
(*                                                                         *)
(* A request is a chain of statements without a transaction: the caller's  *)
(* row, the object and its binding, the row that the handler works on, and *)
(* a Save of that whole row, which inserts it again when it has been       *)
(* deleted.  Data sources, sync tasks and check tasks have tables and      *)
(* handlers of their own, all alike but for what deletion leaves behind.   *)
(***************************************************************************)
EXTENDS Naturals

CONSTANTS
    User,
    Boss,           \* the administrator of the first start
    Object,
    Task,           \* the objects that are tasks, the others are data sources
    NoObject,
    Request,        \* requests at the same time
    MaxRequests     \* model bound: requests in all

ASSUME AccessAssumption ==
    Boss \in User /\ Task \subseteq Object /\ NoObject \notin Object /\ MaxRequests \in Nat

VARIABLES
    users,      \* users_v2: role and whether disabled
    objects,    \* data_sources_v2, sync_tasks_v2, check_tasks_v2
    level,      \* the three binding tables: rank of the permission, 0 without a row
    req,
    budget,
    due,        \* history: users and bindings as the last request on each decided
    stale,      \* history: rows that were saved from a copy older than a change
    admins      \* history: who has been an administrator of each object

rows == <<users, objects, level>>
history == <<due, stale>>
vars == <<rows, req, budget, history, admins>>

Role == {"admin", "edit", "view"}
Rank == [read |-> 1, write |-> 2, admin |-> 3]

\* Ids are not used again: a user who never was is not a user who was deleted.
Never == [role |-> "none", disabled |-> FALSE]
Deleted == [role |-> "deleted", disabled |-> FALSE]
Row == [role : Role, disabled : BOOLEAN] \cup {Never, Deleted}

SaveOps == {"save", "update user", "delete user"}
BindOps == {"bind", "rebind", "unbind"}
Op == SaveOps \cup BindOps \cup {"create user", "create", "delete"}
Idle == [pc |-> "idle"]
Asked ==
    [pc : {"access", "load", "write", "row"}, op : Op, caller : User, role : Role,
     target : User, obj : Object \cup {NoObject}, copy : Row, old : BOOLEAN]

TypeOK ==
    /\ users \in [User -> Row]
    /\ objects \in [Object -> {"never", "there", "gone"}]
    /\ level \in [Object -> [User -> 0..3]]
    /\ req \in [Request -> {Idle} \cup Asked]
    /\ budget \in 0..MaxRequests
    /\ due \in [users : [User -> Row], level : [Object -> [User -> 0..3]]]
    /\ stale \subseteq User \cup (Object \X User)
    /\ admins \subseteq Object \X User

There(u) == users[u].role \in Role
Enabled(u) == There(u) /\ ~users[u].disabled
IsAdmin(u) == Enabled(u) /\ users[u].role = "admin"

Init ==
    /\ users \in [User -> {Never} \cup [role : Role, disabled : {FALSE}]]
    /\ \A u \in User : users[u].role = "admin" <=> u = Boss
    /\ objects = [o \in Object |-> "never"]
    /\ level = [o \in Object |-> [u \in User |-> 0]]
    /\ req = [r \in Request |-> Idle]
    /\ budget = MaxRequests
    /\ due = [users |-> users, level |-> level]
    /\ stale = {} /\ admins = Object \X {Boss}

-----------------------------------------------------------------------------
(* Requests *)

Holds(r, pc, ops) == req[r].pc = pc /\ req[r].op \in ops

\* The next statement of a request, and its answer.
Goto(r, pc) == req' = [req EXCEPT ![r].pc = pc]
Answer(r) == req' = [req EXCEPT ![r] = Idle]

\* The answer of a request that has changed a row: other copies of it are old now.
AnswerAndAge(r, Copies) ==
    req' = [s \in Request |-> IF s = r THEN Idle
                              ELSE IF s \in Copies THEN [req[s] EXCEPT !.old = TRUE]
                              ELSE req[s]]

UserCopies(u) == {s \in Request : Holds(s, "write", SaveOps) /\ req[s].target = u}
BindingCopies(o, U) ==
    {s \in Request : /\ Holds(s, "write", {"rebind", "unbind"})
                     /\ req[s].obj = o /\ req[s].target \in U}

\* RequireAuth and RequireRoles: the token names a user, whose row is read anew.
Authenticate(r, pc, ops, Roles, Targets, Objects) ==
    /\ req[r] = Idle
    /\ budget > 0 /\ budget' = budget - 1
    /\ \E op \in ops, u \in {v \in User : Enabled(v) /\ users[v].role \in Roles},
           t \in Targets, o \in Objects :
          req' = [req EXCEPT ![r] = [pc |-> pc, op |-> op, caller |-> u, role |-> users[u].role,
                                     target |-> t, obj |-> o, copy |-> Never, old |-> FALSE]]
    /\ UNCHANGED <<rows, history>>

\* Login, and ChangePassword: the row is read before the password is hashed.
OwnRow(r) ==
    /\ req[r] = Idle
    /\ budget > 0 /\ budget' = budget - 1
    /\ \E u \in {v \in User : Enabled(v)} :
          req' = [req EXCEPT ![r] = [pc |-> "write", op |-> "save", caller |-> u,
                                     role |-> users[u].role, target |-> u, obj |-> NoObject,
                                     copy |-> users[u], old |-> FALSE]]
    /\ UNCHANGED <<rows, history>>

ManageUsers(r) == Authenticate(r, "load", SaveOps, {"admin"}, User, {NoObject})
AddUser(r) == Authenticate(r, "write", {"create user"}, {"admin"}, {Boss}, {NoObject})
AddObject(r) == Authenticate(r, "write", {"create"}, {"edit", "admin"}, {Boss}, {NoObject})
UseBinding(r) == Authenticate(r, "access", BindOps, Role, User, Object)
UseObject(r) == Authenticate(r, "access", {"delete"}, Role, {Boss}, Object)

-----------------------------------------------------------------------------
(* Users *)

\* Mutant of LoadUser: administrators may delete themselves.
LoadAnyUser(r) ==
    /\ Holds(r, "load", SaveOps)
    /\ IF ~There(req[r].target) THEN Answer(r)
       ELSE req' = [req EXCEPT ![r].pc = "write", ![r].copy = users[req[r].target]]
    /\ UNCHANGED <<rows, budget, history>>

\* Without the row there is nothing to do; nobody deletes themselves.
LoadUser(r) ==
    /\ Holds(r, "load", SaveOps)
    /\ LET u == req[r].target
       IN  IF ~There(u) \/ (req[r].op = "delete user" /\ u = req[r].caller)
             THEN Answer(r)
             ELSE req' = [req EXCEPT ![r].pc = "write", ![r].copy = users[u]]
    /\ UNCHANGED <<rows, budget, history>>

\* What an update decides, of a row that has not been saved from an old copy.
DecideUser(u, row) ==
    due' = IF u \in stale' THEN due ELSE [due EXCEPT !.users[u] = row]

SaveRow(r, row) ==
    LET u == req[r].target
    IN  /\ users' = [users EXCEPT ![u] = row]
        /\ stale' = IF req[r].old THEN stale \cup {u} ELSE stale
        /\ AnswerAndAge(r, IF row = users[u] THEN {} ELSE UserCopies(u))
        /\ UNCHANGED <<objects, level, budget>>

\* The end of Login, ChangePassword and ResetPassword: a column of no interest
\* here, and all the others as they were read.
SaveUser(r) ==
    /\ Holds(r, "write", {"save"})
    /\ SaveRow(r, req[r].copy)
    /\ UNCHANGED due

\* Mutant of UpdateUser: what the request leaves out is reset.
UpdateUserWhole(r) ==
    /\ Holds(r, "write", {"update user"})
    /\ LET u == req[r].target
       IN  \/ \E x \in Role : /\ SaveRow(r, [role |-> x, disabled |-> FALSE])
                              /\ DecideUser(u, [due.users[u] EXCEPT !.role = x])
           \/ \E x \in BOOLEAN : /\ SaveRow(r, [req[r].copy EXCEPT !.disabled = x])
                                 /\ DecideUser(u, [due.users[u] EXCEPT !.disabled = x])

\* A request names the role or whether the user is disabled; the other stays.
UpdateUser(r) ==
    /\ Holds(r, "write", {"update user"})
    /\ LET u == req[r].target
       IN  \/ \E x \in Role : /\ SaveRow(r, [req[r].copy EXCEPT !.role = x])
                              /\ DecideUser(u, [due.users[u] EXCEPT !.role = x])
           \/ \E x \in BOOLEAN : /\ SaveRow(r, [req[r].copy EXCEPT !.disabled = x])
                                 /\ DecideUser(u, [due.users[u] EXCEPT !.disabled = x])

DeleteUser(r) ==
    /\ Holds(r, "write", {"delete user"})
    /\ LET u == req[r].target
       IN  /\ users' = [users EXCEPT ![u] = Deleted]
           /\ UNCHANGED stale
           /\ DecideUser(u, Deleted)
           /\ AnswerAndAge(r, UserCopies(u))
    /\ UNCHANGED <<objects, level, budget>>

\* The id is new.
CreateUser(r) ==
    /\ Holds(r, "write", {"create user"})
    /\ \E u \in User, x \in Role :
          /\ users[u] = Never
          /\ users' = [users EXCEPT ![u] = [role |-> x, disabled |-> FALSE]]
          /\ due' = [due EXCEPT !.users[u] = [role |-> x, disabled |-> FALSE]]
    /\ Answer(r)
    /\ UNCHANGED <<objects, level, budget, stale>>

-----------------------------------------------------------------------------
(* Objects and bindings *)

\* The row and the creator's binding in one transaction.
Create(r) ==
    /\ Holds(r, "write", {"create"})
    /\ \E o \in Object :
          /\ objects[o] = "never"
          /\ objects' = [objects EXCEPT ![o] = "there"]
          /\ level' = [level EXCEPT ![o][req[r].caller] = Rank.admin]
          /\ due' = [due EXCEPT !.level[o][req[r].caller] = Rank.admin]
    /\ Answer(r)
    /\ UNCHANGED <<users, budget, stale>>

\* Mutant of Access: writing is enough.
AccessToWrite(r) ==
    /\ Holds(r, "access", Op)
    /\ LET o == req[r].obj
           may == req[r].role = "admin" \/ level[o][req[r].caller] >= Rank.write
       IN  IF objects[o] # "there" \/ ~may THEN Answer(r)
           ELSE Goto(r, IF req[r].op = "delete" THEN "write" ELSE "load")
    /\ UNCHANGED <<rows, budget, history>>

\* LoadDSForAccess, LoadSyncTaskForAccess, LoadCheckTaskForAccess: the object, the
\* role as it was authenticated, and the binding as it is now.
Access(r) ==
    /\ Holds(r, "access", Op)
    /\ LET o == req[r].obj
           may == req[r].role = "admin" \/ level[o][req[r].caller] >= Rank.admin
       IN  IF objects[o] # "there" \/ ~may THEN Answer(r)
           ELSE Goto(r, IF req[r].op = "delete" THEN "write" ELSE "load")
    /\ UNCHANGED <<rows, budget, history>>

\* A new binding needs a user and no row, the others need the row.
LoadBinding(r) ==
    /\ Holds(r, "load", BindOps)
    /\ LET bound == level[req[r].obj][req[r].target] # 0
       IN  IF IF req[r].op = "bind" THEN There(req[r].target) /\ ~bound ELSE bound
             THEN Goto(r, "write")
             ELSE Answer(r)
    /\ UNCHANGED <<rows, budget, history>>

SetLevel(r, x) == level' = [level EXCEPT ![req[r].obj][req[r].target] = x]
Decide(r, x) == due' = [due EXCEPT !.level[req[r].obj][req[r].target] = x]

\* Mutant of CreateBinding: the permission is not validated.
CreateAnyBinding(r) ==
    /\ Holds(r, "write", {"bind"})
    /\ IF level[req[r].obj][req[r].target] # 0 THEN UNCHANGED <<level, due>>
       ELSE \E x \in 1..4 : SetLevel(r, x) /\ Decide(r, x)
    /\ Answer(r)
    /\ UNCHANGED <<users, objects, budget, stale>>

\* Object and user are a unique key: another row of the two is an error.
CreateBinding(r) ==
    /\ Holds(r, "write", {"bind"})
    /\ IF level[req[r].obj][req[r].target] # 0 THEN UNCHANGED <<level, due>>
       ELSE \E x \in 1..3 : SetLevel(r, x) /\ Decide(r, x)
    /\ Answer(r)
    /\ UNCHANGED <<users, objects, budget, stale>>

\* Of a row that has been deleted, the Save makes a row again; when there is a newer
\* one for the two, MySQL overwrites that and SQLite refuses.
UpdateBinding(r) ==
    /\ Holds(r, "write", {"rebind"})
    /\ \E x \in 1..3 :
          IF ~req[r].old THEN SetLevel(r, x) /\ Decide(r, x) /\ UNCHANGED stale
          ELSE /\ \/ SetLevel(r, x)
                  \/ level[req[r].obj][req[r].target] # 0 /\ UNCHANGED level
               /\ stale' = stale \cup {<<req[r].obj, req[r].target>>}
               /\ UNCHANGED due
    /\ Answer(r)
    /\ UNCHANGED <<users, objects, budget>>

\* Mutant of DeleteBinding: by object and user, whatever row they have now.
DeleteBindingOfUser(r) ==
    /\ Holds(r, "write", {"unbind"})
    /\ SetLevel(r, 0)
    /\ IF req[r].old THEN UNCHANGED due ELSE Decide(r, 0)
    /\ AnswerAndAge(r, BindingCopies(req[r].obj, {req[r].target}))
    /\ UNCHANGED <<users, objects, budget, stale>>

\* By id: a row that came after the one that was read is not touched.
DeleteBinding(r) ==
    /\ Holds(r, "write", {"unbind"})
    /\ IF req[r].old THEN UNCHANGED <<level, due>> /\ Answer(r)
       ELSE /\ SetLevel(r, 0) /\ Decide(r, 0)
            /\ AnswerAndAge(r, BindingCopies(req[r].obj, {req[r].target}))
    /\ UNCHANGED <<users, objects, budget, stale>>

\* The bindings of a task go before its row, those of a data source stay.
DeleteBindings(r) ==
    /\ Holds(r, "write", {"delete"})
    /\ LET o == req[r].obj
       IN  IF o \in Task
             THEN /\ level' = [level EXCEPT ![o] = [u \in User |-> 0]]
                  /\ due' = [due EXCEPT !.level[o] = [u \in User |-> 0]]
                  /\ req' = [s \in Request |->
                               IF s = r THEN [req[s] EXCEPT !.pc = "row"]
                               ELSE IF s \in BindingCopies(o, User)
                                      THEN [req[s] EXCEPT !.old = TRUE]
                               ELSE req[s]]
             ELSE Goto(r, "row") /\ UNCHANGED <<level, due>>
    /\ UNCHANGED <<users, objects, budget, stale>>

DeleteObject(r) ==
    /\ Holds(r, "row", {"delete"})
    /\ objects' = [objects EXCEPT ![req[r].obj] = "gone"]
    /\ Answer(r)
    /\ UNCHANGED <<users, level, budget, history>>

-----------------------------------------------------------------------------
Begins(r) == OwnRow(r) \/ ManageUsers(r) \/ AddUser(r) \/ AddObject(r) \/ UseBinding(r)
             \/ UseObject(r)

OnUsers(r) ==
    LoadUser(r) \/ SaveUser(r) \/ UpdateUser(r) \/ DeleteUser(r) \/ CreateUser(r)

OnObjects(r) ==
    \/ Create(r) \/ Access(r) \/ LoadBinding(r)
    \/ CreateBinding(r) \/ UpdateBinding(r) \/ DeleteBinding(r)
    \/ DeleteBindings(r) \/ DeleteObject(r)

Administrates(o, u) == level[o][u] = Rank.admin \/ users[u].role = "admin"

Next ==
    /\ \E r \in Request : Begins(r) \/ OnUsers(r) \/ OnObjects(r)
    /\ admins' = admins \cup {p \in Object \X User : Administrates(p[1], p[2])'}

Spec == Init /\ [][Next]_vars

-----------------------------------------------------------------------------
(* Correctness *)

\* The role of a user, and whether the user is disabled or deleted, is what the last
\* update said: logins, changes of passwords and partial updates, which save whole
\* rows, undo nothing, unless they read the row before a change and save it after.
UserAsDecided == \A u \in User : u \in stale \/ users[u] = due.users[u]

\* The level of a user on an object is what was granted last: the creator's, a binding
\* created or updated, none after its deletion or the task's; again unless a binding
\* was deleted between the read and the Save of an update.
BindingAsDecided ==
    \A o \in Object, u \in User : <<o, u>> \in stale \/ level[o][u] = due.level[o][u]

\* A copy that is not old is the row, and one of a user that was there; nobody is
\* about to delete themselves.
CopiesAreFresh ==
    \A r \in Request : Holds(r, "write", SaveOps) =>
        /\ req[r].copy.role \in Role
        /\ req[r].old \/ req[r].copy = users[req[r].target]
        /\ req[r].op = "delete user" => req[r].target # req[r].caller

\* Whoever is past the check of access has been an administrator of the object.
AdminsKnown == \A o \in Object, u \in User : Administrates(o, u) => <<o, u>> \in admins

ChecksHold ==
    \A r \in Request : req[r] # Idle =>
        /\ req[r].role = "admin" => \A o \in Object : <<o, req[r].caller>> \in admins
        /\ req[r].op \in BindOps \cup {"delete"} =>
              /\ req[r].obj \in Object
              /\ req[r].pc = "access" \/ <<req[r].obj, req[r].caller>> \in admins

\* The inductive invariant behind these properties.
AccessInv ==
    /\ TypeOK
    /\ UserAsDecided /\ BindingAsDecided
    /\ CopiesAreFresh /\ AdminsKnown /\ ChecksHold

\* Rights come from those who have them: bindings of an object are changed by requests
\* of users that have been its administrators, by role or by binding, and by nobody
\* else, however roles, bindings and requests follow each other.
GrantsComeFromAdmins ==
    [][\A o \in Object, u \in User :
          level'[o][u] # level[o][u] =>
             \E r \in Request :
                /\ req[r] # Idle /\ req'[r] # req[r]
                /\ \/ req[r].op = "create" /\ req[r].caller = u
                   \/ req[r].obj = o /\ <<o, req[r].caller>> \in admins]_vars

\* Nobody deletes themselves, so the last administrator stays.  What can remove that
\* one is an update of one's own row, the request of somebody who has just stopped
\* being an administrator, and a Save from an old copy.
SomeAdmin == \E u \in User : IsAdmin(u)

LastAdminStays ==
    [][(SomeAdmin /\ ~SomeAdmin') =>
          \E r \in Request :
             /\ Holds(r, "write", SaveOps) /\ req'[r] = Idle
             /\ \/ req[r].op = "update user" /\ req[r].target = req[r].caller
                \/ ~IsAdmin(req[r].caller)
                \/ req[r].old]_vars
=============================================================================
