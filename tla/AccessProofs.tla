---------------------------- MODULE AccessProofs ----------------------------
(***************************************************************************)
(* Theorems about Access, for all sets of users, objects and requests: the *)
(* inductive invariant, and the two action properties that follow from it. *)
(***************************************************************************)
EXTENDS Access, TLAPS

\* Where a request is that has begun.
LEMMA AskedType ==
    ASSUME TypeOK, NEW r \in Request, req[r].pc # "idle"
    PROVE  req[r] \in Asked
BY DEF TypeOK, Idle

LEMMA AskedNotIdle ==
    ASSUME NEW x \in Asked
    PROVE  x # Idle
<1>1. x.pc # "idle"
  BY DEF Asked
<1>2. Idle.pc = "idle"
  BY DEF Idle
<1> QED
  BY <1>1, <1>2

LEMMA HoldsType ==
    ASSUME TypeOK, NEW r \in Request, NEW pc \in {"access", "load", "write", "row"}, NEW ops,
           Holds(r, pc, ops)
    PROVE  /\ req[r] \in Asked /\ req[r] # Idle
           /\ req[r].op \in Op /\ req[r].caller \in User /\ req[r].role \in Role
           /\ req[r].target \in User /\ req[r].obj \in Object \cup {NoObject}
           /\ req[r].copy \in Row /\ req[r].old \in BOOLEAN
<1>1. req[r].pc # "idle"
  BY DEF Holds
<1>2. req[r] \in Asked
  BY <1>1, AskedType
<1>3. req[r] # Idle
  BY <1>1 DEF Idle
<1> QED
  BY <1>2, <1>3 DEF Asked

-----------------------------------------------------------------------------
(* Type correctness *)

\* What a step of one request does to the others.
LEMMA GotoType ==
    ASSUME TypeOK, NEW r \in Request, req[r] # Idle,
           NEW pc \in {"access", "load", "write", "row"}, Goto(r, pc)
    PROVE  req' \in [Request -> {Idle} \cup Asked]
<1>1. req[r] \in Asked
  BY DEF TypeOK
<1>2. [req[r] EXCEPT !.pc = pc] \in Asked
  BY <1>1 DEF Asked
<1> QED
  BY <1>2 DEF TypeOK, Goto

LEMMA AnswerType ==
    ASSUME TypeOK, NEW r \in Request, Answer(r)
    PROVE  req' \in [Request -> {Idle} \cup Asked]
BY DEF TypeOK, Answer

LEMMA AgeType ==
    ASSUME TypeOK, NEW s \in Request, req[s].pc = "write"
    PROVE  [req[s] EXCEPT !.old = TRUE] \in Asked
<1>1. req[s] \in Asked
  BY AskedType
<1> QED
  BY <1>1 DEF Asked

LEMMA AgingType ==
    ASSUME TypeOK, NEW r \in Request, NEW Copies,
           \A s \in Copies : req[s].pc = "write",
           AnswerAndAge(r, Copies)
    PROVE  req' \in [Request -> {Idle} \cup Asked]
<1>1. \A s \in Request : s \in Copies => [req[s] EXCEPT !.old = TRUE] \in Asked
  BY AgeType
<1>2. \A s \in Request : req[s] \in {Idle} \cup Asked
  BY DEF TypeOK
<1> QED
  BY <1>1, <1>2 DEF AnswerAndAge

LEMMA CopiesWrite ==
    /\ \A u : \A s \in UserCopies(u) : req[s].pc = "write"
    /\ \A o, U : \A s \in BindingCopies(o, U) : req[s].pc = "write"
BY DEF UserCopies, BindingCopies, Holds

\* A new request: its caller's row has just been read.
LEMMA BeginAsks ==
    ASSUME TypeOK, NEW r \in Request, Begins(r)
    PROVE  /\ budget' \in 0..MaxRequests
           /\ \E new \in Asked : req' = [req EXCEPT ![r] = new]
<1>1. ASSUME NEW pc \in {"access", "load", "write"}, NEW ops, ops \subseteq Op,
             NEW Roles, Roles \subseteq Role, NEW Targets, Targets \subseteq User,
             NEW Objects, Objects \subseteq Object \cup {NoObject},
             Authenticate(r, pc, ops, Roles, Targets, Objects)
      PROVE  /\ budget' \in 0..MaxRequests
             /\ \E new \in Asked : req' = [req EXCEPT ![r] = new]
  <2>1. PICK op \in ops, u \in {v \in User : Enabled(v) /\ users[v].role \in Roles},
             t \in Targets, o \in Objects :
          req' = [req EXCEPT ![r] = [pc |-> pc, op |-> op, caller |-> u, role |-> users[u].role,
                                     target |-> t, obj |-> o, copy |-> Never, old |-> FALSE]]
    BY <1>1 DEF Authenticate
  <2>2. users[u].role \in Role /\ Never \in Row /\ op \in Op
    BY <1>1 DEF Row
  <2>4. [pc |-> pc, op |-> op, caller |-> u, role |-> users[u].role,
         target |-> t, obj |-> o, copy |-> Never, old |-> FALSE] \in Asked
    BY <1>1, <2>2 DEF Asked
  <2>3. budget' \in 0..MaxRequests
    BY <1>1, AccessAssumption DEF Authenticate, TypeOK, AccessAssumption
  <2> QED
    BY <2>1, <2>3, <2>4
<1>2. CASE OwnRow(r)
  <2>1. PICK u \in {v \in User : Enabled(v)} :
          req' = [req EXCEPT ![r] = [pc |-> "write", op |-> "save", caller |-> u,
                                     role |-> users[u].role, target |-> u, obj |-> NoObject,
                                     copy |-> users[u], old |-> FALSE]]
    BY <1>2 DEF OwnRow
  <2>2. users[u].role \in Role /\ users[u] \in Row /\ "save" \in Op
    BY DEF Enabled, There, TypeOK, Op, SaveOps
  <2>3. [pc |-> "write", op |-> "save", caller |-> u, role |-> users[u].role, target |-> u,
         obj |-> NoObject, copy |-> users[u], old |-> FALSE] \in Asked
    BY <2>2 DEF Asked
  <2>4. budget' \in 0..MaxRequests
    BY <1>2, AccessAssumption DEF OwnRow, TypeOK, AccessAssumption
  <2> QED
    BY <2>1, <2>3, <2>4
<1>3. CASE ManageUsers(r)
  BY <1>1, <1>3 DEF ManageUsers, Op, Role
<1>4. CASE AddUser(r)
  BY <1>1, <1>4, AccessAssumption DEF AddUser, Op, Role, AccessAssumption
<1>5. CASE AddObject(r)
  BY <1>1, <1>5, AccessAssumption DEF AddObject, Op, Role, AccessAssumption
<1>6. CASE UseBinding(r)
  BY <1>1, <1>6 DEF UseBinding, Op
<1>7. CASE UseObject(r)
  BY <1>1, <1>7, AccessAssumption DEF UseObject, Op, AccessAssumption
<1> QED
  BY <1>2, <1>3, <1>4, <1>5, <1>6, <1>7 DEF Begins

LEMMA BeginType ==
    ASSUME TypeOK, NEW r \in Request, Begins(r)
    PROVE  /\ req' \in [Request -> {Idle} \cup Asked]
           /\ budget' \in 0..MaxRequests
BY BeginAsks DEF TypeOK

LEMMA BeginFrame ==
    ASSUME NEW r \in Request, Begins(r)
    PROVE  UNCHANGED <<rows, history>> /\ req[r] = Idle
BY DEF Begins, OwnRow, ManageUsers, AddUser, AddObject, UseBinding, UseObject, Authenticate

\* A row of a user is saved.
LEMMA SaveRowType ==
    ASSUME TypeOK, NEW r \in Request, req[r] \in Asked, req[r].pc = "write",
           NEW row \in Row, SaveRow(r, row)
    PROVE  /\ users' = [users EXCEPT ![req[r].target] = row]
           /\ users' \in [User -> Row]
           /\ stale' \subseteq User \cup (Object \X User) /\ stale \subseteq stale'
           /\ req' \in [Request -> {Idle} \cup Asked]
<1>1. req[r].target \in User
  BY DEF Asked
<1>2. req' \in [Request -> {Idle} \cup Asked]
  BY AgingType, CopiesWrite DEF SaveRow
<1> QED
  BY <1>1, <1>2 DEF SaveRow, TypeOK

\* A request that saves a user, or deletes one, holds a copy that is not older than
\* the row, or knows of it.
LEMMA CopyFacts ==
    ASSUME AccessInv, NEW r \in Request, NEW ops \in SUBSET SaveOps, Holds(r, "write", ops)
    PROVE  /\ req[r] \in Asked /\ req[r].pc = "write" /\ req[r].target \in User
           /\ req[r].copy \in [role : Role, disabled : BOOLEAN]
           /\ ~req[r].old => req[r].copy = users[req[r].target]
           /\ (~req[r].old /\ req[r].target \notin stale)
                => req[r].copy = due.users[req[r].target]
<1>1. req[r] \in Asked /\ req[r].pc = "write" /\ req[r].target \in User /\ req[r].copy \in Row
  BY HoldsType DEF AccessInv, Holds
<1>2. Holds(r, "write", SaveOps)
  BY DEF Holds
<1>3. /\ req[r].copy.role \in Role
      /\ req[r].old \/ req[r].copy = users[req[r].target]
  BY <1>2 DEF AccessInv, CopiesAreFresh
<1>4. req[r].copy \in [role : Role, disabled : BOOLEAN]
  BY <1>1, <1>3 DEF Row, Never, Deleted, Role
<1> QED
  BY <1>1, <1>3, <1>4 DEF AccessInv, UserAsDecided

\* An update: the row it saves is what was decided, unless the row is stale.
LEMMA UpdateFacts ==
    ASSUME AccessInv, NEW r \in Request, UpdateUser(r)
    PROVE  \E row \in [role : Role, disabled : BOOLEAN] :
              /\ SaveRow(r, row)
              /\ due' = IF req[r].target \in stale' THEN due
                        ELSE [due EXCEPT !.users[req[r].target] = row]
<1> DEFINE u == req[r].target
<1>0. Holds(r, "write", {"update user"}) /\ {"update user"} \in SUBSET SaveOps
  BY DEF UpdateUser, SaveOps
<1>1. /\ req[r].copy \in [role : Role, disabled : BOOLEAN]
      /\ (~req[r].old /\ u \notin stale) => req[r].copy = due.users[u]
  BY <1>0, CopyFacts
<1>2. \A row : SaveRow(r, row) /\ u \notin stale' => ~req[r].old /\ u \notin stale
  BY DEF SaveRow
<1>3. ASSUME NEW x \in Role, SaveRow(r, [req[r].copy EXCEPT !.role = x]),
             DecideUser(u, [due.users[u] EXCEPT !.role = x])
      PROVE  /\ [req[r].copy EXCEPT !.role = x] \in [role : Role, disabled : BOOLEAN]
             /\ due' = IF u \in stale' THEN due
                       ELSE [due EXCEPT !.users[u] = [req[r].copy EXCEPT !.role = x]]
  BY <1>1, <1>2, <1>3 DEF DecideUser
<1>4. ASSUME NEW x \in BOOLEAN, SaveRow(r, [req[r].copy EXCEPT !.disabled = x]),
             DecideUser(u, [due.users[u] EXCEPT !.disabled = x])
      PROVE  /\ [req[r].copy EXCEPT !.disabled = x] \in [role : Role, disabled : BOOLEAN]
             /\ due' = IF u \in stale' THEN due
                       ELSE [due EXCEPT !.users[u] = [req[r].copy EXCEPT !.disabled = x]]
  BY <1>1, <1>2, <1>4 DEF DecideUser
<1>5. CASE \E x \in Role : /\ SaveRow(r, [req[r].copy EXCEPT !.role = x])
                           /\ DecideUser(u, [due.users[u] EXCEPT !.role = x])
  BY <1>3, <1>5
<1>6. CASE \E x \in BOOLEAN : /\ SaveRow(r, [req[r].copy EXCEPT !.disabled = x])
                              /\ DecideUser(u, [due.users[u] EXCEPT !.disabled = x])
  BY <1>4, <1>6
<1> QED
  BY <1>5, <1>6 DEF UpdateUser

\* A user's row is saved, and the decision recorded unless the row is stale.
LEMMA SaveStep ==
    ASSUME AccessInv, NEW r \in Request, req[r] \in Asked, req[r].pc = "write",
           NEW row \in [role : Role, disabled : BOOLEAN], SaveRow(r, row),
           \/ due' = IF req[r].target \in stale' THEN due
                     ELSE [due EXCEPT !.users[req[r].target] = row]
           \/ due' = due /\ (req[r].old \/ row = users[req[r].target])
    PROVE  /\ users' \in [User -> Row]
           /\ req' \in [Request -> {Idle} \cup Asked]
           /\ due' \in [users : [User -> Row], level : [Object -> [User -> 0..3]]]
           /\ stale' \subseteq User \cup (Object \X User) /\ stale \subseteq stale'
           /\ UNCHANGED <<objects, level, budget>> /\ due'.level = due.level
           /\ UserAsDecided'
<1> DEFINE u == req[r].target
<1>1. TypeOK /\ row \in Row /\ u \in User
  BY DEF AccessInv, Row, Asked
<1>2. /\ users' = [users EXCEPT ![u] = row]
      /\ users' \in [User -> Row]
      /\ stale' \subseteq User \cup (Object \X User) /\ stale \subseteq stale'
      /\ req' \in [Request -> {Idle} \cup Asked]
  BY <1>1, SaveRowType
<1>3. UNCHANGED <<objects, level, budget>> /\ (req[r].old => u \in stale')
  BY DEF SaveRow
<1>4. /\ [due EXCEPT !.users[u] = row]
           \in [users : [User -> Row], level : [Object -> [User -> 0..3]]]
      /\ [due EXCEPT !.users[u] = row].level = due.level
      /\ [due EXCEPT !.users[u] = row].users = [due.users EXCEPT ![u] = row]
  BY <1>1 DEF TypeOK
<1>5. /\ due' \in [users : [User -> Row], level : [Object -> [User -> 0..3]]]
      /\ due'.level = due.level
  BY <1>1, <1>4 DEF TypeOK
<1>6. \A v \in User : v # u => users'[v] = users[v] /\ due'.users[v] = due.users[v]
  BY <1>1, <1>2, <1>4 DEF TypeOK
<1>7. \A v \in User : v # u => v \in stale' \/ users'[v] = due'.users[v]
  BY <1>2, <1>6 DEF AccessInv, UserAsDecided
<1>8. u \in stale' \/ users'[u] = due'.users[u]
  <2>1. users'[u] = row
    BY <1>1, <1>2 DEF TypeOK
  <2>2. CASE due' = IF u \in stale' THEN due ELSE [due EXCEPT !.users[u] = row]
    BY <1>1, <1>4, <2>1, <2>2 DEF TypeOK
  <2>3. CASE due' = due /\ (req[r].old \/ row = users[u])
    BY <1>1, <1>2, <1>3, <2>1, <2>3 DEF AccessInv, UserAsDecided
  <2> QED
    BY <2>2, <2>3
<1>9. UserAsDecided'
  BY <1>7, <1>8 DEF UserAsDecided
<1> QED
  BY <1>2, <1>3, <1>5, <1>9

\* The steps on users keep the types, and what was decided of users.
LEMMA UserSteps ==
    ASSUME AccessInv, NEW r \in Request, OnUsers(r)
    PROVE  /\ users' \in [User -> Row]
           /\ req' \in [Request -> {Idle} \cup Asked]
           /\ due' \in [users : [User -> Row], level : [Object -> [User -> 0..3]]]
           /\ stale' \subseteq User \cup (Object \X User) /\ stale \subseteq stale'
           /\ UNCHANGED <<objects, level, budget>> /\ due'.level = due.level
           /\ UserAsDecided'
<1>0. TypeOK /\ UserAsDecided
  BY DEF AccessInv
<1>1. CASE LoadUser(r)
  <2>1. req[r] \in Asked
    BY <1>0, <1>1, HoldsType DEF LoadUser
  <2>2. users[req[r].target] \in Row
    BY <1>0, <2>1 DEF TypeOK, Asked
  <2>3. [req[r] EXCEPT !.pc = "write", !.copy = users[req[r].target]] \in Asked
    BY <2>1, <2>2 DEF Asked
  <2>4. req' \in [Request -> {Idle} \cup Asked]
    BY <1>0, <1>1, <2>3, AnswerType DEF LoadUser, TypeOK
  <2>5. UNCHANGED <<users, objects, level, budget, due, stale>>
    BY <1>1 DEF LoadUser, rows, history
  <2> QED
    BY <1>0, <2>4, <2>5 DEF TypeOK, UserAsDecided
<1>2. CASE SaveUser(r)
  <2>1. {"save"} \in SUBSET SaveOps
    BY DEF SaveOps
  <2>2. /\ req[r] \in Asked /\ req[r].pc = "write"
        /\ req[r].copy \in [role : Role, disabled : BOOLEAN]
        /\ ~req[r].old => req[r].copy = users[req[r].target]
    BY <1>2, <2>1, CopyFacts DEF SaveUser
  <2> QED
    BY <1>2, <2>2, SaveStep DEF SaveUser
<1>3. CASE UpdateUser(r)
  <2>1. req[r] \in Asked /\ req[r].pc = "write"
    BY <1>0, <1>3, HoldsType DEF UpdateUser, Holds
  <2> QED
    BY <1>3, <2>1, UpdateFacts, SaveStep
<1>4. CASE DeleteUser(r)
  <2> DEFINE u == req[r].target
  <2>1. req[r].target \in User
    BY <1>0, <1>4, HoldsType DEF DeleteUser
  <2>2. /\ users' = [users EXCEPT ![u] = Deleted] /\ stale' = stale
        /\ due' = IF u \in stale THEN due ELSE [due EXCEPT !.users[u] = Deleted]
        /\ UNCHANGED <<objects, level, budget>>
    BY <1>4 DEF DeleteUser, DecideUser
  <2>3. Deleted \in Row
    BY DEF Row
  <2>4. /\ users' \in [User -> Row]
        /\ due' \in [users : [User -> Row], level : [Object -> [User -> 0..3]]]
        /\ due'.level = due.level
    BY <1>0, <2>1, <2>2, <2>3 DEF TypeOK
  <2>5. req' \in [Request -> {Idle} \cup Asked]
    BY <1>0, <1>4, AgingType, CopiesWrite DEF DeleteUser
  <2>6. \A v \in User : v \in stale' \/ users'[v] = due'.users[v]
    BY <1>0, <2>1, <2>2 DEF TypeOK, UserAsDecided
  <2>7. UserAsDecided'
    BY <2>6 DEF UserAsDecided
  <2>8. stale' \subseteq User \cup (Object \X User)
    BY <1>0, <2>2 DEF TypeOK
  <2> QED
    BY <2>2, <2>4, <2>5, <2>7, <2>8
<1>5. CASE CreateUser(r)
  <2>1. PICK u \in User, x \in Role :
          /\ users' = [users EXCEPT ![u] = [role |-> x, disabled |-> FALSE]]
          /\ due' = [due EXCEPT !.users[u] = [role |-> x, disabled |-> FALSE]]
    BY <1>5 DEF CreateUser
  <2>2. [role |-> x, disabled |-> FALSE] \in Row
    BY DEF Row
  <2>3. /\ users' \in [User -> Row]
        /\ due' \in [users : [User -> Row], level : [Object -> [User -> 0..3]]]
        /\ due'.level = due.level
    BY <1>0, <2>1, <2>2 DEF TypeOK
  <2>4. req' \in [Request -> {Idle} \cup Asked] /\ UNCHANGED <<objects, level, budget, stale>>
    BY <1>0, <1>5, AnswerType DEF CreateUser
  <2>5. \A v \in User : v \in stale' \/ users'[v] = due'.users[v]
    BY <1>0, <2>1, <2>4 DEF TypeOK, UserAsDecided
  <2>6. UserAsDecided'
    BY <2>5 DEF UserAsDecided
  <2>7. stale' \subseteq User \cup (Object \X User)
    BY <1>0, <2>4 DEF TypeOK
  <2> QED
    BY <2>3, <2>4, <2>6, <2>7
<1> QED
  BY <1>1, <1>2, <1>3, <1>4, <1>5 DEF OnUsers

-----------------------------------------------------------------------------
(* Objects and bindings *)

\* One binding is written and decided.
LEMMA LevelStep ==
    ASSUME AccessInv, NEW o \in Object, NEW u \in User, NEW x \in 0..3,
           level' = [level EXCEPT ![o][u] = x], due' = [due EXCEPT !.level[o][u] = x],
           stale' = stale
    PROVE  /\ level' \in [Object -> [User -> 0..3]]
           /\ due' \in [users : [User -> Row], level : [Object -> [User -> 0..3]]]
           /\ due'.users = due.users
           /\ BindingAsDecided'
<1>1. TypeOK /\ BindingAsDecided
  BY DEF AccessInv
<1>2. /\ level' \in [Object -> [User -> 0..3]]
      /\ due' \in [users : [User -> Row], level : [Object -> [User -> 0..3]]]
      /\ due'.users = due.users
      /\ due'.level = [due.level EXCEPT ![o][u] = x]
  BY <1>1 DEF TypeOK
<1>3. /\ level'[o][u] = x /\ due'.level[o][u] = x
      /\ \A p \in Object, v \in User :
            (p # o \/ v # u) => /\ level'[p][v] = level[p][v]
                                /\ due'.level[p][v] = due.level[p][v]
  BY <1>1, <1>2 DEF TypeOK
<1>4. \A p \in Object, v \in User : <<p, v>> \in stale' \/ level'[p][v] = due'.level[p][v]
  <2> TAKE p \in Object, v \in User
  <2>1. CASE p = o /\ v = u
    BY <1>3, <2>1
  <2>2. CASE p # o \/ v # u
    <3>1. <<p, v>> \in stale \/ level[p][v] = due.level[p][v]
      BY <1>1 DEF BindingAsDecided
    <3>2. /\ level'[p][v] = level[p][v]
          /\ due'.level[p][v] = due.level[p][v]
      BY <1>3, <2>2
    <3> QED
      BY <3>1, <3>2
  <2> QED
    BY <2>1, <2>2
<1> QED
  BY <1>2, <1>4 DEF BindingAsDecided

\* A step that leaves bindings alone.
LEMMA LevelStays ==
    ASSUME AccessInv, UNCHANGED level, due'.level = due.level, stale \subseteq stale'
    PROVE  BindingAsDecided'
BY DEF AccessInv, BindingAsDecided

\* The steps on objects and bindings keep the types, and what was decided of bindings.
LEMMA ObjectSteps ==
    ASSUME AccessInv, NEW r \in Request, OnObjects(r)
    PROVE  /\ objects' \in [Object -> {"never", "there", "gone"}]
           /\ level' \in [Object -> [User -> 0..3]]
           /\ req' \in [Request -> {Idle} \cup Asked]
           /\ due' \in [users : [User -> Row], level : [Object -> [User -> 0..3]]]
           /\ stale' \subseteq User \cup (Object \X User) /\ stale \subseteq stale'
           /\ UNCHANGED <<users, budget>> /\ due'.users = due.users
           /\ BindingAsDecided'
<1> DEFINE o == req[r].obj
           u == req[r].target
           Goal == /\ objects' \in [Object -> {"never", "there", "gone"}]
                   /\ level' \in [Object -> [User -> 0..3]]
                   /\ req' \in [Request -> {Idle} \cup Asked]
                   /\ due' \in [users : [User -> Row], level : [Object -> [User -> 0..3]]]
                   /\ stale' \subseteq User \cup (Object \X User) /\ stale \subseteq stale'
                   /\ UNCHANGED <<users, budget>> /\ due'.users = due.users
                   /\ BindingAsDecided'
<1>0. TypeOK /\ ChecksHold
  BY DEF AccessInv
<1>a. ASSUME NEW pc \in {"access", "load", "write", "row"}, Holds(r, pc, BindOps)
      PROVE  o \in Object /\ u \in User /\ req[r] # Idle
  <2>1. req[r] # Idle /\ u \in User /\ req[r].op \in BindOps
    BY <1>0, <1>a, HoldsType DEF Holds
  <2> QED
    BY <1>0, <2>1 DEF ChecksHold
<1>b. ASSUME UNCHANGED <<rows, budget, history>>, req' \in [Request -> {Idle} \cup Asked]
      PROVE  Goal
  <2>1. UNCHANGED <<users, objects, level, budget, due, stale>>
    BY <1>b DEF rows, history
  <2>2. BindingAsDecided'
    BY <2>1, LevelStays
  <2> QED
    BY <1>0, <1>b, <2>1, <2>2 DEF TypeOK
<1>1. CASE Create(r)
  <2>1. PICK p \in Object :
          /\ objects' = [objects EXCEPT ![p] = "there"]
          /\ level' = [level EXCEPT ![p][req[r].caller] = 3]
          /\ due' = [due EXCEPT !.level[p][req[r].caller] = 3]
    BY <1>1 DEF Create, Rank
  <2>2. req[r].caller \in User
    BY <1>0, <1>1, HoldsType DEF Create
  <2>3. UNCHANGED <<users, budget, stale>> /\ req' \in [Request -> {Idle} \cup Asked]
    BY <1>0, <1>1, AnswerType DEF Create
  <2>4. objects' \in [Object -> {"never", "there", "gone"}]
    BY <1>0, <2>1 DEF TypeOK
  <2>5. stale' \subseteq User \cup (Object \X User)
    BY <1>0, <2>3 DEF TypeOK
  <2>6. 3 \in 0..3
    OBVIOUS
  <2>7. /\ level' \in [Object -> [User -> 0..3]]
        /\ due' \in [users : [User -> Row], level : [Object -> [User -> 0..3]]]
        /\ due'.users = due.users
        /\ BindingAsDecided'
    BY <2>1, <2>2, <2>3, <2>6, LevelStep
  <2> QED
    BY <2>3, <2>4, <2>5, <2>7
<1>2. CASE Access(r)
  <2>1. req[r] # Idle
    BY <1>0, <1>2, HoldsType DEF Access
  <2>2. Answer(r) \/ Goto(r, "write") \/ Goto(r, "load")
    BY <1>2 DEF Access
  <2>3. req' \in [Request -> {Idle} \cup Asked]
    BY <1>0, <2>1, <2>2, AnswerType, GotoType
  <2> QED
    BY <1>2, <1>b, <2>3 DEF Access
<1>3. CASE LoadBinding(r)
  <2>1. req[r] # Idle
    BY <1>3, <1>a DEF LoadBinding
  <2>2. Answer(r) \/ Goto(r, "write")
    BY <1>3 DEF LoadBinding
  <2>3. req' \in [Request -> {Idle} \cup Asked]
    BY <1>0, <2>1, <2>2, AnswerType, GotoType
  <2> QED
    BY <1>3, <1>b, <2>3 DEF LoadBinding
<1>4. CASE CreateBinding(r)
  <2>1. o \in Object /\ u \in User
    BY <1>4, <1>a DEF CreateBinding, Holds, BindOps
  <2>2. req' \in [Request -> {Idle} \cup Asked] /\ UNCHANGED <<users, objects, budget, stale>>
    BY <1>0, <1>4, AnswerType DEF CreateBinding
  <2>3. CASE UNCHANGED <<level, due>>
    BY <1>b, <2>2, <2>3 DEF rows, history
  <2>4. CASE \E x \in 1..3 : SetLevel(r, x) /\ Decide(r, x)
    <3>1. PICK x \in 0..3 : SetLevel(r, x) /\ Decide(r, x)
      BY <2>4
    <3>2. /\ level' \in [Object -> [User -> 0..3]]
          /\ due' \in [users : [User -> Row], level : [Object -> [User -> 0..3]]]
          /\ due'.users = due.users
          /\ BindingAsDecided'
      BY <2>1, <2>2, <3>1, LevelStep DEF SetLevel, Decide
    <3> QED
      BY <1>0, <2>2, <3>2 DEF TypeOK
  <2> QED
    BY <1>4, <2>3, <2>4 DEF CreateBinding
<1>5. CASE UpdateBinding(r)
  <2>1. o \in Object /\ u \in User
    BY <1>5, <1>a DEF UpdateBinding, Holds, BindOps
  <2>2. req' \in [Request -> {Idle} \cup Asked] /\ UNCHANGED <<users, objects, budget>>
    BY <1>0, <1>5, AnswerType DEF UpdateBinding
  <2>3. CASE ~req[r].old
    <3>1. PICK x \in 0..3 : SetLevel(r, x) /\ Decide(r, x) /\ UNCHANGED stale
      BY <1>5, <2>3 DEF UpdateBinding
    <3>2. /\ level' \in [Object -> [User -> 0..3]]
          /\ due' \in [users : [User -> Row], level : [Object -> [User -> 0..3]]]
          /\ due'.users = due.users
          /\ BindingAsDecided'
      BY <2>1, <3>1, LevelStep DEF SetLevel, Decide
    <3> QED
      BY <1>0, <2>2, <3>1, <3>2 DEF TypeOK
  <2>4. CASE req[r].old
    <3>1. PICK x \in 0..3 :
            /\ level' = [level EXCEPT ![o][u] = x] \/ UNCHANGED level
            /\ stale' = stale \cup {<<o, u>>} /\ UNCHANGED due
      BY <1>5, <2>4 DEF UpdateBinding, SetLevel
    <3>2. /\ level' \in [Object -> [User -> 0..3]]
          /\ \A p \in Object, v \in User : (p # o \/ v # u) => level'[p][v] = level[p][v]
      <4>1. CASE level' = [level EXCEPT ![o][u] = x]
        BY <1>0, <2>1, <4>1 DEF TypeOK
      <4>2. CASE UNCHANGED level
        BY <1>0, <4>2 DEF TypeOK
      <4> QED
        BY <3>1, <4>1, <4>2
    <3>3. \A p \in Object, v \in User : (p # o \/ v # u) => level'[p][v] = level[p][v]
      BY <3>2
    <3>4. \A p \in Object, v \in User : <<p, v>> \in stale' \/ level'[p][v] = due'.level[p][v]
      BY <3>1, <3>3 DEF AccessInv, BindingAsDecided
    <3>5. BindingAsDecided'
      BY <3>4 DEF BindingAsDecided
    <3>6. stale' \subseteq User \cup (Object \X User)
      BY <1>0, <2>1, <3>1 DEF TypeOK
    <3> QED
      BY <1>0, <2>2, <3>1, <3>2, <3>5, <3>6 DEF TypeOK
  <2> QED
    BY <2>3, <2>4
<1>6. CASE DeleteBinding(r)
  <2>1. o \in Object /\ u \in User
    BY <1>6, <1>a DEF DeleteBinding, Holds, BindOps
  <2>2. req' \in [Request -> {Idle} \cup Asked] /\ UNCHANGED <<users, objects, budget, stale>>
    BY <1>0, <1>6, AnswerType, AgingType, CopiesWrite DEF DeleteBinding
  <2>3. CASE req[r].old
    BY <1>6, <1>b, <2>2, <2>3 DEF DeleteBinding, rows, history
  <2>4. CASE ~req[r].old
    <3>1. SetLevel(r, 0) /\ Decide(r, 0) /\ 0 \in 0..3
      BY <1>6, <2>4 DEF DeleteBinding
    <3>2. /\ level' \in [Object -> [User -> 0..3]]
          /\ due' \in [users : [User -> Row], level : [Object -> [User -> 0..3]]]
          /\ due'.users = due.users
          /\ BindingAsDecided'
      BY <2>1, <2>2, <3>1, LevelStep DEF SetLevel, Decide
    <3> QED
      BY <1>0, <2>2, <3>2 DEF TypeOK
  <2> QED
    BY <2>3, <2>4
<1>7. CASE DeleteBindings(r)
  <2>1. o \in Object /\ req[r] # Idle /\ req[r].pc = "write"
    BY <1>0, <1>7, HoldsType DEF DeleteBindings, ChecksHold, Holds
  <2>2. UNCHANGED <<users, objects, budget, stale>>
    BY <1>7 DEF DeleteBindings
  <2>3. CASE o \in Task
    <3>1. /\ level' = [level EXCEPT ![o] = [v \in User |-> 0]]
          /\ due' = [due EXCEPT !.level[o] = [v \in User |-> 0]]
          /\ req' = [s \in Request |-> IF s = r THEN [req[s] EXCEPT !.pc = "row"]
                                       ELSE IF s \in BindingCopies(o, User)
                                              THEN [req[s] EXCEPT !.old = TRUE]
                                       ELSE req[s]]
      BY <1>7, <2>3 DEF DeleteBindings
    <3>2. [v \in User |-> 0] \in [User -> 0..3]
      OBVIOUS
    <3>3. /\ level' \in [Object -> [User -> 0..3]]
          /\ due' \in [users : [User -> Row], level : [Object -> [User -> 0..3]]]
          /\ due'.users = due.users
      BY <1>0, <2>1, <3>1, <3>2 DEF TypeOK
    <3>4. \A p \in Object, v \in User :
             \/ level'[p][v] = due'.level[p][v]
             \/ level'[p][v] = level[p][v] /\ due'.level[p][v] = due.level[p][v]
      BY <1>0, <2>1, <3>1 DEF TypeOK
    <3>5. \A p \in Object, v \in User : <<p, v>> \in stale' \/ level'[p][v] = due'.level[p][v]
      BY <2>2, <3>4 DEF AccessInv, BindingAsDecided
    <3>6. BindingAsDecided'
      BY <3>5 DEF BindingAsDecided
    <3>7. req[r] \in Asked
      BY <1>0, <2>1 DEF TypeOK
    <3>8. [req[r] EXCEPT !.pc = "row"] \in Asked
      BY <3>7 DEF Asked
    <3>9. \A s \in Request : s \in BindingCopies(o, User) => [req[s] EXCEPT !.old = TRUE] \in Asked
      BY <1>0, CopiesWrite, AgeType
    <3>10. req' \in [Request -> {Idle} \cup Asked]
      BY <1>0, <3>1, <3>8, <3>9 DEF TypeOK
    <3> QED
      BY <1>0, <2>2, <3>3, <3>6, <3>10 DEF TypeOK
  <2>4. CASE o \notin Task
    <3>1. Goto(r, "row") /\ UNCHANGED <<level, due>>
      BY <1>7, <2>4 DEF DeleteBindings
    <3>2. req' \in [Request -> {Idle} \cup Asked]
      BY <1>0, <2>1, <3>1, GotoType
    <3> QED
      BY <1>b, <2>2, <3>1, <3>2 DEF rows, history
  <2> QED
    BY <2>3, <2>4
<1>8. CASE DeleteObject(r)
  <2>1. /\ UNCHANGED <<users, level, budget, due, stale>>
        /\ req' \in [Request -> {Idle} \cup Asked]
    BY <1>0, <1>8, AnswerType DEF DeleteObject, history
  <2>2. objects' \in [Object -> {"never", "there", "gone"}]
    BY <1>0, <1>8 DEF DeleteObject, TypeOK
  <2>3. BindingAsDecided'
    BY <2>1, LevelStays
  <2> QED
    BY <1>0, <2>1, <2>2, <2>3 DEF TypeOK
<1> QED
  <2>1. Goal
    BY <1>1, <1>2, <1>3, <1>4, <1>5, <1>6, <1>7, <1>8 DEF OnObjects
  <2> QED
    BY <2>1

-----------------------------------------------------------------------------
(* Copies and checks *)

Step(r) == Begins(r) \/ OnUsers(r) \/ OnObjects(r)

\* What a request's own step makes of it.
Begun(r) ==
    /\ req[r] = Idle /\ req'[r] \in Asked /\ UNCHANGED users
    /\ req'[r].caller \in User /\ req'[r].role = users[req'[r].caller].role
    /\ (req'[r].pc = "write" /\ req'[r].op \in SaveOps) =>
          /\ req'[r].op = "save"
          /\ req'[r].copy.role \in Role /\ req'[r].copy = users[req'[r].target]
    /\ req'[r].op \in BindOps \cup {"delete"} => req'[r].obj \in Object /\ req'[r].pc = "access"

Loaded(r) ==
    /\ req[r] \in Asked /\ req[r].op \in SaveOps /\ UNCHANGED users
    /\ req'[r] = [req[r] EXCEPT !.pc = "write", !.copy = users[req[r].target]]
    /\ There(req[r].target)
    /\ req[r].op = "delete user" => req[r].target # req[r].caller

Moved(r) ==
    /\ req[r] \in Asked
    /\ \E pc \in {"load", "write", "row"} :
          /\ req'[r] = [req[r] EXCEPT !.pc = pc]
          /\ pc = "write" => req[r].op \notin SaveOps
    /\ req[r].pc = "access" =>
          \/ req[r].role = "admin"
          \/ req[r].obj \in Object => Administrates(req[r].obj, req[r].caller)

LEMMA OwnStep ==
    ASSUME AccessInv, NEW r \in Request, Step(r)
    PROVE  req'[r] = Idle \/ Begun(r) \/ Loaded(r) \/ Moved(r)
<1>0. TypeOK /\ req \in [Request -> {Idle} \cup Asked]
  BY DEF AccessInv, TypeOK
<1>1. ASSUME NEW pc \in {"access", "load", "write"}, NEW ops, ops \subseteq Op,
             pc = "write" => ops \cap SaveOps = {},
             NEW Roles, Roles \subseteq Role, NEW Targets, Targets \subseteq User,
             NEW Objects, Objects \subseteq Object \cup {NoObject},
             pc = "access" => Objects \subseteq Object,
             pc # "access" => ops \cap (BindOps \cup {"delete"}) = {},
             Authenticate(r, pc, ops, Roles, Targets, Objects)
      PROVE  Begun(r)
  <2>1. PICK op \in ops, u \in {v \in User : Enabled(v) /\ users[v].role \in Roles},
             t \in Targets, o \in Objects :
          req' = [req EXCEPT ![r] = [pc |-> pc, op |-> op, caller |-> u, role |-> users[u].role,
                                     target |-> t, obj |-> o, copy |-> Never, old |-> FALSE]]
    BY <1>1 DEF Authenticate
  <2>2. users[u].role \in Role /\ Never \in Row /\ op \in Op
    BY <1>1 DEF Row
  <2>3. [pc |-> pc, op |-> op, caller |-> u, role |-> users[u].role,
         target |-> t, obj |-> o, copy |-> Never, old |-> FALSE] \in Asked
    BY <1>1, <2>2 DEF Asked
  <2>4. req'[r] = [pc |-> pc, op |-> op, caller |-> u, role |-> users[u].role,
                   target |-> t, obj |-> o, copy |-> Never, old |-> FALSE]
    BY <1>0, <2>1
  <2>5. req[r] = Idle /\ UNCHANGED users
    BY <1>1 DEF Authenticate, rows
  <2>6. ~(pc = "write" /\ op \in SaveOps)
    BY <1>1
  <2>7. op \in BindOps \cup {"delete"} => o \in Object /\ pc = "access"
    BY <1>1
  <2> QED
    BY <2>3, <2>4, <2>5, <2>6, <2>7 DEF Begun
<1>2. CASE OwnRow(r)
  <2>1. PICK u \in {v \in User : Enabled(v)} :
          req' = [req EXCEPT ![r] = [pc |-> "write", op |-> "save", caller |-> u,
                                     role |-> users[u].role, target |-> u, obj |-> NoObject,
                                     copy |-> users[u], old |-> FALSE]]
    BY <1>2 DEF OwnRow
  <2>2. users[u].role \in Role /\ users[u] \in Row /\ "save" \in Op
    BY <1>0 DEF Enabled, There, TypeOK, Op, SaveOps
  <2>3. [pc |-> "write", op |-> "save", caller |-> u, role |-> users[u].role, target |-> u,
         obj |-> NoObject, copy |-> users[u], old |-> FALSE] \in Asked
    BY <2>2 DEF Asked
  <2>4. req[r] = Idle /\ req'[r] = [pc |-> "write", op |-> "save", caller |-> u,
          role |-> users[u].role, target |-> u, obj |-> NoObject,
          copy |-> users[u], old |-> FALSE]
    BY <1>0, <1>2, <2>1 DEF OwnRow
  <2>5. "save" \notin BindOps \cup {"delete"} /\ UNCHANGED users
    BY <1>2 DEF BindOps, OwnRow, rows
  <2>6. Begun(r)
    BY <2>2, <2>3, <2>4, <2>5 DEF Begun
  <2> QED
    BY <2>6
<1>3. CASE ManageUsers(r)
  BY <1>1, <1>3 DEF ManageUsers, Op, Role, SaveOps, BindOps
<1>4. CASE AddUser(r)
  BY <1>1, <1>4, AccessAssumption DEF AddUser, Op, Role, SaveOps, BindOps, AccessAssumption
<1>5. CASE AddObject(r)
  BY <1>1, <1>5, AccessAssumption DEF AddObject, Op, Role, SaveOps, BindOps, AccessAssumption
<1>6. CASE UseBinding(r)
  BY <1>1, <1>6 DEF UseBinding, Op
<1>7. CASE UseObject(r)
  BY <1>1, <1>7, AccessAssumption DEF UseObject, Op, AccessAssumption
<1>8. Answer(r) => req'[r] = Idle
  BY <1>0 DEF Answer
<1>9. \A C : AnswerAndAge(r, C) => req'[r] = Idle
  BY DEF AnswerAndAge
<1>10. CASE LoadUser(r)
  <2>1. req[r] \in Asked /\ req[r].op \in SaveOps /\ UNCHANGED users
    BY <1>0, <1>10, HoldsType DEF LoadUser, Holds, rows
  <2>2. CASE Answer(r)
    BY <1>8, <2>2
  <2>3. CASE /\ req' = [req EXCEPT ![r].pc = "write", ![r].copy = users[req[r].target]]
             /\ There(req[r].target)
             /\ ~(req[r].op = "delete user" /\ req[r].target = req[r].caller)
    <3>1. req'[r] = [req[r] EXCEPT !.pc = "write", !.copy = users[req[r].target]]
      BY <1>0, <2>3
    <3> QED
      BY <2>1, <2>3, <3>1 DEF Loaded
  <2> QED
    BY <1>10, <2>2, <2>3 DEF LoadUser
<1>11. CASE SaveUser(r) \/ UpdateUser(r) \/ DeleteUser(r) \/ CreateUser(r)
  BY <1>8, <1>9, <1>11 DEF SaveUser, UpdateUser, SaveRow, DeleteUser, CreateUser
<1>12. ASSUME NEW pc \in {"load", "write", "row"}, Goto(r, pc), req[r] \in Asked,
              pc = "write" => req[r].op \notin SaveOps,
              req[r].pc = "access" =>
                 \/ req[r].role = "admin"
                 \/ req[r].obj \in Object => Administrates(req[r].obj, req[r].caller)
       PROVE  Moved(r)
  <2>1. req'[r] = [req[r] EXCEPT !.pc = pc]
    BY <1>0, <1>12 DEF Goto
  <2> QED
    BY <1>12, <2>1 DEF Moved
<1>13. CASE Access(r)
  <2>1. req[r] \in Asked /\ req[r].caller \in User
    BY <1>0, <1>13, HoldsType DEF Access
  <2>2. CASE Answer(r)
    BY <1>8, <2>2
  <2>3. CASE /\ ~Answer(r)
             /\ Goto(r, IF req[r].op = "delete" THEN "write" ELSE "load")
             /\ req[r].role = "admin" \/ level[req[r].obj][req[r].caller] >= Rank.admin
    <3>1. req[r].obj \in Object => level[req[r].obj][req[r].caller] \in 0..3
      BY <1>0, <2>1 DEF TypeOK
    <3>2. req[r].role = "admin"
            \/ (req[r].obj \in Object => Administrates(req[r].obj, req[r].caller))
      BY <2>3, <3>1 DEF Administrates, Rank
    <3>3. CASE req[r].op = "delete"
      BY <1>12, <2>1, <2>3, <3>2, <3>3 DEF SaveOps
    <3>4. CASE req[r].op # "delete"
      BY <1>12, <2>1, <2>3, <3>2, <3>4
    <3> QED
      BY <3>3, <3>4
  <2> QED
    BY <1>13, <2>2, <2>3 DEF Access
<1>14. CASE LoadBinding(r)
  <2>1. req[r] \in Asked /\ req[r].op \in BindOps /\ req[r].pc = "load"
    BY <1>0, <1>14, HoldsType DEF LoadBinding, Holds
  <2>2. Answer(r) \/ Goto(r, "write")
    BY <1>14 DEF LoadBinding
  <2> QED
    BY <1>8, <1>12, <2>1, <2>2 DEF BindOps, SaveOps
<1>15. CASE DeleteBindings(r)
  <2>1. req[r] \in Asked /\ req[r].pc = "write"
    BY <1>0, <1>15, HoldsType DEF DeleteBindings, Holds
  <2>2. req'[r] = [req[r] EXCEPT !.pc = "row"]
    BY <1>0, <1>15 DEF DeleteBindings, Goto
  <2> QED
    BY <2>1, <2>2 DEF Moved
<1>16. CASE Create(r) \/ CreateBinding(r) \/ UpdateBinding(r) \/ DeleteBinding(r)
            \/ DeleteObject(r)
  BY <1>8, <1>9, <1>16 DEF Create, CreateBinding, UpdateBinding, DeleteBinding, DeleteObject
<1> QED
  BY <1>2, <1>3, <1>4, <1>5, <1>6, <1>7, <1>10, <1>11, <1>13, <1>14, <1>15, <1>16
  DEF Step, Begins, OnUsers, OnObjects

\* What it makes of the others: copies of a row that changes are old from then on.
LEMMA OthersStep ==
    ASSUME AccessInv, NEW r \in Request, Step(r), NEW s \in Request, s # r
    PROVE  \/ /\ req'[s] = req[s]
              /\ (Holds(s, "write", SaveOps) /\ ~req[s].old)
                    => users'[req[s].target] = users[req[s].target]
           \/ /\ req[s].pc = "write"
              /\ req'[s] = [req[s] EXCEPT !.old = TRUE]
<1>0. TypeOK /\ req \in [Request -> {Idle} \cup Asked]
  BY DEF AccessInv, TypeOK
<1>1. Holds(s, "write", SaveOps) => req[s].target \in User
  BY <1>0, HoldsType
<1>2. Answer(r) => req'[s] = req[s]
  BY <1>0 DEF Answer
<1>3. ASSUME NEW pc, Goto(r, pc)
      PROVE  req'[s] = req[s]
  BY <1>0, <1>3 DEF Goto
<1>4. \A u \in User : \A row :
         /\ users' = [users EXCEPT ![u] = row] /\ u # req[s].target
         /\ Holds(s, "write", SaveOps)
         => users'[req[s].target] = users[req[s].target]
  BY <1>0, <1>1 DEF TypeOK
<1>5. CASE Begins(r)
  <2>1. UNCHANGED users
    BY <1>5, BeginFrame DEF rows
  <2>2. req'[s] = req[s]
    BY <1>0, <1>5, BeginAsks
  <2> QED
    BY <2>1, <2>2
<1>6. CASE OnObjects(r)
  <2>1. UNCHANGED users
    BY <1>6, ObjectSteps
  <2>4. ASSUME NEW o, NEW U,
               req'[s] = IF s \in BindingCopies(o, U) THEN [req[s] EXCEPT !.old = TRUE]
                         ELSE req[s]
        PROVE  \/ req'[s] = req[s]
               \/ req[s].pc = "write" /\ req'[s] = [req[s] EXCEPT !.old = TRUE]
    <3>1. s \in BindingCopies(o, U) => req[s].pc = "write"
      BY CopiesWrite
    <3> QED
      BY <2>4, <3>1
  <2>5. CASE DeleteBinding(r)
    <3>1. Answer(r) \/ AnswerAndAge(r, BindingCopies(req[r].obj, {req[r].target}))
      BY <2>5 DEF DeleteBinding
    <3>2. CASE AnswerAndAge(r, BindingCopies(req[r].obj, {req[r].target}))
      <4>1. req'[s] = IF s \in BindingCopies(req[r].obj, {req[r].target})
                        THEN [req[s] EXCEPT !.old = TRUE] ELSE req[s]
        BY <3>2 DEF AnswerAndAge
      <4> QED
        BY <2>1, <2>4, <4>1
    <3> QED
      BY <1>2, <2>1, <3>1, <3>2
  <2>2. CASE DeleteBindings(r)
    <3>1. CASE Goto(r, "row")
      BY <1>3, <2>1, <3>1
    <3>2. CASE ~Goto(r, "row")
      <4>1. req'[s] = IF s \in BindingCopies(req[r].obj, User)
                        THEN [req[s] EXCEPT !.old = TRUE] ELSE req[s]
        BY <2>2, <3>2 DEF DeleteBindings
      <4> QED
        BY <2>1, <2>4, <4>1
    <3> QED
      BY <3>1, <3>2
  <2>3. CASE Create(r) \/ CreateBinding(r) \/ UpdateBinding(r) \/ DeleteObject(r)
             \/ Access(r) \/ LoadBinding(r)
    BY <1>2, <1>3, <2>1, <2>3
    DEF Create, CreateBinding, UpdateBinding, DeleteObject, Access, LoadBinding
  <2> QED
    BY <1>6, <2>2, <2>3, <2>5 DEF OnObjects
<1>7. CASE LoadUser(r)
  <2>1. UNCHANGED users
    BY <1>7 DEF LoadUser, rows
  <2>2. req'[s] = req[s]
    BY <1>0, <1>2, <1>7 DEF LoadUser
  <2> QED
    BY <2>1, <2>2
<1>8. ASSUME NEW row, SaveRow(r, row), req[r].target \in User
      PROVE  \/ /\ req'[s] = req[s]
                /\ (Holds(s, "write", SaveOps) /\ ~req[s].old)
                      => users'[req[s].target] = users[req[s].target]
             \/ /\ req[s].pc = "write"
                /\ req'[s] = [req[s] EXCEPT !.old = TRUE]
  <2>1. CASE s \in UserCopies(req[r].target) /\ row # users[req[r].target]
    BY <1>8, <2>1, CopiesWrite DEF SaveRow, AnswerAndAge
  <2>2. CASE row = users[req[r].target]
    <3>1. users' = users
      BY <1>0, <1>8, <2>2 DEF SaveRow, TypeOK
    <3>2. req'[s] = req[s]
      BY <1>8, <2>2 DEF SaveRow, AnswerAndAge
    <3> QED
      BY <3>1, <3>2
  <2>3. CASE s \notin UserCopies(req[r].target) /\ row # users[req[r].target]
    <3>1. req'[s] = req[s] /\ users' = [users EXCEPT ![req[r].target] = row]
      BY <1>8, <2>3 DEF SaveRow, AnswerAndAge
    <3>2. Holds(s, "write", SaveOps) => req[r].target # req[s].target
      BY <2>3 DEF UserCopies
    <3> QED
      BY <1>4, <1>8, <3>1, <3>2
  <2> QED
    BY <2>1, <2>2, <2>3
<1>9. CASE SaveUser(r) \/ UpdateUser(r)
  <2>1. req[r].target \in User
    BY <1>0, <1>9, HoldsType DEF SaveUser, UpdateUser
  <2>2. \E row : SaveRow(r, row)
    BY <1>9 DEF SaveUser, UpdateUser
  <2> QED
    BY <1>8, <2>1, <2>2
<1>10. CASE DeleteUser(r)
  <2>1. req[r].target \in User /\ users' = [users EXCEPT ![req[r].target] = Deleted]
    BY <1>0, <1>10, HoldsType DEF DeleteUser
  <2>2. CASE s \in UserCopies(req[r].target)
    BY <1>10, <2>2, CopiesWrite DEF DeleteUser, AnswerAndAge
  <2>3. CASE s \notin UserCopies(req[r].target)
    <3>1. req'[s] = req[s]
      BY <1>10, <2>3 DEF DeleteUser, AnswerAndAge
    <3>2. Holds(s, "write", SaveOps) => req[r].target # req[s].target
      BY <2>3 DEF UserCopies
    <3> QED
      BY <1>4, <2>1, <3>1, <3>2
  <2> QED
    BY <2>2, <2>3
<1>11. CASE CreateUser(r)
  <2>1. PICK u \in User, x \in Role :
          /\ users[u] = Never
          /\ users' = [users EXCEPT ![u] = [role |-> x, disabled |-> FALSE]]
    BY <1>11 DEF CreateUser
  <2>2. req'[s] = req[s]
    BY <1>2, <1>11 DEF CreateUser
  <2>3. (Holds(s, "write", SaveOps) /\ ~req[s].old) => users[req[s].target].role \in Role
    BY DEF AccessInv, CopiesAreFresh
  <2>4. (Holds(s, "write", SaveOps) /\ ~req[s].old) => u # req[s].target
    BY <2>1, <2>3 DEF Never, Role
  <2> QED
    BY <1>4, <2>1, <2>2, <2>4
<1> QED
  BY <1>5, <1>6, <1>7, <1>9, <1>10, <1>11 DEF Step, OnUsers

\* Copies are old only when the request knows.
LEMMA CopiesStep ==
    ASSUME AccessInv, NEW r \in Request, Step(r)
    PROVE  CopiesAreFresh'
<1>1. SUFFICES ASSUME NEW s \in Request, Holds(s, "write", SaveOps)'
               PROVE  /\ req'[s].copy.role \in Role
                      /\ req'[s].old \/ req'[s].copy = users'[req'[s].target]
                      /\ req'[s].op = "delete user" => req'[s].target # req'[s].caller
  BY DEF CopiesAreFresh
<1>2. req'[s].pc = "write" /\ req'[s].op \in SaveOps
  BY <1>1 DEF Holds
<1>3. TypeOK /\ CopiesAreFresh
  BY DEF AccessInv
<1>4. CASE s # r
  <2>1. CASE req[s].pc = "write" /\ req'[s] = [req[s] EXCEPT !.old = TRUE]
    <3>1. req[s] \in Asked
      BY <1>3, <2>1, AskedType
    <3>2. /\ req'[s].old /\ req'[s].copy = req[s].copy /\ req'[s].op = req[s].op
          /\ req'[s].target = req[s].target /\ req'[s].caller = req[s].caller
      BY <2>1, <3>1 DEF Asked
    <3>3. Holds(s, "write", SaveOps)
      BY <1>2, <2>1, <3>2 DEF Holds
    <3> QED
      BY <1>3, <3>2, <3>3 DEF CopiesAreFresh
  <2>2. CASE /\ req'[s] = req[s]
             /\ (Holds(s, "write", SaveOps) /\ ~req[s].old)
                   => users'[req[s].target] = users[req[s].target]
    <3>1. Holds(s, "write", SaveOps)
      BY <1>2, <2>2 DEF Holds
    <3> QED
      BY <1>3, <2>2, <3>1 DEF CopiesAreFresh
  <2> QED
    BY <1>4, <2>1, <2>2, OthersStep
<1>5. CASE s = r
  <2>1. CASE req'[r] = Idle
    <3>1. Idle.pc = "idle"
      BY DEF Idle
    <3>2. req'[s].pc = "idle"
      BY <1>5, <2>1, <3>1
    <3> QED
      BY <1>2, <3>2
  <2>2. CASE Begun(r)
    <3>1. UNCHANGED users
      BY <2>2 DEF Begun
    <3>2. /\ req'[r].op = "save" /\ req'[r].copy.role \in Role
          /\ req'[r].copy = users[req'[r].target]
      BY <1>2, <1>5, <2>2 DEF Begun
    <3> QED
      BY <1>2, <1>5, <3>1, <3>2
  <2>3. CASE Loaded(r)
    <3>1. /\ req'[r].copy = users[req[r].target] /\ req'[r].target = req[r].target
          /\ req'[r].op = req[r].op /\ req'[r].caller = req[r].caller
          /\ req'[r].pc = "write"
      BY <2>3 DEF Loaded, Asked
    <3>2. UNCHANGED users
      BY <2>3 DEF Loaded
    <3> QED
      BY <1>5, <2>3, <3>1, <3>2 DEF Loaded, There
  <2>4. CASE Moved(r)
    <3>1. PICK pc \in {"load", "write", "row"} :
            req'[r] = [req[r] EXCEPT !.pc = pc] /\ (pc = "write" => req[r].op \notin SaveOps)
      BY <2>4 DEF Moved
    <3>2. req'[r].pc = pc /\ req'[r].op = req[r].op
      BY <2>4, <3>1 DEF Moved, Asked
    <3> QED
      BY <1>2, <1>5, <3>1, <3>2
  <2> QED
    BY <2>1, <2>2, <2>3, <2>4, OwnStep
<1> QED
  BY <1>4, <1>5

Remembered == admins' = admins \cup {p \in Object \X User : Administrates(p[1], p[2])'}

LEMMA AdminsStep ==
    ASSUME AccessInv, Remembered
    PROVE  /\ admins \subseteq admins' /\ admins' \subseteq Object \X User
           /\ AdminsKnown'
<1>1. admins' \subseteq Object \X User
  BY DEF AccessInv, TypeOK, Remembered
<1>2. ASSUME NEW o \in Object, NEW u \in User, Administrates(o, u)'
      PROVE  <<o, u>> \in admins'
  <2>1. <<o, u>> \in Object \X User /\ <<o, u>>[1] = o /\ <<o, u>>[2] = u
    OBVIOUS
  <2> QED
    BY <1>2, <2>1 DEF Remembered, Administrates
<1> QED
  BY <1>1, <1>2 DEF Remembered, AdminsKnown

LEMMA ChecksStep ==
    ASSUME AccessInv, NEW r \in Request, Step(r), Remembered
    PROVE  ChecksHold'
<1>1. SUFFICES ASSUME NEW s \in Request, req'[s] # Idle
               PROVE  /\ req'[s].role = "admin"
                            => \A o \in Object : <<o, req'[s].caller>> \in admins'
                      /\ req'[s].op \in BindOps \cup {"delete"} =>
                            /\ req'[s].obj \in Object
                            /\ req'[s].pc = "access" \/ <<req'[s].obj, req'[s].caller>> \in admins'
  BY DEF ChecksHold
<1>2. TypeOK /\ ChecksHold /\ AdminsKnown /\ admins \subseteq admins'
  BY AdminsStep DEF AccessInv
<1>3. ASSUME req[s] # Idle, req'[s].role = req[s].role, req'[s].caller = req[s].caller,
             req'[s].op = req[s].op, req'[s].obj = req[s].obj,
             \/ req'[s].pc = req[s].pc
             \/ req[s].op \in SaveOps
             \/ req[s].pc = "access" =>
                   \/ req[s].role = "admin"
                   \/ req[s].obj \in Object => Administrates(req[s].obj, req[s].caller)
      PROVE  /\ req'[s].role = "admin"
                   => \A o \in Object : <<o, req'[s].caller>> \in admins'
             /\ req'[s].op \in BindOps \cup {"delete"} =>
                   /\ req'[s].obj \in Object
                   /\ req'[s].pc = "access" \/ <<req'[s].obj, req'[s].caller>> \in admins'
  <2>1. /\ req[s].role = "admin" => \A o \in Object : <<o, req[s].caller>> \in admins
        /\ req[s].op \in BindOps \cup {"delete"} =>
              /\ req[s].obj \in Object
              /\ req[s].pc = "access" \/ <<req[s].obj, req[s].caller>> \in admins
    BY <1>2, <1>3 DEF ChecksHold
  <2>2. req'[s].role = "admin" => \A o \in Object : <<o, req'[s].caller>> \in admins'
    BY <1>2, <1>3, <2>1
  <2>3. ASSUME req[s].op \in BindOps \cup {"delete"}
        PROVE  req'[s].pc = "access" \/ <<req[s].obj, req[s].caller>> \in admins'
    <3>1. req[s].caller \in User /\ req[s].op \notin SaveOps
      BY <1>2, <1>3, <2>3 DEF TypeOK, Asked, SaveOps, BindOps
    <3>2. req[s].obj \in Object
      BY <2>1, <2>3
    <3>3. Administrates(req[s].obj, req[s].caller) => <<req[s].obj, req[s].caller>> \in admins
      BY <1>2, <3>1, <3>2 DEF AdminsKnown
    <3>4. req[s].role = "admin" => <<req[s].obj, req[s].caller>> \in admins
      BY <2>1, <3>2
    <3> QED
      BY <1>2, <1>3, <2>1, <2>3, <3>1, <3>2, <3>3, <3>4
  <2> QED
    BY <1>3, <2>1, <2>2, <2>3
<1>4. CASE s # r
  <2>1. CASE req'[s] = req[s]
    BY <1>1, <1>3, <2>1
  <2>2. CASE req[s].pc = "write" /\ req'[s] = [req[s] EXCEPT !.old = TRUE]
    <3>1. req[s] \in Asked
      BY <1>2, <2>2, AskedType
    <3>2. /\ req'[s].role = req[s].role /\ req'[s].caller = req[s].caller
          /\ req'[s].op = req[s].op /\ req'[s].obj = req[s].obj /\ req'[s].pc = req[s].pc
      BY <2>2, <3>1 DEF Asked
    <3>3. req[s] # Idle
      BY <2>2 DEF Idle
    <3> QED
      BY <1>3, <3>2, <3>3
  <2> QED
    BY <1>4, <2>1, <2>2, OthersStep
<1>5. CASE s = r
  <2>1. CASE Begun(r)
    <3>1. /\ req'[s].caller \in User /\ req'[s].role = users[req'[s].caller].role
          /\ req'[s].op \in BindOps \cup {"delete"}
                => req'[s].obj \in Object /\ req'[s].pc = "access"
      BY <1>5, <2>1 DEF Begun
    <3>2. req'[s].role = "admin" => \A o \in Object : <<o, req'[s].caller>> \in admins
      BY <1>2, <3>1 DEF AdminsKnown, Administrates
    <3> QED
      BY <1>2, <3>1, <3>2
  <2>2. CASE Loaded(r)
    <3>1. /\ req'[r].role = req[r].role /\ req'[r].caller = req[r].caller
          /\ req'[r].op = req[r].op /\ req'[r].obj = req[r].obj
          /\ req[r].op \in SaveOps
      BY <2>2 DEF Loaded, Asked
    <3>2. req[r] # Idle
      BY <2>2, AskedNotIdle DEF Loaded
    <3> QED
      BY <1>3, <1>5, <3>1, <3>2
  <2>3. CASE Moved(r)
    <3>1. /\ req'[r].role = req[r].role /\ req'[r].caller = req[r].caller
          /\ req'[r].op = req[r].op /\ req'[r].obj = req[r].obj
      BY <2>3 DEF Moved, Asked
    <3>2. req[r] # Idle
      BY <2>3, AskedNotIdle DEF Moved
    <3>3. req[r].pc = "access" =>
             \/ req[r].role = "admin"
             \/ req[r].obj \in Object => Administrates(req[r].obj, req[r].caller)
      BY <2>3 DEF Moved
    <3> QED
      BY <1>3, <1>5, <3>1, <3>2, <3>3
  <2> QED
    BY <1>1, <1>5, <2>1, <2>2, <2>3, OwnStep
<1> QED
  BY <1>4, <1>5

-----------------------------------------------------------------------------
(* The invariant *)

LEMMA InvInit == Init => AccessInv
<1> SUFFICES ASSUME Init PROVE AccessInv
  OBVIOUS
<1>1. users \in [User -> Row]
  BY DEF Init, Row
<1>2. \A o \in Object, u \in User : level[o][u] = 0
  BY DEF Init
<1>3. /\ due.users = users /\ due.level = level
      /\ due \in [users : [User -> Row], level : [Object -> [User -> 0..3]]]
      /\ level \in [Object -> [User -> 0..3]]
  BY <1>1 DEF Init
<1>4. TypeOK
  BY <1>1, <1>3, AccessAssumption DEF Init, TypeOK, AccessAssumption
<1>5. UserAsDecided /\ BindingAsDecided
  BY <1>3 DEF UserAsDecided, BindingAsDecided
<1>6. \A r \in Request : req[r] = Idle
  BY DEF Init
<1>7. CopiesAreFresh /\ ChecksHold
  <2>1. Idle.pc = "idle"
    BY DEF Idle
  <2>2. \A r \in Request : req[r].pc = "idle"
    BY <1>6, <2>1
  <2>3. CopiesAreFresh
    BY <2>2 DEF CopiesAreFresh, Holds
  <2>4. ChecksHold
    BY <1>6 DEF ChecksHold
  <2> QED
    BY <2>3, <2>4
<1>8. AdminsKnown
  BY <1>2 DEF Init, AdminsKnown, Administrates, Rank
<1> QED
  BY <1>4, <1>5, <1>7, <1>8 DEF AccessInv

LEMMA InvStep == AccessInv /\ [Next]_vars => AccessInv'
<1> SUFFICES ASSUME AccessInv, [Next]_vars PROVE AccessInv'
  OBVIOUS
<1>1. TypeOK
  BY DEF AccessInv
<1>2. ASSUME NEW r \in Request, Step(r), Remembered
      PROVE  AccessInv'
  <2>1. CopiesAreFresh' /\ ChecksHold' /\ AdminsKnown' /\ admins' \subseteq Object \X User
    BY <1>2, CopiesStep, ChecksStep, AdminsStep
  <2>2. CASE Begins(r)
    <3>1. UNCHANGED <<users, objects, level, due, stale>>
      BY <2>2, BeginFrame DEF rows, history
    <3>2. req' \in [Request -> {Idle} \cup Asked] /\ budget' \in 0..MaxRequests
      BY <1>1, <2>2, BeginType
    <3>3. TypeOK'
      BY <1>1, <2>1, <3>1, <3>2 DEF TypeOK
    <3>4. UserAsDecided' /\ BindingAsDecided'
      BY <3>1 DEF AccessInv, UserAsDecided, BindingAsDecided
    <3> QED
      BY <2>1, <3>3, <3>4 DEF AccessInv
  <2>3. CASE OnUsers(r)
    <3>1. /\ users' \in [User -> Row]
          /\ req' \in [Request -> {Idle} \cup Asked]
          /\ due' \in [users : [User -> Row], level : [Object -> [User -> 0..3]]]
          /\ stale' \subseteq User \cup (Object \X User) /\ stale \subseteq stale'
          /\ UNCHANGED <<objects, level, budget>> /\ due'.level = due.level
          /\ UserAsDecided'
      BY <2>3, UserSteps
    <3>2. TypeOK'
      BY <1>1, <2>1, <3>1 DEF TypeOK
    <3>3. BindingAsDecided'
      BY <3>1, LevelStays
    <3> QED
      BY <2>1, <3>1, <3>2, <3>3 DEF AccessInv
  <2>4. CASE OnObjects(r)
    <3>1. /\ objects' \in [Object -> {"never", "there", "gone"}]
          /\ level' \in [Object -> [User -> 0..3]]
          /\ req' \in [Request -> {Idle} \cup Asked]
          /\ due' \in [users : [User -> Row], level : [Object -> [User -> 0..3]]]
          /\ stale' \subseteq User \cup (Object \X User) /\ stale \subseteq stale'
          /\ UNCHANGED <<users, budget>> /\ due'.users = due.users
          /\ BindingAsDecided'
      BY <2>4, ObjectSteps
    <3>2. TypeOK'
      BY <1>1, <2>1, <3>1 DEF TypeOK
    <3>3. UserAsDecided'
      BY <3>1 DEF AccessInv, UserAsDecided
    <3> QED
      BY <2>1, <3>1, <3>2, <3>3 DEF AccessInv
  <2> QED
    BY <1>2, <2>2, <2>3, <2>4 DEF Step
<1>3. CASE Next
  BY <1>2, <1>3 DEF Next, Step, Remembered
<1>4. CASE UNCHANGED vars
  <2>1. UNCHANGED <<users, objects, level, req, budget, due, stale, admins>>
    BY <1>4 DEF vars, rows, history
  <2>2. TypeOK'
    BY <1>1, <2>1 DEF TypeOK
  <2>3. UserAsDecided' /\ BindingAsDecided'
    BY <2>1 DEF AccessInv, UserAsDecided, BindingAsDecided
  <2>4. CopiesAreFresh'
    BY <2>1 DEF AccessInv, CopiesAreFresh, Holds
  <2>5. AdminsKnown'
    BY <2>1 DEF AccessInv, AdminsKnown, Administrates
  <2>6. ChecksHold'
    BY <2>1 DEF AccessInv, ChecksHold
  <2> QED
    BY <2>2, <2>3, <2>4, <2>5, <2>6 DEF AccessInv
<1> QED
  BY <1>3, <1>4

\* Users and bindings are what was decided last, copies are fresh or known to be old,
\* and who is past a check of access has been an administrator: in every state.
THEOREM AccessSafe == Spec => []AccessInv
<1>1. Init => AccessInv
  BY InvInit
<1>2. AccessInv /\ [Next]_vars => AccessInv'
  BY InvStep
<1> QED
  BY <1>1, <1>2, PTL DEF Spec

\* A role, a disabled account and a deletion stand until the next decision.
THEOREM UsersAsDecided == Spec => []UserAsDecided
<1>1. AccessInv => UserAsDecided
  BY DEF AccessInv
<1> QED
  BY <1>1, AccessSafe, PTL

\* So does the level of a binding.
THEOREM BindingsAsDecided == Spec => []BindingAsDecided
<1>1. AccessInv => BindingAsDecided
  BY DEF AccessInv
<1> QED
  BY <1>1, AccessSafe, PTL

-----------------------------------------------------------------------------
(* Action properties *)

\* A binding changes by the step of one of its administrators, or of its creator.
LEMMA GrantStep ==
    ASSUME AccessInv, NEW r \in Request, OnObjects(r),
           NEW o \in Object, NEW u \in User, level'[o][u] # level[o][u]
    PROVE  /\ req[r] # Idle /\ req'[r] # req[r]
           /\ \/ req[r].op = "create" /\ req[r].caller = u
              \/ req[r].obj = o /\ <<o, req[r].caller>> \in admins
<1>0. TypeOK /\ ChecksHold /\ req \in [Request -> {Idle} \cup Asked]
  BY DEF AccessInv, TypeOK
<1>1. Answer(r) => req'[r] = Idle
  BY <1>0 DEF Answer
<1>2. \A C : AnswerAndAge(r, C) => req'[r] = Idle
  BY DEF AnswerAndAge
<1>3. CASE Create(r)
  <2>1. PICK p \in Object : level' = [level EXCEPT ![p][req[r].caller] = Rank.admin]
    BY <1>3 DEF Create
  <2>2. req[r] # Idle /\ req[r].op = "create" /\ req'[r] = Idle /\ req[r].caller \in User
    BY <1>0, <1>1, <1>3, HoldsType DEF Create, Holds
  <2>3. u # req[r].caller => level'[o][u] = level[o][u]
    BY <1>0, <2>1, <2>2 DEF TypeOK
  <2> QED
    BY <2>2, <2>3
<1>4. ASSUME Holds(r, "write", BindOps \cup {"delete"})
      PROVE  req[r] # Idle /\ req[r].obj \in Object /\ <<req[r].obj, req[r].caller>> \in admins
  <2>1. req[r] # Idle /\ req[r].op \in BindOps \cup {"delete"} /\ req[r].pc = "write"
    BY <1>0, <1>4, HoldsType DEF Holds
  <2> QED
    BY <1>0, <2>1 DEF ChecksHold
<1>5. CASE CreateBinding(r) \/ UpdateBinding(r) \/ DeleteBinding(r)
  <2>1. Holds(r, "write", BindOps \cup {"delete"})
    BY <1>5 DEF CreateBinding, UpdateBinding, DeleteBinding, Holds, BindOps
  <2>2. req'[r] = Idle
    BY <1>1, <1>2, <1>5 DEF CreateBinding, UpdateBinding, DeleteBinding
  <2>3. UNCHANGED level \/ \E x : SetLevel(r, x)
    BY <1>5 DEF CreateBinding, UpdateBinding, DeleteBinding
  <2>4. \A x : SetLevel(r, x) => req[r].obj = o
    BY <1>0 DEF SetLevel, TypeOK
  <2>5. req[r].obj = o
    BY <2>3, <2>4
  <2> QED
    BY <1>4, <2>1, <2>2, <2>5
<1>6. CASE DeleteBindings(r)
  <2>1. Holds(r, "write", BindOps \cup {"delete"}) /\ req[r].pc = "write" /\ req[r] \in Asked
    BY <1>0, <1>6, HoldsType DEF DeleteBindings, Holds
  <2>2. level' = [level EXCEPT ![req[r].obj] = [v \in User |-> 0]] \/ UNCHANGED level
    BY <1>6 DEF DeleteBindings
  <2>3. req[r].obj = o
    BY <1>0, <2>2 DEF TypeOK
  <2>4. req'[r] = [req[r] EXCEPT !.pc = "row"]
    BY <1>0, <1>6 DEF DeleteBindings, Goto
  <2>5. req'[r].pc = "row"
    BY <2>1, <2>4 DEF Asked
  <2> QED
    BY <1>4, <2>1, <2>3, <2>5
<1>7. CASE Access(r) \/ LoadBinding(r) \/ DeleteObject(r)
  BY <1>7 DEF Access, LoadBinding, DeleteObject, rows
<1> QED
  BY <1>3, <1>5, <1>6, <1>7 DEF OnObjects

\* Rights come from those who have them.
THEOREM GrantsFromAdmins == Spec => GrantsComeFromAdmins
<1> DEFINE Granted == \A o \in Object, u \in User :
             level'[o][u] # level[o][u] =>
                \E r \in Request :
                   /\ req[r] # Idle /\ req'[r] # req[r]
                   /\ \/ req[r].op = "create" /\ req[r].caller = u
                      \/ req[r].obj = o /\ <<o, req[r].caller>> \in admins
<1>1. ASSUME AccessInv, Next
      PROVE  Granted
  <2>1. PICK r \in Request : Begins(r) \/ OnUsers(r) \/ OnObjects(r)
    BY <1>1 DEF Next
  <2>2. CASE Begins(r) \/ OnUsers(r)
    <3>1. UNCHANGED level
      BY <1>1, <2>2, BeginFrame, UserSteps DEF rows
    <3> QED
      BY <3>1
  <2>3. CASE OnObjects(r)
    BY <1>1, <2>3, GrantStep
  <2> QED
    BY <2>1, <2>2, <2>3
<1>2. AccessInv /\ [Next]_vars => [Granted]_vars
  BY <1>1
<1> QED
  BY <1>2, AccessSafe, PTL DEF Spec, GrantsComeFromAdmins

\* The last administrator goes only by an update of one's own row, by the request of
\* one who has just stopped being an administrator, or by an old copy.
LEMMA AdminStep ==
    ASSUME AccessInv, NEW r \in Request, OnUsers(r), SomeAdmin, ~SomeAdmin'
    PROVE  /\ Holds(r, "write", SaveOps) /\ req'[r] = Idle
           /\ \/ req[r].op = "update user" /\ req[r].target = req[r].caller
              \/ ~IsAdmin(req[r].caller)
              \/ req[r].old
<1>0. TypeOK /\ CopiesAreFresh
  BY DEF AccessInv
<1>1. ASSUME NEW v \in User, IsAdmin(v), users'[v] = users[v]
      PROVE  FALSE
  <2>1. IsAdmin(v)'
    BY <1>1 DEF IsAdmin, Enabled, There
  <2> QED
    BY <2>1 DEF SomeAdmin
<1>2. users' # users
  BY <1>1 DEF SomeAdmin
<1>3. ASSUME req[r].caller \in User, req[r].target \in User, NEW row,
             users' = [users EXCEPT ![req[r].target] = row], IsAdmin(req[r].caller)
      PROVE  req[r].target = req[r].caller
  <2>1. req[r].target # req[r].caller => users'[req[r].caller] = users[req[r].caller]
    BY <1>0, <1>3 DEF TypeOK
  <2> QED
    BY <1>1, <1>3, <2>1
<1>4. \A C : AnswerAndAge(r, C) => req'[r] = Idle
  BY DEF AnswerAndAge
<1>5. CASE LoadUser(r)
  BY <1>2, <1>5 DEF LoadUser, rows
<1>6. CASE SaveUser(r)
  <2>1. Holds(r, "write", SaveOps) /\ Holds(r, "write", {"save"}) /\ {"save"} \in SUBSET SaveOps
    BY <1>6 DEF SaveUser, Holds, SaveOps
  <2>2. req'[r] = Idle /\ users' = [users EXCEPT ![req[r].target] = req[r].copy]
    BY <1>4, <1>6 DEF SaveUser, SaveRow
  <2>3. ~req[r].old => req[r].copy = users[req[r].target]
    BY <2>1, CopyFacts
  <2>4. ~req[r].old => users' = users
    BY <1>0, <2>2, <2>3 DEF TypeOK
  <2> QED
    BY <1>2, <2>1, <2>2, <2>4
<1>7. CASE UpdateUser(r)
  <2>1. /\ Holds(r, "write", SaveOps) /\ req[r].op = "update user"
        /\ req[r].caller \in User /\ req[r].target \in User
    BY <1>0, <1>7, HoldsType DEF UpdateUser, Holds, SaveOps
  <2>2. \E row : SaveRow(r, row)
    BY <1>7 DEF UpdateUser
  <2>3. req'[r] = Idle /\ \E row : users' = [users EXCEPT ![req[r].target] = row]
    BY <1>4, <2>2 DEF SaveRow
  <2> QED
    BY <1>3, <2>1, <2>3
<1>8. CASE DeleteUser(r)
  <2>1. /\ Holds(r, "write", SaveOps) /\ req[r].op = "delete user"
        /\ req[r].caller \in User /\ req[r].target \in User
    BY <1>0, <1>8, HoldsType DEF DeleteUser, Holds, SaveOps
  <2>2. req'[r] = Idle /\ users' = [users EXCEPT ![req[r].target] = Deleted]
    BY <1>4, <1>8 DEF DeleteUser
  <2>3. req[r].target # req[r].caller
    BY <1>0, <2>1 DEF CopiesAreFresh
  <2> QED
    BY <1>3, <2>1, <2>2, <2>3
<1>9. CASE CreateUser(r)
  <2>1. PICK u \in User, x \in Role :
          /\ users[u] = Never
          /\ users' = [users EXCEPT ![u] = [role |-> x, disabled |-> FALSE]]
    BY <1>9 DEF CreateUser
  <2>2. PICK v \in User : IsAdmin(v)
    BY DEF SomeAdmin
  <2>3. v # u
    BY <2>1, <2>2 DEF IsAdmin, Never
  <2>4. users'[v] = users[v]
    BY <1>0, <2>1, <2>3 DEF TypeOK
  <2> QED
    BY <1>1, <2>2, <2>4
<1> QED
  BY <1>5, <1>6, <1>7, <1>8, <1>9 DEF OnUsers

\* So the last administrator stays, but for those three ways.
THEOREM LastAdmin == Spec => LastAdminStays
<1> DEFINE Stays == (SomeAdmin /\ ~SomeAdmin') =>
             \E r \in Request :
                /\ Holds(r, "write", SaveOps) /\ req'[r] = Idle
                /\ \/ req[r].op = "update user" /\ req[r].target = req[r].caller
                   \/ ~IsAdmin(req[r].caller)
                   \/ req[r].old
<1>1. ASSUME AccessInv, Next
      PROVE  Stays
  <2>1. PICK r \in Request : Begins(r) \/ OnUsers(r) \/ OnObjects(r)
    BY <1>1 DEF Next
  <2>2. CASE Begins(r) \/ OnObjects(r)
    <3>1. UNCHANGED users
      BY <1>1, <2>2, BeginFrame, ObjectSteps DEF rows
    <3>2. SomeAdmin => SomeAdmin'
      BY <3>1 DEF SomeAdmin, IsAdmin, Enabled, There
    <3> QED
      BY <3>2
  <2>3. CASE OnUsers(r)
    BY <1>1, <2>3, AdminStep
  <2> QED
    BY <2>1, <2>2, <2>3
<1>2. AccessInv /\ [Next]_vars => [Stays]_vars
  BY <1>1
<1> QED
  BY <1>2, AccessSafe, PTL DEF Spec, LastAdminStays
=============================================================================
