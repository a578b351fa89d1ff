---------------------------- MODULE CatalogProofs ----------------------------
(***************************************************************************)
(* Proofs about Catalog, for any ids, any number of handlers and any       *)
(* number of requests: type correctness, and that every reference of a row *)
(* resolves but for the ones that a check-then-act window left unguarded.  *)
(***************************************************************************)
EXTENDS Catalog, TLAPS

Req == [pc : {"idle", "write", "delete"}, obj : Obj, refs : SUBSET Obj,
        todo : SUBSET Obj, left : Seq(Table), blind : SUBSET Table]

LEMMA IdleType == Idle \in Req /\ Idle.pc = "idle"
<1>1. (CHOOSE o \in Obj : TRUE) \in Obj
  BY CatalogAssumption DEF CatalogAssumption
<1>2. << >> \in Seq(Table) /\ {} \in SUBSET Obj /\ {} \in SUBSET Table
  OBVIOUS
<1> QED
  BY <1>1, <1>2 DEF Idle, Req

LEMMA RefsOfType == \A o \in Obj : RefsOf(o) \subseteq SUBSET Obj
BY DEF RefsOf, Pairs, Obj

\* The four tables are disjoint: one arm of each CASE applies.
LEMMA CaseOf ==
    ASSUME NEW o \in Obj
    PROVE  /\ o \in Source => RefsOf(o) = {{}} /\ Counted(o) = <<Data>>
           /\ o \in Data => RefsOf(o) = {{s} : s \in Source} /\ Counted(o) = <<Sync, Check>>
           /\ o \in Check => RefsOf(o) = Pairs /\ Counted(o) = <<Sync>>
           /\ o \in Sync => RefsOf(o) = Pairs \cup {p \cup {c} : p \in Pairs, c \in Check}
                             /\ Counted(o) = << >>
<1>1. /\ o \in Source => o \notin Data \cup Check \cup Sync
      /\ o \in Data => o \notin Source \cup Check \cup Sync
      /\ o \in Check => o \notin Source \cup Data \cup Sync
      /\ o \in Sync => o \notin Source \cup Data \cup Check
  BY CatalogAssumption DEF CatalogAssumption
<1> QED
  BY <1>1 DEF RefsOf, Counted

LEMMA CountedType == \A o \in Obj : Counted(o) \in Seq(Table)
<1>1. <<Data>> \in Seq(Table) /\ <<Sync, Check>> \in Seq(Table) /\ <<Sync>> \in Seq(Table)
  BY DEF Table
<1>2. << >> \in Seq(Table)
  OBVIOUS
<1> TAKE o \in Obj
<1>3. \/ Counted(o) = <<Data>> \/ Counted(o) = <<Sync, Check>>
      \/ Counted(o) = <<Sync>> \/ Counted(o) = << >>
  BY CaseOf DEF Obj
<1> QED
  BY <1>1, <1>2, <1>3

\* The tables that a deletion counts are all that may refer to the row.
LEMMA CountedCovers ==
    ASSUME NEW o \in Obj, NEW want \in RefsOf(o), NEW p \in want
    PROVE  p \in Obj /\ \E i \in DOMAIN Counted(p) : o \in Counted(p)[i]
<1>1. CASE o \in Source
  BY <1>1, CaseOf
<1>2. CASE o \in Data
  <2>1. p \in Source
    BY <1>2, CaseOf
  <2>2. p \in Obj /\ Counted(p) = <<Data>>
    BY <2>1, CaseOf DEF Obj
  <2> QED
    BY <1>2, <2>2
<1>3. CASE o \in Check
  <2>1. p \in Data
    BY <1>3, CaseOf DEF Pairs
  <2>2. p \in Obj /\ Counted(p) = <<Sync, Check>>
    BY <2>1, CaseOf DEF Obj
  <2> QED
    BY <1>3, <2>2
<1>4. CASE o \in Sync
  <2>1. p \in Data \/ p \in Check
    BY <1>4, CaseOf DEF Pairs
  <2>2. p \in Obj /\ (Counted(p) = <<Sync, Check>> \/ Counted(p) = <<Sync>>)
    BY <2>1, CaseOf DEF Obj
  <2> QED
    BY <1>4, <2>2
<1> QED
  BY <1>1, <1>2, <1>3, <1>4 DEF Obj

\* Writing(o, want, todo) is a request that writes want into o.
LEMMA WritingIs ==
    ASSUME NEW o \in Obj, NEW want \in SUBSET Obj, NEW todo \in SUBSET Obj
    PROVE  /\ Writing(o, want, todo) \in Req
           /\ Writing(o, want, todo).pc = "write" /\ Writing(o, want, todo).obj = o
           /\ Writing(o, want, todo).refs = want /\ Writing(o, want, todo).todo = todo
BY IdleType DEF Writing, Req
-----------------------------------------------------------------------------
(* Every step changes at most one request *)

\* What the steps that begin or end a request have in common.
LEMMA BeginsIs ==
    ASSUME TypeOK, NEW h \in Handler, NEW rec \in Req, Begins(h, rec)
    PROVE  /\ req' \in [Handler -> Req] /\ req'[h] = rec
           /\ \A g \in Handler \ {h} : req'[g] = req[g]
           /\ budget' \in [requests : Nat, faults : Nat]
<1>1. req \in [Handler -> Req] /\ budget \in [requests : Nat, faults : Nat]
  BY DEF TypeOK, Req
<1>2. req' = [req EXCEPT ![h] = rec]
  BY DEF Begins
<1>3. budget.requests - 1 \in Nat
  BY <1>1 DEF Begins
<1>4. budget' \in [requests : Nat, faults : Nat]
  BY <1>1, <1>3 DEF Begins
<1> QED
  BY <1>1, <1>2, <1>4

LEMMA EndsIs ==
    ASSUME TypeOK, NEW h \in Handler, Ends(h)
    PROVE  /\ req' \in [Handler -> Req] /\ req'[h].pc = "idle"
           /\ \A g \in Handler \ {h} : req'[g] = req[g]
<1>1. req \in [Handler -> Req]
  BY DEF TypeOK, Req
<1> QED
  BY <1>1, IdleType DEF Ends

\* What a request holds and has counted depends on its own record only.
LEMMA SameRequest ==
    ASSUME NEW g \in Handler, req'[g] = req[g], NEW o \in Obj, NEW p \in Obj
    PROVE  (Holds(g, o, p)' <=> Holds(g, o, p)) /\ (Past(g, o, p)' <=> Past(g, o, p))
BY DEF Holds, Past

\* A step of the request h that writes no row keeps the invariant when it holds
\* for what h then has at hand.
LEMMA RequestStep ==
    ASSUME CatalogInv, TypeOK', NEW h \in Handler,
           \A g \in Handler \ {h} : req'[g] = req[g],
           UNCHANGED <<present, refs>>, unguarded \subseteq unguarded',
           req'[h].pc = "write" => req'[h].obj \in used',
           used \subseteq used',
           req'[h].pc = "write" => req'[h].refs \in RefsOf(req'[h].obj),
           \A o \in Obj, p \in Obj :
             Holds(h, o, p)' => p \in present \/ <<o, p>> \in unguarded',
           \A p \in Obj : \A o \in Users(p) :
             Past(h, o, p)' => <<o, p>> \in unguarded' \/ o \in UNION req'[h].blind
    PROVE  CatalogInv'
<1>1. Shape'
  BY DEF CatalogInv, Shape
<1>2. ReferencesResolve'
  BY DEF CatalogInv, ReferencesResolve
<1>3. HeldTargets'
  <2> SUFFICES ASSUME NEW g \in Handler, NEW o \in Obj, NEW p \in Obj, Holds(g, o, p)'
               PROVE  p \in present \/ <<o, p>> \in unguarded'
    BY DEF HeldTargets
  <2>1. CASE g # h
    <3>1. Holds(g, o, p)
      BY <2>1, SameRequest
    <3> QED
      BY <3>1 DEF CatalogInv, HeldTargets
  <2> QED
    BY <2>1
<1>4. CountedTables'
  <2> SUFFICES ASSUME NEW g \in Handler, NEW p \in Obj, NEW o \in Users(p)', Past(g, o, p)'
               PROVE  <<o, p>> \in unguarded' \/ o \in UNION req'[g].blind
    BY DEF CountedTables
  <2>1. o \in Users(p) /\ o \in Obj
    BY DEF Users, CatalogInv, TypeOK
  <2>2. CASE g # h
    <3>1. Past(g, o, p) /\ req'[g] = req[g]
      BY <2>1, <2>2, SameRequest
    <3> QED
      BY <2>1, <3>1 DEF CatalogInv, CountedTables
  <2> QED
    BY <2>1, <2>2
<1>5. Reserved'
  BY DEF CatalogInv, Reserved
<1> QED
  BY <1>1, <1>2, <1>3, <1>4, <1>5 DEF CatalogInv

\* A request that is over holds nothing and has counted nothing.
LEMMA EndStep ==
    ASSUME CatalogInv, NEW h \in Handler, Ends(h),
           UNCHANGED <<present, used, refs, budget, unguarded>>
    PROVE  CatalogInv'
<1>1. TypeOK
  BY DEF CatalogInv
<1>2. TypeOK'
  BY <1>1, EndsIs DEF TypeOK, Req
<1>3. \A o \in Obj, p \in Obj : ~Holds(h, o, p)' /\ ~Past(h, o, p)'
  BY <1>1, EndsIs DEF Holds, Past
<1>4. \A p \in Obj : Users(p) \subseteq Obj
  BY <1>1 DEF Users, TypeOK
<1> QED
  BY <1>1, <1>2, <1>3, <1>4, EndsIs, RequestStep

\* A request to write that begins: what it will not look for is there.
LEMMA WriteBegins ==
    ASSUME CatalogInv, NEW h \in Handler, NEW o \in Obj, NEW want \in RefsOf(o),
           NEW todo \in SUBSET want, Begins(h, Writing(o, want, todo)),
           UNCHANGED <<present, refs>>, used' = used \/ used' = used \cup {o}, o \in used',
           unguarded \subseteq unguarded', unguarded' \subseteq Obj \X Obj,
           \A p \in want \ todo : p \in present \/ <<o, p>> \in unguarded'
    PROVE  CatalogInv'
<1>1. TypeOK /\ want \in SUBSET Obj /\ todo \in SUBSET Obj
  BY RefsOfType DEF CatalogInv
<1>2. PICK rec \in Req : rec = Writing(o, want, todo)
  BY <1>1, WritingIs
<1>3. rec.pc = "write" /\ rec.obj = o /\ rec.refs = want /\ rec.todo = todo
  BY <1>1, <1>2, WritingIs
<1>4. /\ req' \in [Handler -> Req] /\ req'[h] = rec
      /\ \A g \in Handler \ {h} : req'[g] = req[g]
      /\ budget' \in [requests : Nat, faults : Nat]
  BY <1>1, <1>2, BeginsIs
<1>5. TypeOK'
  BY <1>1, <1>4 DEF TypeOK, Req
<1>6. \A q \in Obj, p \in Obj : Holds(h, q, p)' => p \in present \/ <<q, p>> \in unguarded'
  BY <1>3, <1>4 DEF Holds
<1>7. \A q \in Obj, p \in Obj : ~Past(h, q, p)'
  BY <1>3, <1>4 DEF Past
<1>8. \A p \in Obj : Users(p) \subseteq Obj
  BY <1>1 DEF Users, TypeOK
<1>9. used \subseteq used' /\ req'[h].obj \in used'
  BY <1>3, <1>4
<1>10. req'[h].refs \in RefsOf(req'[h].obj)
  BY <1>3, <1>4
<1> QED
  BY <1>4, <1>5, <1>6, <1>7, <1>8, <1>9, <1>10, RequestStep
-----------------------------------------------------------------------------
(* The steps *)

LEMMA WriteBeginInv ==
    ASSUME CatalogInv, NEW h \in Handler, NEW o \in Obj,
           \/ \E want \in RefsOf(o) :
                \/ Create(h, o, want) \/ CreateLegacy(h, o, want)
                \/ \E todo \in SUBSET want : Update(h, o, want, todo)
           \/ Verify(h, o)
    PROVE  CatalogInv'
<1>0. TypeOK
  BY DEF CatalogInv
<1>1. ASSUME NEW want \in RefsOf(o), Create(h, o, want) PROVE CatalogInv'
  BY <1>0, <1>1, WriteBegins DEF Create, TypeOK
<1>2. ASSUME NEW want \in RefsOf(o), CreateLegacy(h, o, want) PROVE CatalogInv'
  <2>1. want \subseteq Obj /\ want \subseteq Data \cup Check
    <3>1. o \in Check \cup Sync
      BY <1>2 DEF CreateLegacy
    <3> QED
      BY <3>1, CaseOf, RefsOfType DEF Pairs, Obj
  <2>2. \A p \in want \ (want \cap Check) : p \in present \/ <<o, p>> \in unguarded'
    BY <1>2, <2>1 DEF CreateLegacy
  <2>3. unguarded \subseteq unguarded' /\ unguarded' \subseteq Obj \X Obj
    BY <1>0, <1>2, <2>1 DEF CreateLegacy, TypeOK
  <2> QED
    BY <1>2, <2>2, <2>3, WriteBegins DEF CreateLegacy
<1>3. ASSUME NEW want \in RefsOf(o), NEW todo \in SUBSET want, Update(h, o, want, todo)
      PROVE  CatalogInv'
  <2>1. \A p \in want \ todo : p \in present \/ <<o, p>> \in unguarded'
    BY <1>3 DEF Update, CatalogInv, ReferencesResolve
  <2> QED
    BY <1>0, <1>3, <2>1, WriteBegins DEF Update, TypeOK
<1>4. CASE Verify(h, o)
  <2>1. refs[o] \in RefsOf(o)
    BY <1>4 DEF Verify, CatalogInv, Shape
  <2> QED
    BY <1>0, <1>4, <2>1, WriteBegins DEF Verify, TypeOK
<1> QED
  BY <1>1, <1>2, <1>3, <1>4

LEMMA FindTargetInv ==
    ASSUME CatalogInv, NEW h \in Handler, NEW q \in Obj, FindTarget(h, q)
    PROVE  CatalogInv'
<1>0. TypeOK
  BY DEF CatalogInv
<1>1. CASE Ends(h)
  BY <1>1, EndStep DEF FindTarget
<1>2. CASE q \in present
  <2> DEFINE rec == [req[h] EXCEPT !.todo = @ \ {q}]
  <2>1. req \in [Handler -> Req] /\ req[h] \in Req
    BY <1>0 DEF TypeOK, Req
  <2>2. /\ rec \in Req /\ rec.pc = "write" /\ rec.obj = req[h].obj /\ rec.refs = req[h].refs
        /\ rec.todo = req[h].todo \ {q}
    BY <1>2, <2>1 DEF FindTarget, Req
  <2>3. req' = [req EXCEPT ![h] = rec]
    BY <1>2, <2>1 DEF FindTarget
  <2> HIDE DEF rec
  <2>4. req' \in [Handler -> Req] /\ req'[h] = rec /\ \A g \in Handler \ {h} : req'[g] = req[g]
    BY <2>1, <2>2, <2>3
  <2>5. TypeOK'
    BY <1>0, <2>4 DEF FindTarget, TypeOK, Req
  <2>6. \A o \in Obj, p \in Obj : Holds(h, o, p)' => Holds(h, o, p) \/ p = q
    BY <1>2, <2>2, <2>4 DEF FindTarget, Holds
  <2>7. \A o \in Obj, p \in Obj : ~Past(h, o, p)'
    BY <2>2, <2>4 DEF Past
  <2>8. \A p \in Obj : Users(p) \subseteq Obj
    BY <1>0 DEF Users, TypeOK
  <2>9. req'[h].refs \in RefsOf(req'[h].obj)
    BY <2>2, <2>4 DEF FindTarget, CatalogInv, Shape
  <2>10. \A o \in Obj, p \in Obj : Holds(h, o, p)' => p \in present \/ <<o, p>> \in unguarded'
    BY <1>2, <2>6 DEF FindTarget, CatalogInv, HeldTargets
  <2>11. req'[h].obj \in used' /\ used' = used
    BY <2>2, <2>4 DEF FindTarget, CatalogInv, Reserved
  <2>12. UNCHANGED <<present, refs, unguarded>>
    BY DEF FindTarget
  <2> QED
    BY <2>4, <2>5, <2>7, <2>8, <2>9, <2>10, <2>11, <2>12, RequestStep
<1> QED
  BY <1>1, <1>2 DEF FindTarget

LEMMA DeleteInv ==
    ASSUME CatalogInv, NEW h \in Handler, NEW q \in Obj, Delete(h, q)
    PROVE  CatalogInv'
<1>0. TypeOK /\ req \in [Handler -> Req]
  BY DEF CatalogInv, TypeOK, Req
<1> DEFINE rec == [Idle EXCEPT !.pc = "delete", !.obj = q, !.left = Counted(q)]
<1>1. /\ rec \in Req /\ rec.pc = "delete" /\ rec.obj = q /\ rec.left = Counted(q)
  BY IdleType, CountedType DEF Req
<1>2. Begins(h, rec)
  BY DEF Delete
<1> HIDE DEF rec
<1>3. /\ req' \in [Handler -> Req] /\ req'[h] = rec
      /\ \A g \in Handler \ {h} : req'[g] = req[g]
      /\ budget' \in [requests : Nat, faults : Nat]
  BY <1>0, <1>1, <1>2, BeginsIs
<1>4. TypeOK'
  BY <1>0, <1>3 DEF Delete, TypeOK, Req
<1>5. \A o \in Obj, p \in Obj : ~Holds(h, o, p)'
  BY <1>1, <1>3 DEF Holds
<1>6. \A p \in Obj : \A o \in Users(p) : ~Past(h, o, p)'
  <2> SUFFICES ASSUME NEW p \in Obj, NEW o \in Users(p), Past(h, o, p)'
               PROVE  FALSE
    OBVIOUS
  <2>1. o \in Obj /\ p \in refs[o] /\ refs[o] \in RefsOf(o)
    BY <1>0 DEF Users, CatalogInv, Shape, TypeOK
  <2>2. \E i \in DOMAIN Counted(p) : o \in Counted(p)[i]
    BY <2>1, CountedCovers
  <2>3. rec.left = Counted(p)
    BY <1>1, <1>3 DEF Past
  <2> QED
    BY <1>3, <2>2, <2>3 DEF Past
<1> QED
  BY <1>1, <1>3, <1>4, <1>5, <1>6, RequestStep DEF Delete

\* What is in the tail of the tables left, and what is not.
LEMMA TailIs ==
    ASSUME NEW left \in Seq(Table), left # << >>
    PROVE  /\ Tail(left) \in Seq(Table) /\ Head(left) \in Table
           /\ \A o : (\A i \in DOMAIN Tail(left) : o \notin Tail(left)[i]) =>
                    (\A i \in DOMAIN left : o \notin left[i]) \/ o \in Head(left)
<1>1. Tail(left) \in Seq(Table) /\ Head(left) \in Table /\ Len(Tail(left)) = Len(left) - 1
  OBVIOUS
<1>2. \A i \in DOMAIN left : i = 1 \/ (i - 1 \in DOMAIN Tail(left) /\ left[i] = Tail(left)[i - 1])
  OBVIOUS
<1>3. Head(left) = left[1]
  OBVIOUS
<1> QED
  BY <1>1, <1>2, <1>3

\* A table less to count: either it has no user, or it is noted as not counted.
LEMMA CountInv ==
    ASSUME CatalogInv, NEW h \in Handler, CountUsers(h) \/ CountFails(h)
    PROVE  CatalogInv'
<1>0. /\ TypeOK /\ req \in [Handler -> Req] /\ req[h] \in Req
      /\ \A p \in Obj : Users(p) \subseteq Obj
  BY DEF CatalogInv, TypeOK, Req, Users
<1>1. CASE CountUsers(h) /\ Ends(h)
  BY <1>1, EndStep DEF CountUsers
<1> DEFINE blind == IF CountFails(h) THEN req[h].blind \cup {Head(req[h].left)}
                                    ELSE req[h].blind
           rec == [req[h] EXCEPT !.left = Tail(@), !.blind = blind]
<1>2. CASE ~(CountUsers(h) /\ Ends(h))
  <2>1. req[h].pc = "delete" /\ req[h].left # << >> /\ req[h].left \in Seq(Table)
    BY <1>0 DEF CountUsers, CountFails, Req
  <2>2. blind \in SUBSET Table /\ req[h].blind \subseteq blind
    BY <1>0, <2>1, TailIs DEF Req
  <2>3. /\ rec \in Req /\ rec.pc = "delete" /\ rec.obj = req[h].obj
        /\ rec.left = Tail(req[h].left) /\ rec.blind = blind
    BY <1>0, <2>1, <2>2, TailIs DEF Req
  <2>4. req' = [req EXCEPT ![h] = rec]
    <3>1. CASE CountFails(h)
      BY <1>0, <3>1 DEF CountFails
    <3>2. CASE ~CountFails(h)
      <4>1. req' = [req EXCEPT ![h].left = Tail(@)] /\ blind = req[h].blind
        BY <1>2, <3>2 DEF CountUsers
      <4>2. rec = [req[h] EXCEPT !.left = Tail(@)]
        BY <1>0, <4>1 DEF Req
      <4> QED
        BY <1>0, <4>1, <4>2
    <3> QED
      BY <3>1, <3>2
  <2>5. Users(req[h].obj) \cap Head(req[h].left) = {} \/ Head(req[h].left) \in blind
    BY <1>2 DEF CountUsers
  <2>6. budget' \in [requests : Nat, faults : Nat]
    <3>1. CountFails(h) => budget.faults - 1 \in Nat
      BY <1>0 DEF CountFails, TypeOK
    <3> QED
      BY <1>0, <3>1 DEF CountUsers, CountFails, TypeOK
  <2> HIDE DEF rec, blind
  <2>7. req' \in [Handler -> Req] /\ req'[h] = rec /\ \A g \in Handler \ {h} : req'[g] = req[g]
    BY <1>0, <2>3, <2>4
  <2>8. UNCHANGED <<present, used, refs, unguarded>>
    BY DEF CountUsers, CountFails
  <2>9. TypeOK'
    BY <1>0, <2>6, <2>7, <2>8 DEF TypeOK, Req
  <2>10. \A o \in Obj, p \in Obj : ~Holds(h, o, p)'
    BY <2>3, <2>7 DEF Holds
  <2>11. ASSUME NEW p \in Obj, NEW o \in Users(p), Past(h, o, p)'
         PROVE  <<o, p>> \in unguarded' \/ o \in UNION req'[h].blind
    <3>1. p = req[h].obj
      BY <2>3, <2>7, <2>11 DEF Past
    <3>2. \A i \in DOMAIN Tail(req[h].left) : o \notin Tail(req[h].left)[i]
      BY <2>3, <2>7, <2>11 DEF Past
    <3>3. (\A i \in DOMAIN req[h].left : o \notin req[h].left[i]) \/ o \in Head(req[h].left)
      BY <2>1, <3>2, TailIs
    <3>4. CASE \A i \in DOMAIN req[h].left : o \notin req[h].left[i]
      <4>1. Past(h, o, p)
        BY <2>1, <3>1, <3>4 DEF Past
      <4>2. <<o, p>> \in unguarded \/ o \in UNION req[h].blind
        BY <2>11, <4>1 DEF CatalogInv, CountedTables
      <4> QED
        BY <2>2, <2>3, <2>7, <2>8, <4>2
    <3>5. CASE o \in Head(req[h].left)
      <4>1. Head(req[h].left) \in blind
        BY <2>5, <2>11, <3>1, <3>5
      <4> QED
        BY <2>3, <2>7, <3>5, <4>1
    <3> QED
      BY <3>3, <3>4, <3>5
  <2> QED
    BY <2>3, <2>7, <2>8, <2>9, <2>10, <2>11, RequestStep
<1> QED
  BY <1>1, <1>2

\* A row is written.  What it refers to was held; deletions that have counted
\* its table already are noted.
LEMMA WriteInv ==
    ASSUME CatalogInv, NEW h \in Handler, Write(h)
    PROVE  CatalogInv'
<1>0. /\ TypeOK /\ req[h].obj \in Obj /\ req[h].refs \in SUBSET Obj
      /\ req[h].pc = "write" /\ req[h].todo = {}
  BY DEF CatalogInv, TypeOK, Write
<1> DEFINE q == req[h].obj
           late == {<<q, p>> : p \in {r \in req[h].refs : \E g \in Handler : Past(g, q, r)}}
<1>1. /\ present' = present \cup {q} /\ refs' = [refs EXCEPT ![q] = req[h].refs]
      /\ unguarded' = unguarded \cup late /\ used' = used /\ budget' = budget
  BY DEF Write
<1>2. /\ req' \in [Handler -> Req] /\ req'[h].pc = "idle"
      /\ \A g \in Handler \ {h} : req'[g] = req[g]
  BY <1>0, EndsIs DEF Write
<1>3. /\ refs' \in [Obj -> SUBSET Obj] /\ refs'[q] = req[h].refs
      /\ \A o \in Obj \ {q} : refs'[o] = refs[o]
  BY <1>0, <1>1 DEF TypeOK
<1>4. late \subseteq Obj \X Obj
  BY <1>0
<1>5. \A p \in req[h].refs : p \in present \/ <<q, p>> \in unguarded
  BY <1>0 DEF CatalogInv, HeldTargets, Holds
<1>6. q \in used
  BY DEF CatalogInv, Reserved, Write
<1> HIDE DEF q, late
<1>7. TypeOK'
  BY <1>0, <1>1, <1>2, <1>3, <1>4, <1>6 DEF TypeOK, Req
<1>8. Shape'
  BY <1>0, <1>1, <1>2, <1>3 DEF CatalogInv, Shape, q
<1>9. ReferencesResolve'
  <2> SUFFICES ASSUME NEW o \in present', NEW p \in refs'[o]
               PROVE  p \in present' \/ <<o, p>> \in unguarded'
    BY DEF ReferencesResolve
  <2>1. CASE o = q
    BY <1>1, <1>3, <1>5, <2>1
  <2>2. CASE o # q
    <3>1. o \in present /\ o \in Obj /\ refs'[o] = refs[o]
      BY <1>0, <1>1, <1>3, <2>2 DEF TypeOK
    <3> QED
      BY <1>1, <3>1 DEF CatalogInv, ReferencesResolve
  <2> QED
    BY <2>1, <2>2
<1>10. HeldTargets'
  <2> SUFFICES ASSUME NEW g \in Handler, NEW o \in Obj, NEW p \in Obj, Holds(g, o, p)'
               PROVE  p \in present' \/ <<o, p>> \in unguarded'
    BY DEF HeldTargets
  <2>1. g # h
    BY <1>2 DEF Holds
  <2>2. Holds(g, o, p)
    BY <1>2, <2>1, SameRequest
  <2> QED
    BY <1>1, <2>2 DEF CatalogInv, HeldTargets
<1>11. CountedTables'
  <2> SUFFICES ASSUME NEW g \in Handler, NEW p \in Obj, NEW o \in Users(p)', Past(g, o, p)'
               PROVE  <<o, p>> \in unguarded' \/ o \in UNION req'[g].blind
    BY DEF CountedTables
  <2>1. g # h
    BY <1>2 DEF Past
  <2>2. o \in Obj /\ o \in present' /\ p \in refs'[o]
    BY <1>7 DEF Users, TypeOK
  <2>3. Past(g, o, p) /\ req'[g] = req[g]
    BY <1>2, <2>1, <2>2, SameRequest
  <2>4. CASE o = q
    <3>1. p \in req[h].refs
      BY <1>3, <2>2, <2>4
    <3>2. <<q, p>> \in late
      BY <2>3, <2>4, <3>1 DEF late
    <3> QED
      BY <1>1, <2>4, <3>2
  <2>5. CASE o # q
    <3>1. o \in Users(p)
      BY <1>1, <1>3, <2>2, <2>5 DEF Users
    <3> QED
      BY <1>1, <2>3, <3>1 DEF CatalogInv, CountedTables
  <2> QED
    BY <2>4, <2>5
<1>12. Reserved'
  BY <1>1, <1>2 DEF CatalogInv, Reserved
<1> QED
  BY <1>7, <1>8, <1>9, <1>10, <1>11, <1>12 DEF CatalogInv

\* A row is deleted.  Its users are those that a count missed; requests that
\* hold a reference to it are noted.
LEMMA RemoveInv ==
    ASSUME CatalogInv, NEW h \in Handler, Remove(h)
    PROVE  CatalogInv'
<1>0. /\ TypeOK /\ req[h].obj \in Obj /\ req[h].pc = "delete" /\ req[h].left = << >>
  BY DEF CatalogInv, TypeOK, Remove
<1> DEFINE q == req[h].obj
           held == {<<o, q>> : o \in {u \in Obj : \E g \in Handler : Holds(g, u, q)}}
           missed == {<<o, q>> : o \in Users(q) \cap UNION req[h].blind}
<1>1. /\ present' = present \ {q} /\ unguarded' = unguarded \cup held \cup missed
      /\ used' = used /\ refs' = refs /\ budget' = budget
  BY DEF Remove
<1>2. /\ req' \in [Handler -> Req] /\ req'[h].pc = "idle"
      /\ \A g \in Handler \ {h} : req'[g] = req[g]
  BY <1>0, EndsIs DEF Remove
<1>3. \A p \in Obj : Users(p) \subseteq Obj /\ Users(p)' \subseteq Users(p)
  BY <1>0, <1>1 DEF Users, TypeOK
<1>4. held \subseteq Obj \X Obj /\ missed \subseteq Obj \X Obj
  BY <1>0, <1>3
<1>5. \A o \in Users(q) : <<o, q>> \in unguarded \/ <<o, q>> \in missed
  <2> SUFFICES ASSUME NEW o \in Users(q)
               PROVE  <<o, q>> \in unguarded \/ <<o, q>> \in missed
    OBVIOUS
  <2>1. Past(h, o, q)
    BY <1>0 DEF Past
  <2> QED
    BY <1>0, <2>1 DEF CatalogInv, CountedTables
<1>6. \A g \in Handler, o \in Obj : Holds(g, o, q) => <<o, q>> \in held
  OBVIOUS
<1>7. q \in Obj
  BY <1>0
<1> HIDE DEF q, held, missed
<1>8. TypeOK'
  BY <1>0, <1>1, <1>2, <1>4 DEF TypeOK, Req
<1>9. Shape'
  BY <1>1, <1>2 DEF CatalogInv, Shape
<1>10. ReferencesResolve'
  <2> SUFFICES ASSUME NEW o \in present', NEW p \in refs[o]
               PROVE  p \in present' \/ <<o, p>> \in unguarded'
    BY <1>1 DEF ReferencesResolve
  <2>1. o \in present /\ (p \in present \/ <<o, p>> \in unguarded)
    BY <1>1 DEF CatalogInv, ReferencesResolve
  <2>2. CASE p = q
    <3>1. o \in Users(q)
      BY <2>1, <2>2 DEF Users
    <3> QED
      BY <1>1, <1>5, <2>2, <3>1
  <2> QED
    BY <1>1, <2>1, <2>2
<1>11. HeldTargets'
  <2> SUFFICES ASSUME NEW g \in Handler, NEW o \in Obj, NEW p \in Obj, Holds(g, o, p)'
               PROVE  p \in present' \/ <<o, p>> \in unguarded'
    BY DEF HeldTargets
  <2>1. g # h
    BY <1>2 DEF Holds
  <2>2. Holds(g, o, p)
    BY <1>2, <2>1, SameRequest
  <2>3. p \in present \/ <<o, p>> \in unguarded
    BY <2>2 DEF CatalogInv, HeldTargets
  <2> QED
    BY <1>1, <1>6, <2>2, <2>3
<1>12. CountedTables'
  <2> SUFFICES ASSUME NEW g \in Handler, NEW p \in Obj, NEW o \in Users(p)', Past(g, o, p)'
               PROVE  <<o, p>> \in unguarded' \/ o \in UNION req'[g].blind
    BY DEF CountedTables
  <2>1. g # h
    BY <1>2 DEF Past
  <2>2. o \in Users(p) /\ o \in Obj
    BY <1>3
  <2>3. Past(g, o, p) /\ req'[g] = req[g]
    BY <1>2, <2>1, <2>2, SameRequest
  <2> QED
    BY <1>1, <2>2, <2>3 DEF CatalogInv, CountedTables
<1>13. Reserved'
  BY <1>1, <1>2 DEF CatalogInv, Reserved
<1> QED
  BY <1>8, <1>9, <1>10, <1>11, <1>12, <1>13 DEF CatalogInv
-----------------------------------------------------------------------------
(* The theorems *)

LEMMA InitInv == Init => CatalogInv
<1> SUFFICES ASSUME Init PROVE CatalogInv
  OBVIOUS
<1>1. \A o \in Obj : IF o \in present THEN refs[o] \in RefsOf(o) /\ refs[o] \subseteq present
                                        ELSE refs[o] = {}
  <2>1. PICK built \in [present -> {r \in UNION {RefsOf(o) : o \in present} : r \subseteq present}] :
          /\ \A o \in present : built[o] \in RefsOf(o)
          /\ refs = [o \in Obj |-> IF o \in present THEN built[o] ELSE {}]
    BY DEF Init
  <2> QED
    BY <2>1
<1>2. refs \in [Obj -> SUBSET Obj]
  <2>1. \A o \in Obj : refs[o] \in SUBSET Obj
    BY <1>1 DEF Init
  <2>2. \E f : refs = [o \in Obj |-> f[o]]
    BY DEF Init
  <2> QED
    BY <2>1, <2>2
<1>3. TypeOK
  <2>1. req \in [Handler -> Req]
    BY IdleType DEF Init
  <2>2. budget \in [requests : Nat, faults : Nat]
    BY CatalogAssumption DEF Init, CatalogAssumption
  <2> QED
    BY <1>2, <2>1, <2>2 DEF Init, TypeOK, Req
<1>4. \A h \in Handler : req[h].pc = "idle"
  BY IdleType DEF Init
<1>5. \A o \in present : o \in Obj
  BY DEF Init
<1> QED
  BY <1>1, <1>3, <1>4, <1>5 DEF CatalogInv, Shape, ReferencesResolve, HeldTargets, CountedTables,
                                Reserved, Holds, Past

LEMMA NextInv == CatalogInv /\ [Next]_vars => CatalogInv'
<1> SUFFICES ASSUME CatalogInv, [Next]_vars PROVE CatalogInv'
  OBVIOUS
<1>1. CASE UNCHANGED vars
  BY <1>1 DEF vars, CatalogInv, TypeOK, Shape, ReferencesResolve, HeldTargets, CountedTables,
              Reserved, Holds, Past, Users
<1>2. ASSUME NEW h \in Handler, GiveUp(h) PROVE CatalogInv'
  BY <1>2, EndStep DEF GiveUp
<1> QED
  BY <1>1, <1>2, WriteBeginInv, FindTargetInv, DeleteInv, CountInv, WriteInv, RemoveInv DEF Next

\* Type correctness, and every part of the invariant, hold at every moment, for
\* any catalog, any handlers and any number of requests and failures.
THEOREM CatalogSafe == Spec => []CatalogInv
<1> QED
  BY InitInv, NextInv, PTL DEF Spec

\* The tables, the requests being served and the history keep their types.
THEOREM TypeCorrect == Spec => []TypeOK
<1>1. CatalogInv => TypeOK
  BY DEF CatalogInv
<1> QED
  BY <1>1, CatalogSafe, PTL

\* No row is deleted under one that refers to it, unless a window between a
\* check and its write was hit (internal/api, the delete and write handlers).
THEOREM References == Spec => []ReferencesResolve
<1>1. CatalogInv => ReferencesResolve
  BY DEF CatalogInv
<1> QED
  BY <1>1, CatalogSafe, PTL
=============================================================================
