----------------------------- MODULE UnitTxProofs -----------------------------
(***************************************************************************)
(* What the row locks of UnitTx guarantee, for every set of units, pulls,  *)
(* overrides and requests: who holds a unit, what its movements say, what  *)
(* an override prices, that the handlers implement UnitCustody, and that   *)
(* they do not wait in a circle.                                           *)
(***************************************************************************)
EXTENDS UnitTx, FifoTheorems

RequestsGiven == req \in Workload

(* What a session has read of a row it holds, and it is the committed row. *)
ReadsHeld ==
  \A t \in Tx, r \in Rows :
    Read(t, r) => lock[r] = t /\ Active(t) /\ seen[t][r] = RowState(r)

(* A return at work or done is on a committed sale.                        *)
SaleNamed ==
  \A t \in Tx : Is(t, "return") /\ (Active(t) \/ Done(t)) => IsSale(req[t].sale)

(* The over-return check of a line outlives the check: the line is locked. *)
CheckStands ==
  \A t \in Tx : \A u \in checked[t] :
    /\ Is(t, "return") /\ Read(t, LineRow(req[t].sale, u))
    /\ ~ReturnedBefore(req[t].sale, u)

(* A return locks a unit once its line is checked.                         *)
UnitsChecked ==
  \A t \in Tx, u \in Unit :
    Is(t, "return") /\ Read(t, UnitRow(u)) => u \in checked[t]

(* What a handler that is about to commit has found.                       *)
Found(t) ==
  /\ AllRead(t)
  /\ req[t].kind \in {"sale", "adjust"} =>
       \A u \in req[t].units : SeenUnit(t, u) = "IN_STOCK"
  /\ req[t].kind \in {"sale", "ticket"} =>
       \A o \in Cited(t) : OnTarget(t, o) /\ Approved(t, o) /\ ~AlreadyConsumed(o)
  /\ Is(t, "return") => UnitsOf(t) = req[t].units
  /\ Is(t, "fulfil") => PullOpen(t)
  /\ Is(t, "cancel") =>
       seen[t][PullRow(req[t].pull)] \notin {"FULFILLED", "CANCELLED"}
  /\ req[t].kind \in {"approve", "reject"} =>
       \A o \in Cited(t) : seen[t][OverrideRow(o)] = "PENDING"

BuiltOnFindings == \A t \in Tx : pc[t] = "built" => Found(t)

LockInv ==
  /\ TypeOK /\ RequestsGiven /\ pullLine = [p \in Pull |-> pullLine[p]]
  /\ ReadsHeld /\ SaleNamed /\ CheckStands /\ UnitsChecked /\ BuiltOnFindings
-----------------------------------------------------------------------------
(* Rows of different tables differ, and so do the rows of one table.       *)
LEMMA RowsAre ==
  /\ \A u \in Unit : UnitRow(u) \in Rows /\ UnitRow(u)[1] = "unit" /\ UnitRow(u)[2] = u
  /\ \A o \in Override : OverrideRow(o) \in Rows /\ OverrideRow(o)[1] = "override"
                         /\ OverrideRow(o)[2] = o
  /\ \A p \in Pull : PullRow(p) \in Rows /\ PullRow(p)[1] = "pull" /\ PullRow(p)[2] = p
  /\ \A s \in Tx, u \in Unit :
       LineRow(s, u) \in Rows /\ LineRow(s, u)[1] = "line" /\ LineRow(s, u)[2] = s
       /\ LineRow(s, u)[3] = u
  /\ \A r \in Request : r.kind \in Keyed /\ r.key \in Key =>
       KeyRow(r) \in Rows /\ KeyRow(r)[1] = "key"
<1>1. \A u \in Unit : UnitRow(u) \in Rows /\ UnitRow(u)[1] = "unit" /\ UnitRow(u)[2] = u
  BY DEF UnitRow, Rows
<1>2. \A o \in Override : OverrideRow(o) \in Rows /\ OverrideRow(o)[1] = "override"
                          /\ OverrideRow(o)[2] = o
  BY DEF OverrideRow, Rows
<1>3. \A p \in Pull : PullRow(p) \in Rows /\ PullRow(p)[1] = "pull" /\ PullRow(p)[2] = p
  BY DEF PullRow, Rows
<1>4. \A s \in Tx, u \in Unit :
        LineRow(s, u) \in Rows /\ LineRow(s, u)[1] = "line" /\ LineRow(s, u)[2] = s
        /\ LineRow(s, u)[3] = u
  BY DEF LineRow, Rows
<1>5. \A r \in Request : r.kind \in Keyed /\ r.key \in Key =>
        KeyRow(r) \in Rows /\ KeyRow(r)[1] = "key"
  BY DEF KeyRow, Rows
<1> QED BY <1>1, <1>2, <1>3, <1>4, <1>5

(* What a request is, and the workload's promises about it.                *)
LEMMA RequestsAre ==
  ASSUME LockInv, NEW t \in Tx
  PROVE  /\ req[t] \in Request /\ req[t].units \subseteq Unit
         /\ req[t].kind \in Kinds
         /\ Is(t, "return") => req[t].sale \in Tx
         /\ req[t].kind \in {"fulfil", "cancel"} => req[t].pull \in Pull
         /\ req[t].kind \in Keyed => req[t].key \in Key
         /\ req[t].kind \in {"ticket", "cancel", "approve", "reject"} => req[t].units = {}
         /\ Cited(t) \subseteq Override
<1>1. req \in Workload /\ Workload \subseteq [Tx -> Request]
  BY TxAssumption DEF LockInv, RequestsGiven
<1>2. req[t] \in Request
  BY <1>1
<1> QED BY <1>1, <1>2, TxAssumption DEF Request, Is, Cited

LEMMA TypesOf ==
  ASSUME LockInv, NEW t \in Tx
  PROVE  /\ seen[t] \in [Rows -> {"unread", "read"} \cup UnitStates
                                  \cup PullStates \cup OverrideStates]
         /\ checked[t] \subseteq Unit
         /\ pc[t] \in {"idle", "lock", "built"} \cup Outcomes
         /\ None \notin Tx
         /\ \A p \in Pull : PullUnits[p] \subseteq Unit
BY TxAssumption, RowAssumption DEF LockInv, TypeOK

LEMMA VerdictIs ==
  ASSUME NEW t \in Tx
  PROVE  Verdict(t) \in {"go", "conflict", "refused", "notFound", "replayed"}
BY DEF Verdict

(* With every row read and nothing against it, a request may be built.     *)
LEMMA GoFinds ==
  ASSUME LockInv, NEW t \in Tx, AllRead(t), Verdict(t) = "go"
  PROVE  Found(t)
<1> USE RequestsAre
<1>1. \A u \in UnitsOf(t) : Read(t, UnitRow(u))
  BY DEF AllRead, Needs
<1>2. \A o \in Cited(t) : Read(t, OverrideRow(o))
  BY DEF AllRead, Needs
<1>3. Is(t, "return") => \A u \in UnitsOf(t) : Read(t, LineRow(req[t].sale, u))
  BY DEF AllRead, Needs
<1>4. req[t].kind \in {"fulfil", "cancel"} => Read(t, PullRow(req[t].pull))
  BY DEF AllRead, Needs
<1>5. req[t].kind \in {"sale", "adjust"} => UnitsOf(t) = req[t].units
  BY DEF UnitsOf, Is
<1>6. req[t].kind \in {"sale", "adjust"} =>
        \A u \in req[t].units : SeenUnit(t, u) = "IN_STOCK"
  BY <1>1, <1>5 DEF Verdict, Is, Read, SeenUnit
<1>7. req[t].kind \in {"sale", "ticket"} =>
        \A o \in Cited(t) : OnTarget(t, o) /\ Approved(t, o) /\ ~AlreadyConsumed(o)
  BY DEF Verdict, Is
<1>8. Is(t, "return") => UnitsOf(t) = req[t].units
  BY <1>3 DEF Verdict, Is
<1>9. Is(t, "fulfil") => PullOpen(t)
  BY <1>4 DEF Verdict, Is
<1>10. Is(t, "cancel") => seen[t][PullRow(req[t].pull)] \notin {"FULFILLED", "CANCELLED"}
  BY DEF Verdict, Is
<1>11. req[t].kind \in {"approve", "reject"} =>
         \A o \in Cited(t) : seen[t][OverrideRow(o)] = "PENDING"
  BY DEF Verdict, Is
<1> QED BY <1>6, <1>7, <1>8, <1>9, <1>10, <1>11 DEF Found

(* What depends only on the requests and on which handlers are done.       *)
LEMMA SameDone ==
  ASSUME UNCHANGED req, \A x \in Tx : Done(x)' = Done(x)
  PROVE  /\ \A s \in Tx : IsSale(s)' = IsSale(s)
         /\ \A s \in Tx, x \in Tx : IsReturnOf(x, s)' = IsReturnOf(x, s)
         /\ \A s \in Tx, u \in Unit : ReturnedBefore(s, u)' = ReturnedBefore(s, u)
         /\ \A x \in Tx : Consumes(x)' = Consumes(x) /\ Cited(x)' = Cited(x)
         /\ \A o \in Override : AlreadyConsumed(o)' = AlreadyConsumed(o)
<1>1. \A s \in Tx : IsSale(s)' = IsSale(s)
  BY DEF IsSale, Is
<1>2. \A s \in Tx, x \in Tx : IsReturnOf(x, s)' = IsReturnOf(x, s)
  BY DEF IsReturnOf, Is
<1>3. \A s \in Tx, u \in Unit : ReturnedBefore(s, u)' = ReturnedBefore(s, u)
  BY <1>2 DEF ReturnedBefore
<1>4. \A x \in Tx : Consumes(x)' = Consumes(x) /\ Cited(x)' = Cited(x)
  BY DEF Consumes, Cited
<1>5. \A o \in Override : AlreadyConsumed(o)' = AlreadyConsumed(o)
  BY <1>4 DEF AlreadyConsumed
<1> QED BY <1>1, <1>2, <1>3, <1>4, <1>5

(* A session that reads no more stands where it stood.                     *)
LEMMA SameSession ==
  ASSUME UNCHANGED req, NEW t \in Tx, seen'[t] = seen[t]
  PROVE  /\ \A r : Read(t, r)' = Read(t, r)
         /\ UnitsOf(t)' = UnitsOf(t) /\ Needs(t)' = Needs(t)
         /\ AllRead(t)' = AllRead(t)
         /\ PullOpen(t)' = PullOpen(t)
         /\ \A u : SeenUnit(t, u)' = SeenUnit(t, u)
         /\ \A o : Approved(t, o)' = Approved(t, o) /\ OnTarget(t, o)' = OnTarget(t, o)
<1>1. \A r : Read(t, r)' = Read(t, r)
  BY DEF Read
<1>2. UnitsOf(t)' = UnitsOf(t)
  BY <1>1 DEF UnitsOf, Is
<1>3. Cited(t)' = Cited(t)
  BY DEF Cited
<1>4. Needs(t)' = Needs(t)
  BY <1>2, <1>3 DEF Needs, Is
<1>5. AllRead(t)' = AllRead(t)
  BY <1>1, <1>4 DEF AllRead
<1>6. PullOpen(t)' = PullOpen(t) /\ \A u : SeenUnit(t, u)' = SeenUnit(t, u)
  BY DEF PullOpen, SeenUnit
<1>7. \A o : Approved(t, o)' = Approved(t, o) /\ OnTarget(t, o)' = OnTarget(t, o)
  BY DEF Approved, OnTarget
<1> QED BY <1>1, <1>2, <1>4, <1>5, <1>6, <1>7
-----------------------------------------------------------------------------
(* Every request starts with nothing read, nothing locked, nothing written. *)
LEMMA LockInit == Init => LockInv
<1> SUFFICES ASSUME Init PROVE LockInv
  OBVIOUS
<1> USE TxAssumption, RowAssumption DEF Init
<1>1. TypeOK
  <2>1. seen \in [Tx -> [Rows -> {"unread"}]]
    BY DEF Unread
  <2>2. moves \in [Unit -> Seq(Movement)]
    OBVIOUS
  <2>3. req \in [Tx -> Request]
    OBVIOUS
  <2>4. /\ unitState \in [Unit -> UnitStates] /\ overrideState \in [Override -> OverrideStates]
        /\ pullState \in [Pull -> PullStates]
    BY DEF UnitStates, OverrideStates, PullStates
  <2>5. \A p \in Pull : pullLine[p] \in [PullUnits[p] -> {"PENDING", "FULFILLED", "SHORT", "CANCELLED"}]
    OBVIOUS
  <2>6. lineId \in [Tx -> [Unit -> Nat]] /\ lock \in [Rows -> Tx \cup {None}] /\ checked \in [Tx -> SUBSET Unit]
    OBVIOUS
  <2> QED BY <2>1, <2>2, <2>3, <2>4, <2>5, <2>6 DEF TypeOK
<1>2. \A t \in Tx, r \in Rows : ~Read(t, r)
  BY DEF Read, Unread
<1>3. \A t \in Tx : ~Active(t) /\ ~Done(t) /\ pc[t] # "built" /\ checked[t] = {}
  BY DEF Active, Done
<1>4. RequestsGiven /\ ReadsHeld /\ SaleNamed /\ CheckStands /\ BuiltOnFindings
  BY <1>2, <1>3 DEF RequestsGiven, ReadsHeld, SaleNamed, CheckStands, BuiltOnFindings
<1>5. UnitsChecked
  BY <1>2, RowsAre DEF UnitsChecked
<1> QED BY <1>1, <1>4, <1>5 DEF LockInv

(* A step that moves a handler which has read nothing, to where it still   *)
(* has written nothing.                                                    *)
LEMMA MoveOn ==
  ASSUME LockInv, NEW t \in Tx, NEW q \in {"lock"} \cup (Outcomes \ {"done"}),
         pc[t] = "idle", pc' = [pc EXCEPT ![t] = q],
         q = "lock" /\ Is(t, "return") => IsSale(req[t].sale),
         UNCHANGED <<rows, lock, req, seen, checked>>
  PROVE  LockInv' /\ \A x \in Tx : Done(x)' = Done(x)
<1> USE DEF rows
<1>1. /\ \A x \in Tx : x # t => pc'[x] = pc[x]
      /\ pc'[t] = q /\ q \notin {"built", "done"}
  BY DEF LockInv, TypeOK, Outcomes
<1>2. \A x \in Tx : Done(x)' = Done(x)
  BY <1>1 DEF Done
<1>3. \A x \in Tx : \A r : Read(x, r)' = Read(x, r)
  BY DEF Read
<1>4. TypeOK'
  BY DEF LockInv, TypeOK, Outcomes
<1>5. ReadsHeld'
  <2>1. \A r \in Rows : ~Read(t, r)
    BY DEF LockInv, ReadsHeld, Active
  <2>2. \A r \in Rows : RowState(r)' = RowState(r)
    BY DEF RowState
  <2> QED BY <1>1, <1>3, <2>1, <2>2 DEF LockInv, ReadsHeld, Active
<1>6. SaleNamed'
  <2> SUFFICES ASSUME NEW x \in Tx, Is(x, "return")', (Active(x) \/ Done(x))'
               PROVE  IsSale(req[x].sale)'
    BY DEF SaleNamed
  <2>1. req[x].sale \in Tx /\ IsSale(req[x].sale)
    <3>1. CASE x = t
      BY <1>1, <3>1, RequestsAre DEF Is, Active, Done
    <3>2. CASE x # t
      BY <1>1, <3>2, RequestsAre DEF Is, Active, Done, LockInv, SaleNamed
    <3> QED BY <3>1, <3>2
  <2> QED BY <1>2, <2>1, SameDone
<1>7. CheckStands'
  <2>1. \A x \in Tx : \A u \in checked[x] : req[x].sale \in Tx /\ u \in Unit
    BY RequestsAre, TypesOf DEF LockInv, CheckStands
  <2> QED BY <1>2, <1>3, <2>1, SameDone DEF LockInv, CheckStands, Is
<1>8. UnitsChecked' /\ RequestsGiven'
  BY <1>3 DEF LockInv, UnitsChecked, RequestsGiven, Is
<1>9. BuiltOnFindings'
  <2> SUFFICES ASSUME NEW x \in Tx, pc'[x] = "built" PROVE Found(x)'
    BY DEF BuiltOnFindings
  <2>1. Found(x)
    BY <1>1 DEF LockInv, BuiltOnFindings
  <2> QED BY <1>2, <2>1, SameDone, SameSession, RequestsAre DEF Found, Is
<1> QED BY <1>2, <1>4, <1>5, <1>6, <1>7, <1>8, <1>9 DEF LockInv

(* A rollback leaves the committed rows and the other sessions alone.      *)
LEMMA RolledBack ==
  ASSUME LockInv, NEW t \in Tx, NEW o \in Outcomes \ {"done"}, Active(t), Abort(t, o)
  PROVE  LockInv' /\ \A x \in Tx : Done(x)' = Done(x)
<1>0. /\ pc' = [pc EXCEPT ![t] = o]
      /\ lock' = [r \in Rows |-> IF lock[r] = t THEN None ELSE lock[r]]
      /\ seen' = [seen EXCEPT ![t] = Unread]
      /\ checked' = [checked EXCEPT ![t] = {}]
      /\ UNCHANGED <<unitState, moves, overrideState, pullState, pullLine, lineId, req>>
  BY DEF Abort, EndSession, rows
<1>1. /\ \A x \in Tx : x # t => pc'[x] = pc[x] /\ seen'[x] = seen[x] /\ checked'[x] = checked[x]
      /\ pc'[t] = o /\ o \notin {"lock", "built", "done"} /\ seen'[t] = Unread /\ checked'[t] = {}
  BY <1>0 DEF LockInv, TypeOK, Outcomes
<1>2. \A x \in Tx : Done(x)' = Done(x)
  BY <1>1 DEF Done, Active
<1>3. /\ \A x \in Tx : x # t => \A r : Read(x, r)' = Read(x, r)
      /\ \A r \in Rows : ~Read(t, r)'
  BY <1>1 DEF Read, Unread
<1>4. TypeOK'
  <2>1. seen' \in [Tx -> [Rows -> {"unread", "read"} \cup UnitStates \cup PullStates \cup OverrideStates]]
    BY <1>0 DEF LockInv, TypeOK, Unread
  <2>2. lock' \in [Rows -> Tx \cup {None}] /\ checked' \in [Tx -> SUBSET Unit]
    BY <1>0 DEF LockInv, TypeOK
  <2>3. pc' \in [Tx -> {"idle", "lock", "built"} \cup Outcomes]
    BY <1>0 DEF LockInv, TypeOK
  <2> QED BY <1>0, <2>1, <2>2, <2>3 DEF LockInv, TypeOK
<1>5. ReadsHeld'
  <2>1. \A r \in Rows : RowState(r)' = RowState(r)
    BY <1>0 DEF RowState
  <2> SUFFICES ASSUME NEW x \in Tx, NEW r \in Rows, Read(x, r)'
               PROVE  lock'[r] = x /\ Active(x)' /\ seen'[x][r] = RowState(r)'
    BY DEF ReadsHeld
  <2>2. x # t /\ Read(x, r)
    BY <1>3
  <2> QED BY <1>0, <1>1, <2>1, <2>2 DEF LockInv, ReadsHeld, Active
<1>6. SaleNamed'
  <2> SUFFICES ASSUME NEW x \in Tx, Is(x, "return")', (Active(x) \/ Done(x))'
               PROVE  IsSale(req[x].sale)'
    BY DEF SaleNamed
  <2>1. x # t
    BY <1>1 DEF Active, Done
  <2>2. req[x].sale \in Tx /\ IsSale(req[x].sale)
    BY <1>0, <1>1, <2>1, RequestsAre DEF Is, Active, Done, LockInv, SaleNamed
  <2> QED BY <1>0, <1>2, <2>2, SameDone
<1>7. CheckStands'
  <2> SUFFICES ASSUME NEW x \in Tx, NEW u \in checked'[x]
               PROVE  /\ Is(x, "return")' /\ Read(x, LineRow(req[x].sale, u))'
                      /\ ~ReturnedBefore(req[x].sale, u)'
    BY <1>0 DEF CheckStands
  <2>1. x # t /\ u \in checked[x]
    BY <1>1
  <2>2. Is(x, "return") /\ Read(x, LineRow(req[x].sale, u)) /\ ~ReturnedBefore(req[x].sale, u)
    BY <2>1 DEF LockInv, CheckStands
  <2>3. req[x].sale \in Tx /\ u \in Unit
    BY <2>1, <2>2, RequestsAre, TypesOf
  <2> QED BY <1>0, <1>2, <1>3, <2>1, <2>2, <2>3, SameDone DEF Is
<1>8. UnitsChecked' /\ RequestsGiven'
  BY <1>0, <1>1, <1>3, RowsAre DEF LockInv, UnitsChecked, RequestsGiven, Is
<1>9. BuiltOnFindings'
  <2> SUFFICES ASSUME NEW x \in Tx, pc'[x] = "built" PROVE Found(x)'
    BY DEF BuiltOnFindings
  <2>1. x # t /\ Found(x)
    BY <1>1 DEF LockInv, BuiltOnFindings
  <2> QED BY <1>0, <1>1, <1>2, <2>1, SameDone, SameSession, RequestsAre DEF Found, Is
<1>10. pullLine' = [p \in Pull |-> pullLine'[p]]
  BY <1>0 DEF LockInv
<1> QED BY <1>2, <1>4, <1>5, <1>6, <1>7, <1>8, <1>9, <1>10 DEF LockInv

(* A return checks its lines one by one, each under the lock of the line.  *)
LEMMA LineChecked ==
  ASSUME LockInv, NEW t \in Tx, NEW u \in Unit, CheckLine(t, u)
  PROVE  LockInv' /\ \A x \in Tx : Done(x)' = Done(x)
<1>0. /\ pc[t] = "lock" /\ Is(t, "return") /\ NextRow(t, UnitRow(u))
      /\ ~ReturnedBefore(req[t].sale, u)
      /\ checked' = [checked EXCEPT ![t] = @ \cup {u}]
      /\ UNCHANGED <<unitState, moves, overrideState, pullState, pullLine, lineId, lock, req, pc, seen>>
  BY DEF CheckLine, NextUnitLine, rows
<1>1. checked'[t] = checked[t] \cup {u} /\ \A x \in Tx : x # t => checked'[x] = checked[x]
  BY <1>0 DEF LockInv, TypeOK
<1>2. \A x \in Tx : Done(x)' = Done(x)
  BY <1>0 DEF Done
<1>3. \A x \in Tx : \A r : Read(x, r)' = Read(x, r)
  BY <1>0 DEF Read
<1>4. req[t].sale \in Tx
  BY <1>0, RequestsAre
<1>5. Read(t, LineRow(req[t].sale, u))
  <2> DEFINE l == LineRow(req[t].sale, u)
  <2>1. UnitRow(u) \in Needs(t) /\ ~Read(t, UnitRow(u))
    BY <1>0 DEF NextRow
  <2>2. u \in UnitsOf(t)
    BY <2>1 DEF Needs, UnitRow, OverrideRow, PullRow, LineRow, KeyRow
  <2>3. l \in Needs(t)
    BY <1>0, <2>2 DEF Needs
  <2>4. Stage(t, UnitRow(u)) = 3 /\ Stage(t, l) = 1
    <3>1. TableOrder(req[t].kind) = <<"line", "key", "unit">>
      BY <1>0 DEF TableOrder, Is
    <3>2. UnitRow(u)[1] = "unit" /\ l[1] = "line"
      BY <1>4, RowsAre
    <3> HIDE DEF l
    <3>3. /\ DOMAIN <<"line", "key", "unit">> = 1..3
          /\ \A i \in 1..3 : (<<"line", "key", "unit">>[i] = "unit" <=> i = 3)
                          /\ (<<"line", "key", "unit">>[i] = "line" <=> i = 1)
      OBVIOUS
    <3> QED BY <3>1, <3>2, <3>3 DEF Stage
  <2> QED BY <1>0, <2>3, <2>4 DEF NextRow
<1>6. TypeOK'
  BY <1>0 DEF LockInv, TypeOK
<1>7. ReadsHeld'
  BY <1>0, <1>3 DEF LockInv, ReadsHeld, Active, RowState
<1>8. SaleNamed'
  <2> SUFFICES ASSUME NEW x \in Tx, Is(x, "return")', (Active(x) \/ Done(x))'
               PROVE  IsSale(req[x].sale)'
    BY DEF SaleNamed
  <2>1. req[x].sale \in Tx /\ IsSale(req[x].sale)
    BY <1>0, RequestsAre DEF Is, Active, Done, LockInv, SaleNamed
  <2> QED BY <1>0, <1>2, <2>1, SameDone
<1>9. CheckStands'
  <2> SUFFICES ASSUME NEW x \in Tx, NEW v \in checked'[x]
               PROVE  /\ Is(x, "return")' /\ Read(x, LineRow(req[x].sale, v))'
                      /\ ~ReturnedBefore(req[x].sale, v)'
    BY <1>0 DEF CheckStands
  <2>1. Is(x, "return") /\ Read(x, LineRow(req[x].sale, v)) /\ ~ReturnedBefore(req[x].sale, v)
    <3>1. CASE x = t /\ v = u
      BY <1>0, <1>5, <3>1
    <3>2. CASE v \in checked[x]
      BY <3>2 DEF LockInv, CheckStands
    <3> QED BY <1>1, <3>1, <3>2
  <2>2. req[x].sale \in Tx /\ v \in Unit
    BY <1>1, <2>1, RequestsAre, TypesOf
  <2> QED BY <1>0, <1>2, <1>3, <2>1, <2>2, SameDone DEF Is
<1>10. UnitsChecked' /\ RequestsGiven'
  BY <1>0, <1>1, <1>3 DEF LockInv, UnitsChecked, RequestsGiven, Is
<1>11. BuiltOnFindings'
  <2> SUFFICES ASSUME NEW x \in Tx, pc'[x] = "built" PROVE Found(x)'
    BY DEF BuiltOnFindings
  <2>1. Found(x)
    BY <1>0 DEF LockInv, BuiltOnFindings
  <2> QED BY <1>0, <1>2, <2>1, SameDone, SameSession, RequestsAre DEF Found, Is
<1>12. pullLine' = [p \in Pull |-> pullLine'[p]]
  BY <1>0 DEF LockInv
<1> QED BY <1>2, <1>6, <1>7, <1>8, <1>9, <1>10, <1>11, <1>12 DEF LockInv

(* A lock is taken on a free row, and what is read under it is what the    *)
(* row is.                                                                 *)
LEMMA RowLocked ==
  ASSUME LockInv, NEW t \in Tx, NEW r \in Needs(t), LockRow(t, r)
  PROVE  LockInv' /\ \A x \in Tx : Done(x)' = Done(x)
<1>0. /\ pc[t] = "lock" /\ lock[r] = None
      /\ r[1] = "unit" /\ Is(t, "return") => r[2] \in checked[t]
      /\ lock' = [lock EXCEPT ![r] = t]
      /\ seen' = [seen EXCEPT ![t] = [seen[t] EXCEPT ![r] = RowState(r)]]
      /\ UNCHANGED <<unitState, moves, overrideState, pullState, pullLine, lineId, req, pc, checked>>
  BY DEF LockRow, Free, rows
<1>1. r \in Rows
  <2>1. UnitsOf(t) \subseteq Unit
    BY RequestsAre, TypesOf DEF UnitsOf, Is
  <2>2. req[t].kind \in Keyed => KeyRow(req[t]) \in Rows
    BY RequestsAre, RowsAre
  <2>3. Is(t, "return") => \A u \in UnitsOf(t) : LineRow(req[t].sale, u) \in Rows
    BY <2>1, RequestsAre, RowsAre
  <2>4. Cited(t) \subseteq Override
    BY RequestsAre
  <2> QED BY <2>1, <2>2, <2>3, <2>4, RowsAre DEF Needs
<1>2. RowState(r) \in {"read"} \cup UnitStates \cup PullStates \cup OverrideStates
  BY <1>1 DEF RowState, Rows, LockInv, TypeOK
<1>3. /\ \A x \in Tx : x # t => seen'[x] = seen[x]
      /\ seen'[t][r] = RowState(r)
      /\ \A q \in Rows : q # r => seen'[t][q] = seen[t][q]
  BY <1>0, <1>1, TypesOf DEF LockInv, TypeOK
<1>4. \A x \in Tx : Done(x)' = Done(x)
  BY <1>0 DEF Done
<1>5. /\ \A x \in Tx : x # t => \A q : Read(x, q)' = Read(x, q)
      /\ \A q \in Rows : Read(t, q)' <=> Read(t, q) \/ q = r
  BY <1>2, <1>3 DEF Read, UnitStates, PullStates, OverrideStates
<1>6. TypeOK'
  <2>1. [seen[t] EXCEPT ![r] = RowState(r)]
          \in [Rows -> {"unread", "read"} \cup UnitStates \cup PullStates \cup OverrideStates]
    BY <1>2, TypesOf
  <2>2. seen' \in [Tx -> [Rows -> {"unread", "read"} \cup UnitStates \cup PullStates \cup OverrideStates]]
    BY <1>0, <2>1 DEF LockInv, TypeOK
  <2>3. lock' \in [Rows -> Tx \cup {None}]
    BY <1>0 DEF LockInv, TypeOK
  <2> QED BY <1>0, <2>2, <2>3 DEF LockInv, TypeOK
<1>7. ReadsHeld'
  <2>1. \A q \in Rows : RowState(q)' = RowState(q)
    BY <1>0 DEF RowState
  <2> SUFFICES ASSUME NEW x \in Tx, NEW q \in Rows, Read(x, q)'
               PROVE  lock'[q] = x /\ Active(x)' /\ seen'[x][q] = RowState(q)'
    BY DEF ReadsHeld
  <2>2. CASE x = t /\ q = r
    BY <1>0, <1>1, <1>3, <2>1, <2>2 DEF LockInv, TypeOK, Active
  <2>3. CASE ~(x = t /\ q = r)
    <3>1. Read(x, q)
      BY <1>5, <2>3
    <3>2. lock[q] = x /\ Active(x) /\ seen[x][q] = RowState(q)
      BY <3>1 DEF LockInv, ReadsHeld
    <3>3. q # r
      BY <1>0, <3>2, TypesOf
    <3>4. seen'[x][q] = seen[x][q]
      BY <1>3, <3>3
    <3> QED BY <1>0, <2>1, <3>2, <3>3, <3>4 DEF LockInv, TypeOK, Active
  <2> QED BY <2>2, <2>3
<1>8. SaleNamed'
  <2> SUFFICES ASSUME NEW x \in Tx, Is(x, "return")', (Active(x) \/ Done(x))'
               PROVE  IsSale(req[x].sale)'
    BY DEF SaleNamed
  <2>1. req[x].sale \in Tx /\ IsSale(req[x].sale)
    BY <1>0, RequestsAre DEF Is, Active, Done, LockInv, SaleNamed
  <2> QED BY <1>0, <1>4, <2>1, SameDone
<1>9. CheckStands'
  <2> SUFFICES ASSUME NEW x \in Tx, NEW v \in checked[x]
               PROVE  /\ Is(x, "return")' /\ Read(x, LineRow(req[x].sale, v))'
                      /\ ~ReturnedBefore(req[x].sale, v)'
    BY <1>0 DEF CheckStands
  <2>1. Is(x, "return") /\ Read(x, LineRow(req[x].sale, v)) /\ ~ReturnedBefore(req[x].sale, v)
    BY DEF LockInv, CheckStands
  <2>2. req[x].sale \in Tx /\ v \in Unit /\ LineRow(req[x].sale, v) \in Rows
    BY <2>1, RequestsAre, TypesOf, RowsAre
  <2> QED BY <1>0, <1>4, <1>5, <2>1, <2>2, SameDone DEF Is
<1>10. UnitsChecked' /\ RequestsGiven'
  <2>1. UnitsChecked'
    <3> SUFFICES ASSUME NEW x \in Tx, NEW u \in Unit, Is(x, "return"), Read(x, UnitRow(u))'
                 PROVE  u \in checked[x]
      BY <1>0 DEF UnitsChecked, Is
    <3>1. UnitRow(u) \in Rows /\ UnitRow(u)[1] = "unit" /\ UnitRow(u)[2] = u
      BY RowsAre
    <3>2. CASE Read(x, UnitRow(u))
      BY <3>2 DEF LockInv, UnitsChecked
    <3>3. CASE ~Read(x, UnitRow(u))
      BY <1>0, <1>5, <3>1, <3>3
    <3> QED BY <3>2, <3>3
  <2> QED BY <1>0, <2>1 DEF LockInv, RequestsGiven
<1>11. BuiltOnFindings'
  <2> SUFFICES ASSUME NEW x \in Tx, pc'[x] = "built" PROVE Found(x)'
    BY DEF BuiltOnFindings
  <2>1. x # t /\ Found(x)
    BY <1>0 DEF LockInv, BuiltOnFindings
  <2> QED BY <1>0, <1>3, <1>4, <2>1, SameDone, SameSession, RequestsAre DEF Found, Is
<1>12. pullLine' = [p \in Pull |-> pullLine'[p]]
  BY <1>0 DEF LockInv
<1> QED BY <1>4, <1>6, <1>7, <1>8, <1>9, <1>10, <1>11, <1>12 DEF LockInv

(* A request is built once nothing it has read stands against it.          *)
LEMMA Built ==
  ASSUME LockInv, NEW t \in Tx, Build(t)
  PROVE  LockInv' /\ \A x \in Tx : Done(x)' = Done(x)
<1>0. /\ pc[t] = "lock" /\ AllRead(t) /\ Verdict(t) = "go" /\ pc' = [pc EXCEPT ![t] = "built"]
      /\ UNCHANGED <<unitState, moves, overrideState, pullState, pullLine, lineId, lock, req, seen, checked>>
  BY DEF Build, rows
<1>1. pc'[t] = "built" /\ \A x \in Tx : x # t => pc'[x] = pc[x]
  BY <1>0 DEF LockInv, TypeOK
<1>2. \A x \in Tx : Done(x)' = Done(x)
  BY <1>0, <1>1 DEF Done
<1>3. \A x \in Tx : \A r : Read(x, r)' = Read(x, r)
  BY <1>0 DEF Read
<1>4. TypeOK'
  BY <1>0 DEF LockInv, TypeOK
<1>5. ReadsHeld'
  BY <1>0, <1>1, <1>3 DEF LockInv, ReadsHeld, Active, RowState
<1>6. SaleNamed'
  <2> SUFFICES ASSUME NEW x \in Tx, Is(x, "return")', (Active(x) \/ Done(x))'
               PROVE  IsSale(req[x].sale)'
    BY DEF SaleNamed
  <2>1. req[x].sale \in Tx /\ IsSale(req[x].sale)
    BY <1>0, <1>1, RequestsAre DEF Is, Active, Done, LockInv, SaleNamed
  <2> QED BY <1>0, <1>2, <2>1, SameDone
<1>7. CheckStands'
  <2> SUFFICES ASSUME NEW x \in Tx, NEW v \in checked[x]
               PROVE  /\ Is(x, "return")' /\ Read(x, LineRow(req[x].sale, v))'
                      /\ ~ReturnedBefore(req[x].sale, v)'
    BY <1>0 DEF CheckStands
  <2>1. Is(x, "return") /\ Read(x, LineRow(req[x].sale, v)) /\ ~ReturnedBefore(req[x].sale, v)
    BY DEF LockInv, CheckStands
  <2>2. req[x].sale \in Tx /\ v \in Unit
    BY <2>1, RequestsAre, TypesOf
  <2> QED BY <1>0, <1>2, <1>3, <2>1, <2>2, SameDone DEF Is
<1>8. UnitsChecked' /\ RequestsGiven'
  BY <1>0, <1>3 DEF LockInv, UnitsChecked, RequestsGiven, Is
<1>9. BuiltOnFindings'
  <2> SUFFICES ASSUME NEW x \in Tx, pc'[x] = "built" PROVE Found(x)'
    BY DEF BuiltOnFindings
  <2>1. Found(x)
    BY <1>0, <1>1, GoFinds DEF LockInv, BuiltOnFindings
  <2> QED BY <1>0, <1>2, <2>1, SameDone, SameSession, RequestsAre DEF Found, Is
<1>10. pullLine' = [p \in Pull |-> pullLine'[p]]
  BY <1>0 DEF LockInv
<1> QED BY <1>2, <1>4, <1>5, <1>6, <1>7, <1>8, <1>9, <1>10 DEF LockInv

(* What a handler that is about to commit holds, and so may write.         *)
LEMMA HoldsWhatItWrites ==
  ASSUME LockInv, NEW t \in Tx, pc[t] = "built"
  PROVE  /\ Found(t)
         /\ \A u \in UnitsOf(t) : u \in Unit /\ lock[UnitRow(u)] = t
                                  /\ SeenUnit(t, u) = unitState[u]
         /\ \A o \in Cited(t) : o \in Override /\ lock[OverrideRow(o)] = t
                                /\ seen[t][OverrideRow(o)] = overrideState[o]
         /\ req[t].kind \in {"fulfil", "cancel"} =>
              /\ req[t].pull \in Pull /\ lock[PullRow(req[t].pull)] = t
              /\ seen[t][PullRow(req[t].pull)] = pullState[req[t].pull]
         /\ Is(t, "return") =>
              \A u \in req[t].units : lock[LineRow(req[t].sale, u)] = t
         /\ Moved(t) \subseteq UnitsOf(t)
         /\ req[t].kind \notin {"sale", "return", "fulfil", "adjust"} => UnitsOf(t) = {}
<1>1. Found(t) /\ AllRead(t)
  BY DEF LockInv, BuiltOnFindings, Found
<1>2. UnitsOf(t) \subseteq Unit
  BY RequestsAre, TypesOf DEF UnitsOf, Is
<1>3. \A r \in Rows : r \in Needs(t) => lock[r] = t /\ seen[t][r] = RowState(r)
  BY <1>1 DEF AllRead, LockInv, ReadsHeld
<1>4. \A u \in UnitsOf(t) : u \in Unit /\ lock[UnitRow(u)] = t /\ SeenUnit(t, u) = unitState[u]
  <2> SUFFICES ASSUME NEW u \in UnitsOf(t)
               PROVE  lock[UnitRow(u)] = t /\ SeenUnit(t, u) = unitState[u]
    BY <1>2
  <2>1. UnitRow(u) \in Needs(t)
    BY DEF Needs
  <2>2. UnitRow(u) \in Rows /\ UnitRow(u)[1] = "unit" /\ UnitRow(u)[2] = u
    BY <1>2, RowsAre
  <2> QED BY <1>3, <2>1, <2>2 DEF RowState, SeenUnit
<1>5. \A o \in Cited(t) : o \in Override /\ lock[OverrideRow(o)] = t
                          /\ seen[t][OverrideRow(o)] = overrideState[o]
  <2> SUFFICES ASSUME NEW o \in Cited(t)
               PROVE  o \in Override /\ lock[OverrideRow(o)] = t
                      /\ seen[t][OverrideRow(o)] = overrideState[o]
    OBVIOUS
  <2>1. OverrideRow(o) \in Needs(t) /\ o \in Override
    BY RequestsAre DEF Needs
  <2>2. OverrideRow(o) \in Rows /\ OverrideRow(o)[1] = "override" /\ OverrideRow(o)[2] = o
    BY <2>1, RowsAre
  <2> QED BY <1>3, <2>1, <2>2 DEF RowState
<1>6. req[t].kind \in {"fulfil", "cancel"} =>
        /\ req[t].pull \in Pull /\ lock[PullRow(req[t].pull)] = t
        /\ seen[t][PullRow(req[t].pull)] = pullState[req[t].pull]
  <2> SUFFICES ASSUME req[t].kind \in {"fulfil", "cancel"}
               PROVE  req[t].pull \in Pull /\ lock[PullRow(req[t].pull)] = t
                      /\ seen[t][PullRow(req[t].pull)] = pullState[req[t].pull]
    OBVIOUS
  <2> DEFINE p == req[t].pull
  <2>1. PullRow(p) \in Needs(t) /\ p \in Pull
    BY RequestsAre DEF Needs
  <2>2. PullRow(p) \in Rows /\ PullRow(p)[1] = "pull" /\ PullRow(p)[2] = p
    BY <2>1, RowsAre
  <2> QED BY <1>3, <2>1, <2>2 DEF RowState
<1>7. Is(t, "return") => \A u \in req[t].units : lock[LineRow(req[t].sale, u)] = t
  <2> SUFFICES ASSUME Is(t, "return"), NEW u \in req[t].units
               PROVE  lock[LineRow(req[t].sale, u)] = t
    OBVIOUS
  <2>1. u \in UnitsOf(t)
    BY <1>1 DEF Found
  <2>2. LineRow(req[t].sale, u) \in Needs(t)
    BY <2>1 DEF Needs
  <2>3. LineRow(req[t].sale, u) \in Rows
    BY <1>2, <2>1, RequestsAre, RowsAre
  <2> QED BY <1>3, <2>2, <2>3
<1>8. Moved(t) \subseteq UnitsOf(t)
  BY DEF Moved
<1>9. req[t].kind \notin {"sale", "return", "fulfil", "adjust"} => UnitsOf(t) = {}
  BY RequestsAre DEF UnitsOf, Is, Kinds, Keyed
<1> QED BY <1>1, <1>4, <1>5, <1>6, <1>7, <1>8, <1>9

(* Nobody else has read a row that a commit writes.                        *)
LEMMA CommitWrites ==
  ASSUME LockInv, NEW t \in Tx, Commit(t)
  PROVE  /\ pc[t] = "built" /\ UNCHANGED req
         /\ pc'[t] = "done" /\ seen'[t] = Unread /\ checked'[t] = {}
         /\ \A x \in Tx : x # t => /\ pc'[x] = pc[x] /\ seen'[x] = seen[x]
                                   /\ checked'[x] = checked[x]
         /\ \A r \in Rows : lock[r] # t => lock'[r] = lock[r] /\ RowState(r)' = RowState(r)
         /\ lock' \in [Rows -> Tx \cup {None}]
<1>0. /\ pc[t] = "built" /\ UNCHANGED req
      /\ WriteUnits(t) /\ WritePull(t) /\ WriteOverrides(t)
      /\ pc' = [pc EXCEPT ![t] = "done"]
      /\ lock' = [r \in Rows |-> IF lock[r] = t /\ r[1] # "key" THEN None ELSE lock[r]]
      /\ seen' = [seen EXCEPT ![t] = Unread]
      /\ checked' = [checked EXCEPT ![t] = {}]
  BY DEF Commit, EndSession, Releases
<1>1. /\ pc'[t] = "done" /\ seen'[t] = Unread /\ checked'[t] = {}
      /\ \A x \in Tx : x # t => pc'[x] = pc[x] /\ seen'[x] = seen[x] /\ checked'[x] = checked[x]
  BY <1>0 DEF LockInv, TypeOK
<1>2. lock' \in [Rows -> Tx \cup {None}] /\ \A r \in Rows : lock[r] # t => lock'[r] = lock[r]
  BY <1>0 DEF LockInv, TypeOK
<1>3. ASSUME NEW r \in Rows, lock[r] # t PROVE RowState(r)' = RowState(r)
  <2>1. CASE r[1] = "unit"
    <3>1. PICK u \in Unit : r = UnitRow(u)
      BY <2>1 DEF Rows, UnitRow
    <3>2. r[1] = "unit" /\ r[2] = u
      BY <3>1, RowsAre
    <3>3. u \notin Moved(t)
      BY <1>0, <1>3, <3>1, HoldsWhatItWrites
    <3>4. unitState'[u] = unitState[u]
      BY <1>0, <3>3 DEF WriteUnits
    <3> QED BY <3>2, <3>4 DEF RowState
  <2>2. CASE r[1] = "pull"
    <3>1. PICK p \in Pull : r = PullRow(p)
      BY <2>2 DEF Rows, PullRow
    <3>2. r[1] = "pull" /\ r[2] = p
      BY <3>1, RowsAre
    <3>3. ~(req[t].kind \in {"fulfil", "cancel"} /\ p = req[t].pull)
      BY <1>0, <1>3, <3>1, HoldsWhatItWrites
    <3>4. pullState'[p] = pullState[p]
      BY <1>0, <3>3 DEF WritePull, Is, LockInv, TypeOK
    <3> QED BY <3>2, <3>4 DEF RowState
  <2>3. CASE r[1] = "override"
    <3>1. PICK o \in Override : r = OverrideRow(o)
      BY <2>3 DEF Rows, OverrideRow
    <3>2. r[1] = "override" /\ r[2] = o
      BY <3>1, RowsAre
    <3>3. o \notin Cited(t)
      BY <1>0, <1>3, <3>1, HoldsWhatItWrites
    <3>4. overrideState'[o] = overrideState[o]
      BY <1>0, <3>3 DEF WriteOverrides
    <3> QED BY <3>2, <3>4 DEF RowState
  <2>4. CASE r[1] \notin {"unit", "pull", "override"}
    BY <2>4 DEF RowState
  <2> QED BY <2>1, <2>2, <2>3, <2>4
<1> QED BY <1>0, <1>1, <1>2, <1>3

LEMMA CommitTypes ==
  ASSUME LockInv, NEW t \in Tx, Commit(t)
  PROVE  TypeOK' /\ pullLine' = [p \in Pull |-> pullLine'[p]]
<1>0. /\ pc[t] = "built" /\ WriteUnits(t) /\ WritePull(t) /\ WriteOverrides(t) /\ UNCHANGED req
      /\ pc' = [pc EXCEPT ![t] = "done"]
      /\ seen' = [seen EXCEPT ![t] = Unread]
      /\ checked' = [checked EXCEPT ![t] = {}]
      /\ IF Is(t, "sale") /\ Cardinality(req[t].units) > 1
         THEN \E f \in LineOrders : lineId' = [lineId EXCEPT ![t] = f]
         ELSE lineId' = lineId
  BY DEF Commit, EndSession
<1>1. Moved(t) # {} => /\ Event(t) \in (UnitStates \ {"IN_STOCK"}) \cup {"RETURNED"}
                       /\ Document(t) \in ({"sale", "adjust"} \X Tx) \cup ({"pull"} \X Pull)
  <2> SUFFICES ASSUME Moved(t) # {}
               PROVE  /\ Event(t) \in (UnitStates \ {"IN_STOCK"}) \cup {"RETURNED"}
                      /\ Document(t) \in ({"sale", "adjust"} \X Tx) \cup ({"pull"} \X Pull)
    OBVIOUS
  <2>1. req[t].kind \in {"sale", "return", "fulfil", "adjust"}
    BY <1>0, HoldsWhatItWrites
  <2> QED BY <2>1, RequestsAre DEF Event, Document, Is, UnitStates
<1>2. unitState' \in [Unit -> UnitStates]
  BY <1>0, <1>1 DEF WriteUnits, StateAfter, LockInv, TypeOK, UnitStates
<1>3. moves' \in [Unit -> Seq(Movement)]
  <2> SUFFICES ASSUME NEW u \in Unit PROVE moves'[u] \in Seq(Movement)
    BY <1>0 DEF WriteUnits
  <2>1. moves[u] \in Seq(Movement)
    BY DEF LockInv, TypeOK
  <2>2. CASE u \in Moved(t)
    <3>1. [event |-> Event(t), doc |-> Document(t)] \in Movement
      BY <1>1, <2>2 DEF Movement
    <3> QED BY <1>0, <2>1, <2>2, <3>1 DEF WriteUnits
  <2>3. CASE u \notin Moved(t)
    BY <1>0, <2>1, <2>3 DEF WriteUnits
  <2> QED BY <2>2, <2>3
<1>4. overrideState' \in [Override -> OverrideStates]
  BY <1>0 DEF WriteOverrides, LockInv, TypeOK, OverrideStates
<1>5. /\ pullState' \in [Pull -> PullStates] /\ pullLine' = [p \in Pull |-> pullLine'[p]]
      /\ \A p \in Pull : pullLine'[p] \in [PullUnits[p] -> {"PENDING", "FULFILLED", "SHORT", "CANCELLED"}]
  <2> DEFINE p == req[t].pull
             LineStates == {"PENDING", "FULFILLED", "SHORT", "CANCELLED"}
  <2>0. /\ pullState \in [Pull -> PullStates] /\ pullLine = [q \in Pull |-> pullLine[q]]
        /\ \A q \in Pull : pullLine[q] \in [PullUnits[q] -> LineStates]
    BY DEF LockInv, TypeOK
  <2>1. CASE Is(t, "fulfil")
    <3>1. p \in Pull
      BY <2>1, RequestsAre DEF Is
    <3>2. FulfilLines(t) \in [PullUnits[p] -> LineStates]
      BY DEF FulfilLines
    <3>3. /\ pullLine' = [pullLine EXCEPT ![p] = FulfilLines(t)]
          /\ pullState' = [pullState EXCEPT ![p] = IF AllFulfilled(t) THEN "FULFILLED" ELSE "SHORT"]
      BY <1>0, <2>1 DEF WritePull, Is
    <3> HIDE DEF p
    <3>4. pullState' \in [Pull -> PullStates]
      BY <2>0, <3>1, <3>3 DEF PullStates
    <3>5. /\ pullLine' = [q \in Pull |-> pullLine'[q]]
          /\ \A q \in Pull : pullLine'[q] \in [PullUnits[q] -> LineStates]
      BY <2>0, <3>1, <3>2, <3>3
    <3> QED BY <3>4, <3>5
  <2>2. CASE Is(t, "cancel")
    <3>1. p \in Pull
      BY <2>2, RequestsAre DEF Is
    <3>2. CancelLines(p) \in [PullUnits[p] -> LineStates]
      BY <2>0, <3>1 DEF CancelLines
    <3>3. /\ pullLine' = [pullLine EXCEPT ![p] = CancelLines(p)]
          /\ pullState' = [pullState EXCEPT ![p] = "CANCELLED"]
      BY <1>0, <2>2 DEF WritePull, Is
    <3> HIDE DEF p
    <3>4. pullState' \in [Pull -> PullStates]
      BY <2>0, <3>1, <3>3 DEF PullStates
    <3>5. /\ pullLine' = [q \in Pull |-> pullLine'[q]]
          /\ \A q \in Pull : pullLine'[q] \in [PullUnits[q] -> LineStates]
      BY <2>0, <3>1, <3>2, <3>3
    <3> QED BY <3>4, <3>5
  <2>3. CASE ~Is(t, "fulfil") /\ ~Is(t, "cancel")
    BY <1>0, <2>0, <2>3 DEF WritePull
  <2> QED BY <2>1, <2>2, <2>3
<1>6. lineId' \in [Tx -> [Unit -> Nat]]
  <2>1. Cardinality(Unit) \in Nat
    BY OrderAssumption, FS_CardinalityType
  <2>2. LineOrders \subseteq [Unit -> Nat]
    BY <2>1 DEF LineOrders
  <2> QED BY <1>0, <2>2 DEF LockInv, TypeOK
<1>7. seen' \in [Tx -> [Rows -> {"unread", "read"} \cup UnitStates \cup PullStates \cup OverrideStates]]
  BY <1>0 DEF LockInv, TypeOK, Unread
<1>8. pc' \in [Tx -> {"idle", "lock", "built"} \cup Outcomes] /\ checked' \in [Tx -> SUBSET Unit]
  BY <1>0 DEF LockInv, TypeOK, Outcomes
<1>9. lock' \in [Rows -> Tx \cup {None}] /\ req' \in [Tx -> Request]
  BY <1>0, CommitWrites DEF LockInv, TypeOK
<1> QED BY <1>2, <1>3, <1>4, <1>5, <1>6, <1>7, <1>8, <1>9 DEF TypeOK

(* A commit leaves every other handler with what it has found.             *)
LEMMA Committed ==
  ASSUME LockInv, NEW t \in Tx, Commit(t)
  PROVE  LockInv'
<1>0. /\ pc[t] = "built" /\ UNCHANGED req /\ Found(t)
      /\ pc'[t] = "done" /\ seen'[t] = Unread /\ checked'[t] = {}
      /\ \A x \in Tx : x # t => pc'[x] = pc[x] /\ seen'[x] = seen[x] /\ checked'[x] = checked[x]
      /\ \A r \in Rows : lock[r] # t => lock'[r] = lock[r] /\ RowState(r)' = RowState(r)
  BY CommitWrites, HoldsWhatItWrites
<1>1. TypeOK' /\ pullLine' = [p \in Pull |-> pullLine'[p]]
  BY CommitTypes
<1>2. /\ \A r \in Rows : ~Read(t, r)'
      /\ \A x \in Tx : x # t => \A r : Read(x, r)' = Read(x, r)
  BY <1>0 DEF Read, Unread
<1>3. \A x \in Tx, r \in Rows : x # t /\ Read(x, r) => lock[r] = x
  BY DEF LockInv, ReadsHeld
<1>4. \A x \in Tx : Done(x)' <=> Done(x) \/ x = t
  BY <1>0 DEF Done
<1>5. \A s \in Tx : IsSale(s) => IsSale(s)'
  BY <1>0, <1>4 DEF IsSale, Is
<1>6. ReadsHeld'
  <2> SUFFICES ASSUME NEW x \in Tx, NEW r \in Rows, Read(x, r)'
               PROVE  lock'[r] = x /\ Active(x)' /\ seen'[x][r] = RowState(r)'
    BY DEF ReadsHeld
  <2>1. x # t /\ Read(x, r) /\ lock[r] = x /\ Active(x) /\ seen[x][r] = RowState(r)
    BY <1>2 DEF LockInv, ReadsHeld
  <2> QED BY <1>0, <2>1 DEF Active
<1>7. SaleNamed'
  <2> SUFFICES ASSUME NEW x \in Tx, Is(x, "return")', (Active(x) \/ Done(x))'
               PROVE  IsSale(req[x].sale)'
    BY DEF SaleNamed
  <2>1. req[x].sale \in Tx /\ IsSale(req[x].sale)
    BY <1>0, RequestsAre DEF Is, Active, Done, LockInv, SaleNamed
  <2> QED BY <1>0, <1>5, <2>1
<1>8. CheckStands'
  <2> SUFFICES ASSUME NEW x \in Tx, NEW v \in checked'[x]
               PROVE  /\ Is(x, "return")' /\ Read(x, LineRow(req[x].sale, v))'
                      /\ ~ReturnedBefore(req[x].sale, v)'
    BY <1>0 DEF CheckStands
  <2> DEFINE s == req[x].sale
  <2>1. x # t /\ v \in checked[x]
    BY <1>0
  <2>2. Is(x, "return") /\ Read(x, LineRow(s, v)) /\ ~ReturnedBefore(s, v)
    BY <2>1 DEF LockInv, CheckStands
  <2>3. s \in Tx /\ v \in Unit /\ LineRow(s, v) \in Rows
    BY <2>1, <2>2, RequestsAre, TypesOf, RowsAre
  <2>4. ~(Is(t, "return") /\ req[t].sale = s /\ v \in req[t].units)
    BY <1>0, <1>3, <2>1, <2>2, <2>3, HoldsWhatItWrites
  <2>5. ~ReturnedBefore(s, v)'
    BY <1>0, <1>4, <2>2, <2>4 DEF ReturnedBefore, IsReturnOf, Is
  <2> QED BY <1>0, <1>2, <2>1, <2>2, <2>5 DEF Is
<1>9. UnitsChecked' /\ RequestsGiven'
  BY <1>0, <1>2, RowsAre DEF LockInv, UnitsChecked, RequestsGiven, Is
<1>10. BuiltOnFindings'
  <2> SUFFICES ASSUME NEW x \in Tx, pc'[x] = "built" PROVE Found(x)'
    BY DEF BuiltOnFindings
  <2>1. x # t /\ pc[x] = "built" /\ Found(x)
    BY <1>0 DEF LockInv, BuiltOnFindings
  <2>2. ASSUME NEW o \in Cited(x), ~AlreadyConsumed(o)
        PROVE  ~AlreadyConsumed(o)'
    <3>1. o \notin Cited(t)
      BY <1>0, <2>1, HoldsWhatItWrites
    <3> QED BY <1>0, <1>4, <2>2, <3>1 DEF AlreadyConsumed, Consumes, Cited
  <2>3. Cited(x)' = Cited(x)
    BY <1>0 DEF Cited
  <2> QED BY <1>0, <2>1, <2>2, <2>3, SameSession DEF Found, Is
<1> QED BY <1>1, <1>6, <1>7, <1>8, <1>9, <1>10 DEF LockInv

(* Every step either writes nothing and leaves everybody done who was, or  *)
(* is a commit.                                                            *)
LEMMA StepsAre ==
  ASSUME LockInv, [Next]_vars
  PROVE  /\ LockInv'
         /\ \/ UNCHANGED <<rows, req>> /\ \A x \in Tx : Done(x)' = Done(x)
            \/ \E t \in Tx : Commit(t)
<1>1. CASE UNCHANGED vars
  <2>0. UNCHANGED <<unitState, moves, overrideState, pullState, pullLine, lineId, lock, req, pc, seen, checked>>
    BY <1>1 DEF vars
  <2>1. \A x \in Tx : Done(x)' = Done(x)
    BY <2>0 DEF Done
  <2>2. \A x \in Tx : \A r : Read(x, r)' = Read(x, r)
    BY <2>0 DEF Read
  <2>3. TypeOK' /\ RequestsGiven' /\ pullLine' = [p \in Pull |-> pullLine'[p]]
    BY <2>0 DEF LockInv, TypeOK, RequestsGiven
  <2>4. ReadsHeld'
    BY <2>0, <2>2 DEF LockInv, ReadsHeld, RowState, Active
  <2>5. SaleNamed'
    BY <2>0, <2>1, SameDone, RequestsAre DEF LockInv, SaleNamed, Is, Active, Done
  <2>6. CheckStands' /\ UnitsChecked'
    <3>1. \A x \in Tx : \A v \in checked[x] : req[x].sale \in Tx /\ v \in Unit
      BY RequestsAre, TypesOf DEF LockInv, CheckStands
    <3> QED BY <2>0, <2>1, <2>2, <3>1, SameDone DEF LockInv, CheckStands, UnitsChecked, Is
  <2>7. BuiltOnFindings'
    <3> SUFFICES ASSUME NEW x \in Tx, pc'[x] = "built" PROVE Found(x)'
      BY DEF BuiltOnFindings
    <3>1. Found(x)
      BY <2>0 DEF LockInv, BuiltOnFindings
    <3> QED BY <2>0, <2>1, <3>1, SameDone, SameSession, RequestsAre DEF Found, Is
  <2> QED BY <2>0, <2>1, <2>3, <2>4, <2>5, <2>6, <2>7 DEF LockInv, rows
<1>2. ASSUME NEW t \in Tx, Replay(t)
      PROVE  LockInv' /\ UNCHANGED <<rows, req>> /\ \A x \in Tx : Done(x)' = Done(x)
  <2> DEFINE q == IF req[lock[KeyRow(req[t])]].sale = req[t].sale THEN "replayed" ELSE "conflict"
  <2>1. q \in Outcomes \ {"done"} /\ q # "lock"
    BY DEF Outcomes
  <2>2. pc[t] = "idle" /\ AnswerAtOnce(t, q)
    BY <1>2 DEF Replay
  <2> HIDE DEF q
  <2> QED BY <2>1, <2>2, MoveOn DEF AnswerAtOnce
<1>3. ASSUME NEW t \in Tx, NoSuchSale(t)
      PROVE  LockInv' /\ UNCHANGED <<rows, req>> /\ \A x \in Tx : Done(x)' = Done(x)
  BY <1>3, MoveOn DEF NoSuchSale, AnswerAtOnce, Outcomes
<1>4. ASSUME NEW t \in Tx, Begin(t)
      PROVE  LockInv' /\ UNCHANGED <<rows, req>> /\ \A x \in Tx : Done(x)' = Done(x)
  BY <1>4, MoveOn DEF Begin
<1>5. ASSUME NEW t \in Tx, NEW o \in Outcomes \ {"done"}, Active(t), Abort(t, o)
      PROVE  LockInv' /\ UNCHANGED <<rows, req>> /\ \A x \in Tx : Done(x)' = Done(x)
  BY <1>5, RolledBack DEF Abort
<1>6. ASSUME NEW t \in Tx, Stop(t) \/ DuplicateKey(t) \/ DeadlockVictim(t) \/ Crash(t)
                           \/ \E u \in Unit : OverReturn(t, u)
      PROVE  \E o \in Outcomes \ {"done"} : Active(t) /\ Abort(t, o)
  BY <1>6, VerdictIs DEF Stop, DuplicateKey, DeadlockVictim, Crash, OverReturn, NextUnitLine,
                         WaitsFor, Active, Outcomes
<1>7. ASSUME NEW t \in Tx, NEW u \in Unit, CheckLine(t, u)
      PROVE  LockInv' /\ UNCHANGED <<rows, req>> /\ \A x \in Tx : Done(x)' = Done(x)
  BY <1>7, LineChecked DEF CheckLine
<1>8. ASSUME NEW t \in Tx, NEW r \in Needs(t), LockRow(t, r)
      PROVE  LockInv' /\ UNCHANGED <<rows, req>> /\ \A x \in Tx : Done(x)' = Done(x)
  BY <1>8, RowLocked DEF LockRow
<1>9. ASSUME NEW t \in Tx, Build(t)
      PROVE  LockInv' /\ UNCHANGED <<rows, req>> /\ \A x \in Tx : Done(x)' = Done(x)
  BY <1>9, Built DEF Build
<1>10. ASSUME NEW t \in Tx, Commit(t) PROVE LockInv'
  BY <1>10, Committed
<1> QED BY <1>1, <1>2, <1>3, <1>4, <1>5, <1>6, <1>7, <1>8, <1>9, <1>10 DEF Next, Handle

(* Rows, locks, requests and what has been read keep their shape.          *)
THEOREM UnitTypes == Spec => []TypeOK
<1>1. LockInv /\ [Next]_vars => LockInv'
  BY StepsAre
<1>2. LockInv => TypeOK
  BY DEF LockInv
<1> QED BY LockInit, <1>1, <1>2, PTL DEF Spec
-----------------------------------------------------------------------------
(* Who holds a unit, document by document.                                 *)
SoldOn(s, u) == IsSale(s) /\ u \in req[s].units /\ ~ReturnedBefore(s, u)
WrittenOffBy(t, u) == Done(t) /\ Is(t, "adjust") /\ u \in req[t].units
FilledBy(p, u) == u \in PullUnits[p] /\ pullLine[p][u] = "FULFILLED"

(* The document that holds a unit wrote its last movement.                 *)
HolderMovedItLast ==
  \A u \in Unit : \A d \in Holders(u) :
    LET m == moves[u]
    IN  /\ m # <<>> /\ m[Len(m)].doc = d
        /\ (\E s \in Tx : d = <<"sale", s>>) => m[Len(m)].event = "SOLD"

(* The lines of a pull are settled with it.                                *)
LinesFollowPull ==
  \A p \in Pull :
    /\ \A u \in PullUnits[p] :
         /\ pullState[p] = "PENDING" <=> pullLine[p][u] = "PENDING"
         /\ pullState[p] = "FULFILLED" => pullLine[p][u] = "FULFILLED"
    /\ pullState[p] = "SHORT" => \E u \in PullUnits[p] : pullLine[p][u] = "SHORT"

WroteOnce(d, m) == \E i \in DOMAIN m : \A j \in DOMAIN m : m[j].doc = d <=> j = i
WroteNothing(d, m) == \A j \in DOMAIN m : m[j].doc # d

(* A pull moved the units of its fulfilled lines, once each.               *)
PullMovesOnce ==
  \A p \in Pull, u \in Unit :
    /\ FilledBy(p, u) => WroteOnce(<<"pull", p>>, moves[u])
    /\ ~FilledBy(p, u) => WroteNothing(<<"pull", p>>, moves[u])

CustodyInv ==
  /\ LockInv /\ UnitHasOneHolder /\ MovementsTellTheState /\ HolderMovedItLast
  /\ LinesFollowPull /\ PullMovesOnce /\ OverridePricesOneLine
-----------------------------------------------------------------------------
LEMMA HoldersAre ==
  ASSUME NEW u
  PROVE  \A d : d \in Holders(u) <=>
           \/ \E s \in Tx : d = <<"sale", s>> /\ SoldOn(s, u)
           \/ \E t \in Tx : d = <<"adjust", t>> /\ WrittenOffBy(t, u)
           \/ \E p \in Pull : d = <<"pull", p>> /\ FilledBy(p, u)
<1>1. \A s \in Tx : SoldOn(s, u) <=> IsSale(s) /\ u \in req[s].units
                                     /\ \A t \in Tx : IsReturnOf(t, s) => u \notin req[t].units
  BY DEF SoldOn, ReturnedBefore
<1> QED BY <1>1 DEF Holders, WrittenOffBy, FilledBy

(* One more movement.                                                      *)
LEMMA Appended ==
  ASSUME NEW S, NEW m \in Seq(S), NEW e \in S
  PROVE  LET n == Append(m, e)
         IN  /\ n \in Seq(S) /\ n # <<>> /\ Len(n) = Len(m) + 1 /\ Len(m) \in Nat
             /\ DOMAIN n = 1..(Len(m) + 1) /\ DOMAIN m = 1..Len(m)
             /\ n[Len(n)] = e /\ n[Len(m) + 1] = e /\ \A i \in DOMAIN m : n[i] = m[i]
OBVIOUS

LEMMA CustodyInit == Init => CustodyInv
<1> SUFFICES ASSUME Init PROVE CustodyInv
  OBVIOUS
<1>1. LockInv
  BY LockInit
<1>2. \A t \in Tx : ~Done(t) /\ ~Consumes(t)
  BY DEF Init, Done, Consumes
<1>3. \A p \in Pull, u \in Unit : ~FilledBy(p, u)
  BY DEF Init, FilledBy
<1>4. \A u \in Unit : Holders(u) = {}
  BY <1>2, <1>3, HoldersAre DEF SoldOn, IsSale, WrittenOffBy
<1>5. UnitHasOneHolder /\ HolderMovedItLast
  BY <1>4 DEF Init, UnitHasOneHolder, HolderMovedItLast
<1>6. \A u \in Unit : moves[u] = <<>> /\ unitState[u] = "IN_STOCK" /\ DOMAIN moves[u] = {}
  BY DEF Init
<1>7. MovementsTellTheState /\ PullMovesOnce
  BY <1>3, <1>6 DEF MovementsTellTheState, PullMovesOnce, WroteOnce, WroteNothing
<1>8. LinesFollowPull
  BY DEF Init, LinesFollowPull
<1>9. OverridePricesOneLine
  BY <1>2 DEF OverridePricesOneLine
<1> QED BY <1>1, <1>5, <1>7, <1>8, <1>9 DEF CustodyInv

(* Nothing of this changes unless somebody commits.                        *)
LEMMA NothingCommitted ==
  ASSUME CustodyInv, LockInv', UNCHANGED <<rows, req>>, \A x \in Tx : Done(x)' = Done(x)
  PROVE  CustodyInv' /\ \A u \in Unit : Holders(u)' = Holders(u)
<1>0. UNCHANGED <<unitState, moves, overrideState, pullState, pullLine, lineId, req>>
  BY DEF rows
<1>1. \A u \in Unit : Holders(u)' = Holders(u)
  BY <1>0, SameDone DEF Holders, Is
<1>2. UnitHasOneHolder' /\ HolderMovedItLast'
  BY <1>0, <1>1 DEF CustodyInv, UnitHasOneHolder, HolderMovedItLast
<1>3. MovementsTellTheState'
  BY <1>0 DEF CustodyInv, MovementsTellTheState, StateAfter
<1>4. LinesFollowPull' /\ PullMovesOnce'
  BY <1>0 DEF CustodyInv, LinesFollowPull, PullMovesOnce, FilledBy
<1>5. OverridePricesOneLine'
  BY <1>0, SameDone DEF CustodyInv, OverridePricesOneLine
<1> QED BY <1>1, <1>2, <1>3, <1>4, <1>5 DEF CustodyInv
-----------------------------------------------------------------------------
(* What a commit has found: units it takes are in stock and on no document, *)
(* units it gives back are out on the sale it names.                       *)
LEMMA CommitFinds ==
  ASSUME CustodyInv, NEW t \in Tx, Commit(t), NEW u \in Moved(t)
  PROVE  /\ u \in Unit /\ req[t].kind \in {"sale", "return", "fulfil", "adjust"}
         /\ ~Is(t, "return") => unitState[u] = "IN_STOCK" /\ Holders(u) = {}
         /\ Is(t, "return") => /\ req[t].sale \in Tx /\ Document(t) = <<"sale", req[t].sale>>
                               /\ u \in req[t].units /\ SoldOn(req[t].sale, u)
                               /\ Document(t) \in Holders(u)
<1>0. pc[t] = "built" /\ LockInv /\ Found(t) /\ u \in UnitsOf(t)
  BY CommitWrites, HoldsWhatItWrites DEF CustodyInv
<1>1. u \in Unit /\ req[t].kind \in {"sale", "return", "fulfil", "adjust"} /\ SeenUnit(t, u) = unitState[u]
  BY <1>0, HoldsWhatItWrites
<1>2. ASSUME ~Is(t, "return") PROVE unitState[u] = "IN_STOCK" /\ Holders(u) = {}
  <2>1. SeenUnit(t, u) = "IN_STOCK"
    BY <1>0, <1>1, <1>2 DEF Found, UnitsOf, Moved, Is
  <2> QED BY <1>1, <2>1 DEF CustodyInv, UnitHasOneHolder
<1>3. ASSUME Is(t, "return")
      PROVE  /\ req[t].sale \in Tx /\ Document(t) = <<"sale", req[t].sale>>
             /\ u \in req[t].units /\ SoldOn(req[t].sale, u) /\ Document(t) \in Holders(u)
  <2>1. req[t].sale \in Tx /\ Document(t) = <<"sale", req[t].sale>>
    BY <1>0, <1>3, RequestsAre DEF Document, Is
  <2>2. u \in req[t].units /\ u \in req[req[t].sale].units
    BY <1>0, <1>3 DEF UnitsOf, Is
  <2>3. Read(t, UnitRow(u))
    BY <1>0 DEF Found, AllRead, Needs
  <2>4. ~ReturnedBefore(req[t].sale, u)
    BY <1>0, <1>1, <1>3, <2>3 DEF LockInv, UnitsChecked, CheckStands
  <2>5. IsSale(req[t].sale)
    BY <1>0, <1>3 DEF LockInv, SaleNamed, Active
  <2> QED BY <2>1, <2>2, <2>4, <2>5, HoldersAre DEF SoldOn
<1> QED BY <1>1, <1>2, <1>3

(* Which lines of a pull a commit fills.                                   *)
LEMMA CommitFills ==
  ASSUME CustodyInv, NEW t \in Tx, Commit(t), NEW u \in Unit
  PROVE  \A p \in Pull : FilledBy(p, u)' <=> \/ FilledBy(p, u)
                                             \/ Is(t, "fulfil") /\ p = req[t].pull /\ u \in Moved(t)
<1>0. pc[t] = "built" /\ LockInv /\ Found(t) /\ UNCHANGED req /\ WritePull(t)
  BY CommitWrites, HoldsWhatItWrites DEF CustodyInv, Commit
<1>9. pullLine = [p \in Pull |-> pullLine[p]]
  BY <1>0 DEF LockInv
<1>1. CASE Is(t, "fulfil")
  <2>0. PICK q \in Pull : q = req[t].pull
    BY <1>0, <1>1, RequestsAre DEF Is
  <2>1. pullState[q] = "PENDING"
    BY <1>0, <1>1, <2>0, HoldsWhatItWrites DEF Found, PullOpen, Is
  <2>2. Moved(t) \subseteq PullUnits[q]
    BY <1>1, <2>0 DEF Moved, UnitsOf, Is
  <2>3. pullLine' = [pullLine EXCEPT ![q] = FulfilLines(t)]
    BY <1>0, <1>1, <2>0 DEF WritePull, Is
  <2>4. \A p \in Pull : p # q => pullLine'[p] = pullLine[p]
    BY <1>9, <2>3
  <2>5. pullLine'[q] = FulfilLines(t)
    BY <1>9, <2>3
  <2>6. \A v \in PullUnits[q] : pullLine[q][v] = "PENDING"
    BY <2>1 DEF CustodyInv, LinesFollowPull
  <2>7. FilledBy(q, u)' <=> u \in Moved(t)
    BY <2>0, <2>2, <2>5 DEF FilledBy, FulfilLines
  <2>8. ~FilledBy(q, u)
    BY <2>6 DEF FilledBy
  <2>9. \A p \in Pull : p # q => (FilledBy(p, u)' <=> FilledBy(p, u))
    BY <2>4 DEF FilledBy
  <2> QED BY <1>1, <2>0, <2>7, <2>8, <2>9
<1>2. CASE Is(t, "cancel")
  <2>1. PICK q \in Pull : q = req[t].pull
    BY <1>0, <1>2, RequestsAre DEF Is
  <2>2. pullLine' = [pullLine EXCEPT ![q] = CancelLines(q)]
    BY <1>0, <1>2, <2>1 DEF WritePull, Is
  <2>3. \A p \in Pull : p # q => pullLine'[p] = pullLine[p]
    BY <1>9, <2>2
  <2>4. pullLine'[q] = CancelLines(q)
    BY <1>9, <2>1, <2>2
  <2>5. FilledBy(q, u)' <=> FilledBy(q, u)
    BY <2>4 DEF FilledBy, CancelLines
  <2>6. \A p \in Pull : FilledBy(p, u)' <=> FilledBy(p, u)
    BY <2>3, <2>5 DEF FilledBy
  <2> QED BY <1>2, <2>6 DEF Is
<1>3. CASE ~Is(t, "fulfil") /\ ~Is(t, "cancel")
  BY <1>0, <1>3 DEF WritePull, FilledBy
<1> QED BY <1>1, <1>2, <1>3

(* How a commit changes who holds a unit.                                  *)
LEMMA CommitHolders ==
  ASSUME CustodyInv, NEW t \in Tx, Commit(t), NEW u \in Unit
  PROVE  Holders(u)' = IF u \notin Moved(t) THEN Holders(u)
                       ELSE IF Is(t, "return") THEN Holders(u) \ {Document(t)}
                       ELSE Holders(u) \cup {Document(t)}
<1>0. /\ pc[t] = "built" /\ LockInv /\ Found(t) /\ UNCHANGED req /\ WritePull(t)
      /\ \A x \in Tx : Done(x)' <=> Done(x) \/ x = t
      /\ ~Done(t)
  <2>1. pc[t] = "built" /\ LockInv /\ Found(t) /\ UNCHANGED req /\ WritePull(t)
    BY CommitWrites, HoldsWhatItWrites DEF CustodyInv, Commit
  <2>2. pc'[t] = "done" /\ \A x \in Tx : x # t => pc'[x] = pc[x]
    BY CommitWrites DEF CustodyInv
  <2> QED BY <2>1, <2>2 DEF Done
<1> DEFINE S == req[t].sale
<1>1. \A x \in Tx : SoldOn(x, u)' <=> \/ SoldOn(x, u) /\ ~(Is(t, "return") /\ S = x /\ u \in req[t].units)
                                      \/ x = t /\ Is(t, "sale") /\ u \in req[t].units
  <2>1. \A x \in Tx : ReturnedBefore(x, u)' <=> ReturnedBefore(x, u) \/ (Is(t, "return") /\ S = x /\ u \in req[t].units)
    BY <1>0 DEF ReturnedBefore, IsReturnOf, Is
  <2>2. \A x \in Tx : IsSale(x)' <=> IsSale(x) \/ (x = t /\ Is(t, "sale"))
    BY <1>0 DEF IsSale, Is
  <2>3. Is(t, "sale") => ~ReturnedBefore(t, u)
    BY <1>0 DEF ReturnedBefore, IsReturnOf, LockInv, SaleNamed, IsSale
  <2> QED BY <1>0, <2>1, <2>2, <2>3 DEF SoldOn, IsSale, Is
<1>2. \A x \in Tx : WrittenOffBy(x, u)' <=> \/ WrittenOffBy(x, u)
                                            \/ x = t /\ Is(t, "adjust") /\ u \in req[t].units
  BY <1>0 DEF WrittenOffBy, Is
<1>3. \A p \in Pull : FilledBy(p, u)' <=> \/ FilledBy(p, u)
                                          \/ Is(t, "fulfil") /\ p = req[t].pull /\ u \in Moved(t)
  BY CommitFills
<1>4. \A d : d \in Holders(u)' <=>
           \/ \E s \in Tx : d = <<"sale", s>> /\ SoldOn(s, u)'
           \/ \E x \in Tx : d = <<"adjust", x>> /\ WrittenOffBy(x, u)'
           \/ \E p \in Pull : d = <<"pull", p>> /\ FilledBy(p, u)'
  <2>1. \A s \in Tx : SoldOn(s, u)' <=> /\ IsSale(s)' /\ u \in req'[s].units
                                        /\ \A x \in Tx : IsReturnOf(x, s)' => u \notin req'[x].units
    BY DEF SoldOn, ReturnedBefore
  <2> QED BY <2>1 DEF Holders, WrittenOffBy, FilledBy
<1>5. CASE u \notin Moved(t)
  <2>1. Is(t, "return") \/ Is(t, "sale") \/ Is(t, "adjust") => u \notin req[t].units
    BY <1>0, <1>5 DEF Found, Moved, UnitsOf, Is
  <2>2. \A d : d \in Holders(u)' <=> d \in Holders(u)
    BY <1>1, <1>2, <1>3, <1>4, <1>5, <2>1, HoldersAre
  <2> QED BY <1>5, <2>2 DEF Holders
<1>6. CASE u \in Moved(t) /\ Is(t, "return")
  <2>1. Document(t) = <<"sale", S>> /\ u \in req[t].units
    BY <1>6, CommitFinds
  <2>2. \A d : d \in Holders(u)' <=> d \in Holders(u) /\ d # <<"sale", S>>
    <3>1. \A x \in Tx : SoldOn(x, u)' <=> SoldOn(x, u) /\ x # S
      BY <1>1, <1>6, <2>1 DEF Is
    <3>2. /\ \A x \in Tx : WrittenOffBy(x, u)' <=> WrittenOffBy(x, u)
          /\ \A p \in Pull : FilledBy(p, u)' <=> FilledBy(p, u)
      BY <1>2, <1>3, <1>6 DEF Is
    <3> HIDE DEF S
    <3> QED BY <1>4, <3>1, <3>2, HoldersAre
  <2> QED BY <1>6, <2>1, <2>2
<1>7. CASE u \in Moved(t) /\ ~Is(t, "return")
  <2>1. req[t].kind \in {"sale", "fulfil", "adjust"} /\ u \in req[t].units
    BY <1>0, <1>7, CommitFinds DEF Moved, UnitsOf, Is
  <2>2. CASE Is(t, "sale")
    <3>1. Document(t) = <<"sale", t>>
      BY <2>2 DEF Document, Is
    <3>2. \A d : d \in Holders(u)' <=> d \in Holders(u) \/ d = <<"sale", t>>
      BY <1>1, <1>2, <1>3, <1>4, <2>1, <2>2, HoldersAre DEF Is
    <3> QED BY <1>7, <3>1, <3>2
  <2>3. CASE Is(t, "adjust")
    <3>1. Document(t) = <<"adjust", t>>
      BY <2>3 DEF Document, Is
    <3>2. \A d : d \in Holders(u)' <=> d \in Holders(u) \/ d = <<"adjust", t>>
      BY <1>1, <1>2, <1>3, <1>4, <2>1, <2>3, HoldersAre DEF Is
    <3> QED BY <1>7, <3>1, <3>2
  <2>4. CASE Is(t, "fulfil")
    <3>1. PICK q \in Pull : q = req[t].pull
      BY <1>0, <2>4, RequestsAre DEF Is
    <3>2. Document(t) = <<"pull", q>>
      BY <2>4, <3>1 DEF Document, Is
    <3>3. \A d : d \in Holders(u)' <=> d \in Holders(u) \/ d = <<"pull", q>>
      BY <1>1, <1>2, <1>3, <1>4, <1>7, <2>4, <3>1, HoldersAre DEF Is
    <3> QED BY <1>7, <3>2, <3>3
  <2> QED BY <2>1, <2>2, <2>3, <2>4 DEF Is
<1> QED BY <1>5, <1>6, <1>7

LEMMA CommitKeepsOneHolder ==
  ASSUME CustodyInv, NEW t \in Tx, Commit(t)
  PROVE  UnitHasOneHolder'
<1> SUFFICES ASSUME NEW u \in Unit
             PROVE  /\ \A d, e \in Holders(u)' : d = e
                    /\ (Holders(u)' = {}) <=> (unitState'[u] = "IN_STOCK")
  BY DEF UnitHasOneHolder
<1>0. WriteUnits(t)
  BY DEF Commit
<1>1. (\A d, e \in Holders(u) : d = e) /\ ((Holders(u) = {}) <=> (unitState[u] = "IN_STOCK"))
  BY DEF CustodyInv, UnitHasOneHolder
<1>2. CASE u \notin Moved(t)
  <2>1. Holders(u)' = Holders(u) /\ unitState'[u] = unitState[u]
    BY <1>0, <1>2, CommitHolders DEF WriteUnits
  <2> QED BY <1>1, <2>1
<1>3. CASE u \in Moved(t) /\ Is(t, "return")
  <2>1. Holders(u)' = Holders(u) \ {Document(t)} /\ Document(t) \in Holders(u)
    BY <1>3, CommitHolders, CommitFinds
  <2>2. unitState'[u] = "IN_STOCK"
    BY <1>0, <1>3 DEF WriteUnits, StateAfter, Event, Is
  <2> QED BY <1>1, <2>1, <2>2
<1>4. CASE u \in Moved(t) /\ ~Is(t, "return")
  <2>1. Holders(u)' = {Document(t)}
    BY <1>4, CommitHolders, CommitFinds
  <2>2. unitState'[u] # "IN_STOCK"
    BY <1>0, <1>4 DEF WriteUnits, StateAfter, Event, Is
  <2> QED BY <2>1, <2>2
<1> QED BY <1>2, <1>3, <1>4

(* The movement a commit appends continues the history of its unit.        *)
LEMMA CommitMoves ==
  ASSUME CustodyInv, NEW t \in Tx, Commit(t), NEW u \in Unit
  PROVE  /\ moves[u] \in Seq(Movement)
         /\ u \notin Moved(t) => moves'[u] = moves[u] /\ unitState'[u] = unitState[u]
         /\ u \in Moved(t) =>
              LET e == [event |-> Event(t), doc |-> Document(t)]
              IN  e \in Movement /\ moves'[u] = Append(moves[u], e)
                  /\ unitState'[u] = StateAfter(Event(t))
<1>1. WriteUnits(t) /\ LockInv
  BY DEF Commit, CustodyInv
<1>2. moves[u] \in Seq(Movement)
  BY <1>1 DEF LockInv, TypeOK
<1>3. ASSUME u \in Moved(t) PROVE [event |-> Event(t), doc |-> Document(t)] \in Movement
  <2>1. req[t].kind \in {"sale", "return", "fulfil", "adjust"}
    BY <1>3, CommitFinds
  <2>2. Event(t) \in (UnitStates \ {"IN_STOCK"}) \cup {"RETURNED"}
    BY <2>1 DEF Event, Is, UnitStates
  <2>3. Document(t) \in ({"sale", "adjust"} \X Tx) \cup ({"pull"} \X Pull)
    BY <1>1, <2>1, RequestsAre DEF Document, Is
  <2> QED BY <2>2, <2>3 DEF Movement
<1> QED BY <1>1, <1>2, <1>3 DEF WriteUnits

LEMMA CommitKeepsHistory ==
  ASSUME CustodyInv, NEW t \in Tx, Commit(t)
  PROVE  MovementsTellTheState' /\ HolderMovedItLast'
<1> DEFINE e == [event |-> Event(t), doc |-> Document(t)]
<1>1. ASSUME NEW u \in Unit, u \notin Moved(t)
      PROVE  moves'[u] = moves[u] /\ unitState'[u] = unitState[u] /\ Holders(u)' = Holders(u)
  BY <1>1, CommitMoves, CommitHolders
<1>2. ASSUME NEW u \in Unit, u \in Moved(t)
      PROVE  /\ e \in Movement /\ moves[u] \in Seq(Movement) /\ moves'[u] = Append(moves[u], e)
             /\ unitState'[u] = StateAfter(e.event)
  BY <1>2, CommitMoves
<1>3. ASSUME NEW u \in Unit, u \in Moved(t), ~Is(t, "return")
      PROVE  /\ moves[u] = <<>> \/ moves[u][Len(moves[u])].event = "RETURNED"
             /\ e.event # "RETURNED" /\ Holders(u)' = {e.doc}
             /\ (\E s \in Tx : e.doc = <<"sale", s>>) => e.event = "SOLD"
  <2>1. unitState[u] = "IN_STOCK" /\ Holders(u) = {}
    BY <1>3, CommitFinds
  <2>2. unitState[u] = IF moves[u] = <<>> THEN "IN_STOCK" ELSE StateAfter(moves[u][Len(moves[u])].event)
    BY DEF CustodyInv, MovementsTellTheState
  <2>3. moves[u] = <<>> \/ moves[u][Len(moves[u])] \in Movement
    BY <1>2, <1>3
  <2>4. moves[u] = <<>> \/ moves[u][Len(moves[u])].event = "RETURNED"
    BY <2>1, <2>2, <2>3 DEF StateAfter, Movement
  <2>5. e.event # "RETURNED" /\ Holders(u)' = {e.doc}
    BY <1>3, <2>1, CommitHolders DEF Event, Is
  <2>6. (\E s \in Tx : e.doc = <<"sale", s>>) => e.event = "SOLD"
    BY <1>3, CommitFinds DEF Event, Document, Is
  <2> QED BY <2>4, <2>5, <2>6
<1>4. ASSUME NEW u \in Unit, u \in Moved(t), Is(t, "return")
      PROVE  /\ moves[u] # <<>> /\ e.event = "RETURNED" /\ Holders(u)' = {}
             /\ moves[u][Len(moves[u])] = [event |-> "SOLD", doc |-> e.doc]
  <2>1. e.doc \in Holders(u) /\ (\E s \in Tx : e.doc = <<"sale", s>>)
    BY <1>4, CommitFinds
  <2>2. /\ moves[u] # <<>> /\ moves[u][Len(moves[u])].doc = e.doc
        /\ moves[u][Len(moves[u])].event = "SOLD"
    BY <2>1 DEF CustodyInv, HolderMovedItLast
  <2>3. moves[u][Len(moves[u])] \in Movement
    BY <1>2, <1>4, <2>2
  <2>4. Holders(u)' = {}
    BY <1>4, <2>1, CommitHolders DEF CustodyInv, UnitHasOneHolder
  <2>5. e.event = "RETURNED"
    BY <1>4 DEF Event, Is
  <2> QED BY <2>2, <2>3, <2>4, <2>5 DEF Movement
<1> HIDE DEF e
<1>5. ASSUME NEW u \in Unit
      PROVE  LET m == moves'[u]
             IN  /\ \A i \in DOMAIN m :
                      IF m[i].event = "RETURNED"
                      THEN i > 1 /\ m[i - 1] = [event |-> "SOLD", doc |-> m[i].doc]
                      ELSE i = 1 \/ m[i - 1].event = "RETURNED"
                 /\ unitState'[u] = IF m = <<>> THEN "IN_STOCK" ELSE StateAfter(m[Len(m)].event)
  <2> DEFINE m == moves[u]
  <2>0. /\ \A i \in DOMAIN m :
             IF m[i].event = "RETURNED"
             THEN i > 1 /\ m[i - 1] = [event |-> "SOLD", doc |-> m[i].doc]
             ELSE i = 1 \/ m[i - 1].event = "RETURNED"
        /\ unitState[u] = IF m = <<>> THEN "IN_STOCK" ELSE StateAfter(m[Len(m)].event)
    BY DEF CustodyInv, MovementsTellTheState
  <2>1. CASE u \notin Moved(t)
    BY <1>1, <2>0, <2>1
  <2>2. CASE u \in Moved(t)
    <3> DEFINE n == Append(m, e)
    <3>1. /\ moves'[u] = n /\ unitState'[u] = StateAfter(e.event)
          /\ e \in Movement /\ m \in Seq(Movement)
      BY <1>2, <2>2
    <3>2. /\ n # <<>> /\ Len(n) = Len(m) + 1 /\ Len(m) \in Nat /\ DOMAIN n = 1..(Len(m) + 1)
          /\ DOMAIN m = 1..Len(m) /\ n[Len(m) + 1] = e /\ \A i \in DOMAIN m : n[i] = m[i]
      BY <3>1, Appended
    <3>3. m = <<>> => Len(m) = 0
      OBVIOUS
    <3>4. IF e.event = "RETURNED"
          THEN Len(m) > 0 /\ m[Len(m)] = [event |-> "SOLD", doc |-> e.doc]
          ELSE Len(m) = 0 \/ m[Len(m)].event = "RETURNED"
      <4>1. m # <<>> => Len(m) > 0
        BY <3>1, <3>2
      <4> QED BY <1>3, <1>4, <2>2, <3>3, <4>1
    <3> HIDE DEF n, m
    <3>5. \A i \in DOMAIN n : IF n[i].event = "RETURNED"
                              THEN i > 1 /\ n[i - 1] = [event |-> "SOLD", doc |-> n[i].doc]
                              ELSE i = 1 \/ n[i - 1].event = "RETURNED"
      <4> SUFFICES ASSUME NEW i \in DOMAIN n
                   PROVE  IF n[i].event = "RETURNED"
                          THEN i > 1 /\ n[i - 1] = [event |-> "SOLD", doc |-> n[i].doc]
                          ELSE i = 1 \/ n[i - 1].event = "RETURNED"
        OBVIOUS
      <4>1. CASE i \in DOMAIN m
        <5>1. i = 1 \/ i - 1 \in DOMAIN m
          BY <3>2, <4>1
        <5>2. n[i] = m[i] /\ (i # 1 => n[i - 1] = m[i - 1]) /\ i \in Nat
          BY <3>2, <4>1, <5>1
        <5> QED BY <2>0, <4>1, <5>2
      <4>2. CASE i = Len(m) + 1
        <5>1. n[i] = e /\ i - 1 = Len(m) /\ (Len(m) > 0 => n[i - 1] = m[Len(m)])
          BY <3>2, <4>2
        <5> QED BY <3>2, <3>4, <4>2, <5>1
      <4> QED BY <3>2, <4>1, <4>2
    <3> QED BY <3>1, <3>2, <3>5
  <2> QED BY <2>1, <2>2
<1>6. ASSUME NEW u \in Unit, NEW d \in Holders(u)'
      PROVE  LET m == moves'[u]
             IN  /\ m # <<>> /\ m[Len(m)].doc = d
                 /\ (\E s \in Tx : d = <<"sale", s>>) => m[Len(m)].event = "SOLD"
  <2>1. CASE u \notin Moved(t)
    BY <1>1, <1>6, <2>1 DEF CustodyInv, HolderMovedItLast
  <2>2. CASE u \in Moved(t)
    <3>1. ~Is(t, "return") /\ d = e.doc
      BY <1>3, <1>4, <1>6, <2>2
    <3>2. moves'[u] # <<>> /\ moves'[u][Len(moves'[u])] = e
      BY <1>2, <2>2, Appended
    <3> QED BY <1>3, <2>2, <3>1, <3>2
  <2> QED BY <2>1, <2>2
<1>7. MovementsTellTheState'
  BY <1>5 DEF MovementsTellTheState, StateAfter
<1>8. HolderMovedItLast'
  BY <1>6 DEF HolderMovedItLast
<1> QED BY <1>7, <1>8

LEMMA CommitKeepsPulls ==
  ASSUME CustodyInv, NEW t \in Tx, Commit(t)
  PROVE  LinesFollowPull' /\ PullMovesOnce'
<1>0. pc[t] = "built" /\ LockInv /\ Found(t) /\ UNCHANGED req /\ WritePull(t)
  BY CommitWrites, HoldsWhatItWrites DEF CustodyInv, Commit
<1>1. pullLine = [p \in Pull |-> pullLine[p]] /\ pullState \in [Pull -> PullStates]
  BY <1>0 DEF LockInv, TypeOK
<1>2. \A p \in Pull :
        /\ \A u \in PullUnits[p] :
             /\ pullState[p] = "PENDING" <=> pullLine[p][u] = "PENDING"
             /\ pullState[p] = "FULFILLED" => pullLine[p][u] = "FULFILLED"
        /\ pullState[p] = "SHORT" => \E u \in PullUnits[p] : pullLine[p][u] = "SHORT"
  BY DEF CustodyInv, LinesFollowPull
<1>3. LinesFollowPull'
  <2> SUFFICES ASSUME NEW p \in Pull
               PROVE  /\ \A u \in PullUnits[p] :
                           /\ pullState'[p] = "PENDING" <=> pullLine'[p][u] = "PENDING"
                           /\ pullState'[p] = "FULFILLED" => pullLine'[p][u] = "FULFILLED"
                      /\ pullState'[p] = "SHORT" => \E u \in PullUnits[p] : pullLine'[p][u] = "SHORT"
    BY DEF LinesFollowPull
  <2>1. CASE req[t].kind \notin {"fulfil", "cancel"} \/ p # req[t].pull
    <3>1. pullState'[p] = pullState[p] /\ pullLine'[p] = pullLine[p]
      BY <1>0, <1>1, <2>1 DEF WritePull, Is
    <3> QED BY <1>2, <3>1
  <2>2. CASE Is(t, "fulfil") /\ p = req[t].pull
    <3>1. /\ pullState'[p] = IF AllFulfilled(t) THEN "FULFILLED" ELSE "SHORT"
          /\ pullLine'[p] = FulfilLines(t)
      BY <1>0, <1>1, <2>2 DEF WritePull, Is
    <3>2. Moved(t) \subseteq PullUnits[p]
      BY <2>2 DEF Moved, UnitsOf, Is
    <3> QED BY <2>2, <3>1, <3>2 DEF FulfilLines, AllFulfilled
  <2>3. CASE Is(t, "cancel") /\ p = req[t].pull
    <3>1. pullState'[p] = "CANCELLED" /\ pullLine'[p] = CancelLines(p)
      BY <1>0, <1>1, <2>3 DEF WritePull, Is
    <3> QED BY <3>1 DEF CancelLines
  <2> QED BY <2>1, <2>2, <2>3 DEF Is
<1>4. PullMovesOnce'
  <2> SUFFICES ASSUME NEW p \in Pull, NEW u \in Unit
               PROVE  /\ FilledBy(p, u)' => WroteOnce(<<"pull", p>>, moves'[u])
                      /\ ~FilledBy(p, u)' => WroteNothing(<<"pull", p>>, moves'[u])
    BY DEF PullMovesOnce, WroteOnce, WroteNothing
  <2> DEFINE e == [event |-> Event(t), doc |-> Document(t)]
             m == moves[u]
  <2>0. /\ FilledBy(p, u) => WroteOnce(<<"pull", p>>, m)
        /\ ~FilledBy(p, u) => WroteNothing(<<"pull", p>>, m)
    BY DEF CustodyInv, PullMovesOnce
  <2>1. CASE u \notin Moved(t)
    <3>1. moves'[u] = m /\ (FilledBy(p, u)' <=> FilledBy(p, u))
      BY <2>1, CommitMoves, CommitFills
    <3> QED BY <2>0, <3>1
  <2>2. CASE u \in Moved(t)
    <3> DEFINE n == Append(m, e)
    <3>1. moves'[u] = n /\ e \in Movement /\ m \in Seq(Movement) /\ e.doc = Document(t)
      BY <2>2, CommitMoves
    <3>2. /\ Len(m) \in Nat /\ DOMAIN n = 1..(Len(m) + 1)
          /\ DOMAIN m = 1..Len(m) /\ n[Len(m) + 1] = e /\ \A i \in DOMAIN m : n[i] = m[i]
      BY <3>1, Appended
    <3>3. Document(t) = <<"pull", p>> <=> Is(t, "fulfil") /\ p = req[t].pull
      BY <2>2, CommitFinds DEF Document, Is
    <3> HIDE DEF e, n, m
    <3>4. CASE Is(t, "fulfil") /\ p = req[t].pull
      <4>1. FilledBy(p, u)'
        BY <2>2, <3>4, CommitFills
      <4>2. ~FilledBy(p, u)
        <5>1. pullState[p] = "PENDING"
          BY <1>0, <3>4, HoldsWhatItWrites DEF Found, PullOpen, Is
        <5> QED BY <1>2, <5>1 DEF FilledBy
      <4>3. WroteOnce(<<"pull", p>>, n)
        <5>1. \A j \in DOMAIN m : n[j].doc # <<"pull", p>>
          BY <2>0, <3>2, <4>2 DEF WroteNothing
        <5>2. n[Len(m) + 1].doc = <<"pull", p>> /\ Len(m) + 1 \in DOMAIN n
          BY <3>1, <3>2, <3>3, <3>4
        <5>3. \A j \in DOMAIN n : j \in DOMAIN m \/ j = Len(m) + 1
          BY <3>2
        <5> QED BY <5>1, <5>2, <5>3 DEF WroteOnce
      <4> QED BY <3>1, <4>1, <4>3
    <3>5. CASE ~(Is(t, "fulfil") /\ p = req[t].pull)
      <4>1. FilledBy(p, u)' <=> FilledBy(p, u)
        BY <3>5, CommitFills
      <4>2. e.doc # <<"pull", p>>
        BY <3>1, <3>3, <3>5
      <4>3. WroteOnce(<<"pull", p>>, m) => WroteOnce(<<"pull", p>>, n)
        <5> SUFFICES ASSUME NEW i \in DOMAIN m, \A j \in DOMAIN m : m[j].doc = <<"pull", p>> <=> j = i
                     PROVE  WroteOnce(<<"pull", p>>, n)
          BY DEF WroteOnce
        <5>1. i \in DOMAIN n /\ i # Len(m) + 1
          BY <3>2
        <5>2. \A j \in DOMAIN n : j \in DOMAIN m \/ j = Len(m) + 1
          BY <3>2
        <5>3. \A j \in DOMAIN n : n[j].doc = <<"pull", p>> <=> j = i
          BY <3>2, <4>2, <5>1, <5>2
        <5> QED BY <5>1, <5>3 DEF WroteOnce
      <4>4. WroteNothing(<<"pull", p>>, m) => WroteNothing(<<"pull", p>>, n)
        BY <3>2, <4>2 DEF WroteNothing
      <4> QED BY <2>0, <3>1, <4>1, <4>3, <4>4
    <3> QED BY <3>4, <3>5
  <2> QED BY <2>1, <2>2
<1> QED BY <1>3, <1>4

LEMMA CommitKeepsOverrides ==
  ASSUME CustodyInv, NEW t \in Tx, Commit(t)
  PROVE  OverridePricesOneLine'
<1>0. pc[t] = "built" /\ LockInv /\ Found(t) /\ UNCHANGED req /\ WriteOverrides(t)
  BY CommitWrites, HoldsWhatItWrites DEF CustodyInv, Commit
<1>1. \A x \in Tx : Cited(x)' = Cited(x)
  BY <1>0 DEF Cited
<1>2. \A x \in Tx : Consumes(x)' <=> Consumes(x) \/ (x = t /\ req[t].kind \in {"sale", "ticket"})
  <2>1. pc'[t] = "done" /\ \A x \in Tx : x # t => pc'[x] = pc[x]
    BY CommitWrites DEF CustodyInv
  <2> QED BY <1>0, <2>1 DEF Consumes, Done
<1>3. ~Consumes(t)
  BY <1>0 DEF Consumes, Done
<1>4. \A o \in Cited(t) : /\ o \in Override /\ seen[t][OverrideRow(o)] = overrideState[o]
  BY <1>0, HoldsWhatItWrites
<1>5. \A o \in Override :
        ~(o \in Cited(t) /\ overrideState[o] = "PENDING") => overrideState'[o] = overrideState[o]
  BY <1>0, <1>4 DEF WriteOverrides, Found, Is
<1>6. ASSUME NEW o \in Override, NEW x \in Tx, Consumes(x), o \in Cited(x)
      PROVE  /\ \A u \in Tx : Consumes(u) /\ o \in Cited(u) => u = x
             /\ overrideState[o] \in {"AUTO_APPROVED", "APPROVED"}
             /\ OverrideOf[o].kind = req[x].kind
             /\ AlreadyConsumed(o)
  BY <1>6 DEF CustodyInv, OverridePricesOneLine, AlreadyConsumed
<1>7. ASSUME NEW o \in Override, req[t].kind \in {"sale", "ticket"}, o \in Cited(t)
      PROVE  /\ ~AlreadyConsumed(o) /\ overrideState[o] \in {"AUTO_APPROVED", "APPROVED"}
             /\ OverrideOf[o].kind = req[t].kind
  <2>1. OnTarget(t, o) /\ Approved(t, o) /\ ~AlreadyConsumed(o)
    BY <1>0, <1>7 DEF Found
  <2>2. OverrideOf[o].kind = req[t].kind
    BY <2>1 DEF OnTarget
  <2>3. overrideState[o] \in {"AUTO_APPROVED", "APPROVED"}
    BY <1>4, <1>7, <2>1 DEF Approved
  <2> QED BY <2>1, <2>2, <2>3
<1> SUFFICES ASSUME NEW o \in Override, NEW x \in Tx, Consumes(x)', o \in Cited(x)
             PROVE  /\ \A u \in Tx : Consumes(u)' /\ o \in Cited(u) => u = x
                    /\ overrideState'[o] \in {"AUTO_APPROVED", "APPROVED"}
                    /\ OverrideOf[o].kind = req[x].kind
  BY <1>0, <1>1 DEF OverridePricesOneLine
<1>8. CASE Consumes(x)
  BY <1>2, <1>3, <1>5, <1>6, <1>7, <1>8
<1>9. CASE x = t /\ req[t].kind \in {"sale", "ticket"}
  <2>1. \A u \in Tx : Consumes(u)' /\ o \in Cited(u) => u = t
    BY <1>2, <1>6, <1>7, <1>9
  <2> QED BY <1>5, <1>7, <1>9, <2>1
<1> QED BY <1>2, <1>8, <1>9

LEMMA CustodyNext == CustodyInv /\ [Next]_vars => CustodyInv'
<1> SUFFICES ASSUME CustodyInv, [Next]_vars PROVE CustodyInv'
  OBVIOUS
<1>1. /\ LockInv'
      /\ \/ UNCHANGED <<rows, req>> /\ \A x \in Tx : Done(x)' = Done(x)
         \/ \E t \in Tx : Commit(t)
  BY StepsAre DEF CustodyInv
<1>2. ASSUME NEW t \in Tx, Commit(t) PROVE CustodyInv'
  BY <1>1, <1>2, CommitKeepsOneHolder, CommitKeepsHistory, CommitKeepsPulls, CommitKeepsOverrides
     DEF CustodyInv
<1> QED BY <1>1, <1>2, NothingCommitted

LEMMA CustodyHolds == Spec => []CustodyInv
BY CustodyInit, CustodyNext, PTL DEF Spec
-----------------------------------------------------------------------------
(* A unit is never out on two documents, and its row says whether it is    *)
(* out.                                                                    *)
THEOREM OneHolder == Spec => []UnitHasOneHolder
<1>1. CustodyInv => UnitHasOneHolder
  BY DEF CustodyInv
<1> QED BY CustodyHolds, <1>1, PTL

(* The movements of a unit read as one history that ends in its row.       *)
THEOREM OneHistory == Spec => []MovementsTellTheState
<1>1. CustodyInv => MovementsTellTheState
  BY DEF CustodyInv
<1> QED BY CustodyHolds, <1>1, PTL

(* An override prices one committed line, an approved one of its kind.     *)
THEOREM OneLinePerOverride == Spec => []OverridePricesOneLine
<1>1. CustodyInv => OverridePricesOneLine
  BY DEF CustodyInv
<1> QED BY CustodyHolds, <1>1, PTL

(* A pull's state, its lines and the movements it wrote agree.             *)
THEOREM PullsSettleOnce == Spec => []PullAgreesWithMovements
<1>1. CustodyInv => PullAgreesWithMovements
  <2> SUFFICES ASSUME CustodyInv, NEW p \in Pull
               PROVE  LET Out(u) == {i \in DOMAIN moves[u] : moves[u][i].doc = <<"pull", p>>}
                          Lines == {pullLine[p][u] : u \in PullUnits[p]}
                      IN  /\ \A u \in Unit :
                               Cardinality(Out(u)) =
                                 IF u \in PullUnits[p] /\ pullLine[p][u] = "FULFILLED" THEN 1 ELSE 0
                          /\ pullState[p] = "PENDING" => Lines \subseteq {"PENDING"}
                          /\ pullState[p] = "FULFILLED" => Lines \subseteq {"FULFILLED"}
                          /\ pullState[p] = "SHORT" => "SHORT" \in Lines /\ "PENDING" \notin Lines
                          /\ pullState[p] = "CANCELLED" => "PENDING" \notin Lines
    BY DEF PullAgreesWithMovements
  <2> DEFINE Out(u) == {i \in DOMAIN moves[u] : moves[u][i].doc = <<"pull", p>>}
  <2>1. ASSUME NEW u \in Unit
        PROVE  Cardinality(Out(u)) = IF u \in PullUnits[p] /\ pullLine[p][u] = "FULFILLED" THEN 1 ELSE 0
    <3>1. CASE FilledBy(p, u)
      <4>1. PICK i \in DOMAIN moves[u] : \A j \in DOMAIN moves[u] :
                   moves[u][j].doc = <<"pull", p>> <=> j = i
        BY <3>1 DEF CustodyInv, PullMovesOnce, WroteOnce
      <4>2. Out(u) = {i}
        BY <4>1
      <4> QED BY <3>1, <4>2, FS_Singleton DEF FilledBy
    <3>2. CASE ~FilledBy(p, u)
      <4>1. Out(u) = {}
        BY <3>2 DEF CustodyInv, PullMovesOnce, WroteNothing
      <4> QED BY <3>2, <4>1, FS_EmptySet DEF FilledBy
    <3> QED BY <3>1, <3>2
  <2>2. /\ \A u \in PullUnits[p] :
             /\ pullState[p] = "PENDING" <=> pullLine[p][u] = "PENDING"
             /\ pullState[p] = "FULFILLED" => pullLine[p][u] = "FULFILLED"
        /\ pullState[p] = "SHORT" => \E u \in PullUnits[p] : pullLine[p][u] = "SHORT"
    BY DEF CustodyInv, LinesFollowPull
  <2> QED BY <2>1, <2>2
<1> QED BY CustodyHolds, <1>1, PTL
-----------------------------------------------------------------------------
(* The abstract state the handlers' rows amount to.                        *)
AnyOf(S) == IF S = {} THEN None ELSE CHOOSE d \in S : TRUE
HolderOf(u) == AnyOf(Holders(u))
Documents == ({"sale", "adjust"} \X Tx) \cup ({"pull"} \X Pull)
Closed == {<<"sale", s>> : s \in {x \in Tx : IsSale(x)}}
          \cup {<<"adjust", t>> : t \in {x \in Tx : Done(x) /\ Is(x, "adjust")}}
          \cup {<<"pull", p>> : p \in {x \in Pull : pullState[x] # "PENDING"}}

LEMMA CustodyStarts == Init => Custody!Init
<1> SUFFICES ASSUME Init PROVE Custody!Init
  OBVIOUS
<1>1. \A t \in Tx : ~Done(t)
  BY DEF Init, Done
<1>2. \A p \in Pull, u \in Unit : ~FilledBy(p, u)
  BY DEF Init, FilledBy
<1>3. \A u \in Unit : Holders(u) = {}
  BY <1>1, <1>2, HoldersAre DEF SoldOn, IsSale, WrittenOffBy
<1>4. Closed = {}
  BY <1>1 DEF Init, Closed, IsSale
<1> QED BY <1>3, <1>4 DEF Custody!Init, Closed

LEMMA HoldersAreDocuments ==
  ASSUME NEW u PROVE Holders(u) \subseteq Documents
BY HoldersAre DEF Documents

LEMMA ClosedIs ==
  \A d : d \in Closed <=>
    \/ \E s \in Tx : d = <<"sale", s>> /\ IsSale(s)
    \/ \E t \in Tx : d = <<"adjust", t>> /\ Done(t) /\ Is(t, "adjust")
    \/ \E p \in Pull : d = <<"pull", p>> /\ pullState[p] # "PENDING"
BY DEF Closed

(* A commit closes the document it is the first to write.                  *)
LEMMA CommitCloses ==
  ASSUME CustodyInv, NEW t \in Tx, Commit(t)
  PROVE  /\ req[t].kind \in {"sale", "adjust", "fulfil"} =>
              Document(t) \in Documents /\ Document(t) \notin Closed
              /\ Closed' = Closed \cup {Document(t)}
         /\ Is(t, "cancel") =>
              LET d == <<"pull", req[t].pull>>
              IN  /\ d \in Documents /\ Closed' = Closed \cup {d}
                  /\ d \in Closed <=> pullState[req[t].pull] # "PENDING"
         /\ req[t].kind \notin {"sale", "adjust", "fulfil", "cancel"} => Closed' = Closed
<1>0. pc[t] = "built" /\ LockInv /\ Found(t) /\ UNCHANGED req /\ WritePull(t)
  BY CommitWrites, HoldsWhatItWrites DEF CustodyInv, Commit
<1>1. ~Done(t) /\ \A x \in Tx : Done(x)' <=> Done(x) \/ x = t
  <2>1. pc'[t] = "done" /\ \A x \in Tx : x # t => pc'[x] = pc[x]
    BY CommitWrites DEF CustodyInv
  <2> QED BY <1>0, <2>1 DEF Done
<1>2. \A x \in Tx : IsSale(x)' <=> IsSale(x) \/ (x = t /\ Is(t, "sale"))
  BY <1>0, <1>1 DEF IsSale, Is
<1>3. \A x \in Tx : Done(x)' /\ Is(x, "adjust")' <=> (Done(x) /\ Is(x, "adjust")) \/ (x = t /\ Is(t, "adjust"))
  BY <1>0, <1>1 DEF Is
<1>4. \A p \in Pull : pullState'[p] # "PENDING" <=>
        pullState[p] # "PENDING" \/ (req[t].kind \in {"fulfil", "cancel"} /\ p = req[t].pull)
  <2>1. pullState \in [Pull -> PullStates]
    BY <1>0 DEF LockInv, TypeOK
  <2> QED BY <1>0, <2>1 DEF WritePull, Is
<1>5. \A d : d \in Closed' <=>
        \/ \E s \in Tx : d = <<"sale", s>> /\ IsSale(s)'
        \/ \E x \in Tx : d = <<"adjust", x>> /\ Done(x)' /\ Is(x, "adjust")'
        \/ \E p \in Pull : d = <<"pull", p>> /\ pullState'[p] # "PENDING"
  BY DEF Closed
<1>6. CASE Is(t, "sale")
  <2>1. Document(t) = <<"sale", t>>
    BY <1>6 DEF Document, Is
  <2>2. \A d : d \in Closed' <=> d \in Closed \/ d = <<"sale", t>>
    BY <1>2, <1>3, <1>4, <1>5, <1>6, ClosedIs DEF Is
  <2>3. <<"sale", t>> \notin Closed
    BY <1>1, ClosedIs DEF IsSale
  <2> QED BY <1>6, <2>1, <2>2, <2>3 DEF Documents, Is
<1>7. CASE Is(t, "adjust")
  <2>1. Document(t) = <<"adjust", t>>
    BY <1>7 DEF Document, Is
  <2>2. \A d : d \in Closed' <=> d \in Closed \/ d = <<"adjust", t>>
    BY <1>2, <1>3, <1>4, <1>5, <1>7, ClosedIs DEF Is
  <2>3. <<"adjust", t>> \notin Closed
    BY <1>1, ClosedIs
  <2> QED BY <1>7, <2>1, <2>2, <2>3 DEF Documents, Is
<1>8. CASE req[t].kind \in {"fulfil", "cancel"}
  <2>1. PICK q \in Pull : q = req[t].pull
    BY <1>0, <1>8, RequestsAre
  <2>2. \A d : d \in Closed' <=> d \in Closed \/ d = <<"pull", q>>
    BY <1>2, <1>3, <1>4, <1>5, <1>8, <2>1, ClosedIs DEF Is
  <2>3. <<"pull", q>> \in Closed <=> pullState[q] # "PENDING"
    BY ClosedIs
  <2>4. Is(t, "fulfil") => Document(t) = <<"pull", q>> /\ pullState[q] = "PENDING"
    BY <1>0, <2>1, HoldsWhatItWrites DEF Document, Is, Found, PullOpen
  <2> QED BY <1>8, <2>1, <2>2, <2>3, <2>4 DEF Documents, Is
<1>9. CASE req[t].kind \notin {"sale", "adjust", "fulfil", "cancel"}
  <2>1. \A d : d \in Closed' <=> d \in Closed
    BY <1>2, <1>3, <1>4, <1>5, <1>9, ClosedIs DEF Is
  <2> QED BY <1>9, <2>1 DEF Is, Closed
<1> QED BY <1>6, <1>7, <1>8, <1>9 DEF Is

(* A commit takes units that nobody holds, or gives back what a sale held,  *)
(* or leaves the custody alone.                                            *)
LEMMA CustodyStep ==
  ASSUME CustodyInv, [Next]_vars
  PROVE  [Custody!Next]_(Custody!vars)
<1> DEFINE H == [u \in Unit |-> HolderOf(u)]
<1>1. CASE UNCHANGED <<rows, req>> /\ \A x \in Tx : Done(x)' = Done(x)
  <2>1. \A u \in Unit : Holders(u)' = Holders(u)
    BY <1>1, StepsAre, NothingCommitted DEF CustodyInv
  <2>2. Closed' = Closed
    BY <1>1, SameDone DEF Closed, rows, Is
  <2>3. H' = H
    BY <2>1 DEF HolderOf
  <2> QED BY <2>2, <2>3 DEF Custody!vars, Closed, HolderOf, AnyOf
<1>2. ASSUME NEW t \in Tx, Commit(t) PROVE [Custody!Next]_(Custody!vars)
  <2>1. ASSUME NEW u \in Unit, u \notin Moved(t) PROVE Holders(u)' = Holders(u)
    BY <1>2, <2>1, CommitHolders
  <2>2. ASSUME NEW u \in Moved(t), ~Is(t, "return")
        PROVE  u \in Unit /\ Holders(u) = {} /\ Holders(u)' = {Document(t)} /\ Document(t) \in Documents
    <3>1. u \in Unit /\ Holders(u) = {}
      BY <1>2, <2>2, CommitFinds
    <3>2. [event |-> Event(t), doc |-> Document(t)] \in Movement
      BY <1>2, <2>2, <3>1, CommitMoves
    <3> QED BY <1>2, <2>2, <3>1, <3>2, CommitHolders DEF Movement, Documents
  <2>3. ASSUME NEW u \in Moved(t), Is(t, "return")
        PROVE  /\ u \in Unit /\ Document(t) = <<"sale", req[t].sale>> /\ req[t].sale \in Tx
               /\ Holders(u) = {Document(t)} /\ Holders(u)' = {}
    <3>1. /\ u \in Unit /\ Document(t) \in Holders(u) /\ Document(t) = <<"sale", req[t].sale>>
          /\ req[t].sale \in Tx
      BY <1>2, <2>3, CommitFinds
    <3>2. Holders(u) = {Document(t)}
      BY <3>1 DEF CustodyInv, UnitHasOneHolder
    <3> QED BY <1>2, <2>3, <3>1, <3>2, CommitHolders
  <2>4. \A u \in Unit : Holders(u)' \subseteq Documents
    BY <2>1, <2>2, <2>3, HoldersAreDocuments
  <2>5. H' \in [Unit -> Documents \cup {None}]
    <3>1. \A u \in Unit : HolderOf(u)' \in Documents \cup {None}
      BY <2>4 DEF HolderOf, AnyOf
    <3> QED BY <3>1
  <2>6. \A u \in Unit : u \notin Moved(t) => HolderOf(u)' = HolderOf(u)
    BY <2>1 DEF HolderOf
  <2>7. ASSUME NEW u \in Moved(t), ~Is(t, "return")
        PROVE  HolderOf(u) = None /\ HolderOf(u)' = Document(t)
    BY <2>2, <2>7 DEF HolderOf, AnyOf
  <2>8. ASSUME NEW u \in Moved(t), Is(t, "return")
        PROVE  HolderOf(u) = Document(t) /\ HolderOf(u)' = None
    BY <2>3, <2>8 DEF HolderOf, AnyOf
  <2>9. CASE req[t].kind \in {"sale", "adjust", "fulfil"}
    <3>1. /\ Document(t) \in Documents /\ Document(t) \notin Closed
          /\ Closed' = Closed \cup {Document(t)}
      BY <1>2, <2>9, CommitCloses
    <3>2. \A u \in Unit : H'[u] = H[u] \/ (H[u] = None /\ H'[u] = Document(t))
      BY <2>6, <2>7, <2>9 DEF Is
    <3> QED BY <2>5, <3>1, <3>2 DEF Custody!Next, Custody!Take, Closed, Documents, HolderOf, AnyOf
  <2>10. CASE Is(t, "return")
    <3>1. Closed' = Closed
      BY <1>2, <2>10, CommitCloses DEF Is
    <3>2. CASE Moved(t) = {}
      <4>1. H' = H
        BY <2>6, <3>2
      <4> QED BY <3>1, <4>1 DEF Custody!vars, Closed, HolderOf, AnyOf
    <3>3. CASE Moved(t) # {}
      <4>1. PICK u \in Moved(t) : TRUE
        BY <3>3
      <4>2. u \in Unit /\ Document(t) \in Documents
        BY <2>3, <2>10, <4>1 DEF Documents
      <4>3. H' # H \/ H' = H
        OBVIOUS
      <4>4. \A v \in Unit : H'[v] = H[v] \/ (H[v] = Document(t) /\ H'[v] = None)
        BY <2>6, <2>8, <2>10
      <4>5. CASE H' = H
        BY <3>1, <4>5 DEF Custody!vars, Closed, HolderOf, AnyOf
      <4>6. CASE H' # H
        BY <2>5, <3>1, <4>2, <4>4, <4>6 DEF Custody!Next, Custody!GiveBack, Closed, Documents, HolderOf, AnyOf
      <4> QED BY <4>5, <4>6
    <3> QED BY <3>2, <3>3
  <2>11. CASE req[t].kind \notin {"sale", "adjust", "fulfil", "return"}
    <3>1. Moved(t) = {}
      BY <1>2, <2>11, HoldsWhatItWrites, CommitWrites DEF CustodyInv
    <3>2. H' = H
      BY <2>6, <3>1
    <3>3. CASE Is(t, "cancel") /\ <<"pull", req[t].pull>> \notin Closed
      <4> DEFINE d == <<"pull", req[t].pull>>
      <4>1. d \in Documents /\ d \notin Closed /\ Closed' = Closed \cup {d}
        BY <1>2, <3>3, CommitCloses
      <4>2. \A u \in Unit : H'[u] = H[u]
        BY <3>2
      <4> HIDE DEF d
      <4> QED BY <2>5, <4>1, <4>2 DEF Custody!Next, Custody!Take, Closed, Documents, HolderOf, AnyOf
    <3>4. CASE ~(Is(t, "cancel") /\ <<"pull", req[t].pull>> \notin Closed)
      <4>1. Closed' = Closed
        BY <1>2, <2>11, <3>4, CommitCloses DEF Is
      <4> QED BY <3>2, <4>1 DEF Custody!vars, Closed, HolderOf, AnyOf
    <3> QED BY <3>3, <3>4
  <2> QED BY <2>9, <2>10, <2>11 DEF Is
<1> QED BY <1>1, <1>2, StepsAre DEF CustodyInv

(* Every interleaving of the handlers' statements amounts to documents     *)
(* taking free units all at once, each document once, and giving them back. *)
THEOREM HandlersImplementCustody == Spec => ImplementsCustody
<1>1. CustodyInv /\ [Next]_vars => [Custody!Next]_(Custody!vars)
  BY CustodyStep
<1> QED BY CustodyStarts, CustodyHolds, <1>1, PTL DEF Spec, ImplementsCustody, Custody!Spec
-----------------------------------------------------------------------------
(* The workloads in which a return gives back one unit.  With two, lines   *)
(* are in the random order of their ids, and returns can wait in a circle. *)
SingleUnitReturns ==
  \A load \in Workload, t \in Tx :
    load[t].kind = "return" => \A u, v \in load[t].units : u = v

(* One order of all rows, which every handler follows.                     *)
Rank(r) ==
  CASE r[1] = "line" -> 0
    [] r[1] = "override" -> 1
    [] r[1] = "pull" -> 2
    [] r[1] = "key" /\ r[2] = "return" -> 3
    [] r[1] = "unit" -> 4
    [] OTHER -> 5

Place(r) == IF r[1] \in {"unit", "override"} THEN r[2] ELSE 0

Precedes(q, r) ==
  \/ Rank(q) < Rank(r)
  \/ Rank(q) = Rank(r) /\ Place(q) < Place(r)

(* A lock is held for a row that was read, or for a key that was committed. *)
HeldIsRead == \A t \in Tx, r \in Rows : lock[r] = t => Read(t, r) \/ Done(t)

ReadIsNeeded == \A t \in Tx, r \in Rows : Read(t, r) => r \in Needs(t)

(* What a handler has still to lock comes after all it holds.              *)
ReadInOrder ==
  \A t \in Tx, q \in Rows : \A r \in Needs(t) :
    Read(t, q) /\ ~Read(t, r) => Precedes(q, r)

OrderInv == LockInv /\ HeldIsRead /\ ReadIsNeeded /\ ReadInOrder
-----------------------------------------------------------------------------
(* The requests the schemas let through: overrides and pulls go with their *)
(* kinds.                                                                  *)
LEMMA RequestsCite ==
  ASSUME LockInv, NEW t \in Tx
  PROVE  /\ req[t].kind \in {"return", "fulfil", "cancel", "adjust"} => Cited(t) = {}
         /\ req[t].kind \notin {"fulfil", "cancel"} => Pull \cap {req[t].pull} = {}
         /\ SingleUnitReturns /\ Is(t, "return") => \A u, v \in UnitsOf(t) : u = v
<1>1. req \in Workload
  BY DEF LockInv, RequestsGiven
<1>2. req[t].kind \in {"return", "fulfil", "cancel", "adjust"} => Cited(t) = {}
  BY <1>1, TxAssumption DEF Cited
<1>3. req[t].kind \notin {"fulfil", "cancel"} => Pull \cap {req[t].pull} = {}
  BY <1>1, TxAssumption
<1>4. SingleUnitReturns /\ Is(t, "return") => \A u, v \in UnitsOf(t) : u = v
  <2>1. SingleUnitReturns /\ Is(t, "return") => \A u, v \in req[t].units : u = v
    BY <1>1 DEF SingleUnitReturns, Is
  <2> QED BY <2>1 DEF UnitsOf, Is
<1> QED BY <1>2, <1>3, <1>4

(* The rows of a request, table by table.                                  *)
LEMMA NeedsAre ==
  ASSUME LockInv, NEW t \in Tx, NEW r \in Needs(t)
  PROVE  /\ r \in Rows
         /\ \/ \E u \in UnitsOf(t) : u \in Unit /\ r = UnitRow(u)
            \/ \E o \in Cited(t) : o \in Override /\ r = OverrideRow(o)
            \/ req[t].pull \in Pull /\ r = PullRow(req[t].pull)
            \/ Is(t, "return") /\ \E u \in UnitsOf(t) : u \in Unit /\ r = LineRow(req[t].sale, u)
            \/ req[t].kind \in Keyed /\ r = KeyRow(req[t])
<1>1. UnitsOf(t) \subseteq Unit
  BY RequestsAre, TypesOf DEF UnitsOf, Is
<1>2. Cited(t) \subseteq Override
  BY RequestsAre
<1>3. CASE \E u \in UnitsOf(t) : r = UnitRow(u)
  BY <1>1, <1>3, RowsAre
<1>4. CASE \E o \in Cited(t) : r = OverrideRow(o)
  BY <1>2, <1>4, RowsAre
<1>5. CASE \E p \in Pull \cap {req[t].pull} : r = PullRow(p)
  BY <1>5, RowsAre
<1>6. CASE Is(t, "return") /\ \E u \in UnitsOf(t) : r = LineRow(req[t].sale, u)
  BY <1>1, <1>6, RowsAre, RequestsAre
<1>7. CASE req[t].kind \in Keyed /\ r = KeyRow(req[t])
  BY <1>7, RowsAre, RequestsAre
<1> QED BY <1>3, <1>4, <1>5, <1>6, <1>7 DEF Needs

(* What the table of a row says of its stage and of its rank.              *)
StageAndRank(t, r, i, n) == Stage(t, r) = i /\ Rank(r) = n

LEMMA StagesAre ==
  ASSUME LockInv, NEW t \in Tx, NEW r \in Needs(t)
  PROVE  LET k == req[t].kind IN
         /\ k = "sale" =>
              \/ r[1] = "override" /\ StageAndRank(t, r, 1, 1)
              \/ r[1] = "unit" /\ StageAndRank(t, r, 2, 4)
              \/ r[1] = "key" /\ StageAndRank(t, r, 3, 5)
         /\ k = "ticket" =>
              \/ r[1] = "override" /\ StageAndRank(t, r, 1, 1)
              \/ r[1] = "key" /\ StageAndRank(t, r, 2, 5)
         /\ k = "return" =>
              \/ r[1] = "line" /\ StageAndRank(t, r, 1, 0)
              \/ r[1] = "key" /\ StageAndRank(t, r, 2, 3)
              \/ r[1] = "unit" /\ StageAndRank(t, r, 3, 4)
         /\ k = "fulfil" =>
              \/ r[1] = "pull" /\ StageAndRank(t, r, 1, 2)
              \/ r[1] = "unit" /\ StageAndRank(t, r, 2, 4)
         /\ k = "adjust" =>
              \/ r[1] = "unit" /\ StageAndRank(t, r, 1, 4)
              \/ r[1] = "key" /\ StageAndRank(t, r, 2, 5)
         /\ k = "cancel" => r[1] = "pull" /\ StageAndRank(t, r, 1, 2)
         /\ k \in {"approve", "reject"} =>
              r[1] = "override" /\ StageAndRank(t, r, 1, 1)
<1> DEFINE k == req[t].kind
<1>0. k \in Kinds /\ (k \in {"ticket", "cancel", "approve", "reject"} => UnitsOf(t) = {})
      /\ (Is(t, "return") <=> k = "return")
  BY RequestsAre DEF UnitsOf, Is
<1>1. /\ r[1] \in {"unit", "override", "pull", "line", "key"}
      /\ r[1] = "unit" => UnitsOf(t) # {}
      /\ r[1] = "override" => Cited(t) # {}
      /\ r[1] = "pull" => req[t].pull \in Pull
      /\ r[1] = "line" => k = "return"
      /\ r[1] = "key" => k \in Keyed /\ r[2] = k
  <2>1. \A x : /\ UnitRow(x)[1] = "unit" /\ OverrideRow(x)[1] = "override"
               /\ PullRow(x)[1] = "pull" /\ \A y : LineRow(y, x)[1] = "line"
    BY DEF UnitRow, OverrideRow, PullRow, LineRow
  <2>2. KeyRow(req[t])[1] = "key" /\ KeyRow(req[t])[2] = k
    BY DEF KeyRow
  <2> QED BY <1>0, <2>1, <2>2, NeedsAre
<1>2. Rank(r) = CASE r[1] = "line" -> 0
                  [] r[1] = "override" -> 1
                  [] r[1] = "pull" -> 2
                  [] r[1] = "unit" -> 4
                  [] OTHER -> IF k = "return" THEN 3 ELSE 5
  BY <1>1 DEF Rank
<1>3. ASSUME NEW s, s = TableOrder(k), NEW i \in DOMAIN s, s[i] = r[1],
             \A j \in DOMAIN s : s[j] = s[i] => j = i
      PROVE  Stage(t, r) = i
  BY <1>3 DEF Stage
<1>4. CASE k = "sale"
  <2>1. TableOrder(k) = <<"override", "unit", "key">>
    BY <1>4 DEF TableOrder
  <2>2. r[1] \in {"override", "unit", "key"}
    BY <1>0, <1>1, <1>4, RequestsCite
  <2> QED BY <1>2, <1>3, <1>4, <2>1, <2>2 DEF StageAndRank
<1>5. CASE k = "ticket"
  <2>1. TableOrder(k) = <<"override", "key">>
    BY <1>5 DEF TableOrder
  <2>2. r[1] \in {"override", "key"}
    BY <1>0, <1>1, <1>5, RequestsCite
  <2> QED BY <1>2, <1>3, <1>5, <2>1, <2>2 DEF StageAndRank
<1>6. CASE k = "return"
  <2>1. TableOrder(k) = <<"line", "key", "unit">>
    BY <1>6 DEF TableOrder
  <2>2. r[1] \in {"line", "key", "unit"}
    BY <1>0, <1>1, <1>6, RequestsCite
  <2> QED BY <1>2, <1>3, <1>6, <2>1, <2>2 DEF StageAndRank
<1>7. CASE k = "fulfil"
  <2>1. TableOrder(k) = <<"pull", "unit">>
    BY <1>7 DEF TableOrder
  <2>2. r[1] \in {"pull", "unit"}
    BY <1>0, <1>1, <1>7, RequestsCite DEF Keyed
  <2> QED BY <1>2, <1>3, <1>7, <2>1, <2>2 DEF StageAndRank
<1>8. CASE k = "adjust"
  <2>1. TableOrder(k) = <<"unit", "key">>
    BY <1>8 DEF TableOrder
  <2>2. r[1] \in {"unit", "key"}
    BY <1>0, <1>1, <1>8, RequestsCite
  <2> QED BY <1>2, <1>3, <1>8, <2>1, <2>2 DEF StageAndRank
<1>9. CASE k = "cancel"
  <2>1. TableOrder(k) = <<"pull">>
    BY <1>9 DEF TableOrder
  <2>2. r[1] = "pull"
    BY <1>0, <1>1, <1>9, RequestsCite DEF Keyed
  <2> QED BY <1>2, <1>3, <1>9, <2>1, <2>2 DEF StageAndRank
<1>10. CASE k \in {"approve", "reject"}
  <2>1. TableOrder(k) = <<"override">>
    BY <1>10 DEF TableOrder
  <2>2. r[1] = "override"
    BY <1>0, <1>1, <1>10, RequestsCite DEF Keyed
  <2> QED BY <1>2, <1>3, <1>10, <2>1, <2>2 DEF StageAndRank
<1> QED BY <1>4, <1>5, <1>6, <1>7, <1>8, <1>9, <1>10

(* The next row of a handler comes before all others it has not read.      *)
LEMMA NextIsFirst ==
  ASSUME LockInv, SingleUnitReturns, NEW t \in Tx, NEW r \in Needs(t), NextRow(t, r),
         NEW q \in Needs(t), ~Read(t, q), q # r
  PROVE  Precedes(r, q)
<1>0. /\ \/ Stage(t, r) < Stage(t, q)
         \/ Stage(t, r) = Stage(t, q) /\ RowOrder(t, r) <= RowOrder(t, q)
      /\ req[t].kind \in Kinds
  BY RequestsAre DEF NextRow
<1>1. CASE Stage(t, r) < Stage(t, q)
  <2>1. Rank(r) < Rank(q)
    BY <1>0, <1>1, StagesAre DEF StageAndRank, Kinds, Keyed
  <2> QED BY <2>1 DEF Precedes
<1>2. CASE Stage(t, r) = Stage(t, q) /\ RowOrder(t, r) <= RowOrder(t, q)
  <2>1. r[1] = q[1] /\ Rank(r) = Rank(q)
    BY <1>0, <1>2, StagesAre DEF StageAndRank, Kinds, Keyed
  <2>2. Is(t, "return") => \A u, v \in UnitsOf(t) : u = v
    BY RequestsCite
  <2>3. \A x : /\ UnitRow(x)[1] = "unit" /\ OverrideRow(x)[1] = "override"
               /\ PullRow(x)[1] = "pull" /\ \A y : LineRow(y, x)[1] = "line"
               /\ UnitRow(x)[2] = x /\ OverrideRow(x)[2] = x
    BY DEF UnitRow, OverrideRow, PullRow, LineRow
  <2>4. KeyRow(req[t])[1] = "key"
    BY DEF KeyRow
  <2>5. /\ r[1] \in {"unit", "override"} /\ ~(r[1] = "unit" /\ Is(t, "return"))
        /\ r[2] # q[2] /\ r[2] \in Nat /\ q[2] \in Nat
    <3>1. CASE r[1] = "unit"
      <4>1. PICK u \in UnitsOf(t) : u \in Unit /\ r = UnitRow(u)
        BY <2>3, <2>4, <3>1, NeedsAre
      <4>2. PICK v \in UnitsOf(t) : v \in Unit /\ q = UnitRow(v)
        <5>1. q[1] = "unit"
          BY <2>1, <3>1
        <5> QED BY <2>3, <2>4, <5>1, NeedsAre
      <4>3. u # v
        BY <4>1, <4>2
      <4> QED BY <2>2, <2>3, <3>1, <4>1, <4>2, <4>3, OrderAssumption
    <3>2. CASE r[1] = "override"
      <4>1. PICK o \in Override : r = OverrideRow(o)
        BY <2>3, <2>4, <3>2, NeedsAre
      <4>2. PICK p \in Override : q = OverrideRow(p)
        <5>1. q[1] = "override"
          BY <2>1, <3>2
        <5> QED BY <2>3, <2>4, <5>1, NeedsAre
      <4>3. o # p
        BY <4>1, <4>2
      <4> QED BY <2>3, <3>2, <4>1, <4>2, <4>3, OrderAssumption
    <3>3. CASE r[1] = "line"
      <4>1. Is(t, "return") /\ \E u \in UnitsOf(t) : r = LineRow(req[t].sale, u)
        BY <2>3, <2>4, <3>3, NeedsAre
      <4>2. \E u \in UnitsOf(t) : q = LineRow(req[t].sale, u)
        BY <2>1, <2>3, <2>4, <3>3, NeedsAre
      <4> QED BY <2>2, <4>1, <4>2
    <3>4. CASE r[1] \in {"pull", "key"}
      <4>1. r \in {PullRow(req[t].pull), KeyRow(req[t])}
        BY <2>3, <3>4, NeedsAre
      <4>2. q \in {PullRow(req[t].pull), KeyRow(req[t])}
        BY <2>1, <2>3, <3>4, NeedsAre
      <4> QED BY <2>1, <2>3, <2>4, <4>1, <4>2
    <3>5. r[1] \in {"unit", "override", "line", "pull", "key"}
      BY NeedsAre DEF Rows
    <3> QED BY <3>1, <3>2, <3>3, <3>4, <3>5
  <2>6. RowOrder(t, r) = r[2] /\ RowOrder(t, q) = q[2]
    BY <2>1, <2>5 DEF RowOrder
  <2> QED BY <1>2, <2>1, <2>5, <2>6 DEF Precedes, Place
<1> QED BY <1>0, <1>1, <1>2
-----------------------------------------------------------------------------
LEMMA OrderInit == Init => OrderInv
<1> SUFFICES ASSUME Init PROVE OrderInv
  OBVIOUS
<1>1. \A t \in Tx, r \in Rows : ~Read(t, r) /\ lock[r] # t
  BY TxAssumption DEF Init, Read, Unread
<1> QED BY <1>1, LockInit DEF OrderInv, HeldIsRead, ReadIsNeeded, ReadInOrder

(* What a request needs depends on what its session has read of its pull.  *)
LEMMA SameNeeds ==
  ASSUME req' = req, NEW t \in Tx, seen'[t] = seen[t]
  PROVE  Needs(t)' = Needs(t) /\ \A r : Read(t, r)' = Read(t, r)
<1>1. \A r : Read(t, r)' = Read(t, r)
  BY DEF Read
<1>2. UnitsOf(t)' = UnitsOf(t)
  BY <1>1 DEF UnitsOf, Is
<1>3. Cited(t)' = Cited(t)
  BY DEF Cited
<1> QED BY <1>1, <1>2, <1>3 DEF Needs, Is

(* Steps by which nobody reads a row, and a session may end.               *)
LEMMA OrderKept ==
  ASSUME OrderInv, LockInv', req' = req, \A x \in Tx : Done(x) => Done(x)',
         \A x \in Tx : \/ seen'[x] = seen[x]
                       \/ seen'[x] = Unread /\ \A r \in Rows : lock'[r] = x => Done(x)',
         \A r \in Rows : lock'[r] = lock[r] \/ lock'[r] = None
  PROVE  OrderInv'
<1>1. \A x \in Tx : seen'[x] = Unread => \A r \in Rows : ~Read(x, r)'
  BY DEF Read, Unread
<1>2. HeldIsRead'
  <2> SUFFICES ASSUME NEW x \in Tx, NEW r \in Rows, lock'[r] = x
               PROVE  Read(x, r)' \/ Done(x)'
    BY DEF HeldIsRead
  <2>1. lock[r] = x
    BY TypesOf DEF OrderInv
  <2> QED BY <2>1, SameNeeds DEF OrderInv, HeldIsRead
<1>3. ReadIsNeeded'
  BY <1>1, SameNeeds DEF OrderInv, ReadIsNeeded
<1>4. ReadInOrder'
  <2> SUFFICES ASSUME NEW x \in Tx, NEW q \in Rows, NEW r \in Needs(x)', Read(x, q)', ~Read(x, r)'
               PROVE  Precedes(q, r)
    BY DEF ReadInOrder, Precedes, Rank, Place
  <2>1. seen'[x] = seen[x]
    BY <1>1
  <2> QED BY <2>1, SameNeeds DEF OrderInv, ReadInOrder
<1> QED BY <1>2, <1>3, <1>4 DEF OrderInv

(* A row is locked: it was the first of those not yet read, and those its  *)
(* reading adds, the units of a pull, come after the pull.                 *)
LEMMA OrderGrows ==
  ASSUME OrderInv, LockInv', SingleUnitReturns, NEW t \in Tx, NEW r \in Needs(t), LockRow(t, r)
  PROVE  OrderInv'
<1>0. /\ NextRow(t, r) /\ lock[r] = None /\ r \in Needs(t) /\ ~Read(t, r)
      /\ lock' = [lock EXCEPT ![r] = t]
      /\ seen' = [seen EXCEPT ![t] = [seen[t] EXCEPT ![r] = RowState(r)]]
      /\ UNCHANGED <<unitState, overrideState, pullState, req, pc>>
  BY DEF LockRow, Free, rows, NextRow
<1>1. r \in Rows
  BY NeedsAre DEF OrderInv
<1>2. RowState(r) # "unread"
  BY <1>1 DEF RowState, Rows, OrderInv, LockInv, TypeOK, UnitStates, PullStates, OverrideStates
<1>3. /\ \A x \in Tx : x # t => seen'[x] = seen[x]
      /\ \A q \in Rows : Read(t, q)' <=> Read(t, q) \/ q = r
  <2>1. seen'[t] = [seen[t] EXCEPT ![r] = RowState(r)] /\ \A x \in Tx : x # t => seen'[x] = seen[x]
    BY <1>0 DEF OrderInv, LockInv, TypeOK
  <2>2. DOMAIN seen[t] = Rows
    BY TypesOf DEF OrderInv
  <2> QED BY <1>1, <1>2, <2>1, <2>2 DEF Read
<1>4. \/ Needs(t)' = Needs(t)
      \/ /\ Is(t, "fulfil") /\ r = PullRow(req[t].pull) /\ req[t].pull \in Pull
         /\ Needs(t)' = Needs(t) \cup {UnitRow(u) : u \in PullUnits[req[t].pull]}
         /\ \A q \in Needs(t) : q = r
  <2>1. Cited(t)' = Cited(t) /\ \A k : Is(t, k)' = Is(t, k)
    BY <1>0 DEF Cited, Is
  <2>2. CASE UnitsOf(t)' = UnitsOf(t)
    BY <1>0, <2>1, <2>2 DEF Needs
  <2>3. CASE UnitsOf(t)' # UnitsOf(t)
    <3>1. Is(t, "fulfil")
      BY <1>0, <2>1, <2>3 DEF UnitsOf, Is
    <3>2. req[t].pull \in Pull /\ PullRow(req[t].pull) \in Rows
      BY <3>1, RequestsAre, RowsAre DEF OrderInv, Is
    <3>3. r = PullRow(req[t].pull) /\ UnitsOf(t) = {} /\ UnitsOf(t)' = PullUnits[req[t].pull]
      BY <1>0, <1>3, <2>1, <2>3, <3>1, <3>2 DEF UnitsOf
    <3>4. Cited(t) = {} /\ req[t].kind \notin Keyed /\ ~Is(t, "return")
      BY <3>1, RequestsCite DEF OrderInv, Is, Keyed
    <3>5. Needs(t) = {PullRow(p) : p \in Pull \cap {req[t].pull}}
      BY <3>3, <3>4 DEF Needs
    <3>6. Needs(t)' = {UnitRow(u) : u \in PullUnits[req[t].pull]}
                      \cup {PullRow(p) : p \in Pull \cap {req[t].pull}}
      BY <1>0, <2>1, <3>3, <3>4 DEF Needs
    <3> QED BY <3>1, <3>2, <3>3, <3>5, <3>6
  <2> QED BY <2>2, <2>3
<1>5. HeldIsRead'
  <2> SUFFICES ASSUME NEW x \in Tx, NEW q \in Rows, lock'[q] = x
               PROVE  Read(x, q)' \/ Done(x)'
    BY DEF HeldIsRead
  <2>1. CASE q = r
    BY <1>0, <1>1, <1>3, <2>1 DEF OrderInv, LockInv, TypeOK
  <2>2. CASE q # r
    <3>1. lock[q] = x
      BY <1>0, <2>2 DEF OrderInv, LockInv, TypeOK
    <3>2. Read(x, q) \/ Done(x)
      BY <3>1 DEF OrderInv, HeldIsRead
    <3> QED BY <1>0, <1>3, <3>2, SameNeeds DEF Done
  <2> QED BY <2>1, <2>2
<1>6. ReadIsNeeded'
  <2> SUFFICES ASSUME NEW x \in Tx, NEW q \in Rows, Read(x, q)'
               PROVE  q \in Needs(x)'
    BY DEF ReadIsNeeded
  <2>1. CASE x = t
    BY <1>0, <1>3, <1>4, <2>1 DEF OrderInv, ReadIsNeeded
  <2>2. CASE x # t
    BY <1>0, <1>3, <2>2, SameNeeds DEF OrderInv, ReadIsNeeded
  <2> QED BY <2>1, <2>2
<1>7. ReadInOrder'
  <2> SUFFICES ASSUME NEW x \in Tx, NEW q \in Rows, NEW n \in Needs(x)', Read(x, q)', ~Read(x, n)'
               PROVE  Precedes(q, n)
    BY DEF ReadInOrder, Precedes, Rank, Place
  <2>1. CASE x # t
    BY <1>0, <1>3, <2>1, SameNeeds DEF OrderInv, ReadInOrder
  <2>2. CASE x = t /\ n \in Needs(t)
    <3>1. ~Read(t, n) /\ n # r /\ n \in Rows
      BY <1>1, <1>3, <2>2, NeedsAre DEF OrderInv
    <3>2. CASE q = r
      BY <1>0, <2>2, <3>1, <3>2, NextIsFirst DEF OrderInv
    <3>3. CASE q # r
      BY <1>3, <2>2, <3>1, <3>3 DEF OrderInv, ReadInOrder
    <3> QED BY <3>2, <3>3
  <2>3. CASE x = t /\ n \notin Needs(t)
    <3>1. /\ r = PullRow(req[t].pull) /\ \A m \in Needs(t) : m = r
          /\ \E u \in PullUnits[req[t].pull] : n = UnitRow(u)
      BY <1>4, <2>3
    <3>2. q = r
      BY <1>3, <2>3, <3>1 DEF OrderInv, ReadIsNeeded
    <3>3. q[1] = "pull" /\ n[1] = "unit"
      BY <3>1, <3>2 DEF PullRow, UnitRow
    <3> QED BY <3>3 DEF Precedes, Rank
  <2> QED BY <2>1, <2>2, <2>3
<1> QED BY <1>5, <1>6, <1>7 DEF OrderInv

LEMMA OrderNext ==
  ASSUME OrderInv, SingleUnitReturns, [Next]_vars
  PROVE  OrderInv'
<1>0. LockInv /\ LockInv'
  BY StepsAre DEF OrderInv
<1>1. CASE UNCHANGED vars
  BY <1>0, <1>1, OrderKept DEF vars, Done
<1>2. ASSUME NEW t \in Tx, Replay(t) \/ NoSuchSale(t) \/ Begin(t) \/ Build(t)
                           \/ \E u \in Unit : CheckLine(t, u)
      PROVE  OrderInv'
  <2>1. UNCHANGED <<req, lock, seen>> /\ pc[t] # "done" /\ \A x \in Tx : x # t => pc'[x] = pc[x]
    BY <1>0, <1>2 DEF Replay, NoSuchSale, Begin, Build, CheckLine, NextUnitLine, AnswerAtOnce,
                      LockInv, TypeOK
  <2> QED BY <1>0, <2>1, OrderKept DEF Done
<1>3. ASSUME NEW t \in Tx, NEW o \in Outcomes \ {"done"}, Active(t), Abort(t, o)
      PROVE  OrderInv'
  <2>1. /\ UNCHANGED req /\ seen'[t] = Unread /\ pc[t] # "done"
        /\ \A x \in Tx : x # t => pc'[x] = pc[x] /\ seen'[x] = seen[x]
        /\ \A r \in Rows : lock'[r] # t /\ (lock'[r] = lock[r] \/ lock'[r] = None)
    BY <1>0, <1>3, TypesOf DEF Abort, EndSession, Active, LockInv, TypeOK
  <2> QED BY <1>0, <2>1, OrderKept DEF Done
<1>4. ASSUME NEW t \in Tx, Stop(t) \/ DuplicateKey(t) \/ DeadlockVictim(t) \/ Crash(t)
                           \/ \E u \in Unit : OverReturn(t, u)
      PROVE  \E o \in Outcomes \ {"done"} : Active(t) /\ Abort(t, o)
  BY <1>4, VerdictIs DEF Stop, DuplicateKey, DeadlockVictim, Crash, OverReturn, NextUnitLine,
                         WaitsFor, Active, Outcomes
<1>5. ASSUME NEW t \in Tx, NEW r \in Needs(t), LockRow(t, r)
      PROVE  OrderInv'
  BY <1>0, <1>5, OrderGrows
<1>6. ASSUME NEW t \in Tx, Commit(t) PROVE OrderInv'
  <2>1. /\ UNCHANGED req /\ pc'[t] = "done" /\ seen'[t] = Unread
        /\ \A x \in Tx : x # t => pc'[x] = pc[x] /\ seen'[x] = seen[x]
    BY <1>0, <1>6, CommitWrites
  <2>2. \A r \in Rows : lock'[r] = lock[r] \/ lock'[r] = None
    BY <1>6 DEF Commit
  <2> QED BY <1>0, <2>1, <2>2, OrderKept DEF Done
<1> QED BY <1>1, <1>2, <1>3, <1>4, <1>5, <1>6 DEF Next, Handle

(* In a circle of waits every awaited row is held by a handler that awaits *)
(* a later one.                                                            *)
LEMMA NoCircle == OrderInv => NoDeadlock
<1> SUFFICES ASSUME OrderInv, NEW C \in SUBSET Tx, WaitCycle(C) PROVE FALSE
  BY DEF NoDeadlock
<1> DEFINE Awaits(t, r) == r \in Needs(t) /\ NextRow(t, r) /\ lock[r] \in C
           W == {r \in Rows : \E t \in C : Awaits(t, r)}
<1>1. \A t \in C : pc[t] = "lock" /\ \E r \in W : Awaits(t, r)
  <2> TAKE t \in C
  <2>1. PICK u \in C : WaitsFor(t, u)
    BY DEF WaitCycle
  <2>2. PICK r \in Needs(t) : NextRow(t, r) /\ lock[r] = u
    BY <2>1 DEF WaitsFor
  <2>3. r \in Rows
    BY <2>2, NeedsAre DEF OrderInv
  <2> QED BY <2>1, <2>2, <2>3 DEF WaitsFor
<1>2. W # {}
  BY <1>1 DEF WaitCycle
<1>3. \A r \in W : \E q \in W : Precedes(r, q)
  <2> TAKE r \in W
  <2>1. r \in Rows /\ lock[r] \in C
    OBVIOUS
  <2>2. PICK q \in W : Awaits(lock[r], q)
    BY <1>1, <2>1
  <2>3. Read(lock[r], r)
    BY <1>1, <2>1 DEF OrderInv, HeldIsRead, Done
  <2>4. q \in Needs(lock[r]) /\ ~Read(lock[r], q)
    BY <2>2 DEF NextRow
  <2>5. Precedes(r, q)
    BY <2>1, <2>3, <2>4 DEF OrderInv, ReadInOrder
  <2> QED BY <2>5
<1> DEFINE Ranks == {Rank(r) : r \in W}
           Places == {Place(r) : r \in W}
<1>4. Ranks \in SUBSET (0..5) /\ Places \in SUBSET (Unit \cup Override \cup {0})
  BY DEF Rank, Place, Rows
<1>5. \A r \in W : Rank(r) \in Ranks /\ Place(r) \in Places
  OBVIOUS
<1>6. \E r \in W : TRUE
  BY <1>2
<1> HIDE DEF W
<1>7. \E m \in Ranks : \A n \in Ranks : n <= m
  <2>1. IsFiniteSet(Ranks) /\ Ranks \subseteq Nat
    <3>1. IsFiniteSet(0..5)
      <4>1. 0 \in Int /\ 5 \in Int
        OBVIOUS
      <4> QED BY <4>1, FS_Interval, Zenon
    <3>2. Ranks \in SUBSET (0..5)
      BY <1>4
    <3> HIDE DEF Ranks
    <3>3. IsFiniteSet(Ranks)
      BY <3>1, <3>2, FS_Subset
    <3> QED BY <3>2, <3>3
  <2>2. Ranks # {}
    BY <1>6
  <2> HIDE DEF Ranks
  <2> QED BY <2>1, <2>2, OldestNewest
<1>8. PICK r \in W : \A q \in W : Rank(q) <= Rank(r)
  BY <1>5, <1>7
<1> DEFINE Top == {q \in W : Rank(q) = Rank(r)}
           Tops == {Place(q) : q \in Top}
<1>9. Tops # {} /\ Tops \subseteq Places
  BY <1>8
<1>10. \E m \in Tops : \A n \in Tops : n <= m
  <2>1. IsFiniteSet(Unit \cup Override \cup {0})
    BY OrderAssumption, FS_Union, FS_Singleton
  <2>2. Tops \in SUBSET (Unit \cup Override \cup {0})
    BY <1>4, <1>9
  <2> HIDE DEF Tops, Places
  <2>3. IsFiniteSet(Tops)
    BY <2>1, <2>2, FS_Subset
  <2>4. Tops \subseteq Nat
    BY <2>2, OrderAssumption
  <2> QED BY <1>9, <2>3, <2>4, OldestNewest
<1>11. PICK q \in Top : \A n \in Top : Place(n) <= Place(q)
  BY <1>10
<1>12. PICK n \in W : Precedes(q, n)
  BY <1>3
<1>13. Rank(q) = Rank(r) /\ Rank(n) <= Rank(r) /\ Rank(r) \in 0..5 /\ Rank(n) \in 0..5
  BY <1>4, <1>5, <1>8
<1>14. Rank(n) = Rank(r) /\ Place(q) < Place(n)
  BY <1>12, <1>13 DEF Precedes
<1>15. Place(n) <= Place(q) /\ Place(n) \in Nat /\ Place(q) \in Nat
  BY <1>4, <1>5, <1>11, <1>14, OrderAssumption
<1> QED BY <1>14, <1>15

(* Handlers that lock units, overrides, pulls and keys never wait in a     *)
(* circle, whatever they are and however many, as long as a return gives   *)
(* back one unit: overrides and pulls come before units, units go in id    *)
(* order, and the key comes last but for returns, whose keys are their own. *)
THEOREM NoUnitDeadlock == SingleUnitReturns => (Spec => []NoDeadlock)
<1> SUFFICES ASSUME SingleUnitReturns PROVE Spec => []NoDeadlock
  OBVIOUS
<1>1. OrderInv /\ [Next]_vars => OrderInv'
  BY OrderNext
<1> QED BY OrderInit, <1>1, NoCircle, PTL DEF Spec
=============================================================================
