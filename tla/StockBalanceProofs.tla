-------------------------- MODULE StockBalanceProofs --------------------------
(***************************************************************************)
(* The balance of the batches and of the returns, for every set of         *)
(* batches, products, handlers and requests.                               *)
(***************************************************************************)
EXTENDS StockTxProofs

(* The lines of a sale have distinct ids.                                  *)
LinesOrdered ==
  \A s \in Tx : IsSale(s) =>
    \A p, q \in Product : lineId[s][p] = lineId[s][q] => p = q

(* A return at work, or made, is of a sale that was made.                  *)
SaleMade ==
  \A t \in Tx :
    req[t].kind = "return" /\ (Created(t) \/ Active(t)) => IsSale(req[t].sale)

(* A return past its first query holds every sale line it cites.           *)
LinesHeld ==
  \A t \in Tx :
    req[t].kind = "return" /\ pc[t] \in {"header", "query", "lock"} =>
      \A p \in Lines(req[t]) : lineLock[req[t].sale][p] = t

(* The line is planned: it is done, or its rows are being locked.          *)
Planned(t, p) == p \notin todo[t] \/ (pc[t] = "lock" /\ NextLine(t, p))

NoneOf(t, p) == \A b \in Batch : ProductOf[b] = p => cost[t][b] = 0

PlanOf(t, p) ==
  LET s == req[t].sale
  IN  ReturnPlan(OfProduct(cost[s], p), ReturnedSoFar(s, p), req[t].qty[p])

(* What a return is about to restore for a line is the plan as the         *)
(* committed returns still stand, and stays within the line.               *)
PlanFits(t) ==
  /\ todo[t] \subseteq Lines(req[t])
  /\ \A p \in Product :
       /\ p \notin Lines(req[t]) \/ ~Planned(t, p) => NoneOf(t, p)
       /\ p \in Lines(req[t]) /\ Planned(t, p) =>
            /\ ReturnedSoFar(req[t].sale, p) + req[t].qty[p]
                 <= req[req[t].sale].qty[p]
            /\ \A b \in Batch : ProductOf[b] = p => cost[t][b] = PlanOf(t, p)[b]

PlansFit ==
  \A t \in Tx : pc[t] \in Writing /\ ~IsConsumer(t) => PlanFits(t)

(* The pieces of a batch that sold and were not returned.                  *)
Outstanding(b) ==
  Total([s \in Tx |-> IF IsSale(s) THEN cost[s][b] - PutBack(s, b) ELSE 0], Tx)

Balanced == \A b \in Batch : remaining[b] + Taken(b) = received[b] + GivenBack(b)

Bounded == \A b \in Batch : remaining[b] + Outstanding(b) <= received[b]

ReturnInv ==
  /\ LinesOrdered /\ SaleMade /\ LinesHeld /\ PlansFit
  /\ ReturnsUndoTheSale /\ Balanced /\ Bounded
-----------------------------------------------------------------------------
(* A sum of nothing is zero.                                               *)
LEMMA TotalOfNone ==
  ASSUME NEW S, NEW f, \A x \in S : f[x] = 0 PROVE Total(f, S) = 0
<1>1. Total(f, S) = Total(f, {})
  BY TotalZeroOutside
<1> QED BY <1>1, TotalEmpty

(* The sums of the ledger are over quantities.                             *)
LEMMA SumTypes ==
  ASSUME TypeOK, NEW b \in Batch, NEW s \in Tx
  PROVE  Taken(b) \in Nat /\ GivenBack(b) \in Nat /\ PutBack(s, b) \in Nat
<1> DEFINE
      f == [t \in Tx |-> IF Created(t) /\ IsConsumer(t) THEN cost[t][b] ELSE 0]
      g == [t \in Tx |-> IF Created(t) /\ req[t].kind = "return"
                         THEN cost[t][b] ELSE 0]
      h == [t \in Tx |-> IF IsReturnOf(t, s) THEN cost[t][b] ELSE 0]
<1>1. \A t \in Tx : cost[t][b] \in Nat
  BY DEF TypeOK
<1>2. \A t \in Tx : f[t] \in Nat /\ g[t] \in Nat /\ h[t] \in Nat
  BY <1>1
<1> HIDE DEF f, g, h
<1>3. Total(f, Tx) \in Nat /\ Total(g, Tx) \in Nat /\ Total(h, Tx) \in Nat
  BY <1>2, TxAssumption, TotalType
<1> QED BY <1>3 DEF Taken, GivenBack, PutBack, f, g, h

(* A prefix of what a product's batches supplied is within each batch.     *)
LEMMA PrefixWithin ==
  ASSUME NEW c \in [Batch -> Nat], NEW q \in Nat, NEW b \in Batch
  PROVE  LifoPrefix(OfProduct(c, ProductOf[b]), q)[b] <= c[b]
<1> DEFINE drawn == OfProduct(c, ProductOf[b])
<1>1. drawn \in [Batch -> Nat] /\ drawn[b] = c[b]
  BY DEF OfProduct
<1> HIDE DEF drawn
<1>2. LifoPrefix(drawn, q)[b] <= drawn[b]
  BY <1>1, BatchAssumption, LifoPrefixBounds
<1> QED BY <1>1, <1>2 DEF drawn

(* What came back of a sale is no more than it drew.                       *)
LEMMA PutBackBounded ==
  ASSUME TypeOK, ReturnsUndoTheSale, NEW s \in Tx, IsSale(s), NEW b \in Batch
  PROVE  PutBack(s, b) <= cost[s][b]
<1>1. ProductOf[b] \in Product /\ cost[s] \in [Batch -> Nat]
  BY ProductAssumption DEF TypeOK
<1>2. ReturnedSoFar(s, ProductOf[b]) \in Nat
  BY <1>1, ReturnedType
<1>3. PutBack(s, b) = LifoPrefix(OfProduct(cost[s], ProductOf[b]),
                                 ReturnedSoFar(s, ProductOf[b]))[b]
  BY <1>1 DEF ReturnsUndoTheSale
<1> QED BY <1>1, <1>2, <1>3, PrefixWithin

(* A summand of Outstanding is a quantity.                                 *)
LEMMA OutstandingType ==
  ASSUME TypeOK, ReturnsUndoTheSale, NEW b \in Batch
  PROVE  /\ \A s \in Tx :
              (IF IsSale(s) THEN cost[s][b] - PutBack(s, b) ELSE 0) \in Nat
         /\ Outstanding(b) \in Nat
<1> DEFINE f == [s \in Tx |-> IF IsSale(s) THEN cost[s][b] - PutBack(s, b) ELSE 0]
<1>1. ASSUME NEW s \in Tx
      PROVE  (IF IsSale(s) THEN cost[s][b] - PutBack(s, b) ELSE 0) \in Nat
  <2>1. cost[s][b] \in Nat /\ PutBack(s, b) \in Nat
    BY SumTypes DEF TypeOK
  <2>2. IsSale(s) => PutBack(s, b) <= cost[s][b]
    BY PutBackBounded
  <2> QED BY <2>1, <2>2
<1>2. \A s \in Tx : f[s] \in Nat
  BY <1>1
<1> HIDE DEF f
<1>3. Total(f, Tx) \in Nat
  BY <1>2, TxAssumption, TotalType
<1> QED BY <1>1, <1>3 DEF Outstanding, f

(* At the start nothing was sold, so nothing was returned.                 *)
LEMMA ReturnInit == Init => ReturnInv
<1> SUFFICES ASSUME Init PROVE ReturnInv
  OBVIOUS
<1>1. TypeOK
  BY TxInit DEF TxInv
<1>2. \A t \in Tx : ~Created(t) /\ ~Active(t) /\ pc[t] = "idle"
  BY DEF Init, Created, Active
<1>3. LinesOrdered /\ SaleMade /\ LinesHeld /\ PlansFit /\ ReturnsUndoTheSale
  BY <1>2 DEF LinesOrdered, SaleMade, LinesHeld, PlansFit, ReturnsUndoTheSale,
              IsSale, Writing
<1>4. ASSUME NEW b \in Batch
      PROVE  Taken(b) = 0 /\ GivenBack(b) = 0 /\ Outstanding(b) = 0
  BY <1>2, TotalOfNone DEF Taken, GivenBack, Outstanding, IsSale
<1>5. \A b \in Batch : remaining[b] = received[b] /\ remaining[b] \in Nat
  BY OpeningAssumption DEF Init
<1> QED BY <1>3, <1>4, <1>5 DEF ReturnInv, Balanced, Bounded

(* The sums only see committed requests, so a step that commits none of    *)
(* them leaves them as they are.                                           *)
LEMMA SumsKept ==
  ASSUME TypeOK, req' = req,
         \A t \in Tx : req[t].kind # "receive" =>
           /\ pc[t] = "created" <=> pc'[t] = "created"
           /\ pc[t] = "created" => cost'[t] = cost[t]
  PROVE  /\ \A s \in Tx : IsSale(s)' <=> IsSale(s)
         /\ \A s \in Tx, p \in Product : ReturnedSoFar(s, p)' = ReturnedSoFar(s, p)
         /\ \A s \in Tx, b \in Batch : PutBack(s, b)' = PutBack(s, b)
         /\ \A b \in Batch : Taken(b)' = Taken(b) /\ GivenBack(b)' = GivenBack(b)
<1>1. \A s \in Tx : IsSale(s)' <=> IsSale(s)
  BY DEF IsSale, Created
<1>2. \A t, s \in Tx : IsReturnOf(t, s)' <=> IsReturnOf(t, s)
  BY DEF IsReturnOf, Created
<1>3. ASSUME NEW s \in Tx, NEW p \in Product
      PROVE  ReturnedSoFar(s, p)' = ReturnedSoFar(s, p)
  BY <1>2 DEF ReturnedSoFar
<1>4. ASSUME NEW s \in Tx, NEW b \in Batch
      PROVE  PutBack(s, b)' = PutBack(s, b)
  <2>1. \A t \in Tx : (IF IsReturnOf(t, s) THEN cost[t][b] ELSE 0)'
                        = IF IsReturnOf(t, s) THEN cost[t][b] ELSE 0
    BY <1>2 DEF IsReturnOf, Created
  <2> QED BY <2>1 DEF PutBack
<1>5. ASSUME NEW b \in Batch
      PROVE  Taken(b)' = Taken(b) /\ GivenBack(b)' = GivenBack(b)
  <2>1. \A t \in Tx :
          (IF Created(t) /\ IsConsumer(t) THEN cost[t][b] ELSE 0)'
            = IF Created(t) /\ IsConsumer(t) THEN cost[t][b] ELSE 0
    BY DEF Created, IsConsumer, Consumers
  <2>2. \A t \in Tx :
          (IF Created(t) /\ req[t].kind = "return" THEN cost[t][b] ELSE 0)'
            = IF Created(t) /\ req[t].kind = "return" THEN cost[t][b] ELSE 0
    BY DEF Created
  <2> QED BY <2>1, <2>2 DEF Taken, GivenBack
<1> QED BY <1>1, <1>3, <1>4, <1>5

(* A return at work stays planned while others work, as long as nobody     *)
(* commits a return of the lines it holds.                                 *)
LEMMA PlanKept ==
  ASSUME TxInv, ReturnInv, NEW u \in Tx, pc[u] \in Writing, ~IsConsumer(u),
         req' = req, pc'[u] = pc[u], todo'[u] = todo[u], cost'[u] = cost[u],
         lineId'[req[u].sale] = lineId[req[u].sale],
         cost'[req[u].sale] = cost[req[u].sale],
         \A p \in Lines(req[u]) :
           ReturnedSoFar(req[u].sale, p)' = ReturnedSoFar(req[u].sale, p)
  PROVE  PlanFits(u)'
<1>1. PlanFits(u)
  BY DEF ReturnInv, PlansFit
<1>2. \A p \in Product : NextLine(u, p)' <=> NextLine(u, p)
  BY DEF NextLine, IsConsumer
<1>3. \A p \in Product : Planned(u, p)' <=> Planned(u, p)
  BY <1>2 DEF Planned
<1>4. \A p \in Product : NoneOf(u, p)' <=> NoneOf(u, p)
  BY DEF NoneOf
<1>5. \A p \in Lines(req[u]) : PlanOf(u, p)' = PlanOf(u, p)
  BY DEF PlanOf
<1>6. Lines(req[u])' = Lines(req[u])
  OBVIOUS
<1>7. PICK s \in {req[u].sale} : TRUE
  OBVIOUS
<1>8. /\ req[u].sale = s /\ req'[u].sale = s /\ req'[s] = req[s]
      /\ todo'[u] \subseteq Lines(req[u])
      /\ \A p \in Lines(req[u]) : ReturnedSoFar(s, p)' = ReturnedSoFar(s, p)
  BY <1>1, <1>7 DEF PlanFits
<1>9. ASSUME NEW p \in Product, p \notin Lines(req[u]) \/ ~Planned(u, p)'
      PROVE  NoneOf(u, p)'
  BY <1>1, <1>3, <1>4, <1>9 DEF PlanFits
<1>10. ASSUME NEW p \in Lines(req[u]), Planned(u, p)'
       PROVE  /\ ReturnedSoFar(s, p)' + req[u].qty[p] <= req[s].qty[p]
              /\ \A b \in Batch :
                   ProductOf[b] = p => cost'[u][b] = PlanOf(u, p)'[b]
  <2>1. p \in Product /\ Planned(u, p)
    BY <1>3, <1>10 DEF Lines
  <2>2. /\ ReturnedSoFar(s, p) + req[u].qty[p] <= req[s].qty[p]
        /\ \A b \in Batch : ProductOf[b] = p => cost[u][b] = PlanOf(u, p)[b]
    BY <1>1, <1>8, <1>10, <2>1 DEF PlanFits
  <2> QED BY <1>5, <1>8, <1>10, <2>2
<1> QED BY <1>6, <1>8, <1>9, <1>10 DEF PlanFits

(* What a kind of request in writing is.                                   *)
LEMMA WritingReturn ==
  ASSUME TxInv, ReturnInv, NEW t \in Tx, pc[t] \in Writing, ~IsConsumer(t)
  PROVE  /\ req[t].kind = "return" /\ req[t].sale \in Tx
         /\ IsSale(req[t].sale) /\ req[t].sale # t
<1>1. req[t].kind \in Kinds /\ req[t].kind # "receive"
  BY DEF TxInv, TypeOK, Request, SaleNamed
<1>2. req[t].kind = "return"
  BY <1>1 DEF IsConsumer, Kinds
<1>3. Active(t)
  BY DEF Active, Writing, Outcomes
<1> QED BY <1>2, <1>3 DEF TxInv, SaleNamed, ReturnInv, SaleMade, IsSale

(* A step that does not commit disturbs at most its own handler's plan and *)
(* locks.                                                                  *)
LEMMA QuietStep ==
  ASSUME TxInv, ReturnInv, NEW t \in Tx,
         UNCHANGED <<req, lineId, remaining, received>>,
         pc[t] # "created", pc'[t] # "created",
         \A u \in Tx : u # t =>
           pc'[u] = pc[u] /\ cost'[u] = cost[u] /\ todo'[u] = todo[u],
         \A u \in Tx, s \in Tx, p \in Product :
           u # t /\ lineLock[s][p] = u => lineLock'[s][p] = u,
         req[t].kind = "return" /\ Active(t)' => IsSale(req[t].sale),
         req[t].kind = "return" /\ pc'[t] \in {"header", "query", "lock"} =>
           \A p \in Lines(req[t]) : lineLock'[req[t].sale][p] = t,
         pc'[t] \in Writing /\ ~IsConsumer(t) => PlanFits(t)'
  PROVE  ReturnInv'
<1>1. /\ \A s \in Tx : IsSale(s)' <=> IsSale(s)
      /\ \A s \in Tx, p \in Product : ReturnedSoFar(s, p)' = ReturnedSoFar(s, p)
      /\ \A s \in Tx, b \in Batch : PutBack(s, b)' = PutBack(s, b)
      /\ \A b \in Batch : Taken(b)' = Taken(b) /\ GivenBack(b)' = GivenBack(b)
  BY SumsKept DEF TxInv
<1>2. \A s \in Tx : IsSale(s) => cost'[s] = cost[s]
  BY DEF IsSale, Created
<1>3. LinesOrdered'
  BY <1>1 DEF ReturnInv, LinesOrdered
<1>4. SaleMade'
  BY <1>1 DEF TxInv, SaleNamed, ReturnInv, SaleMade, Created, Active
<1>5. LinesHeld'
  BY DEF TxInv, SaleNamed, ReturnInv, LinesHeld, Lines
<1>6. PlansFit'
  <2> SUFFICES ASSUME NEW u \in Tx, pc'[u] \in Writing, ~IsConsumer(u)
               PROVE  PlanFits(u)'
    BY DEF PlansFit, IsConsumer
  <2>1. CASE u = t
    BY <2>1
  <2>2. CASE u # t
    <3>1. pc[u] \in Writing /\ req[u].sale \in Tx /\ IsSale(req[u].sale)
      BY <2>2, WritingReturn
    <3> QED BY <1>1, <1>2, <2>2, <3>1, PlanKept DEF Lines
  <2> QED BY <2>1, <2>2
<1>7. ReturnsUndoTheSale'
  BY <1>1, <1>2 DEF ReturnInv, ReturnsUndoTheSale
<1>8. Balanced'
  BY <1>1 DEF ReturnInv, Balanced
<1>9. Bounded'
  <2>1. \A b \in Batch : Outstanding(b)' = Outstanding(b)
    <3> TAKE b \in Batch
    <3>1. \A s \in Tx : (IF IsSale(s) THEN cost[s][b] - PutBack(s, b) ELSE 0)'
                          = IF IsSale(s) THEN cost[s][b] - PutBack(s, b) ELSE 0
      BY <1>1, <1>2
    <3> QED BY <3>1 DEF Outstanding
  <2> QED BY <2>1 DEF ReturnInv, Bounded
<1> QED BY <1>3, <1>4, <1>5, <1>6, <1>7, <1>8, <1>9 DEF ReturnInv
-----------------------------------------------------------------------------
(* A handler that is not a return at work disturbs no return.              *)
LEMMA BystanderStep ==
  ASSUME TxInv, ReturnInv, NEW t \in Tx,
         UNCHANGED <<req, lineId, remaining, received, lineLock>>,
         pc[t] # "created", pc'[t] # "created",
         \A u \in Tx : u # t =>
           pc'[u] = pc[u] /\ cost'[u] = cost[u] /\ todo'[u] = todo[u],
         req[t].kind # "return" \/ pc'[t] \in Outcomes,
         pc'[t] \in Writing => IsConsumer(t)
  PROVE  ReturnInv'
<1>1. req[t].kind = "return" =>
        ~Active(t)' /\ pc'[t] \notin {"header", "query", "lock"}
  BY DEF Active, Outcomes
<1> QED BY <1>1, QuietStep

(* A rollback gives back what its own handler held.                        *)
LEMMA AbortStep ==
  ASSUME TxInv, ReturnInv, NEW t \in Tx, Active(t),
         NEW o \in Outcomes \ {"created"}, Abort(t, o)
  PROVE  ReturnInv'
<1>1. /\ pc' = [pc EXCEPT ![t] = o] /\ cost' = [cost EXCEPT ![t] = Nothing]
      /\ todo' = [todo EXCEPT ![t] = {}]
      /\ lineLock' = [s \in Tx |-> [p \in Product |->
                         IF lineLock[s][p] = t THEN None ELSE lineLock[s][p]]]
      /\ UNCHANGED <<req, lineId, remaining, received>>
  BY DEF Abort, ReleaseRows, ClearSession
<1>2. /\ pc'[t] = o /\ pc[t] # "created"
      /\ \A u \in Tx : u # t =>
           pc'[u] = pc[u] /\ cost'[u] = cost[u] /\ todo'[u] = todo[u]
      /\ \A u \in Tx, s \in Tx, p \in Product :
           u # t /\ lineLock[s][p] = u => lineLock'[s][p] = u
  BY <1>1 DEF TxInv, TypeOK, Active, Outcomes
<1>3. /\ ~Active(t)' /\ pc'[t] \notin {"header", "query", "lock"}
      /\ pc'[t] \notin Writing
  BY <1>2 DEF Active, Outcomes, Writing
<1> QED BY <1>1, <1>2, <1>3, QuietStep

(* The first statements of a request: nothing is written yet.              *)
LEMMA FirstSteps ==
  ASSUME TxInv, ReturnInv, NEW t \in Tx,
         \/ Replay(t) \/ NoSuchSale(t) \/ Begin(t) \/ LinesLocked(t)
         \/ ReceiveReplayed(t) \/ \E p \in Product : LockSaleLine(t, p)
  PROVE  ReturnInv'
<1> USE DEF stock, locks, AnswerAtOnce
<1>0. /\ pc \in [Tx -> {"idle", "lines", "header", "query", "lock"} \cup Outcomes]
      /\ lineLock \in [Tx -> [Product -> Tx \cup {None}]] /\ None \notin Tx
  BY TxAssumption DEF TxInv, TypeOK
<1>1. CASE Replay(t) \/ NoSuchSale(t) \/ ReceiveReplayed(t)
  <2>1. /\ \E o \in Outcomes \ {"created"} : pc' = [pc EXCEPT ![t] = o]
        /\ pc[t] # "created"
        /\ UNCHANGED <<remaining, received, lineId, lineLock, req, todo, cost>>
    BY <1>1 DEF Replay, NoSuchSale, ReceiveReplayed, Outcomes
  <2>2. pc'[t] \in Outcomes /\ pc'[t] # "created" /\ pc'[t] \notin Writing
    BY <1>0, <2>1 DEF Outcomes, Writing
  <2> QED BY <1>0, <2>1, <2>2, BystanderStep
<1>2. CASE Begin(t)
  <2>1. /\ pc[t] = "idle" /\ pc'[t] \in {"lines", "header"}
        /\ \A u \in Tx : u # t => pc'[u] = pc[u]
        /\ req[t].kind = "return" => IsSale(req[t].sale) /\ pc'[t] = "lines"
        /\ UNCHANGED <<remaining, received, lineId, lineLock, req, todo, cost>>
    BY <1>0, <1>2 DEF Begin
  <2> QED BY <2>1, QuietStep DEF Writing
<1>3. CASE LinesLocked(t)
  <2>1. /\ pc[t] = "lines" /\ pc'[t] = "header"
        /\ \A u \in Tx : u # t => pc'[u] = pc[u]
        /\ \A p \in Lines(req[t]) : lineLock[req[t].sale][p] = t
        /\ UNCHANGED <<remaining, received, lineId, lineLock, req, todo, cost>>
    BY <1>0, <1>3 DEF LinesLocked, CitedLocked
  <2>2. req[t].kind = "return" => IsSale(req[t].sale)
    BY <2>1 DEF ReturnInv, SaleMade, Active, Outcomes
  <2> QED BY <2>1, <2>2, QuietStep DEF Writing
<1>4. CASE \E p \in Product : LockSaleLine(t, p)
  <2>1. PICK p \in Product :
          /\ pc[t] = "lines" /\ lineLock[req[t].sale][p] = None
          /\ lineLock' = [lineLock EXCEPT ![req[t].sale][p] = t]
          /\ UNCHANGED <<remaining, received, lineId, req, pc, todo, cost>>
    BY <1>4 DEF LockSaleLine
  <2>2. req[t].kind = "return" => IsSale(req[t].sale)
    BY <2>1 DEF ReturnInv, SaleMade, Active, Outcomes
  <2>3. \A u \in Tx, s \in Tx, q \in Product :
          u # t /\ lineLock[s][q] = u => lineLock'[s][q] = u
    BY <1>0, <2>1
  <2> QED BY <2>1, <2>2, <2>3, QuietStep DEF Writing
<1> QED BY <1>1, <1>2, <1>3, <1>4

(* The header's INSERT puts all the lines of the return before it.         *)
LEMMA HeaderStep ==
  ASSUME TxInv, ReturnInv, NEW t \in Tx, InsertHeader(t) PROVE ReturnInv'
<1>0. /\ pc[t] = "header" /\ pc' = [pc EXCEPT ![t] = "query"]
      /\ todo' = [todo EXCEPT ![t] = Lines(req[t])]
      /\ UNCHANGED <<remaining, received, lineId, lineLock, req, cost>>
  BY DEF InsertHeader, stock
<1>1. /\ pc'[t] = "query" /\ todo'[t] = Lines(req[t]) /\ cost[t] = Nothing
      /\ \A u \in Tx : u # t => pc'[u] = pc[u] /\ todo'[u] = todo[u]
  BY <1>0 DEF TxInv, TypeOK, NothingElse, Writing
<1>2. req[t].kind = "return" =>
        /\ IsSale(req[t].sale)
        /\ \A p \in Lines(req[t]) : lineLock[req[t].sale][p] = t
  BY <1>0 DEF ReturnInv, SaleMade, LinesHeld, Active, Outcomes
<1>3. \A p \in Product : NoneOf(t, p)'
  BY <1>0, <1>1 DEF NoneOf, Nothing
<1>4. \A p \in Lines(req[t]) : ~Planned(t, p)'
  BY <1>1 DEF Planned
<1>5. PlanFits(t)'
  BY <1>0, <1>1, <1>3, <1>4 DEF PlanFits
<1> QED BY <1>0, <1>1, <1>2, <1>5, QuietStep

(* Lines are taken one at a time: two that are next are the same.          *)
LEMMA NextLineUnique ==
  ASSUME TxInv, ReturnInv, NEW t \in Tx, pc[t] \in Writing, ~IsConsumer(t),
         NEW p \in Product, NEW q \in Product, NextLine(t, p), NextLine(t, q)
  PROVE  p = q
<1>1. /\ req[t].sale \in Tx /\ IsSale(req[t].sale)
  BY WritingReturn
<1>2. lineId[req[t].sale][p] \in Nat /\ lineId[req[t].sale][q] \in Nat
  BY <1>1 DEF TxInv, TypeOK
<1>3. lineId[req[t].sale][p] = lineId[req[t].sale][q]
  BY <1>2 DEF NextLine
<1> QED BY <1>1, <1>3 DEF ReturnInv, LinesOrdered

(* Planning a line writes the plan of that line and of no other.           *)
LEMMA PlanStep ==
  ASSUME TxInv, ReturnInv, NEW t \in Tx, NEW p \in Product, PlanReturn(t, p)
  PROVE  ReturnInv'
<1>1. PICK s \in {req[t].sale} :
        /\ pc[t] = "query" /\ ~IsConsumer(t) /\ NextLine(t, p)
        /\ ReturnedSoFar(s, p) + req[t].qty[p] <= req[s].qty[p]
        /\ cost' = [cost EXCEPT ![t] =
                      [b \in Batch |-> cost[t][b] + PlanOf(t, p)[b]]]
        /\ pc' = [pc EXCEPT ![t] = "lock"]
        /\ UNCHANGED <<remaining, received, lineId, lineLock, req, todo>>
  BY DEF PlanReturn, stock, locks, PlanOf
<1>2. /\ req[t].kind = "return" /\ s \in Tx /\ IsSale(s) /\ s # t
      /\ s = req[t].sale
  BY <1>1, WritingReturn DEF Writing
<1>3. PlanFits(t)
  BY <1>1 DEF ReturnInv, PlansFit, Writing
<1>4. /\ pc'[t] = "lock" /\ pc[t] # "created"
      /\ \A u \in Tx : u # t => pc'[u] = pc[u] /\ cost'[u] = cost[u]
      /\ \A b \in Batch : cost'[t][b] = cost[t][b] + PlanOf(t, p)[b]
  BY <1>1 DEF TxInv, TypeOK
<1>5. \A b \in Batch :
        /\ PlanOf(t, p)[b] \in Nat /\ cost[t][b] \in Nat
        /\ ProductOf[b] # p => PlanOf(t, p)[b] = 0
  <2> DEFINE drawn == OfProduct(cost[s], p)
             r == ReturnedSoFar(s, p)
             q == req[t].qty[p]
  <2>1. drawn \in [Batch -> Nat] /\ r \in Nat /\ q \in Nat
    BY <1>2, OfProductType, ReturnedType DEF TxInv, TypeOK, Request
  <2>2. \A b \in Batch : ProductOf[b] # p => drawn[b] = 0
    BY DEF OfProduct
  <2>3. \A b \in Batch : cost[t][b] \in Nat
    BY DEF TxInv, TypeOK
  <2>4. PlanOf(t, p) = ReturnPlan(drawn, r, q)
    BY <1>2 DEF PlanOf
  <2> HIDE DEF drawn, r, q
  <2>5. /\ PlanOf(t, p) \in [Batch -> Nat]
        /\ \A b \in Batch : PlanOf(t, p)[b] <= drawn[b]
    BY <2>1, <2>4, PlanBounds
  <2> QED BY <2>1, <2>2, <2>3, <2>5
<1>6. /\ \A x \in Tx : IsSale(x)' <=> IsSale(x)
      /\ \A x \in Tx, y \in Product : ReturnedSoFar(x, y)' = ReturnedSoFar(x, y)
  BY <1>1, <1>4, SumsKept DEF TxInv
<1>7. \A q \in Product : NextLine(t, q)' <=> NextLine(t, q)
  BY <1>1 DEF NextLine, IsConsumer
<1>8. \A q \in Product : PlanOf(t, q)' = PlanOf(t, q)
  <2> TAKE q \in Product
  <2>1. /\ req'[t].sale = s /\ req[t].sale = s /\ cost'[s] = cost[s]
        /\ ReturnedSoFar(s, q)' = ReturnedSoFar(s, q) /\ req' = req
    BY <1>1, <1>2, <1>4, <1>6
  <2> QED BY <2>1 DEF PlanOf
<1>9. p \in todo[t] /\ p \in Lines(req[t]) /\ NoneOf(t, p)
  <2>1. p \in todo[t]
    BY <1>1 DEF NextLine
  <2>2. ~Planned(t, p)
    BY <1>1, <2>1 DEF Planned
  <2> QED BY <1>3, <2>1, <2>2 DEF PlanFits
<1>10. \A q \in Product : Planned(t, q)' <=> Planned(t, q) \/ q = p
  <2> TAKE q \in Product
  <2>1. Planned(t, q) <=> q \notin todo[t]
    BY <1>1 DEF Planned
  <2>2. Planned(t, q)' <=> q \notin todo[t] \/ NextLine(t, q)
    BY <1>1, <1>4, <1>7 DEF Planned
  <2>3. NextLine(t, q) <=> q = p
    BY <1>1, NextLineUnique DEF Writing
  <2> QED BY <2>1, <2>2, <2>3
<1>11. \A b \in Batch :
         cost'[t][b] = IF ProductOf[b] = p THEN PlanOf(t, p)[b] ELSE cost[t][b]
  BY <1>4, <1>5, <1>9 DEF NoneOf
<1>12. \A q \in Product : q # p => (NoneOf(t, q)' <=> NoneOf(t, q))
  BY <1>11 DEF NoneOf
<1>13. PlanFits(t)'
  <2>1. todo'[t] \subseteq Lines(req'[t]) /\ req'[t].sale = s /\ req' = req
    BY <1>1, <1>2, <1>3 DEF PlanFits
  <2>2. ASSUME NEW q \in Product, q \notin Lines(req[t]) \/ ~Planned(t, q)'
        PROVE  NoneOf(t, q)'
    BY <1>3, <1>9, <1>10, <1>12, <2>2 DEF PlanFits
  <2>3. ASSUME NEW q \in Product, q \in Lines(req[t]), Planned(t, q)'
        PROVE  /\ ReturnedSoFar(s, q)' + req[t].qty[q] <= req[s].qty[q]
               /\ \A b \in Batch :
                    ProductOf[b] = q => cost'[t][b] = PlanOf(t, q)'[b]
    <3>1. CASE q = p
      BY <1>1, <1>6, <1>8, <1>11, <1>2, <3>1
    <3>2. CASE q # p
      <4>1. Planned(t, q)
        BY <1>10, <2>3, <3>2
      <4>2. /\ ReturnedSoFar(s, q) + req[t].qty[q] <= req[s].qty[q]
            /\ \A b \in Batch : ProductOf[b] = q => cost[t][b] = PlanOf(t, q)[b]
        BY <1>2, <1>3, <2>3, <4>1 DEF PlanFits
      <4> QED BY <1>2, <1>6, <1>8, <1>11, <3>2, <4>2
    <3> QED BY <3>1, <3>2
  <2> QED BY <2>1, <2>2, <2>3 DEF PlanFits
<1>14. /\ \A q \in Lines(req[t]) : lineLock[req[t].sale][q] = t
  BY <1>1, <1>2 DEF ReturnInv, LinesHeld
<1> QED BY <1>1, <1>2, <1>4, <1>13, <1>14, QuietStep

(* A locked batch changes no plan.                                         *)
LEMMA LockStep ==
  ASSUME TxInv, ReturnInv, NEW t \in Tx, NEW b \in Batch, LockBatch(t, b)
  PROVE  ReturnInv'
<1>1. /\ pc[t] = "lock"
      /\ UNCHANGED <<remaining, received, lineId, lineLock, req, pc, todo, cost>>
  BY DEF LockBatch, stock
<1>2. req[t].kind = "return" =>
        /\ IsSale(req[t].sale)
        /\ \A p \in Lines(req[t]) : lineLock[req[t].sale][p] = t
  BY <1>1 DEF ReturnInv, SaleMade, LinesHeld, Active, Outcomes
<1>3. \A x \in Tx, y \in Product : ReturnedSoFar(x, y)' = ReturnedSoFar(x, y)
  BY <1>1, SumsKept DEF TxInv
<1>4. ~IsConsumer(t) => PlanFits(t)'
  <2> SUFFICES ASSUME ~IsConsumer(t) PROVE PlanFits(t)'
    OBVIOUS
  <2>1. pc[t] \in Writing /\ req[t].sale \in Tx
    BY <1>1, WritingReturn DEF Writing
  <2> QED BY <1>1, <1>3, <2>1, PlanKept DEF Lines
<1> QED BY <1>1, <1>2, <1>4, QuietStep

(* A line whose rows are locked is done; the others are as they were.      *)
LEMMA RestoreStep ==
  ASSUME TxInv, ReturnInv, NEW t \in Tx, NEW p \in Product, Restore(t, p)
  PROVE  ReturnInv'
<1>1. PICK s \in {req[t].sale} :
        /\ pc[t] = "lock" /\ ~IsConsumer(t) /\ NextLine(t, p)
        /\ todo' = [todo EXCEPT ![t] = todo[t] \ {p}]
        /\ pc' = [pc EXCEPT ![t] = "query"]
        /\ UNCHANGED <<remaining, received, lineId, lineLock, req, cost>>
  BY DEF Restore, stock, locks
<1>2. /\ req[t].kind = "return" /\ s \in Tx /\ IsSale(s) /\ s = req[t].sale
  BY <1>1, WritingReturn DEF Writing
<1>3. PlanFits(t)
  BY <1>1 DEF ReturnInv, PlansFit, Writing
<1>4. /\ pc'[t] = "query" /\ pc[t] # "created" /\ todo'[t] = todo[t] \ {p}
      /\ \A u \in Tx : u # t => pc'[u] = pc[u] /\ todo'[u] = todo[u]
  BY <1>1 DEF TxInv, TypeOK
<1>5. \A x \in Tx, y \in Product : ReturnedSoFar(x, y)' = ReturnedSoFar(x, y)
  BY <1>1, <1>4, SumsKept DEF TxInv
<1>6. \A q \in Product : PlanOf(t, q)' = PlanOf(t, q)
  <2> TAKE q \in Product
  <2>1. /\ req'[t].sale = s /\ req[t].sale = s /\ cost'[s] = cost[s]
        /\ ReturnedSoFar(s, q)' = ReturnedSoFar(s, q) /\ req' = req
    BY <1>1, <1>2, <1>5
  <2> QED BY <2>1 DEF PlanOf
<1>7. \A q \in Product : Planned(t, q)' <=> Planned(t, q)
  <2> TAKE q \in Product
  <2>1. Planned(t, q)' <=> q \notin todo[t] \/ q = p
    BY <1>4 DEF Planned
  <2>2. NextLine(t, q) <=> q = p
    BY <1>1, NextLineUnique DEF Writing
  <2> QED BY <1>1, <2>1, <2>2 DEF Planned
<1>8. \A q \in Product : NoneOf(t, q)' <=> NoneOf(t, q)
  BY <1>1 DEF NoneOf
<1>9. PlanFits(t)'
  <2>1. todo'[t] \subseteq Lines(req[t]) /\ req'[t].sale = s /\ req' = req
    BY <1>1, <1>2, <1>3, <1>4 DEF PlanFits
  <2>2. ASSUME NEW q \in Product, q \notin Lines(req[t]) \/ ~Planned(t, q)'
        PROVE  NoneOf(t, q)'
    BY <1>3, <1>7, <1>8, <2>2 DEF PlanFits
  <2>3. ASSUME NEW q \in Product, q \in Lines(req[t]), Planned(t, q)'
        PROVE  /\ ReturnedSoFar(s, q)' + req[t].qty[q] <= req[s].qty[q]
               /\ \A b \in Batch :
                    ProductOf[b] = q => cost'[t][b] = PlanOf(t, q)'[b]
    <3>1. /\ ReturnedSoFar(s, q) + req[t].qty[q] <= req[s].qty[q]
          /\ \A b \in Batch : ProductOf[b] = q => cost[t][b] = PlanOf(t, q)[b]
      BY <1>2, <1>3, <1>7, <2>3 DEF PlanFits
    <3> QED BY <1>1, <1>2, <1>5, <1>6, <3>1
  <2> QED BY <2>1, <2>2, <2>3 DEF PlanFits
<1>10. \A q \in Lines(req[t]) : lineLock[req[t].sale][q] = t
  BY <1>1, <1>2 DEF ReturnInv, LinesHeld
<1> QED BY <1>1, <1>2, <1>4, <1>9, <1>10, QuietStep

(* Consumers touch nothing a return depends on before they commit.         *)
LEMMA ConsumerStep ==
  ASSUME TxInv, ReturnInv, NEW t \in Tx, NEW p \in Product,
         QueryStock(t, p) \/ Draw(t, p)
  PROVE  ReturnInv'
<1>1. /\ pc[t] \in Writing /\ IsConsumer(t) /\ pc[t] # "created"
      /\ UNCHANGED <<req, lineId, remaining, received, lineLock>>
      /\ pc'[t] \in Writing /\ pc'[t] # "created"
      /\ \A u \in Tx : u # t =>
           pc'[u] = pc[u] /\ cost'[u] = cost[u] /\ todo'[u] = todo[u]
  BY DEF QueryStock, Draw, stock, locks, TxInv, TypeOK, Writing
<1>2. req[t].kind # "return"
  BY <1>1 DEF IsConsumer, Consumers
<1> QED BY <1>1, <1>2, BystanderStep
-----------------------------------------------------------------------------
(* A received batch brings as many pieces as it says.                      *)
LEMMA ReceiveStep ==
  ASSUME TxInv, ReturnInv, NEW t \in Tx, Receive(t) PROVE ReturnInv'
<1>1. PICK b \in Batch, n \in Nat :
        /\ pc[t] = "header" /\ req[t].kind = "receive" /\ received[b] = 0
        /\ remaining' = [remaining EXCEPT ![b] = n]
        /\ received' = [received EXCEPT ![b] = n]
        /\ pc' = [pc EXCEPT ![t] = "created"]
        /\ UNCHANGED <<lineId, lineLock, req, todo, cost>>
  <2>1. PICK p \in Lines(req[t]), b \in Batch :
          /\ received[b] = 0
          /\ remaining' = [remaining EXCEPT ![b] = req[t].qty[p]]
          /\ received' = [received EXCEPT ![b] = req[t].qty[p]]
    BY DEF Receive
  <2>2. req[t].qty[p] \in Nat
    BY DEF TxInv, TypeOK, Request, Lines
  <2> QED BY <2>1, <2>2 DEF Receive
<1>2. /\ pc'[t] = "created" /\ \A u \in Tx : u # t => pc'[u] = pc[u]
      /\ remaining'[b] = n /\ received'[b] = n
      /\ \A c \in Batch : c # b =>
           remaining'[c] = remaining[c] /\ received'[c] = received[c]
  BY <1>1 DEF TxInv, TypeOK
<1>3. /\ \A s \in Tx : IsSale(s)' <=> IsSale(s)
      /\ \A s \in Tx, p \in Product : ReturnedSoFar(s, p)' = ReturnedSoFar(s, p)
      /\ \A s \in Tx, c \in Batch : PutBack(s, c)' = PutBack(s, c)
      /\ \A c \in Batch : Taken(c)' = Taken(c) /\ GivenBack(c)' = GivenBack(c)
  BY <1>1, <1>2, SumsKept DEF TxInv
<1>4. LinesOrdered' /\ ReturnsUndoTheSale'
  BY <1>1, <1>3 DEF ReturnInv, LinesOrdered, ReturnsUndoTheSale
<1>5. SaleMade' /\ LinesHeld'
  BY <1>1, <1>2, <1>3 DEF TxInv, SaleNamed, ReturnInv, SaleMade, LinesHeld,
                          Created, Active, Lines
<1>6. PlansFit'
  <2> SUFFICES ASSUME NEW u \in Tx, pc'[u] \in Writing, ~IsConsumer(u)
               PROVE  PlanFits(u)'
    BY <1>1 DEF PlansFit, IsConsumer
  <2>1. u # t /\ pc[u] \in Writing
    BY <1>2 DEF Writing
  <2>2. req[u].sale \in Tx
    BY <2>1, WritingReturn
  <2> QED BY <1>1, <1>2, <1>3, <2>1, <2>2, PlanKept DEF Lines
<1>7. Balanced' /\ Bounded'
  <2>1. remaining[b] = 0 /\ \A u \in Tx : cost[u][b] = 0
    <3>1. remaining[b] \in Nat /\ \A u \in Tx : cost[u][b] \in Nat
      BY DEF TxInv, TypeOK
    <3>2. ~(remaining[b] > 0) /\ \A u \in Tx : ~(cost[u][b] > 0)
      BY <1>1 DEF TxInv, OnlyReceived
    <3> QED BY <3>1, <3>2
  <2>2. \A c \in Batch : Outstanding(c)' = Outstanding(c)
    <3> TAKE c \in Batch
    <3>1. \A s \in Tx : (IF IsSale(s) THEN cost[s][c] - PutBack(s, c) ELSE 0)'
                          = IF IsSale(s) THEN cost[s][c] - PutBack(s, c) ELSE 0
      BY <1>1, <1>3
    <3> QED BY <3>1 DEF Outstanding
  <2>3. Outstanding(b) = 0
    <3>1. TypeOK /\ ReturnsUndoTheSale
      BY DEF TxInv, ReturnInv
    <3>2. Outstanding(b) \in Nat /\ remaining[b] + Outstanding(b) <= received[b]
      BY <3>1, OutstandingType DEF ReturnInv, Bounded
    <3> QED BY <1>1, <2>1, <3>2
  <2>4. Taken(b) = GivenBack(b)
    <3>1. TypeOK
      BY DEF TxInv
    <3>2. Taken(b) \in Nat /\ GivenBack(b) \in Nat
      BY <3>1, SumTypes
    <3>3. remaining[b] + Taken(b) = received[b] + GivenBack(b)
      BY DEF ReturnInv, Balanced
    <3> QED BY <1>1, <2>1, <3>2, <3>3
  <2>5. Balanced'
    BY <1>1, <1>2, <1>3, <2>4 DEF ReturnInv, Balanced
  <2>6. Bounded'
    BY <1>1, <1>2, <2>2, <2>3 DEF ReturnInv, Bounded
  <2> QED BY <2>5, <2>6
<1> QED BY <1>4, <1>5, <1>6, <1>7 DEF ReturnInv

(* What a commit does to the rows and to who has committed.                *)
LEMMA CommitFacts ==
  ASSUME TxInv, ReturnInv, NEW t \in Tx, Commit(t)
  PROVE  /\ pc[t] = "query" /\ todo[t] = {} /\ req' = req /\ cost' = cost
         /\ received' = received /\ pc'[t] = "created"
         /\ \A u \in Tx : u # t => pc'[u] = pc[u] /\ todo'[u] = todo[u]
         /\ \A b \in Batch :
              remaining'[b] = IF IsConsumer(t) THEN remaining[b] - cost[t][b]
                                               ELSE remaining[b] + cost[t][b]
         /\ \A s \in Tx : IsSale(s)' <=> IsSale(s) \/ (s = t /\ req[t].kind = "sale")
         /\ \A u \in Tx, s \in Tx :
              IsReturnOf(u, s)' <=>
                IsReturnOf(u, s) \/ (u = t /\ req[t].kind = "return" /\ req[t].sale = s)
         /\ ~Created(t)
         /\ \A u \in Tx, s \in Tx, p \in Product :
              u # t /\ lineLock[s][p] = u => lineLock'[s][p] = u
         /\ \A s \in Tx : s # t => lineId'[s] = lineId[s]
<1>1. /\ pc[t] = "query" /\ todo[t] = {}
      /\ remaining' = [b \in Batch |->
                         IF cost[t][b] > 0 THEN NewQty(t, b) ELSE remaining[b]]
      /\ pc' = [pc EXCEPT ![t] = "created"]
      /\ todo' = [todo EXCEPT ![t] = {}]
      /\ lineLock' = [s \in Tx |-> [p \in Product |->
                         IF lineLock[s][p] = t THEN None ELSE lineLock[s][p]]]
      /\ UNCHANGED <<received, req, cost>>
  BY DEF Commit, ReleaseRows, ClearSession
<1>2. ASSUME NEW b \in Batch
      PROVE  remaining'[b] = IF IsConsumer(t) THEN remaining[b] - cost[t][b]
                                              ELSE remaining[b] + cost[t][b]
  <2>1. cost[t][b] \in Nat /\ remaining[b] \in Nat
    BY DEF TxInv, TypeOK
  <2>2. CASE cost[t][b] = 0
    BY <1>1, <2>1, <2>2
  <2>3. CASE cost[t][b] > 0
    <3>1. batchLock[b] = t
      BY <1>1, <2>3 DEF TxInv, DrawnUnderLock, PlannedUnderLock, Writing
    <3>2. seen[t][b] = remaining[b]
      BY <3>1 DEF TxInv, LocksCovered
    <3> QED BY <1>1, <2>3, <3>2 DEF NewQty
  <2> QED BY <2>1, <2>2, <2>3
<1>3. /\ pc'[t] = "created" /\ ~Created(t)
      /\ \A u \in Tx : u # t => pc'[u] = pc[u] /\ todo'[u] = todo[u]
  BY <1>1 DEF TxInv, TypeOK, Created
<1>4. /\ \A s \in Tx : IsSale(s)' <=> IsSale(s) \/ (s = t /\ req[t].kind = "sale")
      /\ \A u \in Tx, s \in Tx :
           IsReturnOf(u, s)' <=>
             IsReturnOf(u, s) \/ (u = t /\ req[t].kind = "return" /\ req[t].sale = s)
  BY <1>1, <1>3 DEF IsSale, IsReturnOf, Created
<1>5. \A u \in Tx, s \in Tx, p \in Product :
        u # t /\ lineLock[s][p] = u => lineLock'[s][p] = u
  BY <1>1
<1>6. \A s \in Tx : s # t => lineId'[s] = lineId[s]
  <2>1. lineId \in [Tx -> [Product -> Nat]]
    BY DEF TxInv, TypeOK
  <2> QED BY <2>1 DEF Commit
<1> QED BY <1>1, <1>2, <1>3, <1>4, <1>5, <1>6

(* A committed return counts once in the sums of its sale, another request *)
(* not at all.                                                             *)
LEMMA CommitReturnSums ==
  ASSUME TxInv, ReturnInv, NEW t \in Tx, Commit(t), NEW s \in Tx
  PROVE  /\ \A p \in Product :
              ReturnedSoFar(s, p)' =
                ReturnedSoFar(s, p) +
                  (IF req[t].kind = "return" /\ req[t].sale = s
                   THEN req[t].qty[p] ELSE 0)
         /\ \A b \in Batch :
              PutBack(s, b)' =
                PutBack(s, b) + (IF req[t].kind = "return" /\ req[t].sale = s
                                 THEN cost[t][b] ELSE 0)
<1>0. /\ req' = req /\ cost' = cost /\ ~IsReturnOf(t, s)
      /\ \A u \in Tx :
           IsReturnOf(u, s)' <=>
             IsReturnOf(u, s) \/ (u = t /\ req[t].kind = "return" /\ req[t].sale = s)
  BY CommitFacts DEF IsReturnOf
<1>1. ASSUME NEW p \in Product
      PROVE  ReturnedSoFar(s, p)' =
               ReturnedSoFar(s, p) +
                 (IF req[t].kind = "return" /\ req[t].sale = s
                  THEN req[t].qty[p] ELSE 0)
  <2> DEFINE f == [u \in Tx |-> IF IsReturnOf(u, s) THEN req[u].qty[p] ELSE 0]
             g == [u \in Tx |-> IF IsReturnOf(u, s)' THEN req'[u].qty[p] ELSE 0]
  <2>1. \A u \in Tx : req[u].qty[p] \in Nat
    BY DEF TxInv, TypeOK, Request
  <2>2. /\ \A u \in Tx : f[u] \in Nat /\ g[u] \in Nat
        /\ \A u \in Tx \ {t} : f[u] = g[u]
        /\ f[t] = 0
        /\ g[t] = IF req[t].kind = "return" /\ req[t].sale = s
                  THEN req[t].qty[p] ELSE 0
    BY <1>0, <2>1
  <2>3. ReturnedSoFar(s, p) = Total(f, Tx) /\ ReturnedSoFar(s, p)' = Total(g, Tx)
    BY DEF ReturnedSoFar
  <2> HIDE DEF f, g
  <2>4. Total(f, Tx) \in Nat /\ Total(g, Tx) = Total(f, Tx) + g[t] - f[t]
    BY <2>2, TxAssumption, TotalChange
  <2> QED BY <2>2, <2>3, <2>4
<1>2. ASSUME NEW b \in Batch
      PROVE  PutBack(s, b)' =
               PutBack(s, b) + (IF req[t].kind = "return" /\ req[t].sale = s
                                THEN cost[t][b] ELSE 0)
  <2> DEFINE f == [u \in Tx |-> IF IsReturnOf(u, s) THEN cost[u][b] ELSE 0]
             g == [u \in Tx |-> IF IsReturnOf(u, s)' THEN cost'[u][b] ELSE 0]
  <2>1. \A u \in Tx : cost[u][b] \in Nat
    BY DEF TxInv, TypeOK
  <2>2. /\ \A u \in Tx : f[u] \in Nat /\ g[u] \in Nat
        /\ \A u \in Tx \ {t} : f[u] = g[u]
        /\ f[t] = 0
        /\ g[t] = IF req[t].kind = "return" /\ req[t].sale = s
                  THEN cost[t][b] ELSE 0
    BY <1>0, <2>1
  <2>3. PutBack(s, b) = Total(f, Tx) /\ PutBack(s, b)' = Total(g, Tx)
    BY DEF PutBack
  <2> HIDE DEF f, g
  <2>4. Total(f, Tx) \in Nat /\ Total(g, Tx) = Total(f, Tx) + g[t] - f[t]
    BY <2>2, TxAssumption, TotalChange
  <2> QED BY <2>2, <2>3, <2>4
<1> QED BY <1>1, <1>2

(* And once in the ledger of the batches.                                  *)
LEMMA CommitLedgerSums ==
  ASSUME TxInv, ReturnInv, NEW t \in Tx, Commit(t), NEW b \in Batch
  PROVE  /\ Taken(b)' = Taken(b) + (IF IsConsumer(t) THEN cost[t][b] ELSE 0)
         /\ GivenBack(b)' =
              GivenBack(b) + (IF IsConsumer(t) THEN 0 ELSE cost[t][b])
<1>0. /\ req' = req /\ cost' = cost /\ ~Created(t) /\ pc[t] = "query"
      /\ \A u \in Tx : Created(u)' <=> Created(u) \/ u = t
  BY CommitFacts DEF Created
<1>1. IsConsumer(t) <=> req[t].kind # "return"
  BY <1>0, WritingReturn DEF Writing, IsConsumer, Consumers
<1>2. \A u \in Tx : cost[u][b] \in Nat
  BY DEF TxInv, TypeOK
<1> DEFINE f == [u \in Tx |-> IF Created(u) /\ IsConsumer(u) THEN cost[u][b] ELSE 0]
           g == [u \in Tx |-> IF (Created(u) /\ IsConsumer(u))'
                              THEN cost'[u][b] ELSE 0]
           h == [u \in Tx |-> IF Created(u) /\ req[u].kind = "return"
                              THEN cost[u][b] ELSE 0]
           k == [u \in Tx |-> IF Created(u)' /\ req'[u].kind = "return"
                              THEN cost'[u][b] ELSE 0]
<1>3. \A u \in Tx : IsConsumer(u)' <=> IsConsumer(u)
  BY <1>0 DEF IsConsumer
<1>4. /\ \A u \in Tx : f[u] \in Nat /\ g[u] \in Nat /\ h[u] \in Nat /\ k[u] \in Nat
      /\ \A u \in Tx \ {t} : f[u] = g[u] /\ h[u] = k[u]
      /\ f[t] = 0 /\ h[t] = 0
      /\ g[t] = IF IsConsumer(t) THEN cost[t][b] ELSE 0
      /\ k[t] = IF IsConsumer(t) THEN 0 ELSE cost[t][b]
  BY <1>0, <1>1, <1>2, <1>3
<1>5. /\ Taken(b) = Total(f, Tx) /\ Taken(b)' = Total(g, Tx)
      /\ GivenBack(b) = Total(h, Tx) /\ GivenBack(b)' = Total(k, Tx)
  BY DEF Taken, GivenBack
<1> HIDE DEF f, g, h, k
<1>6. /\ Total(f, Tx) \in Nat /\ Total(g, Tx) = Total(f, Tx) + g[t] - f[t]
      /\ Total(h, Tx) \in Nat /\ Total(k, Tx) = Total(h, Tx) + k[t] - h[t]
  BY <1>4, TxAssumption, TotalChange
<1> QED BY <1>4, <1>5, <1>6

(* Before a sale is made nothing has come back of it.                      *)
LEMMA NoReturnYet ==
  ASSUME TxInv, ReturnInv, NEW s \in Tx, ~IsSale(s)
  PROVE  /\ \A p \in Product : ReturnedSoFar(s, p) = 0
         /\ \A b \in Batch : PutBack(s, b) = 0
<1>1. \A u \in Tx : ~IsReturnOf(u, s)
  BY DEF ReturnInv, SaleMade, IsReturnOf
<1> QED BY <1>1, TotalOfNone DEF ReturnedSoFar, PutBack

(* Composing plans: what a committed return adds to what came back of its  *)
(* sale is again a prefix of the newest pieces.                            *)
LEMMA CommitReturns ==
  ASSUME TxInv, ReturnInv, NEW t \in Tx, Commit(t) PROVE ReturnsUndoTheSale'
<1>0. /\ pc[t] = "query" /\ todo[t] = {} /\ req' = req /\ cost' = cost
      /\ \A s \in Tx : IsSale(s)' <=> IsSale(s) \/ (s = t /\ req[t].kind = "sale")
      /\ ~Created(t)
  BY CommitFacts
<1> SUFFICES ASSUME NEW s \in Tx, IsSale(s)', NEW p \in Product
             PROVE  /\ ReturnedSoFar(s, p)' <= req[s].qty[p]
                    /\ \A b \in Batch : ProductOf[b] = p =>
                         PutBack(s, b)' =
                           LifoPrefix(OfProduct(cost[s], p),
                                      ReturnedSoFar(s, p)')[b]
  BY <1>0 DEF ReturnsUndoTheSale
<1> DEFINE r == ReturnedSoFar(s, p)
           drawn == OfProduct(cost[s], p)
<1>1. /\ r \in Nat /\ req[s].qty[p] \in Nat /\ req[t].qty[p] \in Nat
      /\ drawn \in [Batch -> Nat]
  BY ReturnedType, OfProductType DEF TxInv, TypeOK, Request
<1>2. CASE ~IsSale(s)
  <2>1. s = t /\ req[t].kind = "sale"
    BY <1>0, <1>2
  <2>2. r = 0 /\ \A b \in Batch : PutBack(s, b) = 0
    BY <1>2, NoReturnYet
  <2>3. ReturnedSoFar(s, p)' = 0 /\ \A b \in Batch : PutBack(s, b)' = 0
    BY <2>1, <2>2, CommitReturnSums
  <2>4. \A b \in Batch : LifoPrefix(drawn, 0)[b] = 0
    BY <1>1, BatchAssumption, LifoPrefixZero
  <2> QED BY <1>1, <2>3, <2>4
<1>3. CASE IsSale(s)
  <2>1. /\ r <= req[s].qty[p]
        /\ \A b \in Batch :
             ProductOf[b] = p => PutBack(s, b) = LifoPrefix(drawn, r)[b]
    BY <1>3 DEF ReturnInv, ReturnsUndoTheSale
  <2>2. CASE ~(req[t].kind = "return" /\ req[t].sale = s)
    <3>1. /\ ReturnedSoFar(s, p)' = r + 0
          /\ \A b \in Batch : PutBack(s, b)' = PutBack(s, b) + 0
      BY <2>2, CommitReturnSums
    <3>2. \A b \in Batch : PutBack(s, b) \in Nat
      BY SumTypes DEF TxInv
    <3>3. ReturnedSoFar(s, p)' = r /\ \A b \in Batch : PutBack(s, b)' = PutBack(s, b)
      BY <1>1, <3>1, <3>2
    <3> QED BY <2>1, <3>3
  <2>3. CASE req[t].kind = "return" /\ req[t].sale = s
    <3>1. /\ ReturnedSoFar(s, p)' = r + req[t].qty[p]
          /\ \A b \in Batch : PutBack(s, b)' = PutBack(s, b) + cost[t][b]
      BY <2>3, CommitReturnSums
    <3>2. PlanFits(t)
      BY <1>0, <2>3 DEF ReturnInv, PlansFit, Writing, IsConsumer, Consumers
    <3>3. \A b \in Batch : PutBack(s, b) \in Nat /\ cost[t][b] \in Nat
      BY SumTypes DEF TxInv, TypeOK
    <3>4. CASE p \in Lines(req[t])
      <4>1. Planned(t, p)
        BY <1>0 DEF Planned
      <4>2. /\ r + req[t].qty[p] <= req[s].qty[p]
            /\ \A b \in Batch : ProductOf[b] = p => cost[t][b] = PlanOf(t, p)[b]
        BY <2>3, <3>2, <3>4, <4>1 DEF PlanFits
      <4>3. \A b \in Batch :
              PlanOf(t, p)[b] = LifoPrefix(drawn, r + req[t].qty[p])[b]
                                  - LifoPrefix(drawn, r)[b]
        <5>1. DOMAIN drawn = Batch
          BY <1>1
        <5>2. PlanOf(t, p) = ReturnPlan(drawn, r, req[t].qty[p])
          BY <2>3 DEF PlanOf
        <5> HIDE DEF drawn, r
        <5> QED BY <5>1, <5>2 DEF ReturnPlan
      <4>4. /\ LifoPrefix(drawn, r) \in [Batch -> Nat]
            /\ LifoPrefix(drawn, r + req[t].qty[p]) \in [Batch -> Nat]
        <5> HIDE DEF drawn, r
        <5>1. r + req[t].qty[p] \in Nat
          BY <1>1
        <5> QED BY <1>1, <5>1, BatchAssumption, LifoPrefixBounds
      <4>5. \A b \in Batch : ProductOf[b] = p =>
              PutBack(s, b)' = LifoPrefix(drawn, r + req[t].qty[p])[b]
        <5> TAKE b \in Batch
        <5> HAVE ProductOf[b] = p
        <5>1. /\ LifoPrefix(drawn, r)[b] \in Nat
              /\ LifoPrefix(drawn, r + req[t].qty[p])[b] \in Nat
          BY <4>4
        <5> HIDE DEF drawn, r
        <5> QED BY <2>1, <3>1, <4>2, <4>3, <5>1
      <4> QED BY <3>1, <4>2, <4>5
    <3>5. CASE p \notin Lines(req[t])
      <4>1. req[t].qty[p] = 0
        BY <1>1, <3>5 DEF Lines
      <4>2. \A b \in Batch : ProductOf[b] = p => cost[t][b] = 0
        BY <3>2, <3>5 DEF PlanFits, NoneOf
      <4>3. /\ ReturnedSoFar(s, p)' = r
            /\ \A b \in Batch : ProductOf[b] = p => PutBack(s, b)' = PutBack(s, b)
        BY <1>1, <3>1, <3>3, <4>1, <4>2
      <4> QED BY <2>1, <4>3
    <3> QED BY <3>4, <3>5
  <2> QED BY <2>2, <2>3
<1> QED BY <1>2, <1>3

(* A commit moves pieces between the batches and the requests outstanding  *)
(* against them, and makes none.                                           *)
LEMMA CommitBound ==
  ASSUME TxInv, TxInv', ReturnInv, ReturnsUndoTheSale', NEW t \in Tx,
         Commit(t)
  PROVE  Bounded'
<1>0. /\ pc[t] = "query" /\ req' = req /\ cost' = cost /\ received' = received
      /\ \A b \in Batch :
           remaining'[b] = IF IsConsumer(t) THEN remaining[b] - cost[t][b]
                                            ELSE remaining[b] + cost[t][b]
      /\ \A s \in Tx : IsSale(s)' <=> IsSale(s) \/ (s = t /\ req[t].kind = "sale")
      /\ ~Created(t)
  BY CommitFacts
<1> SUFFICES ASSUME NEW b \in Batch
             PROVE  remaining'[b] + Outstanding(b)' <= received[b]
  BY <1>0 DEF Bounded
<1> DEFINE f == [s \in Tx |-> IF IsSale(s) THEN cost[s][b] - PutBack(s, b) ELSE 0]
           g == [s \in Tx |->
                   IF IsSale(s)' THEN cost'[s][b] - PutBack(s, b)' ELSE 0]
<1>1. Outstanding(b) = Total(f, Tx) /\ Outstanding(b)' = Total(g, Tx)
  BY DEF Outstanding
<1>2. /\ \A s \in Tx : f[s] \in Nat /\ Total(f, Tx) \in Nat
      /\ \A s \in Tx : g[s] \in Nat /\ Total(g, Tx) \in Nat
  <2>1. TypeOK /\ TypeOK' /\ ReturnsUndoTheSale
    BY DEF TxInv, ReturnInv
  <2>2. \A s \in Tx : f[s] \in Nat
    BY <2>1, OutstandingType
  <2>3. \A s \in Tx : g[s] \in Nat
    <3> TAKE s \in Tx
    <3>1. cost'[s][b] \in Nat /\ PutBack(s, b) \in Nat
      BY <2>1, SumTypes DEF TypeOK
    <3>2. PutBack(s, b)' = PutBack(s, b) + (IF req[t].kind = "return" /\ req[t].sale = s
                                            THEN cost[t][b] ELSE 0)
      BY CommitReturnSums
    <3>3. cost[t][b] \in Nat
      BY <2>1 DEF TypeOK
    <3>4. PutBack(s, b)' \in Nat
      BY <3>1, <3>2, <3>3
    <3>5. IsSale(s)' => PutBack(s, b)' <= cost'[s][b]
      <4> DEFINE p == ProductOf[b]
      <4> SUFFICES ASSUME IsSale(s)' PROVE PutBack(s, b)' <= cost[s][b]
        BY <1>0
      <4>1. p \in Product /\ cost[s] \in [Batch -> Nat]
        BY <2>1, ProductAssumption DEF TypeOK
      <4>2. ReturnedSoFar(s, p)' \in Nat
        <5>1. ReturnedSoFar(s, p) \in Nat /\ req[t].qty[p] \in Nat
          BY <2>1, <4>1, ReturnedType DEF TypeOK, Request
        <5> QED BY <4>1, <5>1, CommitReturnSums
      <4>3. PutBack(s, b)' =
              LifoPrefix(OfProduct(cost[s], p), ReturnedSoFar(s, p)')[b]
        BY <1>0, <4>1 DEF ReturnsUndoTheSale
      <4> QED BY <4>1, <4>2, <4>3, PrefixWithin
    <3> QED BY <3>1, <3>4, <3>5
  <2> HIDE DEF f, g
  <2> QED BY <2>2, <2>3, TxAssumption, TotalType
<1>3. remaining[b] \in Nat /\ cost[t][b] \in Nat
      /\ remaining[b] + Outstanding(b) <= received[b] /\ received[b] \in Nat
  BY DEF TxInv, TypeOK, ReturnInv, Bounded
<1>4. CASE req[t].kind = "return"
  <2>1. PICK s \in Tx : s = req[t].sale /\ IsSale(s) /\ s # t
    BY <1>0, <1>4, WritingReturn DEF Writing, IsConsumer, Consumers
  <2>2. /\ \A x \in Tx \ {s} : f[x] = g[x]
        /\ g[s] = f[s] - cost[t][b]
    <3>1. ASSUME NEW x \in Tx
          PROVE  g[x] = IF x = s THEN f[x] - cost[t][b] ELSE f[x]
      <4>1. IsSale(x)' <=> IsSale(x)
        BY <1>0, <1>4
      <4>2. PutBack(x, b)' = PutBack(x, b) + IF x = s THEN cost[t][b] ELSE 0
        BY <1>4, <2>1, CommitReturnSums
      <4>3. PutBack(x, b) \in Nat /\ cost[x][b] \in Nat
        BY SumTypes DEF TxInv, TypeOK
      <4> QED BY <1>0, <1>3, <2>1, <4>1, <4>2, <4>3
    <3> HIDE DEF f, g
    <3> QED BY <3>1
  <2>3. ~IsConsumer(t)
    BY <1>4 DEF IsConsumer, Consumers
  <2> HIDE DEF f, g
  <2>4. Total(g, Tx) = Total(f, Tx) + g[s] - f[s]
    BY <1>2, <2>2, TxAssumption, TotalChange
  <2> QED BY <1>0, <1>1, <1>2, <1>3, <2>2, <2>3, <2>4
<1>5. CASE req[t].kind # "return"
  <2>1. IsConsumer(t)
    BY <1>0, <1>5, WritingReturn DEF Writing
  <2>2. ASSUME NEW x \in Tx
        PROVE  g[x] = IF x = t /\ req[t].kind = "sale" THEN cost[t][b] ELSE f[x]
    <3>1. PutBack(x, b)' = PutBack(x, b) + 0
      BY <1>5, CommitReturnSums
    <3>2. PutBack(x, b) \in Nat /\ cost[x][b] \in Nat
      BY SumTypes DEF TxInv, TypeOK
    <3>3. x = t => ~IsSale(x) /\ PutBack(x, b) = 0
      BY <1>0, NoReturnYet DEF IsSale
    <3> QED BY <1>0, <3>1, <3>2, <3>3
  <2>3. f[t] = 0
    BY <1>0 DEF IsSale
  <2> HIDE DEF f, g
  <2>4. Total(g, Tx) = Total(f, Tx) + g[t] - f[t]
    BY <1>2, <2>2, TxAssumption, TotalChange
  <2>5. g[t] <= cost[t][b]
    BY <1>3, <2>2, <2>3
  <2> QED BY <1>0, <1>1, <1>2, <1>3, <2>1, <2>3, <2>4, <2>5
<1> QED BY <1>4, <1>5

(* A commit keeps the other returns' plans, the balance and the bound.     *)
LEMMA CommitStep ==
  ASSUME TxInv, TxInv', ReturnInv, NEW t \in Tx, Commit(t) PROVE ReturnInv'
<1>0. /\ pc[t] = "query" /\ todo[t] = {} /\ req' = req /\ cost' = cost
      /\ received' = received /\ pc'[t] = "created" /\ ~Created(t)
      /\ \A u \in Tx : u # t => pc'[u] = pc[u] /\ todo'[u] = todo[u]
      /\ \A s \in Tx : IsSale(s)' <=> IsSale(s) \/ (s = t /\ req[t].kind = "sale")
      /\ \A u \in Tx, s \in Tx, p \in Product :
           u # t /\ lineLock[s][p] = u => lineLock'[s][p] = u
      /\ \A s \in Tx : s # t => lineId'[s] = lineId[s]
      /\ \A b \in Batch :
           remaining'[b] = IF IsConsumer(t) THEN remaining[b] - cost[t][b]
                                            ELSE remaining[b] + cost[t][b]
  BY CommitFacts
<1>1. LinesOrdered'
  <2> SUFFICES ASSUME NEW s \in Tx, IsSale(s)',
                      NEW p \in Product, NEW q \in Product,
                      lineId'[s][p] = lineId'[s][q]
               PROVE  p = q
    BY DEF LinesOrdered
  <2>1. CASE s # t
    BY <1>0, <2>1 DEF ReturnInv, LinesOrdered
  <2>2. CASE s = t
    <3>1. req[t].kind = "sale"
      BY <1>0, <2>2 DEF IsSale
    <3>2. PICK f \in LineOrders : lineId' = [lineId EXCEPT ![t] = f]
      BY <3>1 DEF Commit
    <3>3. lineId'[t] = f
      BY <3>2 DEF TxInv, TypeOK
    <3> QED BY <2>2, <3>3 DEF LineOrders
  <2> QED BY <2>1, <2>2
<1>2. SaleMade'
  BY <1>0 DEF TxInv, SaleNamed, ReturnInv, SaleMade, Created, Active, Outcomes
<1>3. LinesHeld'
  BY <1>0 DEF TxInv, SaleNamed, ReturnInv, LinesHeld, Lines
<1>4. PlansFit'
  <2> SUFFICES ASSUME NEW u \in Tx, pc'[u] \in Writing, ~IsConsumer(u)
               PROVE  PlanFits(u)'
    BY <1>0 DEF PlansFit, IsConsumer
  <2>1. u # t /\ pc[u] \in Writing
    BY <1>0 DEF Writing
  <2>2. /\ req[u].kind = "return" /\ req[u].sale \in Tx /\ req[u].sale # t
    BY <1>0, <2>1, WritingReturn DEF IsSale
  <2>3. ASSUME NEW p \in Lines(req[u])
        PROVE  ReturnedSoFar(req[u].sale, p)' = ReturnedSoFar(req[u].sale, p)
    <3>1. /\ p \in Product /\ req[t].qty[p] \in Nat
          /\ ReturnedSoFar(req[u].sale, p) \in Nat
      BY <2>2, ReturnedType DEF Lines, TxInv, TypeOK, Request
    <3>2. lineLock[req[u].sale][p] = u
      BY <2>1, <2>2 DEF ReturnInv, LinesHeld, Writing
    <3>3. req[t].kind = "return" /\ req[t].sale = req[u].sale => req[t].qty[p] = 0
      <4> SUFFICES ASSUME req[t].kind = "return", req[t].sale = req[u].sale,
                          req[t].qty[p] > 0
                   PROVE  FALSE
        BY <3>1
      <4>1. p \in Lines(req[t])
        BY <3>1 DEF Lines
      <4>2. lineLock[req[t].sale][p] = t
        BY <1>0, <4>1 DEF ReturnInv, LinesHeld
      <4> QED BY <2>1, <3>2, <4>2
    <3>4. ASSUME NEW s \in Tx, s = req[u].sale
          PROVE  ReturnedSoFar(s, p)' = ReturnedSoFar(s, p)
      <4>1. ReturnedSoFar(s, p)' = ReturnedSoFar(s, p) +
              (IF req[t].kind = "return" /\ req[t].sale = s
               THEN req[t].qty[p] ELSE 0)
        BY <3>1, CommitReturnSums
      <4>2. ReturnedSoFar(s, p) \in Nat
        BY <3>1, <3>4
      <4> QED BY <3>3, <3>4, <4>1, <4>2
    <3>5. req'[u].sale = req[u].sale
      BY <1>0
    <3> QED BY <2>2, <3>4, <3>5
  <2> QED BY <1>0, <2>1, <2>2, <2>3, PlanKept
<1>5. ReturnsUndoTheSale'
  BY CommitReturns
<1>6. Balanced'
  <2> SUFFICES ASSUME NEW b \in Batch
               PROVE  remaining'[b] + Taken(b)' = received[b] + GivenBack(b)'
    BY <1>0 DEF Balanced
  <2>1. TypeOK
    BY DEF TxInv
  <2>2. /\ Taken(b) \in Nat /\ GivenBack(b) \in Nat /\ cost[t][b] \in Nat
        /\ remaining[b] \in Nat /\ received[b] \in Nat
    BY <2>1, SumTypes DEF TypeOK
  <2>3. remaining[b] + Taken(b) = received[b] + GivenBack(b)
    BY DEF ReturnInv, Balanced
  <2> QED BY <1>0, <2>2, <2>3, CommitLedgerSums
<1>7. Bounded'
  BY <1>5, CommitBound
<1> QED BY <1>1, <1>2, <1>3, <1>4, <1>5, <1>6, <1>7 DEF ReturnInv
-----------------------------------------------------------------------------
(* No step of any handler breaks the invariant.                            *)
LEMMA ReturnNext ==
  ASSUME TxInv, TxInv', ReturnInv, [Next]_vars PROVE ReturnInv'
<1>1. CASE Next
  <2>1. PICK t \in Tx :
          Replay(t) \/ NoSuchSale(t) \/ Begin(t) \/ Handle(t) \/ Crash(t)
    BY <1>1 DEF Next
  <2>2. CASE \/ Replay(t) \/ NoSuchSale(t) \/ Begin(t) \/ LinesLocked(t)
             \/ ReceiveReplayed(t) \/ \E p \in Product : LockSaleLine(t, p)
    BY <2>2, FirstSteps
  <2>3. CASE \/ ForeignLine(t) \/ DuplicateHeader(t) \/ DeadlockVictim(t)
             \/ Crash(t)
             \/ \E p \in Product : OverReturn(t, p) \/ Shortage(t, p)
    BY <2>3, GivenUp, AbortStep
  <2>4. CASE InsertHeader(t)
    BY <2>4, HeaderStep
  <2>5. CASE Receive(t)
    BY <2>5, ReceiveStep
  <2>6. CASE Commit(t)
    BY <2>6, CommitStep
  <2>7. CASE \E p \in Product : QueryStock(t, p) \/ Draw(t, p)
    BY <2>7, ConsumerStep
  <2>8. CASE \E p \in Product : PlanReturn(t, p) \/ Restore(t, p)
    BY <2>8, PlanStep, RestoreStep
  <2>9. CASE \E b \in Batch : LockBatch(t, b)
    BY <2>9, LockStep
  <2> QED BY <2>1, <2>2, <2>3, <2>4, <2>5, <2>6, <2>7, <2>8, <2>9 DEF Handle
<1>2. CASE UNCHANGED vars
  <2>1. UNCHANGED <<remaining, received, lineId, lineLock, req, pc, todo, cost>>
    BY <1>2 DEF vars
  <2>2. /\ \A s \in Tx : IsSale(s)' <=> IsSale(s)
        /\ \A s \in Tx, p \in Product : ReturnedSoFar(s, p)' = ReturnedSoFar(s, p)
        /\ \A s \in Tx, b \in Batch : PutBack(s, b)' = PutBack(s, b)
        /\ \A b \in Batch : Taken(b)' = Taken(b) /\ GivenBack(b)' = GivenBack(b)
    BY <2>1, SumsKept DEF TxInv
  <2>3. LinesOrdered' /\ SaleMade' /\ LinesHeld'
    BY <2>1, <2>2 DEF TxInv, SaleNamed, ReturnInv, LinesOrdered, SaleMade,
                      LinesHeld, Created, Active, Lines
  <2>4. PlansFit'
    <3> SUFFICES ASSUME NEW u \in Tx, pc[u] \in Writing, ~IsConsumer(u)
                 PROVE  PlanFits(u)'
      BY <2>1 DEF PlansFit, IsConsumer
    <3>1. req[u].sale \in Tx
      BY WritingReturn
    <3> QED BY <2>1, <2>2, <3>1, PlanKept DEF Lines
  <2>5. ReturnsUndoTheSale' /\ Balanced'
    BY <2>1, <2>2 DEF ReturnInv, ReturnsUndoTheSale, Balanced
  <2>6. Bounded'
    <3>1. \A b \in Batch : Outstanding(b)' = Outstanding(b)
      <4> TAKE b \in Batch
      <4>1. \A s \in Tx : (IF IsSale(s) THEN cost[s][b] - PutBack(s, b) ELSE 0)'
                            = IF IsSale(s) THEN cost[s][b] - PutBack(s, b) ELSE 0
        BY <2>1, <2>2
      <4> QED BY <4>1 DEF Outstanding
    <3> QED BY <2>1, <3>1 DEF ReturnInv, Bounded
  <2> QED BY <2>3, <2>4, <2>5, <2>6 DEF ReturnInv
<1> QED BY <1>1, <1>2

(* The invariant holds in every state the endpoints can reach together.    *)
LEMMA ReturnInvariant == Spec => []ReturnInv
<1>1. TxInv /\ TxInv' /\ ReturnInv /\ [Next]_vars => ReturnInv'
  BY ReturnNext
<1> QED BY <1>1, ReturnInit, TxInvariant, PTL DEF Spec

(* However the returns of a sale are split, retried and interleaved with   *)
(* each other and with everything else, they never exceed a line, and have *)
(* restored exactly the newest pieces the sale drew.                       *)
THEOREM ReturnsCompose == Spec => []ReturnsUndoTheSale
<1>1. ReturnInv => ReturnsUndoTheSale
  BY DEF ReturnInv
<1> QED BY <1>1, ReturnInvariant, PTL

(* Every batch balances with the committed cost lines and stays within     *)
(* what was received: _return_part_line's bare += never breaks             *)
(* ck_part_batch_qty_bounds.                                               *)
THEOREM StockBalances == Spec => []LedgerBalances
<1>1. TxInv /\ ReturnInv => LedgerBalances
  <2> SUFFICES ASSUME TxInv, ReturnInv, NEW b \in Batch
               PROVE  /\ remaining[b] + Taken(b) = received[b] + GivenBack(b)
                      /\ remaining[b] <= received[b]
    BY DEF LedgerBalances
  <2>1. TypeOK /\ ReturnsUndoTheSale
    BY DEF TxInv, ReturnInv
  <2>2. remaining[b] \in Nat /\ received[b] \in Nat /\ Outstanding(b) \in Nat
    BY <2>1, OutstandingType DEF TypeOK
  <2>3. remaining[b] + Outstanding(b) <= received[b]
    BY DEF ReturnInv, Bounded
  <2> QED BY <2>2, <2>3 DEF ReturnInv, Balanced
<1> QED BY <1>1, TxInvariant, ReturnInvariant, PTL
-----------------------------------------------------------------------------
(* A line has the cost lines it asked for.                                 *)
Filled(t, p) == Total(OfProduct(cost[t], p), Batch) = req[t].qty[p]

(* The lines a consumer is through with have theirs.                       *)
DoneAreFilled ==
  \A t \in Tx, p \in Product :
    pc[t] \in Writing /\ IsConsumer(t) /\ p \notin todo[t] => Filled(t, p)

LinesInv == DoneAreFilled /\ AllLinesCommitTogether

(* Who neither starts writing, draws nor commits stays as he was.          *)
LEMMA FilledKept ==
  ASSUME LinesInv, req' = req,
         \A u \in Tx :
           \/ /\ cost'[u] = cost[u] /\ todo'[u] = todo[u]
              /\ pc'[u] \in Writing => pc[u] \in Writing
              /\ pc'[u] = "created" => pc[u] = "created"
           \/ pc'[u] \notin Writing \cup {"created"}
           \/ pc'[u] # "created" /\ ~IsConsumer(u)
           \/ req[u].kind = "receive"
  PROVE  LinesInv'
<1>1. DoneAreFilled'
  <2> SUFFICES ASSUME NEW u \in Tx, NEW p \in Product, pc'[u] \in Writing,
                      IsConsumer(u)', p \notin todo'[u]
               PROVE  Filled(u, p)'
    BY DEF DoneAreFilled
  <2>1. IsConsumer(u) /\ req[u].kind # "receive" /\ pc'[u] # "created"
    BY DEF IsConsumer, Consumers, Writing
  <2>2. cost'[u] = cost[u] /\ todo'[u] = todo[u] /\ pc[u] \in Writing
    BY <2>1
  <2>3. Filled(u, p)
    BY <2>1, <2>2 DEF LinesInv, DoneAreFilled
  <2> QED BY <2>2, <2>3 DEF Filled, OfProduct
<1>2. AllLinesCommitTogether'
  <2> SUFFICES ASSUME NEW u \in Tx, Created(u)', req[u].kind # "receive",
                      NEW p \in Product
               PROVE  Filled(u, p)'
    BY DEF AllLinesCommitTogether, Filled
  <2>1. cost'[u] = cost[u] /\ Created(u)
    BY DEF Created, Writing
  <2>2. Filled(u, p)
    BY <2>1 DEF LinesInv, AllLinesCommitTogether, Filled
  <2> QED BY <2>1, <2>2 DEF Filled, OfProduct
<1> QED BY <1>1, <1>2 DEF LinesInv

(* The lines a handler starts with are those that ask for something.       *)
LEMMA FilledHeader ==
  ASSUME TxInv, LinesInv, NEW t \in Tx, InsertHeader(t) PROVE LinesInv'
<1>1. /\ pc[t] = "header" /\ pc' = [pc EXCEPT ![t] = "query"]
      /\ todo' = [todo EXCEPT ![t] = Lines(req[t])]
      /\ UNCHANGED <<req, cost>>
  BY DEF InsertHeader, stock
<1>2. /\ pc'[t] = "query" /\ todo'[t] = Lines(req[t]) /\ cost[t] = Nothing
      /\ \A u \in Tx : u # t => pc'[u] = pc[u] /\ todo'[u] = todo[u]
  BY <1>1 DEF TxInv, TypeOK, NothingElse, Writing
<1>3. ASSUME NEW p \in Product, p \notin Lines(req[t]) PROVE Filled(t, p)'
  <2>1. req[t].qty[p] = 0
    BY <1>3 DEF TxInv, TypeOK, Request, Lines
  <2>2. \A b \in Batch : OfProduct(cost[t], p)[b] = 0
    BY <1>2 DEF OfProduct, Nothing
  <2>3. Total(OfProduct(cost[t], p), Batch) = 0
    BY <2>2, TotalOfNone
  <2> QED BY <1>1, <2>1, <2>3 DEF Filled, OfProduct
<1>4. DoneAreFilled'
  <2> SUFFICES ASSUME NEW u \in Tx, NEW p \in Product, pc'[u] \in Writing,
                      IsConsumer(u)', p \notin todo'[u]
               PROVE  Filled(u, p)'
    BY DEF DoneAreFilled
  <2>1. CASE u = t
    BY <1>2, <1>3, <2>1
  <2>2. CASE u # t
    <3>1. Filled(u, p)
      BY <1>1, <1>2, <2>2 DEF LinesInv, DoneAreFilled, IsConsumer
    <3> QED BY <1>1, <3>1 DEF Filled, OfProduct
  <2> QED BY <2>1, <2>2
<1>5. AllLinesCommitTogether'
  BY <1>1, <1>2 DEF LinesInv, AllLinesCommitTogether, Created, OfProduct
<1> QED BY <1>4, <1>5 DEF LinesInv

(* Draw: the check found the quantity, so the walk finds it too.           *)
LEMMA FilledDraw ==
  ASSUME TxInv, LinesInv, NEW t \in Tx, NEW p \in Product, Draw(t, p)
  PROVE  LinesInv'
<1> DEFINE avail == LockedStock(t, p)
           take == FifoTake(avail, req[t].qty[p])
<1>0. /\ pc[t] = "lock" /\ IsConsumer(t) /\ p \in todo[t]
      /\ cost' = [cost EXCEPT ![t] = [b \in Batch |-> cost[t][b] + take[b]]]
      /\ todo' = [todo EXCEPT ![t] = todo[t] \ {p}]
      /\ pc' = [pc EXCEPT ![t] = "query"]
      /\ req' = req /\ Total(avail, Batch) >= req[t].qty[p]
  BY DEF Draw, NextLine, Covers
<1>1. avail \in [Batch -> Nat] /\ req[t].qty[p] \in Nat
  BY DEF TxInv, TypeOK, LockedStock, Request
<1>2. \A b \in Batch : ProductOf[b] # p => avail[b] = 0
  BY DEF LockedStock
<1> HIDE DEF avail
<1>3. take \in [Batch -> Nat] /\ \A b \in Batch : take[b] <= avail[b]
  BY <1>1, BatchAssumption, FifoTakeBounds
<1>4. Total(take, Batch) = req[t].qty[p]
  <2>1. Total(avail, Batch) \in Nat
    BY <1>1, BatchAssumption, TotalType
  <2>2. req[t].qty[p] <= Total(avail, Batch)
    BY <1>0, <1>1, <2>1
  <2> QED BY <1>1, <2>2, BatchAssumption, FifoTakeTotal
<1> HIDE DEF take
<1>5. /\ \A u \in Tx : u # t => /\ pc'[u] = pc[u] /\ todo'[u] = todo[u]
                                /\ cost'[u] = cost[u]
      /\ pc'[t] = "query" /\ todo'[t] = todo[t] \ {p}
      /\ \A b \in Batch : cost'[t][b] = cost[t][b] + take[b]
  BY <1>0 DEF TxInv, TypeOK
<1>6. \A b \in Batch : take[b] \in Nat /\ (ProductOf[b] # p => take[b] = 0)
  BY <1>1, <1>2, <1>3
<1>7. \A b \in Batch : cost[t][b] \in Nat /\ (ProductOf[b] = p => cost[t][b] = 0)
  BY <1>0 DEF TxInv, TypeOK, DrawnUnderLock, Writing
<1>8. \A b \in Batch : OfProduct(cost'[t], p)[b] = take[b]
  <2>1. \A b \in Batch : cost'[t][b] = IF ProductOf[b] = p THEN take[b] ELSE cost[t][b]
    BY <1>5, <1>6, <1>7
  <2> QED BY <1>6, <2>1 DEF OfProduct
<1>9. ASSUME NEW q \in Product, q # p
      PROVE  \A b \in Batch : OfProduct(cost'[t], q)[b] = OfProduct(cost[t], q)[b]
  <2>1. \A b \in Batch : ProductOf[b] = q => cost'[t][b] = cost[t][b]
    BY <1>5, <1>6, <1>7, <1>9
  <2> QED BY <2>1 DEF OfProduct
<1>10. DoneAreFilled'
  <2> SUFFICES ASSUME NEW u \in Tx, NEW q \in Product, pc'[u] \in Writing,
                      IsConsumer(u)', q \notin todo'[u]
               PROVE  Total(OfProduct(cost'[u], q), Batch) = req[u].qty[q]
    BY <1>0 DEF DoneAreFilled, Filled, OfProduct
  <2>1. CASE u # t
    BY <1>0, <1>5, <2>1 DEF LinesInv, DoneAreFilled, Filled, IsConsumer
  <2>2. CASE u = t /\ q = p
    BY <1>4, <1>8, <2>2, TotalSame
  <2>3. CASE u = t /\ q # p
    <3>1. q \notin todo[t]
      BY <1>5, <2>3
    <3>2. Total(OfProduct(cost[t], q), Batch) = req[t].qty[q]
      BY <1>0, <3>1 DEF LinesInv, DoneAreFilled, Filled, Writing
    <3>3. Total(OfProduct(cost'[t], q), Batch) = Total(OfProduct(cost[t], q), Batch)
      BY <1>9, <2>3, TotalSame
    <3> QED BY <2>3, <3>2, <3>3
  <2> QED BY <2>1, <2>2, <2>3
<1>11. AllLinesCommitTogether'
  <2> SUFFICES ASSUME NEW u \in Tx, Created(u)', req[u].kind # "receive",
                      NEW q \in Product
               PROVE  Total(OfProduct(cost'[u], q), Batch) = req[u].qty[q]
    BY <1>0 DEF AllLinesCommitTogether, OfProduct
  <2>1. u # t /\ Created(u) /\ cost'[u] = cost[u]
    BY <1>5 DEF Created
  <2> QED BY <2>1 DEF LinesInv, AllLinesCommitTogether
<1> QED BY <1>10, <1>11 DEF LinesInv

(* What commits is all there: a consumer is through with every line, a     *)
(* return's plans put back what it asked for.                              *)
LEMMA FilledCommit ==
  ASSUME TxInv, ReturnInv, LinesInv, NEW t \in Tx, Commit(t) PROVE LinesInv'
<1>0. /\ pc[t] = "query" /\ todo[t] = {} /\ req' = req /\ cost' = cost
      /\ pc'[t] = "created"
      /\ \A u \in Tx : u # t => pc'[u] = pc[u] /\ todo'[u] = todo[u]
  BY CommitFacts
<1>1. ASSUME NEW p \in Product PROVE Filled(t, p)
  <2>1. CASE IsConsumer(t)
    BY <1>0, <2>1 DEF LinesInv, DoneAreFilled, Writing
  <2>2. CASE ~IsConsumer(t)
    <3>1. PICK s \in Tx : /\ s = req[t].sale /\ IsSale(s) /\ s # t
                          /\ req[t].kind = "return"
      BY <1>0, <2>2, WritingReturn DEF Writing
    <3>2. PlanFits(t)
      BY <1>0, <2>2 DEF ReturnInv, PlansFit, Writing
    <3>3. CASE p \notin Lines(req[t])
      <4>1. req[t].qty[p] = 0
        BY <3>3 DEF TxInv, TypeOK, Request, Lines
      <4>2. \A b \in Batch : OfProduct(cost[t], p)[b] = 0
        BY <3>2, <3>3 DEF PlanFits, NoneOf, OfProduct
      <4> QED BY <4>1, <4>2, TotalOfNone DEF Filled
    <3>4. CASE p \in Lines(req[t])
      <4> DEFINE drawn == OfProduct(cost[s], p)
                 r == ReturnedSoFar(s, p)
                 q == req[t].qty[p]
                 plan == ReturnPlan(drawn, r, q)
      <4>1. Planned(t, p)
        BY <1>0 DEF Planned
      <4>2. /\ r + q <= req[s].qty[p]
            /\ \A b \in Batch : ProductOf[b] = p => cost[t][b] = PlanOf(t, p)[b]
        BY <3>1, <3>2, <3>4, <4>1 DEF PlanFits
      <4>3. drawn \in [Batch -> Nat] /\ r \in Nat /\ q \in Nat
        BY OfProductType, ReturnedType DEF TxInv, TypeOK, Request
      <4>4. Total(drawn, Batch) = req[s].qty[p]
        BY <3>1 DEF LinesInv, AllLinesCommitTogether, IsSale
      <4>5. \A b \in Batch : ProductOf[b] # p => drawn[b] = 0
        BY DEF OfProduct
      <4>6. plan = PlanOf(t, p)
        BY <3>1 DEF PlanOf
      <4> HIDE DEF drawn, r, q
      <4>7. plan \in [Batch -> Nat] /\ \A b \in Batch : plan[b] <= drawn[b]
        BY <4>3, PlanBounds
      <4>8. Total(plan, Batch) = q
        BY <4>2, <4>3, <4>4, BatchAssumption, ReturnPlanTotal
      <4> HIDE DEF plan
      <4>9. \A b \in Batch : ProductOf[b] # p => plan[b] = 0
        BY <4>3, <4>5, <4>7
      <4>10. \A b \in Batch : OfProduct(cost[t], p)[b] = plan[b]
        BY <4>2, <4>6, <4>9 DEF OfProduct
      <4>11. Total(OfProduct(cost[t], p), Batch) = q
        BY <4>8, <4>10, TotalSame
      <4> QED BY <4>11 DEF Filled, q
    <3> QED BY <3>3, <3>4
  <2> QED BY <2>1, <2>2
<1>2. DoneAreFilled'
  <2> SUFFICES ASSUME NEW u \in Tx, NEW p \in Product, pc'[u] \in Writing,
                      IsConsumer(u)', p \notin todo'[u]
               PROVE  Filled(u, p)'
    BY DEF DoneAreFilled
  <2>1. u # t
    BY <1>0 DEF Writing
  <2>2. Filled(u, p)
    BY <1>0, <2>1 DEF LinesInv, DoneAreFilled, IsConsumer
  <2> QED BY <1>0, <2>2 DEF Filled, OfProduct
<1>3. AllLinesCommitTogether'
  <2> SUFFICES ASSUME NEW u \in Tx, Created(u)', req[u].kind # "receive",
                      NEW p \in Product
               PROVE  Filled(u, p)'
    BY <1>0 DEF AllLinesCommitTogether, Filled
  <2>1. Filled(u, p)
    BY <1>0, <1>1 DEF LinesInv, AllLinesCommitTogether, Filled, Created
  <2> QED BY <1>0, <2>1 DEF Filled, OfProduct
<1> QED BY <1>2, <1>3 DEF LinesInv

(* No step of any handler breaks it.                                       *)
LEMMA FilledNext ==
  ASSUME TxInv, ReturnInv, LinesInv, [Next]_vars PROVE LinesInv'
<1>0. /\ pc \in [Tx -> {"idle", "lines", "header", "query", "lock"} \cup Outcomes]
      /\ cost \in [Tx -> [Batch -> Nat]] /\ todo \in [Tx -> SUBSET Product]
  BY DEF TxInv, TypeOK
<1>1. ASSUME NEW t \in Tx, UNCHANGED <<req, cost, todo>>,
             \E o \in {"lines", "header"} \cup (Outcomes \ {"created"}) :
               pc' = [pc EXCEPT ![t] = o]
      PROVE  LinesInv'
  <2>1. \A u \in Tx : pc'[u] = pc[u] \/ pc'[u] \notin Writing \cup {"created"}
    BY <1>0, <1>1 DEF Writing, Outcomes
  <2> QED BY <1>1, <2>1, FilledKept
<1>2. ASSUME NEW t \in Tx, NEW o \in Outcomes \ {"created"}, Abort(t, o)
      PROVE  LinesInv'
  <2>1. /\ pc' = [pc EXCEPT ![t] = o] /\ cost' = [cost EXCEPT ![t] = Nothing]
        /\ todo' = [todo EXCEPT ![t] = {}] /\ req' = req
    BY <1>2 DEF Abort, ClearSession
  <2>2. \A u \in Tx : IF u = t THEN pc'[u] \notin Writing \cup {"created"}
                      ELSE pc'[u] = pc[u] /\ cost'[u] = cost[u] /\ todo'[u] = todo[u]
    BY <1>0, <2>1 DEF Writing, Outcomes
  <2> QED BY <2>1, <2>2, FilledKept
<1>3. CASE UNCHANGED vars
  <2>1. UNCHANGED <<req, cost, todo, pc>>
    BY <1>3 DEF vars
  <2> QED BY <2>1, FilledKept
<1>4. ASSUME NEW t \in Tx,
             Replay(t) \/ NoSuchSale(t) \/ Begin(t) \/ Handle(t) \/ Crash(t)
      PROVE  LinesInv'
  <2> USE DEF stock, locks
  <2>1. CASE Replay(t) \/ NoSuchSale(t) \/ ReceiveReplayed(t) \/ Begin(t)
             \/ LinesLocked(t)
    BY <1>1, <2>1 DEF Replay, NoSuchSale, ReceiveReplayed, Begin, LinesLocked,
                      AnswerAtOnce, Outcomes
  <2>2. CASE \/ ForeignLine(t) \/ DuplicateHeader(t) \/ DeadlockVictim(t)
             \/ Crash(t)
             \/ \E p \in Product : OverReturn(t, p) \/ Shortage(t, p)
    BY <1>2, <2>2, GivenUp
  <2>3. CASE \/ \E p \in Product : LockSaleLine(t, p) \/ QueryStock(t, p)
             \/ \E b \in Batch : LockBatch(t, b)
    <3>1. /\ UNCHANGED <<req, cost, todo>>
          /\ \A u \in Tx : /\ pc'[u] \in Writing => pc[u] \in Writing
                           /\ pc'[u] = "created" => pc[u] = "created"
      BY <1>0, <2>3 DEF LockSaleLine, QueryStock, LockBatch, Writing
    <3> QED BY <3>1, FilledKept
  <2>4. CASE \E p \in Product : PlanReturn(t, p) \/ Restore(t, p)
    <3>1. /\ req' = req /\ pc'[t] # "created" /\ ~IsConsumer(t)
          /\ \A u \in Tx : u # t => /\ pc'[u] = pc[u] /\ cost'[u] = cost[u]
                                    /\ todo'[u] = todo[u]
      BY <1>0, <2>4 DEF PlanReturn, Restore
    <3> QED BY <3>1, FilledKept
  <2>5. CASE Receive(t)
    <3>1. /\ UNCHANGED <<req, cost, todo>> /\ req[t].kind = "receive"
          /\ \A u \in Tx : u # t => pc'[u] = pc[u]
      BY <1>0, <2>5 DEF Receive
    <3> QED BY <3>1, FilledKept
  <2>6. CASE InsertHeader(t) \/ Commit(t) \/ \E p \in Product : Draw(t, p)
    BY <2>6, FilledHeader, FilledDraw, FilledCommit
  <2> QED BY <1>4, <2>1, <2>2, <2>3, <2>4, <2>5, <2>6 DEF Handle
<1> QED BY <1>3, <1>4 DEF Next

LEMMA LinesInvariant == Spec => []LinesInv
<1>1. Init => LinesInv
  BY DEF Init, LinesInv, DoneAreFilled, AllLinesCommitTogether, Writing, Created
<1>2. TxInv /\ ReturnInv /\ LinesInv /\ [Next]_vars => LinesInv'
  BY FilledNext
<1> QED BY <1>1, <1>2, TxInvariant, ReturnInvariant, PTL DEF Spec

(* A request shows all its lines or none: what committed has the pieces    *)
(* every line asked for, and no other, whoever else was at work.           *)
THEOREM LinesCommitTogether == Spec => []AllLinesCommitTogether
<1>1. LinesInv => AllLinesCommitTogether
  BY DEF LinesInv
<1> QED BY <1>1, LinesInvariant, PTL
-----------------------------------------------------------------------------
(* What the ledger sees of the committed rows.                             *)
AllDrawn ==
  [t \in Tx |-> IF Created(t) /\ IsConsumer(t) THEN cost[t] ELSE Nothing]
AllRestored == [s \in Tx |-> [b \in Batch |-> PutBack(s, b)]]

(* A step that commits nobody but perhaps a receipt leaves the requests'   *)
(* side of the ledger as it was.                                           *)
LEMMA LedgerKept ==
  ASSUME TypeOK, req' = req,
         \A t \in Tx : req[t].kind # "receive" =>
           /\ pc[t] = "created" <=> pc'[t] = "created"
           /\ pc[t] = "created" => cost'[t] = cost[t]
  PROVE  AllDrawn' = AllDrawn /\ AllRestored' = AllRestored
<1>1. ASSUME NEW t \in Tx
      PROVE  (IF Created(t) /\ IsConsumer(t) THEN cost[t] ELSE Nothing)'
               = IF Created(t) /\ IsConsumer(t) THEN cost[t] ELSE Nothing
  BY DEF Created, IsConsumer, Consumers, Nothing
<1>2. AllDrawn' = AllDrawn
  BY <1>1 DEF AllDrawn
<1>3. \A s \in Tx, b \in Batch : PutBack(s, b)' = PutBack(s, b)
  BY SumsKept
<1> QED BY <1>2, <1>3 DEF AllRestored

(* What the ledger sees of a batch at a commit: the consumer's cost lines  *)
(* appear, or those of the return come back to its sale.                   *)
LEMMA LedgerCommit ==
  ASSUME TxInv, ReturnInv, NEW t \in Tx, Commit(t)
  PROVE  /\ AllDrawn' = [AllDrawn EXCEPT ![t] = IF IsConsumer(t) THEN cost[t]
                                                                 ELSE Nothing]
         /\ \A s \in Tx, b \in Batch :
              AllRestored'[s][b] =
                AllRestored[s][b] + IF req[t].kind = "return" /\ req[t].sale = s
                                    THEN cost[t][b] ELSE 0
         /\ AllDrawn[t] = Nothing
<1>0. /\ req' = req /\ cost' = cost /\ ~Created(t)
      /\ \A u \in Tx : Created(u)' <=> Created(u) \/ u = t
  BY CommitFacts DEF Created
<1>1. \A u \in Tx :
        (IF Created(u) /\ IsConsumer(u) THEN cost[u] ELSE Nothing)'
          = IF u = t THEN IF IsConsumer(t) THEN cost[t] ELSE Nothing
            ELSE IF Created(u) /\ IsConsumer(u) THEN cost[u] ELSE Nothing
  BY <1>0 DEF IsConsumer, Nothing
<1>2. AllDrawn' = [AllDrawn EXCEPT ![t] = IF IsConsumer(t) THEN cost[t]
                                                           ELSE Nothing]
  BY <1>1 DEF AllDrawn
<1>3. ASSUME NEW s \in Tx, NEW b \in Batch
      PROVE  AllRestored'[s][b] =
               AllRestored[s][b] + IF req[t].kind = "return" /\ req[t].sale = s
                                   THEN cost[t][b] ELSE 0
  BY CommitReturnSums DEF AllRestored
<1>4. AllDrawn[t] = Nothing
  BY <1>0 DEF AllDrawn
<1> QED BY <1>2, <1>3, <1>4

(* A consumer's commit takes all its pieces from batches that have them.   *)
LEMMA LedgerConsume ==
  ASSUME TxInv, ReturnInv, NEW t \in Tx, Commit(t), IsConsumer(t)
  PROVE  [Ledger!Next]_(Ledger!vars)
<1>0. /\ pc[t] = "query" /\ received' = received
      /\ \A b \in Batch : remaining'[b] = remaining[b] - cost[t][b]
  BY CommitFacts
<1>1. /\ AllDrawn' = [AllDrawn EXCEPT ![t] = cost[t]] /\ AllDrawn[t] = Nothing
      /\ t \in DOMAIN AllDrawn /\ AllDrawn'[t] = cost[t]
  BY LedgerCommit DEF AllDrawn
<1>2. AllRestored' = AllRestored
  <2>1. req[t].kind # "return"
    BY DEF IsConsumer, Consumers
  <2>2. ASSUME NEW s \in Tx, NEW b \in Batch
        PROVE  AllRestored'[s][b] = AllRestored[s][b]
    <3>1. AllRestored'[s][b] = AllRestored[s][b] + 0
      BY <2>1, LedgerCommit
    <3>2. AllRestored[s][b] \in Nat
      BY SumTypes DEF TxInv, AllRestored
    <3> QED BY <3>1, <3>2
  <2> QED BY <2>2 DEF AllRestored
<1>3. /\ remaining \in [Batch -> Nat] /\ cost[t] \in [Batch -> Nat]
      /\ remaining' = [b \in Batch |-> remaining[b] - cost[t][b]]
  <2>1. remaining' = [b \in Batch |->
                        IF cost[t][b] > 0 THEN NewQty(t, b) ELSE remaining[b]]
    BY DEF Commit
  <2>2. remaining \in [Batch -> Nat] /\ cost[t] \in [Batch -> Nat]
    BY DEF TxInv, TypeOK
  <2> QED BY <1>0, <2>1, <2>2
<1>4. ASSUME NEW b \in Batch PROVE cost[t][b] <= remaining[b]
  <2>1. cost[t][b] \in Nat /\ remaining[b] \in Nat
    BY <1>3
  <2>2. CASE cost[t][b] > 0
    <3>1. batchLock[b] = t /\ cost[t][b] <= seen[t][b]
      BY <1>0, <2>2 DEF TxInv, DrawnUnderLock, Writing
    <3>2. seen[t][b] = remaining[b]
      BY <3>1 DEF TxInv, LocksCovered
    <3> QED BY <3>1, <3>2
  <2> QED BY <2>1, <2>2
<1>5. CASE cost[t] = Nothing
  <2>1. AllDrawn' = AllDrawn
    BY <1>1, <1>5 DEF AllDrawn
  <2>2. remaining' = remaining
    <3>1. \A b \in Batch : remaining[b] - cost[t][b] = remaining[b]
      BY <1>3, <1>5 DEF Nothing
    <3> QED BY <1>3, <3>1
  <2> QED BY <1>0, <1>2, <2>1, <2>2 DEF Ledger!vars, AllDrawn, AllRestored
<1>6. CASE cost[t] # Nothing
  <2>1. /\ AllDrawn[t] = Nothing /\ AllDrawn'[t] # Nothing
        /\ AllDrawn'[t] \in [Batch -> Nat]
        /\ \A b \in Batch : AllDrawn'[t][b] <= remaining[b]
        /\ AllDrawn' = [AllDrawn EXCEPT ![t] = AllDrawn'[t]]
        /\ remaining' = [b \in Batch |-> remaining[b] - AllDrawn'[t][b]]
        /\ received' = received /\ AllRestored' = AllRestored
    BY <1>0, <1>1, <1>2, <1>3, <1>4, <1>6
  <2>2. Ledger!Consume(t)
    BY <2>1 DEF Ledger!Consume, Ledger!NoPieces, Nothing, AllDrawn, AllRestored
  <2> QED BY <2>2 DEF Ledger!Next
<1> QED BY <1>5, <1>6

(* A return's commit gives back newest pieces its sale still holds.        *)
LEMMA LedgerGiveBack ==
  ASSUME TxInv, TxInv', ReturnInv, ReturnInv', NEW t \in Tx, Commit(t), ~IsConsumer(t)
  PROVE  [Ledger!Next]_(Ledger!vars)
<1>0. /\ pc[t] = "query" /\ received' = received /\ req' = req /\ cost' = cost
      /\ \A b \in Batch : remaining'[b] = remaining[b] + cost[t][b]
      /\ \A u \in Tx : IsSale(u)' <=> IsSale(u) \/ (u = t /\ req[t].kind = "sale")
  BY CommitFacts
<1>1. PICK s \in Tx : /\ s = req[t].sale /\ IsSale(s) /\ s # t
                      /\ req[t].kind = "return"
  BY <1>0, WritingReturn DEF Writing
<1>2. AllDrawn' = AllDrawn
  <2>1. AllDrawn' = [AllDrawn EXCEPT ![t] = Nothing] /\ AllDrawn[t] = Nothing
    BY LedgerCommit
  <2> QED BY <2>1 DEF AllDrawn
<1>3. /\ AllRestored \in [Tx -> [Batch -> Nat]]
      /\ AllRestored' \in [Tx -> [Batch -> Nat]]
  <2>1. \A u \in Tx, b \in Batch : PutBack(u, b) \in Nat
    BY SumTypes DEF TxInv
  <2>2. \A u \in Tx, b \in Batch : PutBack(u, b)' \in Nat
    <3> TAKE u \in Tx, b \in Batch
    <3>1. cost[t][b] \in Nat
      BY DEF TxInv, TypeOK
    <3> QED BY <2>1, <3>1, CommitReturnSums
  <2> QED BY <2>1, <2>2 DEF AllRestored
<1>4. \A b \in Batch : AllRestored'[s][b] = AllRestored[s][b] + cost[t][b]
  BY <1>1, LedgerCommit
<1>5. \A u \in Tx : u # s => AllRestored'[u] = AllRestored[u]
  <2> TAKE u \in Tx
  <2> HAVE u # s
  <2>1. \A b \in Batch : AllRestored'[u][b] = AllRestored[u][b] + 0
    BY <1>1, LedgerCommit
  <2>2. \A b \in Batch : AllRestored'[u][b] = AllRestored[u][b]
    BY <1>3, <2>1
  <2>3. AllRestored[u] \in [Batch -> Nat] /\ AllRestored'[u] \in [Batch -> Nat]
    BY <1>3
  <2> QED BY <2>2, <2>3
<1>6. AllRestored' = [AllRestored EXCEPT ![s] = AllRestored'[s]]
  BY <1>3, <1>5
<1>7. /\ remaining \in [Batch -> Nat] /\ cost[t] \in [Batch -> Nat]
      /\ remaining' \in [Batch -> Nat]
  BY DEF TxInv, TypeOK
<1>8. AllDrawn[s] = cost[s]
  BY <1>1 DEF AllDrawn, IsSale, IsConsumer, Consumers
<1>9. ASSUME NEW b \in Batch
      PROVE  AllRestored'[s][b] =
               LifoPrefix(OfProduct(cost[s], ProductOf[b]),
                          ReturnedSoFar(s, ProductOf[b])')[b]
  <2>1. IsSale(s)' /\ ProductOf[b] \in Product
    BY <1>0, <1>1, ProductAssumption
  <2>2. PutBack(s, b)' = LifoPrefix(OfProduct(cost[s], ProductOf[b]),
                                    ReturnedSoFar(s, ProductOf[b])')[b]
    BY <1>0, <2>1 DEF ReturnInv, ReturnsUndoTheSale
  <2> QED BY <2>2 DEF AllRestored
<1>10. \A p \in Product : ReturnedSoFar(s, p)' \in Nat
  <2> TAKE p \in Product
  <2>1. ReturnedSoFar(s, p) \in Nat /\ req[t].qty[p] \in Nat
    BY ReturnedType DEF TxInv, TypeOK, Request
  <2> QED BY <2>1, CommitReturnSums
<1>11. ASSUME NEW b \in Batch PROVE AllRestored'[s][b] <= AllDrawn[s][b]
  <2>1. ProductOf[b] \in Product /\ cost[s] \in [Batch -> Nat]
    BY ProductAssumption DEF TxInv, TypeOK
  <2> QED BY <1>8, <1>9, <1>10, <2>1, PrefixWithin
<1>12. ASSUME NEW o \in Batch, NEW n \in Batch, o < n,
              ProductOf[o] = ProductOf[n], AllRestored'[s][o] > 0
       PROVE  AllRestored'[s][n] = AllDrawn[s][n]
  <2> DEFINE drawn == OfProduct(cost[s], ProductOf[n])
  <2>1. drawn \in [Batch -> Nat] /\ drawn[n] = cost[s][n]
    BY OfProductType DEF TxInv, TypeOK, OfProduct
  <2>2. PICK r \in Nat : r = ReturnedSoFar(s, ProductOf[n])'
    BY <1>10, ProductAssumption
  <2>3. /\ AllRestored'[s][o] = LifoPrefix(drawn, r)[o]
        /\ AllRestored'[s][n] = LifoPrefix(drawn, r)[n]
    BY <1>9, <1>12, <2>2
  <2> HIDE DEF drawn
  <2>4. LifoPrefix(drawn, r)[n] = drawn[n]
    BY <1>12, <2>1, <2>3, BatchAssumption, LifoPrefixNewestFirst
  <2> QED BY <1>8, <2>1, <2>3, <2>4
<1>13. CASE AllRestored'[s] = AllRestored[s]
  <2>1. AllRestored' = AllRestored
    BY <1>3, <1>6, <1>13
  <2>2. \A b \in Batch : remaining'[b] = remaining[b]
    <3> TAKE b \in Batch
    <3>1. AllRestored[s][b] = AllRestored[s][b] + cost[t][b]
      BY <1>4, <1>13
    <3>2. AllRestored[s][b] \in Nat /\ cost[t][b] \in Nat /\ remaining[b] \in Nat
      BY <1>3, <1>7
    <3>3. cost[t][b] = 0
      BY <3>1, <3>2
    <3> QED BY <1>0, <3>2, <3>3
  <2>3. remaining' = remaining
    BY <1>7, <2>2
  <2> QED BY <1>0, <1>2, <2>1, <2>3 DEF Ledger!vars, AllDrawn, AllRestored
<1>14. CASE AllRestored'[s] # AllRestored[s]
  <2>1. \A b \in Batch : AllRestored[s][b] <= AllRestored'[s][b]
    BY <1>3, <1>4, <1>7
  <2>2. remaining' = [b \in Batch |->
                        remaining[b] + (AllRestored'[s][b] - AllRestored[s][b])]
    <3>1. \A b \in Batch :
            remaining'[b] = remaining[b] + (AllRestored'[s][b] - AllRestored[s][b])
      <4> TAKE b \in Batch
      <4>1. AllRestored[s][b] \in Nat /\ cost[t][b] \in Nat /\ remaining[b] \in Nat
        BY <1>3, <1>7
      <4>2. AllRestored'[s][b] - AllRestored[s][b] = cost[t][b]
        BY <1>4, <4>1
      <4> QED BY <1>0, <4>2
    <3> QED BY <1>7, <3>1
  <2>3. AllRestored'[s] \in [Batch -> Nat]
    BY <1>3
  <2>4. Ledger!GiveBack(s)
    BY <1>0, <1>2, <1>6, <1>11, <1>12, <1>14, <2>1, <2>2, <2>3
       DEF Ledger!GiveBack, AllDrawn, AllRestored
  <2> QED BY <2>4 DEF Ledger!Next
<1> QED BY <1>13, <1>14

(* A receipt is a receipt.                                                 *)
LEMMA LedgerReceive ==
  ASSUME TxInv, NEW t \in Tx, Receive(t) PROVE [Ledger!Next]_(Ledger!vars)
<1>1. PICK p \in Lines(req[t]), b \in Batch :
        /\ received[b] = 0
        /\ remaining' = [remaining EXCEPT ![b] = req[t].qty[p]]
        /\ received' = [received EXCEPT ![b] = req[t].qty[p]]
  BY DEF Receive
<1>2. req[t].qty[p] \in Nat \ {0}
  BY DEF TxInv, TypeOK, Request, Lines
<1>3. received'[b] = req[t].qty[p]
  BY <1>1 DEF TxInv, TypeOK
<1>4. AllDrawn' = AllDrawn /\ AllRestored' = AllRestored
  <2>1. /\ req' = req /\ cost' = cost /\ req[t].kind = "receive"
        /\ \A u \in Tx : u # t => pc'[u] = pc[u]
    BY DEF Receive, TxInv, TypeOK
  <2> QED BY <2>1, LedgerKept DEF TxInv
<1>5. Ledger!Receive(b)
  BY <1>1, <1>2, <1>3, <1>4 DEF Ledger!Receive, AllDrawn, AllRestored
<1> QED BY <1>5 DEF Ledger!Next

(* Every step of a handler is a step of the ledger or none.                *)
LEMMA LedgerStep ==
  ASSUME TxInv, TxInv', ReturnInv, ReturnInv', [Next]_vars
  PROVE  [Ledger!Next]_(Ledger!vars)
<1>0. pc \in [Tx -> {"idle", "lines", "header", "query", "lock"} \cup Outcomes]
      /\ cost \in [Tx -> [Batch -> Nat]]
  BY DEF TxInv, TypeOK
<1>1. ASSUME UNCHANGED <<remaining, received, req>>,
             \A u \in Tx : /\ pc[u] = "created" <=> pc'[u] = "created"
                           /\ pc[u] = "created" => cost'[u] = cost[u]
      PROVE  [Ledger!Next]_(Ledger!vars)
  <2>1. AllDrawn' = AllDrawn /\ AllRestored' = AllRestored
    BY <1>1, LedgerKept DEF TxInv
  <2> QED BY <1>1, <2>1 DEF Ledger!vars, AllDrawn, AllRestored
<1>2. ASSUME NEW t \in Tx, NEW o \in Outcomes \ {"created"}, Active(t), Abort(t, o)
      PROVE  [Ledger!Next]_(Ledger!vars)
  <2>1. /\ UNCHANGED <<remaining, received, req>>
        /\ pc' = [pc EXCEPT ![t] = o] /\ cost' = [cost EXCEPT ![t] = Nothing]
    BY <1>2 DEF Abort
  <2>2. pc[t] # "created" /\ o # "created"
    BY <1>2 DEF Active, Outcomes
  <2>3. \A u \in Tx : /\ pc[u] = "created" <=> pc'[u] = "created"
                      /\ pc[u] = "created" => cost'[u] = cost[u]
    BY <1>0, <2>1, <2>2
  <2> QED BY <1>1, <2>1, <2>3
<1>3. CASE UNCHANGED vars
  BY <1>1, <1>3 DEF vars
<1>4. ASSUME NEW t \in Tx,
             Replay(t) \/ NoSuchSale(t) \/ Begin(t) \/ Handle(t) \/ Crash(t)
      PROVE  [Ledger!Next]_(Ledger!vars)
  <2> USE DEF stock, locks
  <2>1. CASE Replay(t) \/ NoSuchSale(t) \/ ReceiveReplayed(t) \/ Begin(t)
             \/ LinesLocked(t) \/ InsertHeader(t)
    <3>1. /\ UNCHANGED <<remaining, received, req, cost>> /\ pc[t] # "created"
          /\ \E o \in {"lines", "header", "query"} \cup (Outcomes \ {"created"}) :
               pc' = [pc EXCEPT ![t] = o]
      BY <2>1 DEF Replay, NoSuchSale, ReceiveReplayed, Begin, LinesLocked,
                  InsertHeader, AnswerAtOnce, Outcomes
    <3> QED BY <1>0, <1>1, <3>1
  <2>2. CASE \/ ForeignLine(t) \/ DuplicateHeader(t) \/ DeadlockVictim(t)
             \/ Crash(t)
             \/ \E p \in Product : OverReturn(t, p) \/ Shortage(t, p)
    BY <1>2, <2>2, GivenUp
  <2>3. CASE \/ \E p \in Product :
                  \/ LockSaleLine(t, p) \/ QueryStock(t, p) \/ PlanReturn(t, p)
                  \/ Draw(t, p) \/ Restore(t, p)
             \/ \E b \in Batch : LockBatch(t, b)
    <3>1. /\ UNCHANGED <<remaining, received, req>> /\ pc[t] # "created"
          /\ \A u \in Tx : u # t => pc'[u] = pc[u] /\ cost'[u] = cost[u]
          /\ pc'[t] # "created"
      BY <1>0, <2>3 DEF LockSaleLine, QueryStock, PlanReturn, Draw, Restore, LockBatch
    <3> QED BY <1>1, <3>1
  <2>4. CASE Receive(t)
    BY <2>4, LedgerReceive
  <2>5. CASE Commit(t)
    BY <2>5, LedgerConsume, LedgerGiveBack
  <2> QED BY <1>4, <2>1, <2>2, <2>3, <2>4, <2>5 DEF Handle
<1> QED BY <1>3, <1>4 DEF Next

(* At the start the ledger has the opening stock and nothing else.         *)
LEMMA LedgerStarts == Init => Ledger!Init
<1> SUFFICES ASSUME Init PROVE Ledger!Init
  OBVIOUS
<1>1. \A t \in Tx : ~Created(t)
  BY DEF Init, Created
<1>2. \A s \in Tx, b \in Batch : PutBack(s, b) = 0
  BY <1>1, TotalOfNone DEF PutBack, IsReturnOf
<1> QED BY <1>1, <1>2 DEF Init, Ledger!Init, Ledger!NoPieces, Nothing

(* Every interleaving of the handlers' statements, with its retries,       *)
(* crashes and deadlocks, amounts to one atomic step of the ledger per     *)
(* commit and to none otherwise.                                           *)
THEOREM HandlersImplementLedger == Spec => ImplementsLedger
<1>1. TxInv /\ TxInv' /\ ReturnInv /\ ReturnInv' /\ [Next]_vars
        => [Ledger!Next]_(Ledger!vars)
  BY LedgerStep
<1> QED BY <1>1, LedgerStarts, TxInvariant, ReturnInvariant, PTL
        DEF Spec, ImplementsLedger, Ledger!Spec
===============================================================================
