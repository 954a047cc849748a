---------------------------- MODULE StockTxProofs -----------------------------
(***************************************************************************)
(* What the row locks, the UNIQUE keys and the rollback of StockTx         *)
(* guarantee for every set of batches, products, handlers and requests.    *)
(***************************************************************************)
EXTENDS ShortageHistory, FifoTheorems

Writing == {"query", "lock"}

(* A return names a sale request, and a receipt writes at its commit only. *)
SaleNamed ==
  \A t \in Tx :
    /\ req[t].kind = "return" => req[t].sale \in Tx
    /\ pc[t] \in Writing => req[t].kind # "receive"

(* A batch is locked by a transaction that is writing and read it under    *)
(* that lock; a row that is locked or about to be exists.                  *)
LocksCovered ==
  /\ \A t \in Tx, b \in Batch :
       batchLock[b] = t => pc[t] \in Writing /\ seen[t][b] = remaining[b]
  /\ \A b \in Batch : batchLock[b] # None => received[b] > 0
  /\ \A t \in Tx : \A b \in toLock[t] : received[b] > 0

(* The UNIQUE index points at whoever has written under the key.           *)
KeyHeld ==
  \A t \in Tx : pc[t] \in Writing \cup {"created"} => index[Header(req[t])] = t

(* Nothing is written before the header, nothing survives a rollback.      *)
NothingElse ==
  \A t \in Tx : pc[t] \notin Writing \cup {"created"} => cost[t] = Nothing

(* A consumer's draws come out of rows it holds, and are not more than it  *)
(* read there; the lines still to do have none.                            *)
DrawnUnderLock ==
  \A t \in Tx, b \in Batch :
    pc[t] \in Writing /\ IsConsumer(t) /\ cost[t][b] > 0 =>
      /\ batchLock[b] = t /\ cost[t][b] <= seen[t][b]
      /\ ProductOf[b] \notin todo[t]

(* A return credits rows it holds or is about to lock.                     *)
PlannedUnderLock ==
  \A t \in Tx, b \in Batch :
    pc[t] \in Writing /\ ~IsConsumer(t) /\ cost[t][b] > 0 =>
      batchLock[b] = t \/ (pc[t] = "lock" /\ b \in toLock[t])

(* Only a batch that was received has pieces or cost lines.                *)
OnlyReceived ==
  \A b \in Batch :
    /\ remaining[b] > 0 => received[b] > 0
    /\ \A t \in Tx : cost[t][b] > 0 => received[b] > 0

TxInv ==
  /\ TypeOK /\ SaleNamed /\ LocksCovered /\ KeyHeld /\ NothingElse
  /\ DrawnUnderLock /\ PlannedUnderLock /\ OnlyReceived
-----------------------------------------------------------------------------
(* What a row, a session and a request are: the types, one by one.         *)
LEMMA Types ==
  ASSUME TypeOK, NEW t \in Tx, NEW b \in Batch, NEW p \in Product
  PROVE  /\ remaining[b] \in Nat /\ received[b] \in Nat
         /\ seen[t] \in [Batch -> Nat] /\ cost[t] \in [Batch -> Nat]
         /\ seen[t][b] \in Nat /\ cost[t][b] \in Nat
         /\ todo[t] \subseteq Product /\ toLock[t] \subseteq Batch
         /\ req[t] \in Request /\ req[t].qty[p] \in Nat
         /\ Header(req[t]) \in Kinds \X Key
         /\ Nothing \in [Batch -> Nat] /\ None \notin Tx
BY TxAssumption DEF TypeOK, Request, Header, Nothing

(* Every request starts with an empty transaction.                         *)
LEMMA TxInit == Init => TxInv
<1> SUFFICES ASSUME Init PROVE TxInv
  OBVIOUS
<1> USE OpeningAssumption, TxAssumption DEF Init
<1>1. req \in [Tx -> Request] /\ SaleNamed
  BY DEF SaleNamed, Writing
<1>2. TypeOK
  BY <1>1 DEF TypeOK, Nothing
<1>3. LocksCovered
  BY DEF LocksCovered
<1>4. KeyHeld /\ NothingElse /\ DrawnUnderLock /\ PlannedUnderLock
  BY DEF KeyHeld, NothingElse, DrawnUnderLock, PlannedUnderLock, Writing
<1>5. OnlyReceived
  BY DEF OnlyReceived, Nothing
<1> QED BY <1>1, <1>2, <1>3, <1>4, <1>5 DEF TxInv

(* A step that only moves a handler that has written nothing, to a state   *)
(* in which it still has written nothing.                                  *)
LEMMA MoveOn ==
  ASSUME TxInv, NEW t \in Tx, NEW q,
         pc[t] \notin Writing \cup {"created"},
         q \in {"header", "lines"} \cup (Outcomes \ {"created"}),
         pc' = [pc EXCEPT ![t] = q],
         UNCHANGED <<stock, lineId, index, batchLock, req, todo, toLock,
                     seen, cost>>,
         lineLock' \in [Tx -> [Product -> Tx \cup {None}]]
  PROVE  TxInv'
<1> USE DEF stock
<1>1. TypeOK'
  BY DEF TxInv, TypeOK, Outcomes
<1>2. \A u \in Tx : u # t => pc'[u] = pc[u]
  OBVIOUS
<1>3. pc'[t] = q /\ q \notin Writing \cup {"created"}
  BY DEF TxInv, TypeOK, Writing, Outcomes
<1>4. SaleNamed' /\ OnlyReceived'
  BY <1>2, <1>3 DEF TxInv, SaleNamed, OnlyReceived
<1>5. KeyHeld' /\ NothingElse'
  BY <1>2, <1>3 DEF TxInv, KeyHeld, NothingElse, Nothing
<1>6. DrawnUnderLock' /\ PlannedUnderLock'
  BY <1>2, <1>3 DEF TxInv, DrawnUnderLock, PlannedUnderLock, Writing, IsConsumer
<1>7. LocksCovered'
  BY <1>2, <1>3 DEF TxInv, LocksCovered, Writing, Outcomes
<1> QED BY <1>1, <1>4, <1>5, <1>6, <1>7 DEF TxInv

(* A rollback leaves the committed rows and the other handlers alone.      *)
LEMMA RolledBack ==
  ASSUME TxInv, NEW t \in Tx, NEW o \in Outcomes \ {"created"}, Active(t),
         Abort(t, o)
  PROVE  TxInv'
<1>0. /\ pc' = [pc EXCEPT ![t] = o]
      /\ index' = [h \in Kinds \X Key |-> IF index[h] = t THEN None ELSE index[h]]
      /\ cost' = [cost EXCEPT ![t] = Nothing]
      /\ batchLock' = [b \in Batch |->
                         IF batchLock[b] = t THEN None ELSE batchLock[b]]
      /\ lineLock' = [s \in Tx |-> [p \in Product |->
                         IF lineLock[s][p] = t THEN None ELSE lineLock[s][p]]]
      /\ todo' = [todo EXCEPT ![t] = {}]
      /\ toLock' = [toLock EXCEPT ![t] = {}]
      /\ seen' = [seen EXCEPT ![t] = Nothing]
      /\ UNCHANGED <<remaining, received, lineId, req>>
  BY DEF Abort, ReleaseRows, ClearSession
<1>1. TypeOK'
  BY <1>0 DEF TxInv, TypeOK, Nothing
<1>2. /\ \A u \in Tx : u # t => pc'[u] = pc[u] /\ cost'[u] = cost[u]
                                /\ seen'[u] = seen[u] /\ todo'[u] = todo[u]
                                /\ toLock'[u] = toLock[u]
      /\ pc'[t] = o /\ cost'[t] = Nothing /\ toLock'[t] = {}
  BY <1>0 DEF TxInv, TypeOK
<1>3. SaleNamed'
  BY <1>0, <1>2 DEF TxInv, SaleNamed, Writing, Outcomes
<1>4. LocksCovered'
  BY <1>0, <1>2, TxAssumption DEF TxInv, LocksCovered, Writing
<1>5. KeyHeld'
  BY <1>0, <1>2, Types DEF TxInv, TypeOK, KeyHeld, Writing, Outcomes, Header, Request
<1>6. NothingElse'
  BY <1>0, <1>2 DEF TxInv, NothingElse, Nothing
<1>7. DrawnUnderLock' /\ PlannedUnderLock'
  BY <1>0, <1>2 DEF TxInv, DrawnUnderLock, PlannedUnderLock, IsConsumer,
                    Writing, Outcomes
<1>8. OnlyReceived'
  BY <1>0, <1>2 DEF TxInv, OnlyReceived, Nothing
<1> QED BY <1>1, <1>3, <1>4, <1>5, <1>6, <1>7, <1>8 DEF TxInv

(* The header's INSERT claims a key nobody holds.                          *)
LEMMA HeaderInserted ==
  ASSUME TxInv, NEW t \in Tx, InsertHeader(t) PROVE TxInv'
<1>0. /\ pc[t] = "header" /\ index[Header(req[t])] = None
      /\ req[t].kind # "receive"
      /\ index' = [index EXCEPT ![Header(req[t])] = t]
      /\ pc' = [pc EXCEPT ![t] = "query"]
      /\ todo' = [todo EXCEPT ![t] = Lines(req[t])]
      /\ UNCHANGED <<remaining, received, lineId, batchLock, lineLock, req,
                     toLock, seen, cost>>
  BY DEF InsertHeader, KeyFree, stock
<1>1. TypeOK'
  BY <1>0 DEF TxInv, TypeOK, Lines, Outcomes
<1>2. /\ \A u \in Tx : u # t => pc'[u] = pc[u] /\ todo'[u] = todo[u]
      /\ pc'[t] = "query" /\ cost[t] = Nothing
  BY <1>0 DEF TxInv, TypeOK, NothingElse, Writing
<1>3. SaleNamed' /\ OnlyReceived'
  BY <1>0, <1>2 DEF TxInv, SaleNamed, OnlyReceived
<1>4. LocksCovered'
  BY <1>0, <1>2 DEF TxInv, LocksCovered, Writing, Outcomes
<1>5. KeyHeld'
  <2>1. index \in [Kinds \X Key -> Tx \cup {None}] /\ None \notin Tx
    BY TxAssumption DEF TxInv, TypeOK
  <2>2. \A u \in Tx : Header(req[u]) \in Kinds \X Key /\ Header(req[u])' = Header(req[u])
    BY <1>0 DEF TxInv, TypeOK, Request, Header
  <2> QED BY <1>0, <1>2, <2>1, <2>2 DEF TxInv, KeyHeld
<1>6. NothingElse'
  BY <1>0, <1>2 DEF TxInv, NothingElse, Nothing, Writing
<1>7. DrawnUnderLock' /\ PlannedUnderLock'
  BY <1>0, <1>2 DEF TxInv, DrawnUnderLock, PlannedUnderLock, IsConsumer,
                    Writing, Nothing
<1> QED BY <1>1, <1>3, <1>4, <1>5, <1>6, <1>7 DEF TxInv

(* A receipt creates a batch no row lock and no cost line can refer to.    *)
LEMMA Received ==
  ASSUME TxInv, NEW t \in Tx, Receive(t) PROVE TxInv'
<1>0. PICK b \in Batch, p \in Product :
        /\ pc[t] = "header" /\ index[Header(req[t])] = None
        /\ received[b] = 0 /\ req[t].qty[p] > 0
        /\ remaining' = [remaining EXCEPT ![b] = req[t].qty[p]]
        /\ received' = [received EXCEPT ![b] = req[t].qty[p]]
        /\ index' = [index EXCEPT ![Header(req[t])] = t]
        /\ pc' = [pc EXCEPT ![t] = "created"]
        /\ UNCHANGED <<lineId, batchLock, lineLock, req, todo, toLock, seen,
                       cost>>
  BY DEF Receive, KeyFree, Lines
<1>1. req[t].qty[p] \in Nat
  BY Types DEF TxInv
<1>2. TypeOK'
  BY <1>0, <1>1 DEF TxInv, TypeOK, Outcomes
<1>3. /\ \A u \in Tx : u # t => pc'[u] = pc[u]
      /\ pc'[t] = "created" /\ cost[t] = Nothing
      /\ \A c \in Batch : c # b =>
           remaining'[c] = remaining[c] /\ received'[c] = received[c]
      /\ received'[b] = req[t].qty[p]
  BY <1>0 DEF TxInv, TypeOK, NothingElse, Writing
<1>4. SaleNamed'
  BY <1>0, <1>3 DEF TxInv, SaleNamed, Writing
<1>5. LocksCovered'
  <2>1. batchLock[b] = None
    BY <1>0 DEF TxInv, LocksCovered
  <2>2. \A c \in Batch : batchLock[c] # t
    BY <1>0 DEF TxInv, LocksCovered, Writing
  <2> QED BY <1>0, <1>3, <2>1, <2>2, TxAssumption DEF TxInv, LocksCovered, Writing
<1>6. KeyHeld'
  <2>1. index \in [Kinds \X Key -> Tx \cup {None}] /\ None \notin Tx
    BY TxAssumption DEF TxInv, TypeOK
  <2>2. \A u \in Tx : Header(req[u]) \in Kinds \X Key /\ Header(req[u])' = Header(req[u])
    BY <1>0 DEF TxInv, TypeOK, Request, Header
  <2> QED BY <1>0, <1>3, <2>1, <2>2 DEF TxInv, KeyHeld
<1>7. NothingElse'
  BY <1>0, <1>3 DEF TxInv, NothingElse, Nothing, Writing
<1>8. DrawnUnderLock' /\ PlannedUnderLock'
  BY <1>0, <1>3 DEF TxInv, DrawnUnderLock, PlannedUnderLock, IsConsumer,
                    Writing
<1>9. OnlyReceived'
  BY <1>0, <1>1, <1>3 DEF TxInv, OnlyReceived, Nothing
<1> QED BY <1>2, <1>4, <1>5, <1>6, <1>7, <1>8, <1>9 DEF TxInv
-----------------------------------------------------------------------------
(* The rows a consumer's query finds have pieces, so they were received.   *)
LEMMA StockQueried ==
  ASSUME TxInv, NEW t \in Tx, NEW p \in Product, QueryStock(t, p)
  PROVE  TxInv'
<1>0. /\ pc[t] = "query" /\ IsConsumer(t)
      /\ toLock' = [toLock EXCEPT ![t] =
                      {b \in Batch : ProductOf[b] = p /\ remaining[b] > 0}]
      /\ pc' = [pc EXCEPT ![t] = "lock"]
      /\ UNCHANGED <<remaining, received, lineId, index, batchLock, lineLock,
                     req, todo, seen, cost>>
  BY DEF QueryStock, stock, locks
<1>1. TypeOK'
  BY <1>0 DEF TxInv, TypeOK, Outcomes
<1>2. /\ \A u \in Tx : u # t => pc'[u] = pc[u] /\ toLock'[u] = toLock[u]
      /\ pc'[t] = "lock" /\ \A b \in toLock'[t] : b \in Batch /\ remaining[b] > 0
  BY <1>0 DEF TxInv, TypeOK
<1>3. SaleNamed'
  BY <1>0, <1>2 DEF TxInv, SaleNamed, Writing
<1>4. LocksCovered'
  BY <1>0, <1>2 DEF TxInv, LocksCovered, Writing, OnlyReceived
<1>5. KeyHeld' /\ NothingElse' /\ OnlyReceived'
  BY <1>0, <1>2 DEF TxInv, KeyHeld, NothingElse, OnlyReceived, Nothing,
                    Writing, Header
<1>6. DrawnUnderLock' /\ PlannedUnderLock'
  BY <1>0, <1>2 DEF TxInv, DrawnUnderLock, PlannedUnderLock, IsConsumer,
                    Writing
<1> QED BY <1>1, <1>3, <1>4, <1>5, <1>6 DEF TxInv

(* A row lock is taken on a free row and the row is read again under it.   *)
LEMMA BatchLocked ==
  ASSUME TxInv, NEW t \in Tx, NEW b \in Batch, LockBatch(t, b)
  PROVE  TxInv'
<1>0. /\ pc[t] = "lock" /\ b \in toLock[t] /\ batchLock[b] = None
      /\ batchLock' = [batchLock EXCEPT ![b] = t]
      /\ toLock' = [toLock EXCEPT ![t] = toLock[t] \ {b}]
      /\ seen' = [seen EXCEPT ![t] = [seen[t] EXCEPT ![b] = remaining[b]]]
      /\ UNCHANGED <<remaining, received, lineId, index, lineLock, req, pc,
                     todo, cost>>
  BY DEF LockBatch, NextBatch, RowFree, ReadUnderLock, stock
<1>1. TypeOK'
  BY <1>0 DEF TxInv, TypeOK
<1>2. /\ \A u \in Tx : u # t => seen'[u] = seen[u] /\ toLock'[u] = toLock[u]
      /\ toLock'[t] = toLock[t] \ {b}
      /\ seen'[t][b] = remaining[b]
      /\ \A c \in Batch : c # b =>
           seen'[t][c] = seen[t][c] /\ batchLock'[c] = batchLock[c]
      /\ batchLock'[b] = t
  BY <1>0 DEF TxInv, TypeOK
<1>3. SaleNamed' /\ KeyHeld' /\ NothingElse' /\ OnlyReceived'
  BY <1>0 DEF TxInv, SaleNamed, KeyHeld, NothingElse, OnlyReceived, Nothing,
              Header
<1>4. LocksCovered'
  BY <1>0, <1>2 DEF TxInv, LocksCovered, Writing
<1>5. DrawnUnderLock'
  BY <1>0, <1>2, TxAssumption DEF TxInv, DrawnUnderLock, IsConsumer
<1>6. PlannedUnderLock'
  BY <1>0, <1>2, TxAssumption DEF TxInv, PlannedUnderLock, IsConsumer
<1> QED BY <1>1, <1>3, <1>4, <1>5, <1>6 DEF TxInv

(* What a line draws is there in the rows the session holds.               *)
LEMMA Drawn ==
  ASSUME TxInv, NEW t \in Tx, NEW p \in Product, Draw(t, p) PROVE TxInv'
<1> DEFINE avail == LockedStock(t, p)
           take == FifoTake(avail, req[t].qty[p])
<1>0. /\ pc[t] = "lock" /\ IsConsumer(t) /\ p \in todo[t] /\ toLock[t] = {}
      /\ cost' = [cost EXCEPT ![t] = [b \in Batch |-> cost[t][b] + take[b]]]
      /\ todo' = [todo EXCEPT ![t] = todo[t] \ {p}]
      /\ pc' = [pc EXCEPT ![t] = "query"]
      /\ UNCHANGED <<remaining, received, lineId, index, batchLock, lineLock,
                     req, toLock, seen>>
  BY DEF Draw, NextLine, stock, locks
<1>1. /\ take \in [Batch -> Nat]
      /\ \A b \in Batch :
           /\ take[b] <= seen[t][b]
           /\ take[b] > 0 => ProductOf[b] = p /\ batchLock[b] = t
  <2>1. avail \in [Batch -> Nat] /\ req[t].qty[p] \in Nat
    BY DEF TxInv, TypeOK, LockedStock, Request
  <2>2. take \in [Batch -> Nat] /\ \A b \in Batch : take[b] <= avail[b]
    BY <2>1, BatchAssumption, FifoTakeBounds
  <2>3. \A b \in Batch :
          /\ avail[b] <= seen[t][b]
          /\ avail[b] > 0 => ProductOf[b] = p /\ batchLock[b] = t
    BY DEF TxInv, TypeOK, LockedStock
  <2>4. \A b \in Batch : seen[t][b] \in Nat
    BY DEF TxInv, TypeOK
  <2> HIDE DEF take, avail
  <2> QED BY <2>1, <2>2, <2>3, <2>4
<1> HIDE DEF take
<1>2. /\ \A u \in Tx : u # t => pc'[u] = pc[u] /\ todo'[u] = todo[u]
                                /\ cost'[u] = cost[u]
      /\ pc'[t] = "query" /\ todo'[t] = todo[t] \ {p}
      /\ \A b \in Batch : cost'[t][b] = cost[t][b] + take[b]
  BY <1>0 DEF TxInv, TypeOK
<1>3. \A b \in Batch : cost[t][b] \in Nat /\ seen[t][b] \in Nat /\ take[b] \in Nat
  BY <1>1 DEF TxInv, TypeOK
<1>4. TypeOK'
  BY <1>0, <1>1 DEF TxInv, TypeOK, Outcomes
<1>5. SaleNamed' /\ KeyHeld'
  BY <1>0, <1>2 DEF TxInv, SaleNamed, KeyHeld, Header, Writing
<1>6. NothingElse'
  BY <1>0, <1>2 DEF TxInv, NothingElse, Nothing, Writing
<1>7. LocksCovered'
  BY <1>0, <1>2 DEF TxInv, LocksCovered, Writing
<1>8. DrawnUnderLock'
  BY <1>0, <1>1, <1>2, <1>3 DEF TxInv, DrawnUnderLock, IsConsumer, Writing
<1>9. PlannedUnderLock'
  BY <1>0, <1>2 DEF TxInv, PlannedUnderLock, IsConsumer, Writing
<1>10. OnlyReceived'
  BY <1>0, <1>1, <1>2, <1>3, TxAssumption DEF TxInv, OnlyReceived, LocksCovered
<1> QED BY <1>4, <1>5, <1>6, <1>7, <1>8, <1>9, <1>10 DEF TxInv

(* The rows a return has planned for are all locked: the line is done.     *)
LEMMA Restored ==
  ASSUME TxInv, NEW t \in Tx, NEW p \in Product, Restore(t, p) PROVE TxInv'
<1>0. /\ pc[t] = "lock" /\ ~IsConsumer(t) /\ toLock[t] = {}
      /\ todo' = [todo EXCEPT ![t] = todo[t] \ {p}]
      /\ pc' = [pc EXCEPT ![t] = "query"]
      /\ UNCHANGED <<remaining, received, lineId, index, batchLock, lineLock,
                     req, toLock, seen, cost>>
  BY DEF Restore, stock, locks
<1>1. TypeOK'
  BY <1>0 DEF TxInv, TypeOK, Outcomes
<1>2. /\ \A u \in Tx : u # t => pc'[u] = pc[u] /\ todo'[u] = todo[u]
      /\ pc'[t] = "query"
  BY <1>0 DEF TxInv, TypeOK
<1>3. SaleNamed' /\ KeyHeld' /\ OnlyReceived'
  BY <1>0, <1>2 DEF TxInv, SaleNamed, KeyHeld, Header, Writing, OnlyReceived
<1>4. NothingElse'
  BY <1>0, <1>2 DEF TxInv, NothingElse, Nothing, Writing
<1>5. LocksCovered'
  BY <1>0, <1>2 DEF TxInv, LocksCovered, Writing
<1>6. DrawnUnderLock' /\ PlannedUnderLock'
  BY <1>0, <1>2 DEF TxInv, DrawnUnderLock, PlannedUnderLock, IsConsumer, Writing
<1> QED BY <1>1, <1>3, <1>4, <1>5, <1>6 DEF TxInv

(* What a sale drew, as a quantity per batch.                              *)
LEMMA OfProductType ==
  ASSUME NEW f \in [Batch -> Nat], NEW p
  PROVE  OfProduct(f, p) \in [Batch -> Nat]
BY DEF OfProduct

(* _returned_so_far is a quantity.                                         *)
LEMMA ReturnedType ==
  ASSUME TypeOK, NEW s \in Tx, NEW p \in Product
  PROVE  ReturnedSoFar(s, p) \in Nat
<1> DEFINE f == [t \in Tx |-> IF IsReturnOf(t, s) THEN req[t].qty[p] ELSE 0]
<1>1. \A t \in Tx : f[t] \in Nat
  BY DEF TypeOK, Request
<1>2. Total(f, Tx) \in Nat
  BY <1>1, TxAssumption, TotalType
<1> QED BY <1>2 DEF ReturnedSoFar

(* A plan restores no more than the sale drew from the batch.              *)
LEMMA PlanBounds ==
  ASSUME NEW drawn \in [Batch -> Nat], NEW already \in Nat, NEW qty \in Nat
  PROVE  /\ ReturnPlan(drawn, already, qty) \in [Batch -> Nat]
         /\ \A b \in Batch : ReturnPlan(drawn, already, qty)[b] <= drawn[b]
<1>1. already + qty \in Nat /\ already <= already + qty
  OBVIOUS
<1>2. /\ LifoPrefix(drawn, already) \in [Batch -> Nat]
      /\ LifoPrefix(drawn, already + qty) \in [Batch -> Nat]
      /\ \A b \in Batch : LifoPrefix(drawn, already + qty)[b] <= drawn[b]
  BY <1>1, BatchAssumption, LifoPrefixBounds
<1>3. \A b \in Batch :
        LifoPrefix(drawn, already)[b] <= LifoPrefix(drawn, already + qty)[b]
  BY <1>1, BatchAssumption, LifoPrefixMonotone
<1>4. ASSUME NEW b \in Batch
      PROVE  /\ LifoPrefix(drawn, already + qty)[b] - LifoPrefix(drawn, already)[b]
                  \in Nat
             /\ LifoPrefix(drawn, already + qty)[b] - LifoPrefix(drawn, already)[b]
                  <= drawn[b]
  <2>1. /\ LifoPrefix(drawn, already)[b] \in Nat
        /\ LifoPrefix(drawn, already + qty)[b] \in Nat /\ drawn[b] \in Nat
    BY <1>2
  <2> QED BY <1>2, <1>3, <2>1
<1>5. /\ DOMAIN drawn = Batch
      /\ \A b \in Batch :
           ReturnPlan(drawn, already, qty)[b]
             = LifoPrefix(drawn, already + qty)[b] - LifoPrefix(drawn, already)[b]
      /\ ReturnPlan(drawn, already, qty)
           = [b \in Batch |-> ReturnPlan(drawn, already, qty)[b]]
  BY DEF ReturnPlan
<1> QED BY <1>4, <1>5

(* A plan credits batches the sale drew from, and those are then locked.   *)
LEMMA ReturnPlanned ==
  ASSUME TxInv, NEW t \in Tx, NEW p \in Product, PlanReturn(t, p)
  PROVE  TxInv'
<1> DEFINE s == req[t].sale
           sold == OfProduct(cost[s], p)
           plan == ReturnPlan(sold, ReturnedSoFar(s, p), req[t].qty[p])
<1>0. /\ pc[t] = "query" /\ ~IsConsumer(t)
      /\ cost' = [cost EXCEPT ![t] = [b \in Batch |-> cost[t][b] + plan[b]]]
      /\ toLock' = [toLock EXCEPT ![t] = {b \in Batch : plan[b] > 0}]
      /\ seen' = [seen EXCEPT ![t] =
                    [b \in Batch |-> IF sold[b] > 0 THEN remaining[b]
                                                    ELSE seen[t][b]]]
      /\ pc' = [pc EXCEPT ![t] = "lock"]
      /\ UNCHANGED <<remaining, received, lineId, index, batchLock, lineLock,
                     req, todo>>
  BY DEF PlanReturn, stock, locks
<1>1. /\ plan \in [Batch -> Nat]
      /\ \A b \in Batch : plan[b] > 0 => received[b] > 0
  <2>1. s \in Tx
    BY <1>0 DEF TxInv, TypeOK, SaleNamed, IsConsumer, Consumers, Kinds,
                Request, Writing
  <2>2. sold \in [Batch -> Nat]
    BY <2>1, OfProductType DEF TxInv, TypeOK
  <2>3. ReturnedSoFar(s, p) \in Nat /\ req[t].qty[p] \in Nat
    BY <2>1, ReturnedType DEF TxInv, TypeOK, Request
  <2>4. \A b \in Batch : sold[b] > 0 => cost[s][b] > 0
    BY DEF OfProduct
  <2>5. \A b \in Batch : sold[b] > 0 => received[b] > 0
    BY <2>1, <2>4 DEF TxInv, OnlyReceived
  <2> HIDE DEF sold, s
  <2>6. plan \in [Batch -> Nat] /\ \A b \in Batch : plan[b] <= sold[b]
    BY <2>2, <2>3, PlanBounds
  <2> HIDE DEF plan
  <2> QED BY <2>2, <2>5, <2>6
<1> HIDE DEF plan, sold
<1>2. /\ \A u \in Tx : u # t => /\ pc'[u] = pc[u] /\ toLock'[u] = toLock[u]
                                /\ cost'[u] = cost[u] /\ seen'[u] = seen[u]
      /\ pc'[t] = "lock" /\ toLock'[t] = {b \in Batch : plan[b] > 0}
      /\ \A b \in Batch :
           /\ cost'[t][b] = cost[t][b] + plan[b]
           /\ seen'[t][b] = remaining[b] \/ seen'[t][b] = seen[t][b]
  BY <1>0 DEF TxInv, TypeOK
<1>3. \A b \in Batch : cost[t][b] \in Nat /\ plan[b] \in Nat
  BY <1>1 DEF TxInv, TypeOK
<1>4. TypeOK'
  BY <1>0, <1>1 DEF TxInv, TypeOK, Outcomes
<1>5. SaleNamed' /\ KeyHeld'
  BY <1>0, <1>2 DEF TxInv, SaleNamed, KeyHeld, Header, Writing
<1>6. NothingElse'
  BY <1>0, <1>2 DEF TxInv, NothingElse, Nothing, Writing
<1>7. LocksCovered'
  BY <1>0, <1>1, <1>2 DEF TxInv, LocksCovered, Writing
<1>8. DrawnUnderLock'
  BY <1>0, <1>2 DEF TxInv, DrawnUnderLock, IsConsumer
<1>9. PlannedUnderLock'
  BY <1>0, <1>2, <1>3 DEF TxInv, PlannedUnderLock, IsConsumer, Writing
<1>10. OnlyReceived'
  BY <1>0, <1>1, <1>2, <1>3 DEF TxInv, OnlyReceived
<1> QED BY <1>4, <1>5, <1>6, <1>7, <1>8, <1>9, <1>10 DEF TxInv

(* At COMMIT every row that changes is held, so nobody else has a copy of  *)
(* it, and what is written does not go below zero.                         *)
LEMMA Committed ==
  ASSUME TxInv, NEW t \in Tx, Commit(t) PROVE TxInv'
<1>0. /\ pc[t] = "query"
      /\ remaining' = [b \in Batch |->
                         IF cost[t][b] > 0 THEN NewQty(t, b) ELSE remaining[b]]
      /\ pc' = [pc EXCEPT ![t] = "created"]
      /\ batchLock' = [b \in Batch |->
                         IF batchLock[b] = t THEN None ELSE batchLock[b]]
      /\ lineLock' = [s \in Tx |-> [p \in Product |->
                         IF lineLock[s][p] = t THEN None ELSE lineLock[s][p]]]
      /\ todo' = [todo EXCEPT ![t] = {}]
      /\ toLock' = [toLock EXCEPT ![t] = {}]
      /\ seen' = [seen EXCEPT ![t] = Nothing]
      /\ UNCHANGED <<received, index, req, cost>>
  BY DEF Commit, ReleaseRows, ClearSession
<1>1. lineId' \in [Tx -> [Product -> Nat]]
  <2>1. lineId \in [Tx -> [Product -> Nat]]
    BY DEF TxInv, TypeOK
  <2>2. CASE lineId' = lineId
    BY <2>1, <2>2
  <2>3. CASE \E f \in LineOrders : lineId' = [lineId EXCEPT ![t] = f]
    <3>1. PICK f \in LineOrders : lineId' = [lineId EXCEPT ![t] = f]
      BY <2>3
    <3>2. f \in [Product -> Nat]
      BY ProductAssumption, FS_CardinalityType DEF LineOrders
    <3> QED BY <2>1, <3>1, <3>2
  <2> QED BY <2>2, <2>3 DEF Commit
<1>2. ASSUME NEW b \in Batch, cost[t][b] > 0
      PROVE  batchLock[b] = t /\ NewQty(t, b) \in Nat /\ received[b] > 0
  <2>1. cost[t][b] \in Nat /\ seen[t][b] \in Nat
    BY DEF TxInv, TypeOK
  <2>2. received[b] > 0
    BY <1>2 DEF TxInv, OnlyReceived
  <2>3. CASE IsConsumer(t)
    <3>1. batchLock[b] = t /\ cost[t][b] <= seen[t][b]
      BY <1>0, <1>2, <2>3 DEF TxInv, DrawnUnderLock, Writing
    <3> QED BY <2>1, <2>2, <2>3, <3>1 DEF NewQty
  <2>4. CASE ~IsConsumer(t)
    <3>1. batchLock[b] = t
      BY <1>0, <1>2, <2>4 DEF TxInv, PlannedUnderLock, Writing
    <3> QED BY <2>1, <2>2, <2>4, <3>1 DEF NewQty
  <2> QED BY <2>3, <2>4
<1>3. TypeOK'
  <2>1. remaining' \in [Batch -> Nat]
    BY <1>0, <1>2 DEF TxInv, TypeOK
  <2> QED BY <1>0, <1>1, <2>1 DEF TxInv, TypeOK, Outcomes, Nothing
<1>4. /\ \A u \in Tx : u # t => /\ pc'[u] = pc[u] /\ seen'[u] = seen[u]
                                /\ todo'[u] = todo[u] /\ toLock'[u] = toLock[u]
      /\ pc'[t] = "created" /\ toLock'[t] = {}
      /\ \A b \in Batch : remaining'[b] # remaining[b] => batchLock[b] = t
      /\ \A b \in Batch : remaining'[b] # remaining[b] => received[b] > 0
  BY <1>0, <1>2 DEF TxInv, TypeOK
<1>5. SaleNamed' /\ KeyHeld'
  BY <1>0, <1>4 DEF TxInv, SaleNamed, KeyHeld, Header, Writing
<1>6. NothingElse'
  BY <1>0, <1>4 DEF TxInv, NothingElse, Nothing, Writing
<1>7. LocksCovered'
  BY <1>0, <1>4, TxAssumption DEF TxInv, LocksCovered, Writing
<1>8. DrawnUnderLock' /\ PlannedUnderLock'
  BY <1>0, <1>4 DEF TxInv, DrawnUnderLock, PlannedUnderLock, IsConsumer, Writing
<1>9. OnlyReceived'
  BY <1>0, <1>4 DEF TxInv, OnlyReceived
<1> QED BY <1>3, <1>5, <1>6, <1>7, <1>8, <1>9 DEF TxInv

(* Whoever waits is live.                                                  *)
LEMMA WaiterActive ==
  ASSUME TypeOK, NEW t \in Tx, DeadlockVictim(t) PROVE Active(t)
<1>1. PICK u : WaitsFor(t, u)
  BY DEF DeadlockVictim, WaitCycle
<1> QED BY <1>1 DEF WaitsFor, Active, Outcomes

(* The steps that end or move a handler that has written nothing.          *)
LEMMA Moved ==
  ASSUME TxInv, NEW t \in Tx,
         \/ Replay(t) \/ NoSuchSale(t) \/ Begin(t) \/ LinesLocked(t)
         \/ ReceiveReplayed(t)
         \/ \E p \in Product : LockSaleLine(t, p)
  PROVE  TxInv'
<1>1. lineLock \in [Tx -> [Product -> Tx \cup {None}]]
      /\ pc \in [Tx -> {"idle", "lines", "header", "query", "lock"} \cup Outcomes]
  BY DEF TxInv, TypeOK
<1> USE DEF Writing, Outcomes, stock, locks, AnswerAtOnce
<1>2. CASE Replay(t)
  BY <1>1, <1>2, MoveOn DEF Replay
<1>3. CASE NoSuchSale(t)
  BY <1>1, <1>3, MoveOn DEF NoSuchSale
<1>4. CASE Begin(t)
  BY <1>1, <1>4, MoveOn DEF Begin
<1>5. CASE LinesLocked(t)
  BY <1>1, <1>5, MoveOn DEF LinesLocked
<1>6. CASE ReceiveReplayed(t)
  BY <1>1, <1>6, MoveOn DEF ReceiveReplayed
<1>7. CASE \E p \in Product : LockSaleLine(t, p)
  <2>1. PICK p \in Product :
          /\ pc[t] = "lines"
          /\ lineLock' = [lineLock EXCEPT ![req[t].sale][p] = t]
          /\ UNCHANGED <<remaining, received, lineId, index, batchLock,
                         req, pc, todo, toLock, seen, cost>>
    BY <1>7 DEF LockSaleLine
  <2>2. lineLock' \in [Tx -> [Product -> Tx \cup {None}]]
    BY <1>1, <2>1
  <2>3. pc' = [pc EXCEPT ![t] = "lines"]
    BY <1>1, <2>1
  <2> QED BY <2>1, <2>2, <2>3, MoveOn
<1> QED BY <1>2, <1>3, <1>4, <1>5, <1>6, <1>7

(* The steps that roll a handler back.                                     *)
LEMMA GivenUp ==
  ASSUME TxInv, NEW t \in Tx,
         \/ ForeignLine(t) \/ DuplicateHeader(t) \/ DeadlockVictim(t) \/ Crash(t)
         \/ \E p \in Product : OverReturn(t, p) \/ Shortage(t, p)
  PROVE  Active(t) /\ \E o \in Outcomes \ {"created"} : Abort(t, o)
<1> USE DEF Outcomes, Active
<1>1. CASE ForeignLine(t)
  BY <1>1 DEF ForeignLine
<1>2. CASE DuplicateHeader(t)
  BY <1>2 DEF DuplicateHeader
<1>3. CASE DeadlockVictim(t)
  <2>1. Abort(t, "deadlock")
    BY <1>3 DEF DeadlockVictim
  <2>2. Active(t)
    BY <1>3, WaiterActive DEF TxInv
  <2> QED BY <2>1, <2>2
<1>4. CASE Crash(t)
  BY <1>4 DEF Crash
<1>5. CASE \E p \in Product : OverReturn(t, p) \/ Shortage(t, p)
  BY <1>5 DEF OverReturn, Shortage
<1> QED BY <1>1, <1>2, <1>3, <1>4, <1>5

(* No step of any handler breaks the invariant.                            *)
LEMMA TxNext == ASSUME TxInv, [Next]_vars PROVE TxInv'
<1>1. CASE Next
  <2>1. PICK t \in Tx :
          Replay(t) \/ NoSuchSale(t) \/ Begin(t) \/ Handle(t) \/ Crash(t)
    BY <1>1 DEF Next
  <2>2. CASE \/ Replay(t) \/ NoSuchSale(t) \/ Begin(t) \/ LinesLocked(t)
             \/ ReceiveReplayed(t) \/ \E p \in Product : LockSaleLine(t, p)
    BY <2>2, Moved
  <2>3. CASE \/ ForeignLine(t) \/ DuplicateHeader(t) \/ DeadlockVictim(t)
             \/ Crash(t)
             \/ \E p \in Product : OverReturn(t, p) \/ Shortage(t, p)
    BY <2>3, GivenUp, RolledBack
  <2>4. CASE InsertHeader(t) \/ Receive(t) \/ Commit(t)
    BY <2>4, HeaderInserted, Received, Committed
  <2>5. CASE \E p \in Product :
               QueryStock(t, p) \/ PlanReturn(t, p) \/ Draw(t, p) \/ Restore(t, p)
    BY <2>5, StockQueried, ReturnPlanned, Drawn, Restored
  <2>6. CASE \E b \in Batch : LockBatch(t, b)
    BY <2>6, BatchLocked
  <2> QED BY <2>1, <2>2, <2>3, <2>4, <2>5, <2>6 DEF Handle
<1>2. CASE UNCHANGED vars
  BY <1>2 DEF vars, TxInv, TypeOK, SaleNamed, LocksCovered, KeyHeld,
              NothingElse, Nothing, DrawnUnderLock, PlannedUnderLock,
              OnlyReceived, IsConsumer, Header
<1> QED BY <1>1, <1>2

(* The invariant holds in every state the endpoints can reach together.    *)
LEMMA TxInvariant == Spec => []TxInv
BY TxInit, TxNext, PTL DEF Spec
-----------------------------------------------------------------------------
(* Every column and every session variable keeps its type whatever runs    *)
(* concurrently; no committed remaining_qty is negative.                   *)
THEOREM TypeCorrect == Spec => []TypeOK
<1>1. TxInv => TypeOK
  BY DEF TxInv
<1> QED BY <1>1, TxInvariant, PTL

(* A session that holds a part_batch row FOR UPDATE computes with the      *)
(* quantity the row has: nobody else writes it until COMMIT or ROLLBACK.   *)
THEOREM LockedCopyStaysCurrent == Spec => []LockedCopyIsCurrent
<1>1. TxInv => LockedCopyIsCurrent
  BY DEF TxInv, LocksCovered, LockedCopyIsCurrent
<1> QED BY <1>1, TxInvariant, PTL

(* However often a request is retried, and whoever dies in between, one    *)
(* committed row has its key: the retries changed no stock.                *)
THEOREM OneEffect == Spec => []OneEffectPerKey
<1>1. TxInv => OneEffectPerKey
  BY DEF TxInv, KeyHeld, OneEffectPerKey, Created
<1> QED BY <1>1, TxInvariant, PTL
-----------------------------------------------------------------------------
(* The workloads without returns, and those of sales, tickets and          *)
(* write-offs only.  Neither restriction can be dropped: returns lock      *)
(* batches in the order of their sale's line ids, and pieces that come     *)
(* back or arrive between a query and its locks are not seen.              *)
NoReturns == \A load \in Workload, t \in Tx : load[t].kind # "return"
ConsumersOnly == \A load \in Workload, t \in Tx : load[t].kind \in Consumers

(* Only a handler that has written holds a key.                            *)
KeysAreWritten ==
  \A h \in Kinds \X Key :
    index[h] # None => pc[index[h]] \in Writing \cup {"created"}

(* Lines are worked off in product order: what a handler holds is of       *)
(* products before those still to do, or of the one it is at.              *)
HeldBeforeTodo ==
  \A t \in Tx, b \in Batch :
    batchLock[b] = t =>
      \A p \in todo[t] : IF pc[t] = "query" THEN ProductOf[b] < p
                                            ELSE ProductOf[b] <= p

(* The rows of a result are of the line at hand, and those already locked  *)
(* are older.                                                              *)
HeldBeforeNext ==
  \A t \in Tx : pc[t] = "lock" =>
    \A c \in toLock[t] :
      /\ ProductOf[c] \in todo[t]
      /\ \A p \in todo[t] : ProductOf[c] <= p
      /\ \A b \in Batch :
           batchLock[b] = t /\ ProductOf[b] = ProductOf[c] => b < c

OrderInv ==
  /\ \A t \in Tx : req[t].kind # "return" /\ pc[t] # "lines"
  /\ KeysAreWritten /\ HeldBeforeTodo /\ HeldBeforeNext

(* A handler that takes part in no other step's order.                     *)
LEMMA OrderKept ==
  ASSUME TxInv, OrderInv, req' = req,
         \A u \in Tx :
           /\ pc'[u] # "lines"
           /\ pc[u] \in Writing \cup {"created"} =>
                \/ pc'[u] \in Writing \cup {"created"}
                \/ \A h \in Kinds \X Key : index'[h] # u
           /\ pc'[u] \in Writing =>
                pc'[u] = pc[u] /\ todo'[u] = todo[u] /\ toLock'[u] = toLock[u],
         \A h \in Kinds \X Key :
           \/ index'[h] = index[h] \/ index'[h] = None
           \/ index'[h] \in Tx /\ pc'[index'[h]] \in Writing \cup {"created"},
         \A b \in Batch : batchLock'[b] = batchLock[b] \/ batchLock'[b] = None,
         TxInv'
  PROVE  OrderInv'
<1>1. \A t \in Tx : req'[t].kind # "return" /\ pc'[t] # "lines"
  BY DEF OrderInv
<1>2. KeysAreWritten'
  <2> SUFFICES ASSUME NEW h \in Kinds \X Key, index'[h] # None
               PROVE  pc'[index'[h]] \in Writing \cup {"created"}
    BY DEF KeysAreWritten
  <2>1. index'[h] \in Tx
    BY DEF TxInv, TypeOK
  <2> QED BY <2>1 DEF OrderInv, KeysAreWritten
<1>3. HeldBeforeTodo'
  <2> SUFFICES ASSUME NEW t \in Tx, NEW b \in Batch, batchLock'[b] = t,
                      NEW p \in todo'[t]
               PROVE  IF pc'[t] = "query" THEN ProductOf[b] < p
                                          ELSE ProductOf[b] <= p
    BY DEF HeldBeforeTodo
  <2>1. batchLock[b] = t /\ pc'[t] \in Writing
    BY TxAssumption DEF TxInv, LocksCovered
  <2> QED BY <2>1 DEF OrderInv, HeldBeforeTodo
<1>4. HeldBeforeNext'
  <2> SUFFICES ASSUME NEW t \in Tx, pc'[t] = "lock", NEW c \in toLock'[t]
               PROVE  /\ ProductOf[c] \in todo'[t]
                      /\ \A p \in todo'[t] : ProductOf[c] <= p
                      /\ \A b \in Batch :
                           batchLock'[b] = t /\ ProductOf[b] = ProductOf[c] => b < c
    BY DEF HeldBeforeNext
  <2>1. pc[t] = "lock" /\ todo'[t] = todo[t] /\ toLock'[t] = toLock[t]
    BY DEF Writing
  <2>2. \A b \in Batch : batchLock'[b] = t => batchLock[b] = t
    BY TxAssumption
  <2> QED BY <2>1, <2>2 DEF OrderInv, HeldBeforeNext
<1> QED BY <1>1, <1>2, <1>3, <1>4 DEF OrderInv

(* The statements that decide the order: the query of a line, the locking  *)
(* of its rows, its draw.                                                  *)
LEMMA OrderLines ==
  ASSUME TxInv, TxInv', OrderInv, NEW t \in Tx,
         \/ \E p \in Product : QueryStock(t, p) \/ Draw(t, p)
         \/ \E b \in Batch : LockBatch(t, b)
  PROVE  OrderInv'
<1>0. /\ pc \in [Tx -> {"idle", "lines", "header", "query", "lock"} \cup Outcomes]
      /\ todo \in [Tx -> SUBSET Product] /\ toLock \in [Tx -> SUBSET Batch]
      /\ batchLock \in [Batch -> Tx \cup {None}] /\ None \notin Tx
      /\ Product \subseteq Nat /\ Batch \subseteq Nat
      /\ \A b \in Batch : ProductOf[b] \in Product
  BY TxAssumption, BatchAssumption, ProductAssumption DEF TxInv, TypeOK
<1>1. CASE \E p \in Product : QueryStock(t, p)
  <2>1. PICK p \in Product :
          /\ pc[t] = "query" /\ p \in todo[t] /\ \A q \in todo[t] : p <= q
          /\ toLock' = [toLock EXCEPT ![t] =
                          {b \in Batch : ProductOf[b] = p /\ remaining[b] > 0}]
          /\ pc' = [pc EXCEPT ![t] = "lock"]
          /\ UNCHANGED <<index, batchLock, req, todo>>
    BY <1>1 DEF QueryStock, NextLine, stock, locks
  <2>2. /\ pc'[t] = "lock" /\ \A c \in toLock'[t] : c \in Batch /\ ProductOf[c] = p
        /\ \A u \in Tx : u # t => pc'[u] = pc[u] /\ toLock'[u] = toLock[u]
    BY <1>0, <2>1
  <2>3. \A u \in Tx : req'[u].kind # "return" /\ pc'[u] # "lines"
    BY <2>1, <2>2 DEF OrderInv
  <2>4. KeysAreWritten'
    BY <2>1, <2>2 DEF OrderInv, KeysAreWritten, Writing
  <2>5. \A b \in Batch : batchLock[b] = t => \A q \in todo[t] : ProductOf[b] < q
    BY <2>1 DEF OrderInv, HeldBeforeTodo
  <2>6. HeldBeforeTodo'
    <3> SUFFICES ASSUME NEW u \in Tx, NEW b \in Batch, batchLock[b] = u,
                        NEW q \in todo[u]
                 PROVE  IF pc'[u] = "query" THEN ProductOf[b] < q
                                            ELSE ProductOf[b] <= q
      BY <2>1 DEF HeldBeforeTodo
    <3>1. CASE u = t
      <4>1. ProductOf[b] < q /\ ProductOf[b] \in Nat /\ q \in Nat
        BY <1>0, <2>5, <3>1
      <4> QED BY <2>2, <3>1, <4>1
    <3>2. CASE u # t
      BY <2>2, <3>2 DEF OrderInv, HeldBeforeTodo
    <3> QED BY <3>1, <3>2
  <2>7. HeldBeforeNext'
    <3> SUFFICES ASSUME NEW u \in Tx, pc'[u] = "lock", NEW c \in toLock'[u]
                 PROVE  /\ ProductOf[c] \in todo[u]
                        /\ \A q \in todo[u] : ProductOf[c] <= q
                        /\ \A b \in Batch :
                             batchLock[b] = u /\ ProductOf[b] = ProductOf[c] => b < c
      BY <2>1 DEF HeldBeforeNext
    <3>1. CASE u = t
      <4>1. ProductOf[c] = p
        BY <2>2, <3>1
      <4>2. \A b \in Batch : batchLock[b] = t => ProductOf[b] # p
        BY <1>0, <2>1, <2>5
      <4> QED BY <2>1, <3>1, <4>1, <4>2
    <3>2. CASE u # t
      BY <2>2, <3>2 DEF OrderInv, HeldBeforeNext
    <3> QED BY <3>1, <3>2
  <2> QED BY <2>3, <2>4, <2>6, <2>7 DEF OrderInv
<1>2. CASE \E p \in Product : Draw(t, p)
  <2>1. PICK p \in Product :
          /\ pc[t] = "lock" /\ IsConsumer(t) /\ NextLine(t, p)
          /\ todo' = [todo EXCEPT ![t] = todo[t] \ {p}]
          /\ pc' = [pc EXCEPT ![t] = "query"]
          /\ UNCHANGED <<index, batchLock, req, toLock>>
    BY <1>2 DEF Draw, stock, locks
  <2>2. /\ pc'[t] = "query" /\ todo'[t] = todo[t] \ {p}
        /\ \A u \in Tx : u # t => pc'[u] = pc[u] /\ todo'[u] = todo[u]
        /\ p \in todo[t] /\ \A q \in todo[t] : p <= q
    BY <1>0, <2>1 DEF NextLine
  <2>3. \A u \in Tx : req'[u].kind # "return" /\ pc'[u] # "lines"
    BY <2>1, <2>2 DEF OrderInv
  <2>4. KeysAreWritten'
    BY <2>1, <2>2 DEF OrderInv, KeysAreWritten, Writing
  <2>5. HeldBeforeTodo'
    <3> SUFFICES ASSUME NEW u \in Tx, NEW b \in Batch, batchLock[b] = u,
                        NEW q \in todo'[u]
                 PROVE  IF pc'[u] = "query" THEN ProductOf[b] < q
                                            ELSE ProductOf[b] <= q
      BY <2>1 DEF HeldBeforeTodo
    <3>1. CASE u = t
      <4>1. q \in todo[t] /\ q # p /\ p <= q
        BY <2>2, <3>1
      <4>2. ProductOf[b] <= p
        BY <2>1, <2>2, <3>1 DEF OrderInv, HeldBeforeTodo
      <4>3. ProductOf[b] \in Nat /\ q \in Nat /\ p \in Nat
        BY <1>0, <2>2, <4>1
      <4> QED BY <2>2, <3>1, <4>1, <4>2, <4>3
    <3>2. CASE u # t
      BY <2>2, <3>2 DEF OrderInv, HeldBeforeTodo
    <3> QED BY <3>1, <3>2
  <2>6. HeldBeforeNext'
    <3> SUFFICES ASSUME NEW u \in Tx, pc'[u] = "lock", NEW c \in toLock[u]
                 PROVE  /\ ProductOf[c] \in todo'[u]
                        /\ \A q \in todo'[u] : ProductOf[c] <= q
                        /\ \A b \in Batch :
                             batchLock[b] = u /\ ProductOf[b] = ProductOf[c] => b < c
      BY <2>1 DEF HeldBeforeNext
    <3>1. u # t
      BY <2>2
    <3> QED BY <2>2, <3>1 DEF OrderInv, HeldBeforeNext
  <2> QED BY <2>3, <2>4, <2>5, <2>6 DEF OrderInv
<1>3. CASE \E b \in Batch : LockBatch(t, b)
  <2>1. PICK b \in Batch :
          /\ pc[t] = "lock" /\ b \in toLock[t] /\ \A o \in toLock[t] : b <= o
          /\ batchLock' = [batchLock EXCEPT ![b] = t]
          /\ toLock' = [toLock EXCEPT ![t] = toLock[t] \ {b}]
          /\ UNCHANGED <<index, req, pc, todo>>
    BY <1>3 DEF LockBatch, NextBatch, stock
  <2>2. /\ batchLock'[b] = t /\ \A c \in Batch : c # b => batchLock'[c] = batchLock[c]
        /\ toLock'[t] = toLock[t] \ {b}
        /\ \A u \in Tx : u # t => toLock'[u] = toLock[u]
    BY <1>0, <2>1
  <2>3. \A u \in Tx : req'[u].kind # "return" /\ pc'[u] # "lines"
    BY <2>1 DEF OrderInv
  <2>4. KeysAreWritten'
    BY <2>1 DEF OrderInv, KeysAreWritten
  <2>5. ProductOf[b] \in todo[t] /\ \A q \in todo[t] : ProductOf[b] <= q
    BY <2>1 DEF OrderInv, HeldBeforeNext
  <2>6. HeldBeforeTodo'
    <3> SUFFICES ASSUME NEW u \in Tx, NEW c \in Batch, batchLock'[c] = u,
                        NEW q \in todo[u]
                 PROVE  IF pc[u] = "query" THEN ProductOf[c] < q
                                           ELSE ProductOf[c] <= q
      BY <2>1 DEF HeldBeforeTodo
    <3>1. CASE c = b
      BY <2>1, <2>2, <2>5, <3>1
    <3>2. CASE c # b
      BY <2>2, <3>2 DEF OrderInv, HeldBeforeTodo
    <3> QED BY <3>1, <3>2
  <2>7. HeldBeforeNext'
    <3> SUFFICES ASSUME NEW u \in Tx, pc[u] = "lock", NEW c \in toLock'[u],
                        NEW a \in Batch
                 PROVE  /\ ProductOf[c] \in todo[u]
                        /\ \A q \in todo[u] : ProductOf[c] <= q
                        /\ batchLock'[a] = u /\ ProductOf[a] = ProductOf[c] => a < c
      BY <2>1 DEF HeldBeforeNext
    <3>1. c \in toLock[u] /\ c \in Nat /\ b \in Nat
      BY <1>0, <2>1, <2>2
    <3>2. /\ ProductOf[c] \in todo[u]
          /\ \A q \in todo[u] : ProductOf[c] <= q
          /\ batchLock[a] = u /\ ProductOf[a] = ProductOf[c] => a < c
      BY <3>1 DEF OrderInv, HeldBeforeNext
    <3>3. CASE a # b
      BY <2>2, <3>2, <3>3
    <3>4. CASE a = b
      <4>1. u = t => b <= c /\ b # c
        BY <2>1, <2>2, <3>1
      <4> QED BY <2>2, <3>1, <3>2, <3>4, <4>1
    <3> QED BY <3>3, <3>4
  <2> QED BY <2>3, <2>4, <2>6, <2>7 DEF OrderInv
<1> QED BY <1>1, <1>2, <1>3

(* No step of a workload without returns breaks the order.                 *)
LEMMA OrderNext == ASSUME TxInv, TxInv', OrderInv, [Next]_vars PROVE OrderInv'
<1>0. /\ pc \in [Tx -> {"idle", "lines", "header", "query", "lock"} \cup Outcomes]
      /\ todo \in [Tx -> SUBSET Product]
      /\ index \in [Kinds \X Key -> Tx \cup {None}] /\ None \notin Tx
      /\ \A t \in Tx : Header(req[t]) \in Kinds \X Key
  BY TxAssumption DEF TxInv, TypeOK, Header, Request
<1>1. CASE UNCHANGED vars
  BY <1>1, OrderKept DEF vars, OrderInv
<1>2. ASSUME NEW t \in Tx, NEW o \in Outcomes \ {"created"}, Active(t), Abort(t, o)
      PROVE  OrderInv'
  <2>1. /\ pc' = [pc EXCEPT ![t] = o] /\ req' = req
        /\ index' = [h \in Kinds \X Key |-> IF index[h] = t THEN None ELSE index[h]]
        /\ batchLock' = [b \in Batch |->
                           IF batchLock[b] = t THEN None ELSE batchLock[b]]
        /\ todo' = [todo EXCEPT ![t] = {}] /\ toLock' = [toLock EXCEPT ![t] = {}]
    BY <1>2 DEF Abort, ReleaseRows, ClearSession
  <2>2. \A u \in Tx :
          IF u = t THEN pc'[u] \notin Writing \cup {"lines", "created"}
          ELSE pc'[u] = pc[u] /\ todo'[u] = todo[u] /\ toLock'[u] = toLock[u]
    BY <1>0, <2>1 DEF Writing, Outcomes, TxInv, TypeOK
  <2>3. \A u \in Tx : pc[u] # "lines"
    BY DEF OrderInv
  <2> QED BY <1>0, <2>1, <2>2, <2>3, OrderKept
<1>3. ASSUME NEW t \in Tx,
             Replay(t) \/ NoSuchSale(t) \/ Begin(t) \/ Handle(t) \/ Crash(t)
      PROVE  OrderInv'
  <2> USE DEF stock, locks
  <2>0. pc[t] # "lines" /\ req[t].kind # "return"
    BY DEF OrderInv
  <2>1. CASE \/ Replay(t) \/ NoSuchSale(t) \/ ReceiveReplayed(t) \/ Begin(t)
    <3>1. /\ UNCHANGED <<req, index, batchLock, todo, toLock>>
          /\ pc[t] \notin Writing \cup {"created"}
          /\ \E o \in {"header"} \cup (Outcomes \ {"created"}) :
               pc' = [pc EXCEPT ![t] = o]
      BY <2>0, <2>1 DEF Replay, NoSuchSale, ReceiveReplayed, Begin, AnswerAtOnce,
                        Outcomes, Writing
    <3>2. \A u \in Tx : IF u = t THEN pc'[u] \notin Writing \cup {"lines"}
                        ELSE pc'[u] = pc[u]
      BY <1>0, <3>1 DEF Writing, Outcomes
    <3>3. \A u \in Tx : pc[u] # "lines"
      BY DEF OrderInv
    <3> QED BY <3>1, <3>2, <3>3, OrderKept
  <2>2. CASE \/ ForeignLine(t) \/ DuplicateHeader(t) \/ DeadlockVictim(t)
             \/ Crash(t)
             \/ \E p \in Product : OverReturn(t, p) \/ Shortage(t, p)
    BY <1>2, <2>2, GivenUp
  <2>3. CASE InsertHeader(t)
    <3>1. /\ pc[t] = "header" /\ index' = [index EXCEPT ![Header(req[t])] = t]
          /\ pc' = [pc EXCEPT ![t] = "query"]
          /\ todo' = [todo EXCEPT ![t] = Lines(req[t])]
          /\ UNCHANGED <<batchLock, req, toLock>>
      BY <2>3 DEF InsertHeader
    <3>2. /\ pc'[t] = "query"
          /\ \A u \in Tx : u # t => pc'[u] = pc[u] /\ todo'[u] = todo[u]
      BY <1>0, <3>1
    <3>3. \A b \in Batch : batchLock[b] # t
      BY <3>1 DEF TxInv, LocksCovered, Writing
    <3>4. \A u \in Tx : req'[u].kind # "return" /\ pc'[u] # "lines"
      BY <3>1, <3>2 DEF OrderInv
    <3>5. KeysAreWritten'
      <4> SUFFICES ASSUME NEW h \in Kinds \X Key, index'[h] # None
                   PROVE  pc'[index'[h]] \in Writing \cup {"created"}
        BY DEF KeysAreWritten
      <4>1. CASE h = Header(req[t])
        BY <1>0, <3>1, <3>2, <4>1 DEF Writing
      <4>2. CASE h # Header(req[t])
        <5>1. index'[h] = index[h] /\ index[h] \in Tx
          BY <1>0, <3>1, <4>2
        <5>2. pc[index[h]] \in Writing \cup {"created"}
          BY <5>1 DEF OrderInv, KeysAreWritten
        <5> QED BY <3>1, <3>2, <5>1, <5>2 DEF Writing
      <4> QED BY <4>1, <4>2
    <3>6. HeldBeforeTodo'
      BY <3>1, <3>2, <3>3 DEF OrderInv, HeldBeforeTodo
    <3>7. HeldBeforeNext'
      BY <3>1, <3>2, <3>3 DEF OrderInv, HeldBeforeNext
    <3> QED BY <3>4, <3>5, <3>6, <3>7 DEF OrderInv
  <2>4. CASE Receive(t)
    <3>1. /\ pc[t] = "header" /\ index' = [index EXCEPT ![Header(req[t])] = t]
          /\ pc' = [pc EXCEPT ![t] = "created"]
          /\ UNCHANGED <<batchLock, req, todo, toLock>>
      BY <2>4 DEF Receive
    <3>2. /\ pc'[t] = "created" /\ \A u \in Tx : u # t => pc'[u] = pc[u]
          /\ \A h \in Kinds \X Key : index'[h] = index[h] \/ index'[h] = t
      BY <1>0, <3>1
    <3>3. \A u \in Tx : pc[u] # "lines"
      BY DEF OrderInv
    <3> QED BY <3>1, <3>2, <3>3, OrderKept DEF Writing
  <2>5. CASE Commit(t)
    <3>1. /\ pc' = [pc EXCEPT ![t] = "created"] /\ req' = req /\ index' = index
          /\ batchLock' = [b \in Batch |->
                             IF batchLock[b] = t THEN None ELSE batchLock[b]]
          /\ todo' = [todo EXCEPT ![t] = {}] /\ toLock' = [toLock EXCEPT ![t] = {}]
      BY <2>5 DEF Commit, ReleaseRows, ClearSession
    <3>2. /\ pc'[t] = "created"
          /\ \A u \in Tx : u # t => /\ pc'[u] = pc[u] /\ todo'[u] = todo[u]
                                    /\ toLock'[u] = toLock[u]
      BY <1>0, <3>1 DEF TxInv, TypeOK
    <3>3. \A u \in Tx : pc[u] # "lines"
      BY DEF OrderInv
    <3> QED BY <3>1, <3>2, <3>3, OrderKept DEF Writing
  <2>6. CASE \/ \E p \in Product : QueryStock(t, p) \/ Draw(t, p)
             \/ \E b \in Batch : LockBatch(t, b)
    BY <2>6, OrderLines
  <2>7. ~LinesLocked(t) /\ \A p \in Product : ~LockSaleLine(t, p)
    BY <2>0 DEF LinesLocked, LockSaleLine
  <2>8. \A p \in Product : ~PlanReturn(t, p) /\ ~Restore(t, p)
    <3>1. pc[t] \in Writing => IsConsumer(t)
      BY <2>0 DEF TxInv, TypeOK, Request, Kinds, SaleNamed, IsConsumer
    <3> QED BY <3>1 DEF PlanReturn, Restore, Writing
  <2> QED BY <1>3, <2>1, <2>2, <2>3, <2>4, <2>5, <2>6, <2>7, <2>8 DEF Handle
<1> QED BY <1>1, <1>3 DEF Next

LEMMA OrderInvariant == NoReturns /\ Spec => []OrderInv
<1>1. NoReturns /\ Init => OrderInv
  BY TxAssumption DEF NoReturns, Init, OrderInv, KeysAreWritten, HeldBeforeTodo,
                      HeldBeforeNext
<1>2. TxInv /\ TxInv' /\ OrderInv /\ [Next]_vars => OrderInv'
  BY OrderNext
<1> QED BY <1>1, <1>2, TxInvariant, PTL DEF Spec

(* Rows taken in the order of products, and of batches within a product,   *)
(* leave nobody waiting in a circle: whoever waits for the last row of all *)
(* would wait for one who waits for a later one.                           *)
LEMMA OrderedLocks == ASSUME TxInv, OrderInv PROVE NoDeadlock
<1> SUFFICES ASSUME NEW C \in SUBSET Tx, WaitCycle(C) PROVE FALSE
  BY DEF NoDeadlock
<1>0. /\ C # {} /\ \A t \in C : \E u \in C : WaitsFor(t, u)
      /\ \A u \in C : \E t \in C : WaitsFor(t, u)
  BY DEF WaitCycle
<1>1. ASSUME NEW u \in C PROVE pc[u] = "lock"
  <2>1. PICK t \in C : WaitsFor(t, u)
    BY <1>0
  <2>2. pc[t] # "lines"
    BY DEF OrderInv
  <2>3. CASE pc[t] = "header" /\ index[Header(req[t])] = u /\ Active(u)
    <3>1. Header(req[t]) \in Kinds \X Key /\ u # None
      BY TxAssumption DEF TxInv, TypeOK, Request, Header
    <3>2. pc[u] \in Writing
      BY <2>3, <3>1 DEF OrderInv, KeysAreWritten, Active, Outcomes
    <3>3. pc[u] # "query"
      BY <1>0 DEF WaitsFor
    <3> QED BY <3>2, <3>3 DEF Writing
  <2>4. CASE \E b \in Batch : batchLock[b] = u
    <3>1. pc[u] \in Writing
      BY <2>4 DEF TxInv, LocksCovered
    <3>2. pc[u] # "query"
      BY <1>0 DEF WaitsFor
    <3> QED BY <3>1, <3>2 DEF Writing
  <2> QED BY <2>1, <2>2, <2>3, <2>4 DEF WaitsFor
<1> DEFINE Awaited == {b \in Batch : \E t, u \in C : NextBatch(t, b) /\ batchLock[b] = u}
           Awaits == {p \in Product : \E b \in Awaited : ProductOf[b] = p}
<1>2. ASSUME NEW t \in C PROVE \E b \in Awaited : NextBatch(t, b)
  <2>1. PICK u \in C : WaitsFor(t, u)
    BY <1>0
  <2> QED BY <1>1, <2>1 DEF WaitsFor
<1>3. /\ Awaited \subseteq Batch /\ Awaited \subseteq Nat /\ IsFiniteSet(Awaited)
      /\ Awaited # {} /\ Awaits \subseteq Nat /\ IsFiniteSet(Awaits) /\ Awaits # {}
  <2>1. Awaited \subseteq Batch /\ Awaits \subseteq Product
    OBVIOUS
  <2>2. Awaited # {}
    BY <1>0, <1>2
  <2>3. Awaits # {}
    BY <2>1, <2>2, ProductAssumption
  <2> HIDE DEF Awaited, Awaits
  <2> QED BY <2>1, <2>2, <2>3, BatchAssumption, ProductAssumption, FS_Subset
<1>4. PICK last \in Awaits : \A p \in Awaits : p <= last
  <2> HIDE DEF Awaits
  <2> QED BY <1>3, OldestNewest
<1> DEFINE Rows == {b \in Awaited : ProductOf[b] = last}
<1>5. Rows \subseteq Nat /\ IsFiniteSet(Rows) /\ Rows # {}
  <2>1. Rows \subseteq Awaited /\ Rows # {}
    BY <1>4
  <2> HIDE DEF Rows, Awaited
  <2> QED BY <1>3, <2>1, FS_Subset
<1>6. PICK b \in Rows : \A c \in Rows : c <= b
  <2> HIDE DEF Rows
  <2> QED BY <1>5, OldestNewest
<1>7. PICK u \in C : batchLock[b] = u
  BY <1>6
<1>8. PICK c \in Awaited : NextBatch(u, c)
  BY <1>2, <1>7
<1>9. pc[u] = "lock" /\ c \in toLock[u] /\ b \in Batch /\ c \in Batch
  BY <1>1, <1>6, <1>8 DEF NextBatch
<1>10. /\ ProductOf[c] \in todo[u]
       /\ ProductOf[b] = ProductOf[c] => b < c
  BY <1>7, <1>9 DEF OrderInv, HeldBeforeNext
<1>11. ProductOf[b] <= ProductOf[c]
  BY <1>7, <1>9, <1>10 DEF OrderInv, HeldBeforeTodo
<1>12. /\ ProductOf[b] = last /\ ProductOf[c] \in Awaits
       /\ ProductOf[b] \in Nat /\ ProductOf[c] \in Nat /\ b \in Nat /\ c \in Nat
  BY <1>6, <1>8, <1>9, BatchAssumption, ProductAssumption
<1>13. ProductOf[c] <= last
  BY <1>4, <1>12
<1>14. ProductOf[c] = last
  BY <1>11, <1>12, <1>13
<1>15. c \in Rows /\ b < c
  BY <1>8, <1>10, <1>12, <1>14
<1>16. c <= b
  BY <1>6, <1>15
<1> QED BY <1>12, <1>15, <1>16

(* Sales, tickets, write-offs and receipts never deadlock, however many    *)
(* run at once and whatever lines they have.                               *)
THEOREM NoDeadlockWithoutReturns == NoReturns => (Spec => []NoDeadlock)
<1>1. TxInv /\ OrderInv => NoDeadlock
  BY OrderedLocks
<1> QED BY <1>1, TxInvariant, OrderInvariant, PTL
-----------------------------------------------------------------------------
(* A row has nothing left for a handler to find, or the handler holds it.  *)
Settled(t, b) == batchLock[b] = t \/ remaining[b] = 0

(* The first line still to do, the one a consumer is at.                   *)
AtLine(t, p) == p \in todo[t] /\ \A q \in todo[t] : p <= q

(* The rows of the line at hand are read, or still in the query's result.  *)
ReadInFull ==
  \A t \in Tx, p \in Product, b \in Batch :
    pc[t] = "lock" /\ AtLine(t, p) /\ ProductOf[b] = p =>
      b \in toLock[t] \/ Settled(t, b)

(* A line that reached a batch has emptied the older ones of its product.  *)
DrewOldestFirst ==
  \A t \in Tx, o, n \in Batch :
    pc[t] \in Writing /\ o < n /\ ProductOf[o] = ProductOf[n] /\ cost[t][n] > 0 =>
      Settled(t, o) /\ cost[t][o] = remaining[o]

ConsumerInv ==
  /\ \A t \in Tx : req[t].kind \in Consumers
  /\ ReadInFull /\ DrewOldestFirst

(* What others do to rows that a handler does not depend on.               *)
LEMMA ConsumerKept ==
  ASSUME ConsumerInv, req' = req,
         \A u \in Tx : pc'[u] \in Writing =>
           /\ pc'[u] = pc[u] /\ todo'[u] = todo[u] /\ toLock'[u] = toLock[u]
           /\ cost'[u] = cost[u]
           /\ \A b \in Batch : Settled(u, b) =>
                /\ batchLock'[b] = u \/ remaining'[b] = 0
                /\ remaining'[b] = remaining[b]
  PROVE  ConsumerInv'
<1>1. \A t \in Tx : req'[t].kind \in Consumers
  BY DEF ConsumerInv
<1>2. ReadInFull'
  <2> SUFFICES ASSUME NEW t \in Tx, NEW p \in Product, NEW b \in Batch,
                      pc'[t] = "lock", AtLine(t, p)', ProductOf[b] = p
               PROVE  b \in toLock'[t] \/ Settled(t, b)'
    BY DEF ReadInFull
  <2>1. pc[t] = "lock" /\ AtLine(t, p)
    BY DEF Writing, AtLine
  <2>2. b \in toLock[t] \/ Settled(t, b)
    BY <2>1 DEF ConsumerInv, ReadInFull
  <2> QED BY <2>1, <2>2 DEF Settled, Writing
<1>3. DrewOldestFirst'
  <2> SUFFICES ASSUME NEW t \in Tx, NEW o \in Batch, NEW n \in Batch,
                      pc'[t] \in Writing, o < n, ProductOf[o] = ProductOf[n],
                      cost'[t][n] > 0
               PROVE  Settled(t, o)' /\ cost'[t][o] = remaining'[o]
    BY DEF DrewOldestFirst
  <2>1. pc[t] \in Writing /\ cost'[t] = cost[t]
    OBVIOUS
  <2>2. Settled(t, o) /\ cost[t][o] = remaining[o]
    BY <2>1 DEF ConsumerInv, DrewOldestFirst
  <2> QED BY <2>1, <2>2 DEF Settled
<1> QED BY <1>1, <1>2, <1>3 DEF ConsumerInv

(* With its rows locked, a consumer has all there is of the product.       *)
LEMMA HoldsAllThereIs ==
  ASSUME TxInv, ConsumerInv, NEW t \in Tx, NEW p \in Product,
         pc[t] = "lock", toLock[t] = {}, AtLine(t, p)
  PROVE  /\ \A b \in Batch : ProductOf[b] = p => Settled(t, b)
         /\ \A b \in Batch : LockedStock(t, p)[b] = OfProduct(remaining, p)[b]
<1>1. ASSUME NEW b \in Batch, ProductOf[b] = p PROVE Settled(t, b)
  BY <1>1 DEF ConsumerInv, ReadInFull
<1>2. \A b \in Batch : batchLock[b] = t => seen[t][b] = remaining[b]
  BY DEF TxInv, LocksCovered
<1> QED BY <1>1, <1>2 DEF Settled, LockedStock, OfProduct

(* The statements of a line: its query, the locks, its draw.               *)
LEMMA ConsumerLines ==
  ASSUME TxInv, TxInv', ConsumerInv, NEW t \in Tx,
         \/ \E p \in Product : QueryStock(t, p) \/ Draw(t, p)
         \/ \E b \in Batch : LockBatch(t, b)
  PROVE  ConsumerInv'
<1>0. /\ pc \in [Tx -> {"idle", "lines", "header", "query", "lock"} \cup Outcomes]
      /\ todo \in [Tx -> SUBSET Product] /\ toLock \in [Tx -> SUBSET Batch]
      /\ batchLock \in [Batch -> Tx \cup {None}] /\ None \notin Tx
      /\ cost \in [Tx -> [Batch -> Nat]] /\ remaining \in [Batch -> Nat]
      /\ Product \subseteq Nat /\ Batch \subseteq Nat
  BY TxAssumption, BatchAssumption, ProductAssumption DEF TxInv, TypeOK
<1>1. CASE \E p \in Product : QueryStock(t, p)
  <2>1. PICK p \in Product :
          /\ pc[t] = "query" /\ AtLine(t, p) /\ IsConsumer(t)
          /\ toLock' = [toLock EXCEPT ![t] =
                          {b \in Batch : ProductOf[b] = p /\ remaining[b] > 0}]
          /\ pc' = [pc EXCEPT ![t] = "lock"]
          /\ UNCHANGED <<remaining, batchLock, req, todo, cost>>
    BY <1>1 DEF QueryStock, NextLine, AtLine, stock, locks
  <2>2. /\ pc'[t] = "lock"
        /\ toLock'[t] = {b \in Batch : ProductOf[b] = p /\ remaining[b] > 0}
        /\ \A u \in Tx : u # t => pc'[u] = pc[u] /\ toLock'[u] = toLock[u]
    BY <1>0, <2>1
  <2>3. ReadInFull'
    <3> SUFFICES ASSUME NEW u \in Tx, NEW q \in Product, NEW b \in Batch,
                        pc'[u] = "lock", AtLine(u, q)', ProductOf[b] = q
                 PROVE  b \in toLock'[u] \/ Settled(u, b)
      BY <2>1 DEF ReadInFull, Settled
    <3>1. AtLine(u, q)
      BY <2>1 DEF AtLine
    <3>2. CASE u = t
      <4>1. p \in todo[t] /\ q \in todo[t] /\ p <= q /\ q <= p
        BY <2>1, <3>1, <3>2 DEF AtLine
      <4>2. p \in Nat /\ q \in Nat
        BY <1>0
      <4>3. p = q
        BY <4>1, <4>2
      <4>4. remaining[b] \in Nat
        BY <1>0
      <4> QED BY <2>2, <3>2, <4>3, <4>4 DEF Settled
    <3>3. CASE u # t
      BY <2>2, <3>1, <3>3 DEF ConsumerInv, ReadInFull
    <3> QED BY <3>2, <3>3
  <2>4. DrewOldestFirst'
    BY <2>1, <2>2 DEF ConsumerInv, DrewOldestFirst, Settled, Writing
  <2> QED BY <2>1, <2>3, <2>4 DEF ConsumerInv
<1>2. CASE \E p \in Product : Draw(t, p)
  <2>1. PICK p \in Product : Draw(t, p)
    BY <1>2
  <2> DEFINE avail == LockedStock(t, p)
             need == req[t].qty[p]
             take == FifoTake(avail, need)
  <2>2. /\ pc[t] = "lock" /\ AtLine(t, p) /\ toLock[t] = {} /\ IsConsumer(t)
        /\ cost' = [cost EXCEPT ![t] = [b \in Batch |-> cost[t][b] + take[b]]]
        /\ todo' = [todo EXCEPT ![t] = todo[t] \ {p}]
        /\ pc' = [pc EXCEPT ![t] = "query"]
        /\ UNCHANGED <<remaining, batchLock, req, toLock>>
    BY <2>1 DEF Draw, NextLine, AtLine, stock, locks
  <2>3. /\ \A b \in Batch : ProductOf[b] = p => Settled(t, b)
        /\ \A b \in Batch : avail[b] = OfProduct(remaining, p)[b]
    BY <2>2, HoldsAllThereIs
  <2>4. \A b \in Batch : avail[b] = IF ProductOf[b] = p THEN remaining[b] ELSE 0
    BY <2>3 DEF OfProduct
  <2>5. avail \in [Batch -> Nat] /\ need \in Nat
    BY DEF TxInv, TypeOK, LockedStock, Request
  <2> HIDE DEF avail, need
  <2>6. take \in [Batch -> Nat] /\ \A b \in Batch : take[b] <= avail[b]
    BY <2>5, BatchAssumption, FifoTakeBounds
  <2>7. \A o, n \in Batch : o < n /\ take[n] > 0 => take[o] = avail[o]
    BY <2>5, BatchAssumption, FifoTakeOldestFirst
  <2> HIDE DEF take
  <2>8. ASSUME NEW b \in Batch
        PROVE  /\ ProductOf[b] = p => cost[t][b] = 0 /\ avail[b] = remaining[b]
               /\ ProductOf[b] # p => take[b] = 0
               /\ cost[t][b] \in Nat /\ take[b] \in Nat
    <3>1. cost[t][b] \in Nat /\ take[b] \in Nat /\ avail[b] \in Nat
      BY <1>0, <2>5, <2>6
    <3>2. p \in todo[t]
      BY <2>2 DEF AtLine
    <3>3. ProductOf[b] = p => ~(cost[t][b] > 0)
      BY <2>2, <3>2 DEF TxInv, DrawnUnderLock, Writing
    <3> QED BY <2>4, <2>6, <3>1, <3>3
  <2>9. /\ \A u \in Tx : u # t => /\ pc'[u] = pc[u] /\ cost'[u] = cost[u]
                                  /\ todo'[u] = todo[u]
        /\ pc'[t] = "query" /\ \A b \in Batch : cost'[t][b] = cost[t][b] + take[b]
    BY <1>0, <2>2
  <2>10. ReadInFull'
    <3> SUFFICES ASSUME NEW u \in Tx, NEW q \in Product, NEW b \in Batch,
                        pc'[u] = "lock", AtLine(u, q)', ProductOf[b] = q
                 PROVE  b \in toLock[u] \/ Settled(u, b)
      BY <2>2 DEF ReadInFull, Settled
    <3>1. u # t
      BY <2>9
    <3>2. AtLine(u, q)
      BY <2>2, <2>9, <3>1 DEF AtLine
    <3> QED BY <2>9, <3>1, <3>2 DEF ConsumerInv, ReadInFull
  <2>11. DrewOldestFirst'
    <3> SUFFICES ASSUME NEW u \in Tx, NEW o \in Batch, NEW n \in Batch,
                        pc'[u] \in Writing, o < n, ProductOf[o] = ProductOf[n],
                        cost'[u][n] > 0
                 PROVE  Settled(u, o) /\ cost'[u][o] = remaining[o]
      BY <2>2 DEF DrewOldestFirst, Settled
    <3>1. CASE u # t
      BY <2>9, <3>1 DEF ConsumerInv, DrewOldestFirst
    <3>2. CASE u = t /\ ProductOf[n] = p
      <4>1. take[n] > 0
        BY <2>8, <2>9, <3>2
      <4>2. take[o] = remaining[o] /\ cost[t][o] = 0
        BY <2>7, <2>8, <3>2, <4>1
      <4>3. remaining[o] \in Nat
        BY <1>0
      <4> QED BY <2>3, <2>9, <3>2, <4>2, <4>3
    <3>3. CASE u = t /\ ProductOf[n] # p
      <4>1. cost[t][n] > 0 /\ take[o] = 0 /\ cost[t][o] \in Nat
        BY <2>8, <2>9, <3>3
      <4>2. Settled(t, o) /\ cost[t][o] = remaining[o]
        BY <2>2, <4>1 DEF ConsumerInv, DrewOldestFirst, Writing
      <4> QED BY <2>9, <3>3, <4>1, <4>2
    <3> QED BY <3>1, <3>2, <3>3
  <2> QED BY <2>2, <2>10, <2>11 DEF ConsumerInv
<1>3. CASE \E b \in Batch : LockBatch(t, b)
  <2>1. PICK b \in Batch :
          /\ b \in toLock[t] /\ batchLock[b] = None
          /\ batchLock' = [batchLock EXCEPT ![b] = t]
          /\ toLock' = [toLock EXCEPT ![t] = toLock[t] \ {b}]
          /\ UNCHANGED <<remaining, req, pc, todo, cost>>
    BY <1>3 DEF LockBatch, NextBatch, RowFree, stock
  <2>2. /\ batchLock'[b] = t /\ \A c \in Batch : c # b => batchLock'[c] = batchLock[c]
        /\ toLock'[t] = toLock[t] \ {b}
        /\ \A u \in Tx : u # t => toLock'[u] = toLock[u]
    BY <1>0, <2>1
  <2>3. \A u \in Tx, c \in Batch : Settled(u, c) => Settled(u, c)'
    BY <1>0, <2>1, <2>2 DEF Settled
  <2>4. ReadInFull'
    <3> SUFFICES ASSUME NEW u \in Tx, NEW q \in Product, NEW c \in Batch,
                        pc[u] = "lock", AtLine(u, q)', ProductOf[c] = q
                 PROVE  c \in toLock'[u] \/ Settled(u, c)'
      BY <2>1 DEF ReadInFull
    <3>1. AtLine(u, q)
      BY <2>1 DEF AtLine
    <3>2. c \in toLock[u] \/ Settled(u, c)
      BY <3>1 DEF ConsumerInv, ReadInFull
    <3>3. CASE u = t /\ c = b
      BY <2>2, <3>3 DEF Settled
    <3>4. CASE ~(u = t /\ c = b)
      BY <2>2, <2>3, <3>2, <3>4
    <3> QED BY <3>3, <3>4
  <2>5. DrewOldestFirst'
    BY <2>1, <2>3 DEF ConsumerInv, DrewOldestFirst
  <2> QED BY <2>1, <2>4, <2>5 DEF ConsumerInv
<1> QED BY <1>1, <1>2, <1>3

(* No step of a workload of consumers breaks the invariant: only the       *)
(* holder of a row changes it, and only downwards.                         *)
LEMMA ConsumerNext ==
  ASSUME TxInv, TxInv', ConsumerInv, [Next]_vars PROVE ConsumerInv'
<1>0. /\ pc \in [Tx -> {"idle", "lines", "header", "query", "lock"} \cup Outcomes]
      /\ todo \in [Tx -> SUBSET Product] /\ toLock \in [Tx -> SUBSET Batch]
      /\ cost \in [Tx -> [Batch -> Nat]] /\ None \notin Tx
      /\ \A t \in Tx : IsConsumer(t) /\ req[t].kind \notin {"return", "receive"}
  BY TxAssumption DEF TxInv, TypeOK, ConsumerInv, IsConsumer, Consumers
<1>1. CASE UNCHANGED vars
  BY <1>1, ConsumerKept DEF vars, Settled
<1>2. ASSUME NEW t \in Tx, NEW o \in Outcomes \ {"created"}, Active(t), Abort(t, o)
      PROVE  ConsumerInv'
  <2>1. /\ pc' = [pc EXCEPT ![t] = o]
        /\ cost' = [cost EXCEPT ![t] = Nothing]
        /\ batchLock' = [b \in Batch |->
                           IF batchLock[b] = t THEN None ELSE batchLock[b]]
        /\ todo' = [todo EXCEPT ![t] = {}] /\ toLock' = [toLock EXCEPT ![t] = {}]
        /\ UNCHANGED <<remaining, req>>
    BY <1>2 DEF Abort, ReleaseRows, ClearSession
  <2>2. \A u \in Tx :
          IF u = t THEN pc'[u] \notin Writing
          ELSE /\ pc'[u] = pc[u] /\ todo'[u] = todo[u] /\ toLock'[u] = toLock[u]
               /\ cost'[u] = cost[u]
    BY <1>0, <2>1 DEF Writing, Outcomes
  <2> QED BY <2>1, <2>2, ConsumerKept DEF Settled
<1>3. ASSUME NEW t \in Tx,
             Replay(t) \/ NoSuchSale(t) \/ Begin(t) \/ Handle(t) \/ Crash(t)
      PROVE  ConsumerInv'
  <2> USE DEF stock, locks
  <2>1. CASE Replay(t) \/ Begin(t)
    <3>1. /\ UNCHANGED <<remaining, req, batchLock, todo, toLock, cost>>
          /\ pc[t] = "idle"
          /\ \E o \in {"header", "lines"} \cup Outcomes :
               pc' = [pc EXCEPT ![t] = o]
      BY <2>1 DEF Replay, Begin, AnswerAtOnce, Outcomes
    <3>2. \A u \in Tx : pc'[u] \in Writing => pc'[u] = pc[u]
      BY <1>0, <3>1 DEF Writing, Outcomes
    <3> QED BY <3>1, <3>2, ConsumerKept DEF Settled
  <2>2. CASE \/ ForeignLine(t) \/ DuplicateHeader(t) \/ DeadlockVictim(t)
             \/ Crash(t)
             \/ \E p \in Product : OverReturn(t, p) \/ Shortage(t, p)
    BY <1>2, <2>2, GivenUp
  <2>3. CASE LinesLocked(t) \/ \E p \in Product : LockSaleLine(t, p)
    <3>1. /\ UNCHANGED <<remaining, req, batchLock, todo, toLock, cost>>
          /\ pc' = pc \/ pc' = [pc EXCEPT ![t] = "header"]
      BY <2>3 DEF LinesLocked, LockSaleLine
    <3>2. \A u \in Tx : pc'[u] \in Writing => pc'[u] = pc[u]
      BY <1>0, <3>1 DEF Writing
    <3> QED BY <3>1, <3>2, ConsumerKept DEF Settled
  <2>4. CASE InsertHeader(t)
    <3>1. /\ pc[t] = "header" /\ pc' = [pc EXCEPT ![t] = "query"]
          /\ todo' = [todo EXCEPT ![t] = Lines(req[t])]
          /\ UNCHANGED <<remaining, batchLock, req, toLock, cost>>
      BY <2>4 DEF InsertHeader
    <3>2. /\ pc'[t] = "query" /\ \A b \in Batch : ~(cost[t][b] > 0)
          /\ \A u \in Tx : u # t => pc'[u] = pc[u] /\ todo'[u] = todo[u]
      BY <1>0, <3>1 DEF TxInv, NothingElse, Nothing, Writing
    <3>3. ReadInFull'
      BY <3>1, <3>2 DEF ConsumerInv, ReadInFull, AtLine, Settled
    <3>4. DrewOldestFirst'
      BY <3>1, <3>2 DEF ConsumerInv, DrewOldestFirst, Settled, Writing
    <3> QED BY <3>1, <3>3, <3>4 DEF ConsumerInv
  <2>5. CASE Commit(t)
    <3>1. /\ pc[t] = "query" /\ pc' = [pc EXCEPT ![t] = "created"]
          /\ remaining' = [b \in Batch |->
                             IF cost[t][b] > 0 THEN NewQty(t, b) ELSE remaining[b]]
          /\ batchLock' = [b \in Batch |->
                             IF batchLock[b] = t THEN None ELSE batchLock[b]]
          /\ todo' = [todo EXCEPT ![t] = {}] /\ toLock' = [toLock EXCEPT ![t] = {}]
          /\ UNCHANGED <<req, cost>>
      BY <2>5 DEF Commit, ReleaseRows, ClearSession
    <3>2. \A u \in Tx :
            IF u = t THEN pc'[u] \notin Writing
            ELSE pc'[u] = pc[u] /\ todo'[u] = todo[u] /\ toLock'[u] = toLock[u]
      BY <1>0, <3>1 DEF Writing
    <3>3. ASSUME NEW u \in Tx, u # t, NEW b \in Batch, Settled(u, b)
          PROVE  /\ batchLock'[b] = u \/ remaining'[b] = 0
                 /\ remaining'[b] = remaining[b]
      <4>1. cost[t][b] > 0 =>
              /\ batchLock[b] = t /\ cost[t][b] <= seen[t][b]
              /\ seen[t][b] = remaining[b]
        BY <1>0, <3>1 DEF TxInv, DrawnUnderLock, LocksCovered, Writing
      <4>2. cost[t][b] \in Nat /\ remaining[b] \in Nat
        BY Types, ProductAssumption DEF TxInv, TypeOK
      <4>3. ~(cost[t][b] > 0)
        BY <3>3, <4>1, <4>2 DEF Settled
      <4>4. remaining'[b] = remaining[b]
        BY <3>1, <4>3
      <4> QED BY <3>1, <3>3, <4>4 DEF Settled
    <3> QED BY <3>1, <3>2, <3>3, ConsumerKept
  <2>6. CASE \/ \E p \in Product : QueryStock(t, p) \/ Draw(t, p)
             \/ \E b \in Batch : LockBatch(t, b)
    BY <2>6, ConsumerLines
  <2>7. /\ ~NoSuchSale(t) /\ ~Receive(t) /\ ~ReceiveReplayed(t)
        /\ \A p \in Product : ~PlanReturn(t, p) /\ ~Restore(t, p)
    BY <1>0 DEF NoSuchSale, Receive, ReceiveReplayed, PlanReturn, Restore
  <2> QED BY <1>3, <2>1, <2>2, <2>3, <2>4, <2>5, <2>6, <2>7 DEF Handle
<1> QED BY <1>1, <1>3 DEF Next

LEMMA ConsumerInvariant == ConsumersOnly /\ Spec => []ConsumerInv
<1>1. ConsumersOnly /\ Init => ConsumerInv
  BY TxAssumption DEF ConsumersOnly, Init, ConsumerInv, ReadInFull,
                      DrewOldestFirst, Writing
<1>2. TxInv /\ TxInv' /\ ConsumerInv /\ [Next]_vars => ConsumerInv'
  BY ConsumerNext
<1> QED BY <1>1, <1>2, TxInvariant, PTL DEF Spec

(* However sales, tickets and write-offs interleave, what one commits is   *)
(* the FIFO draw on the stock as it stands at its commit: a batch is cut   *)
(* into only by whoever empties all the older ones of the product.         *)
THEOREM ConsumersDrawFifo == ConsumersOnly => (Spec => FifoAtCommit)
<1>1. ASSUME TxInv, ConsumerInv, NEW t \in Tx, Commit(t),
             NEW o \in Batch, NEW n \in Batch, o < n,
             ProductOf[o] = ProductOf[n], cost[t][n] > 0
      PROVE  remaining[o] = cost[t][o]
  BY <1>1 DEF Commit, Writing, ConsumerInv, DrewOldestFirst
<1> DEFINE Fifo == \A t \in Tx : Commit(t) /\ IsConsumer(t) =>
                     \A o, n \in Batch :
                       o < n /\ ProductOf[o] = ProductOf[n] /\ cost[t][n] > 0 =>
                         remaining[o] = cost[t][o]
<1>2. TxInv /\ ConsumerInv => Fifo
  BY <1>1
<1>3. FifoAtCommit <=> [][Fifo]_vars
  BY DEF FifoAtCommit
<1> HIDE DEF Fifo
<1> QED BY <1>2, <1>3, TxInvariant, ConsumerInvariant, PTL

(* A consumer that is refused for want of stock was right.                 *)
LEMMA RefusedWasShort ==
  ASSUME TxInv, ConsumerInv, NEW t \in Tx, NEW p \in Product, Shortage(t, p)
  PROVE  Active(t) /\ ShortOf(t)
<1>1. /\ pc[t] = "lock" /\ toLock[t] = {} /\ IsConsumer(t) /\ NextLine(t, p)
      /\ ~(Total(LockedStock(t, p), Batch) >= req[t].qty[p])
  BY DEF Shortage, Covers
<1>2. \A b \in Batch : LockedStock(t, p)[b] = OfProduct(remaining, p)[b]
  BY <1>1, HoldsAllThereIs DEF NextLine, AtLine
<1>3. Total(LockedStock(t, p), Batch) = Total(OfProduct(remaining, p), Batch)
  BY <1>2, TotalSame
<1>4. Total(OfProduct(remaining, p), Batch) \in Nat /\ req[t].qty[p] \in Nat
  <2>1. OfProduct(remaining, p) \in [Batch -> Nat]
    BY OfProductType DEF TxInv, TypeOK
  <2>2. \A b \in Batch : OfProduct(remaining, p)[b] \in Nat
    BY <2>1
  <2>3. Total(OfProduct(remaining, p), Batch) \in Nat
    BY <2>2, BatchAssumption, TotalType
  <2>4. req[t].qty[p] \in Nat
    BY DEF TxInv, TypeOK, Request
  <2> QED BY <2>3, <2>4
<1>5. Total(OfProduct(remaining, p), Batch) < req[t].qty[p]
  BY <1>1, <1>3, <1>4
<1> QED BY <1>1, <1>5 DEF ShortOf, Active, Outcomes

(* Only consume_quantity_fifo answers that stock is insufficient.          *)
LEMMA OnlyShortageRefuses ==
  ASSUME TxInv, Next, NEW t \in Tx, pc'[t] = "shortage", pc[t] # "shortage"
  PROVE  \E p \in Product : Shortage(t, p)
<1>0. pc \in [Tx -> {"idle", "lines", "header", "query", "lock"} \cup Outcomes]
  BY DEF TxInv, TypeOK
<1>1. PICK u \in Tx :
        Replay(u) \/ NoSuchSale(u) \/ Begin(u) \/ Handle(u) \/ Crash(u)
  BY DEF Next
<1>2. CASE \E p \in Product : Shortage(u, p)
  <2>1. pc' = [pc EXCEPT ![u] = "shortage"]
    BY <1>2 DEF Shortage, Abort
  <2>2. u = t
    BY <1>0, <2>1
  <2> QED BY <1>2, <2>2
<1>3. CASE \/ Replay(u) \/ NoSuchSale(u) \/ Begin(u) \/ ReceiveReplayed(u)
  BY <1>0, <1>3 DEF Replay, NoSuchSale, Begin, ReceiveReplayed, AnswerAtOnce
<1>4. CASE \/ ForeignLine(u) \/ DuplicateHeader(u) \/ DeadlockVictim(u)
           \/ Crash(u) \/ \E p \in Product : OverReturn(u, p)
  BY <1>0, <1>4 DEF ForeignLine, DuplicateHeader, DeadlockVictim, Crash,
                    OverReturn, Abort
<1>5. CASE \/ LinesLocked(u) \/ InsertHeader(u) \/ Receive(u) \/ Commit(u)
           \/ \E p \in Product : \/ LockSaleLine(u, p) \/ QueryStock(u, p)
                                 \/ PlanReturn(u, p) \/ Draw(u, p)
                                 \/ Restore(u, p)
           \/ \E b \in Batch : LockBatch(u, b)
  <2>1. pc' = pc \/ \E q \in {"header", "query", "created", "lock"} :
                      pc' = [pc EXCEPT ![u] = q]
    BY <1>5 DEF LinesLocked, InsertHeader, Receive, Commit, LockSaleLine,
                QueryStock, PlanReturn, Draw, Restore, LockBatch
  <2> QED BY <1>0, <2>1
<1> QED BY <1>1, <1>2, <1>3, <1>4, <1>5 DEF Handle

(* Among sales, tickets and write-offs a 409 for insufficient stock is     *)
(* never an accident of the interleaving: at the moment of the refusal the *)
(* committed stock did not cover the line.                                 *)
THEOREM ConsumersRefusedRightly ==
  ConsumersOnly => (HistorySpec => []ShortageIsReal)
<1>1. HistoryInit => Init /\ ShortageIsReal
  BY DEF HistoryInit, Init, ShortageIsReal
<1>2. [HistoryNext]_<<vars, wasShort>> => [Next]_vars
  BY DEF HistoryNext
<1>3. ASSUME TxInv, ConsumerInv, ShortageIsReal,
             [HistoryNext]_<<vars, wasShort>>
      PROVE  ShortageIsReal'
  <2> SUFFICES ASSUME NEW t \in Tx, pc'[t] = "shortage" PROVE wasShort'[t]
    BY DEF ShortageIsReal
  <2>1. CASE UNCHANGED <<vars, wasShort>>
    BY <1>3, <2>1 DEF vars, ShortageIsReal
  <2>2. CASE HistoryNext
    <3>1. /\ Next
          /\ wasShort'[t] = (wasShort[t] \/ (Active(t) /\ ShortOf(t)))
      BY <2>2 DEF HistoryNext
    <3>2. CASE pc[t] = "shortage"
      BY <1>3, <3>1, <3>2, Zenon DEF ShortageIsReal
    <3>3. CASE pc[t] # "shortage"
      <4>1. Active(t) /\ ShortOf(t)
        BY <1>3, <3>1, <3>3, OnlyShortageRefuses, RefusedWasShort
      <4> QED BY <3>1, <4>1
    <3> QED BY <3>2, <3>3
  <2> QED BY <1>3, <2>1, <2>2
<1>4. ConsumersOnly /\ HistorySpec => Spec
  BY <1>1, <1>2, PTL DEF HistorySpec, Spec
<1> QED BY <1>1, <1>3, <1>4, TxInvariant, ConsumerInvariant, PTL
        DEF HistorySpec
===============================================================================
