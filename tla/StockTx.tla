------------------------------- MODULE StockTx -------------------------------
(***************************************************************************)
(* Concurrent requests on quantity-tracked stock, one database transaction *)
(* each, at PostgreSQL's default READ COMMITTED: create_sale (PART lines), *)
(* record_service_ticket, create_stock_adjustment with a negative delta    *)
(* and receive_quantity, and create_sale_return over PART lines.           *)
(*                                                                         *)
(* A step is one statement that another transaction can observe or be      *)
(* blocked by: a query takes its own snapshot of committed rows, FOR       *)
(* UPDATE locks its rows one by one in ORDER BY order and re-reads each    *)
(* when it gets it, a UNIQUE key is claimed by the INSERT and makes later  *)
(* inserters wait, writes become visible at COMMIT and locks are released  *)
(* at COMMIT or ROLLBACK.                                                  *)
(***************************************************************************)
EXTENDS Fifo

CONSTANTS
  Batch,       \* part_batch rows that exist or may be received, as their
               \* rank in (received_at, id) order
  Product,     \* products, as their rank in id order
  ProductOf,   \* product_id of a batch
  Opening,     \* received_qty of a batch at the start, 0: not received yet
  Tx,          \* request handlers; a handler's id also names the sale,
               \* ticket, adjustment, batch or return it creates
  Key,         \* idempotency keys
  Workload,    \* the ways the handlers may be given their requests
  Crashable,   \* handlers whose process may die
  None

Consumers == {"sale", "ticket", "adjust"}
Kinds == Consumers \cup {"return", "receive"}

Request == [kind : Kinds, key : Key, sale : Tx \cup {None},
            qty : [Product -> Nat]]

Outcomes == {"created", "replayed", "conflict", "shortage", "overReturn",
             "notFound", "deadlock", "lost"}

ASSUME BatchAssumption == Batch \subseteq Nat /\ IsFiniteSet(Batch)
ASSUME ProductAssumption ==
  /\ Product \subseteq Nat /\ IsFiniteSet(Product)
  /\ ProductOf \in [Batch -> Product]
ASSUME OpeningAssumption == Opening \in [Batch -> Nat]
ASSUME TxAssumption ==
  /\ IsFiniteSet(Tx) /\ None \notin Tx
  /\ Workload \subseteq [Tx -> Request]
  /\ \A load \in Workload, t \in Tx :
       load[t].kind = "return" => load[t].sale \in Tx

VARIABLES
  remaining,   \* part_batch.remaining_qty, committed
  received,    \* part_batch.received_qty, committed
  lineId,      \* order of a sale's lines by their random sale_line.id
  index,       \* UNIQUE(idempotency_key) of each kind's table: the handler
               \* whose row has the key, committed or not
  batchLock,   \* transaction that holds a part_batch row FOR UPDATE
  lineLock,    \* transaction that holds a sale_line row FOR UPDATE
  req,         \* the request
  pc,          \* next statement, or the outcome once answered
  todo,        \* products of the lines still to process
  toLock,      \* rows of the current FOR UPDATE result still to lock
  seen,        \* remaining_qty of the batches in the session's identity map
  cost         \* quantity of the cost_line of a batch; committed once the
               \* handler's outcome is "created"

stock == <<remaining, received>>
locks == <<index, batchLock, lineLock>>
vars == <<remaining, received, lineId, index, batchLock, lineLock,
          req, pc, todo, toLock, seen, cost>>
-----------------------------------------------------------------------------
Nothing == [b \in Batch |-> 0]

Answered(t) == pc[t] \in Outcomes
Active(t) == pc[t] \notin Outcomes \cup {"idle"}
Created(t) == pc[t] = "created"

IsConsumer(t) == req[t].kind \in Consumers
IsSale(s) == Created(s) /\ req[s].kind = "sale"
IsReturnOf(t, s) == Created(t) /\ req[t].kind = "return" /\ req[t].sale = s

Header(r) == <<r.kind, r.key>>
Lines(r) == {p \in Product : r.qty[p] > 0}

(* The lines a return cites that are lines of its sale.                    *)
CitedLines(t) == Lines(req[t]) \cap Lines(req[req[t].sale])

(* A quantity per batch, restricted to the batches of one product.         *)
OfProduct(f, p) == [b \in Batch |-> IF ProductOf[b] = p THEN f[b] ELSE 0]

(* Mutant: the sum misses the returns already made.                        *)
ReturnedSoFar_None(s, p) == 0

(* sum(SaleReturnLine.quantity) over the committed returns of a line.      *)
ReturnedSoFar(s, p) ==
  Total([t \in Tx |-> IF IsReturnOf(t, s) THEN req[t].qty[p] ELSE 0], Tx)

(***************************************************************************)
(* Who a transaction waits for: the holder of the key, sale line or batch  *)
(* its next statement needs.                                               *)
(***************************************************************************)
NextSaleLine(t, p) ==
  /\ p \in CitedLines(t) /\ lineLock[req[t].sale][p] # t
  /\ \A q \in CitedLines(t) : lineLock[req[t].sale][q] # t =>
       lineId[req[t].sale][p] <= lineId[req[t].sale][q]

(* Mutant: no ORDER BY; each kind of handler meets the rows its own way.   *)
NextBatch_Unordered(t, b) ==
  /\ b \in toLock[t]
  /\ \A o \in toLock[t] : IF req[t].kind = "sale" THEN b <= o ELSE b >= o

(* ORDER BY received_at, id.                                               *)
NextBatch(t, b) == b \in toLock[t] /\ \A o \in toLock[t] : b <= o

WaitsFor(t, u) ==
  /\ u # t
  /\ \/ /\ pc[t] = "header" /\ index[Header(req[t])] = u /\ Active(u)
     \/ /\ pc[t] = "lines"
        /\ \E p \in Product : NextSaleLine(t, p) /\ lineLock[req[t].sale][p] = u
     \/ /\ pc[t] = "lock"
        /\ \E b \in Batch : NextBatch(t, b) /\ batchLock[b] = u

(* A transaction waits for at most one other, so a set of transactions     *)
(* that is exactly what its members wait for is a union of wait cycles.    *)
WaitCycle(C) ==
  /\ C # {}
  /\ \A t \in C : \E u \in C : WaitsFor(t, u)
  /\ \A u \in C : \E t \in C : WaitsFor(t, u)
-----------------------------------------------------------------------------
Init ==
  /\ remaining = Opening
  /\ received = Opening
  /\ lineId = [s \in Tx |-> [p \in Product |-> 0]]
  /\ index = [h \in Kinds \X Key |-> None]
  /\ batchLock = [b \in Batch |-> None]
  /\ lineLock = [s \in Tx |-> [p \in Product |-> None]]
  /\ req \in Workload
  /\ pc = [t \in Tx |-> "idle"]
  /\ todo = [t \in Tx |-> {}]
  /\ toLock = [t \in Tx |-> {}]
  /\ seen = [t \in Tx |-> Nothing]
  /\ cost = [t \in Tx |-> Nothing]

(* Mutant: the rows a handler locked and left alone stay locked.           *)
ReleaseRows_Touched(t) ==
  /\ batchLock' = [b \in Batch |->
                     IF batchLock[b] = t /\ cost[t][b] > 0 THEN None
                                                          ELSE batchLock[b]]
  /\ lineLock' = [s \in Tx |-> [p \in Product |->
                     IF lineLock[s][p] = t THEN None ELSE lineLock[s][p]]]

(* ROLLBACK or COMMIT gives every lock back.                               *)
ReleaseRows(t) ==
  /\ batchLock' = [b \in Batch |->
                     IF batchLock[b] = t THEN None ELSE batchLock[b]]
  /\ lineLock' = [s \in Tx |-> [p \in Product |->
                     IF lineLock[s][p] = t THEN None ELSE lineLock[s][p]]]

ClearSession(t) ==
  /\ todo' = [todo EXCEPT ![t] = {}]
  /\ toLock' = [toLock EXCEPT ![t] = {}]
  /\ seen' = [seen EXCEPT ![t] = Nothing]

(* An exception leaves the handler and its session is rolled back.         *)
Abort(t, outcome) ==
  /\ pc' = [pc EXCEPT ![t] = outcome]
  /\ index' = [h \in Kinds \X Key |-> IF index[h] = t THEN None ELSE index[h]]
  /\ cost' = [cost EXCEPT ![t] = Nothing]
  /\ ReleaseRows(t)
  /\ ClearSession(t)
  /\ UNCHANGED <<remaining, received, lineId, req>>

(* The handler ends at a read: nothing was written, locked or claimed.     *)
AnswerAtOnce(t, outcome) ==
  /\ pc' = [pc EXCEPT ![t] = outcome]
  /\ UNCHANGED <<stock, lineId, locks, req, todo, toLock, seen, cost>>

KeyCommitted(h) == index[h] # None /\ Created(index[h])

(* The replay lookup by idempotency key.  A return's key must have been    *)
(* used for the same sale.                                                 *)
Replay(t) ==
  /\ pc[t] = "idle"
  /\ KeyCommitted(Header(req[t]))
  /\ AnswerAtOnce(t, IF req[index[Header(req[t])]].sale = req[t].sale
                     THEN "replayed" ELSE "conflict")

(* create_sale_return for a sale that is not there.                        *)
NoSuchSale(t) ==
  /\ pc[t] = "idle"
  /\ ~KeyCommitted(Header(req[t]))
  /\ req[t].kind = "return" /\ ~IsSale(req[t].sale)
  /\ AnswerAtOnce(t, "notFound")

Begin(t) ==
  /\ pc[t] = "idle"
  /\ ~KeyCommitted(Header(req[t]))
  /\ req[t].kind = "return" => IsSale(req[t].sale)
  /\ pc' = [pc EXCEPT ![t] =
              IF req[t].kind = "return" THEN "lines" ELSE "header"]
  /\ UNCHANGED <<stock, lineId, locks, req, todo, toLock, seen, cost>>
-----------------------------------------------------------------------------
(* A return locks the cited sale lines in id order; a line that is not     *)
(* part of the sale is a 404 once the query has returned.  The query does  *)
(* not look at the sale, so it would lock a line of another one as well;   *)
(* here a line cited in vain is one its sale does not have.                *)
LockSaleLine(t, p) ==
  /\ pc[t] = "lines"
  /\ NextSaleLine(t, p)
  /\ lineLock[req[t].sale][p] = None
  /\ lineLock' = [lineLock EXCEPT ![req[t].sale][p] = t]
  /\ UNCHANGED <<stock, lineId, index, batchLock,
                 req, pc, todo, toLock, seen, cost>>

CitedLocked(t) == \A p \in CitedLines(t) : lineLock[req[t].sale][p] = t

ForeignLine(t) ==
  /\ pc[t] = "lines"
  /\ CitedLocked(t) /\ CitedLines(t) # Lines(req[t])
  /\ Abort(t, "notFound")

LinesLocked(t) ==
  /\ pc[t] = "lines"
  /\ CitedLocked(t) /\ CitedLines(t) = Lines(req[t])
  /\ pc' = [pc EXCEPT ![t] = "header"]
  /\ UNCHANGED <<stock, lineId, locks, req, todo, toLock, seen, cost>>

(* Mutant: no UNIQUE constraint, the lookup alone guards against a retry.  *)
KeyFree_Unconstrained(h) == TRUE

KeyFree(h) == index[h] = None

(* session.add(header); session.flush(): the INSERT claims the key.        *)
InsertHeader(t) ==
  /\ pc[t] = "header" /\ req[t].kind # "receive"
  /\ KeyFree(Header(req[t]))
  /\ index' = [index EXCEPT ![Header(req[t])] = t]
  /\ pc' = [pc EXCEPT ![t] = "query"]
  /\ todo' = [todo EXCEPT ![t] = Lines(req[t])]
  /\ UNCHANGED <<stock, lineId, batchLock, lineLock, req, toLock, seen, cost>>

(* The flush finds the key committed since the lookup.  It is outside the  *)
(* handler's try: the IntegrityError reaches the application's handler.    *)
DuplicateHeader(t) ==
  /\ pc[t] = "header" /\ req[t].kind # "receive"
  /\ KeyCommitted(Header(req[t]))
  /\ Abort(t, "conflict")

(* receive_quantity: batch and RECEIVED movement become visible together;  *)
(* received_at may be backdated, so the new batch takes any free rank.     *)
Receive(t) ==
  /\ pc[t] = "header" /\ req[t].kind = "receive"
  /\ KeyFree(Header(req[t]))
  /\ \E p \in Lines(req[t]), b \in Batch :
       /\ received[b] = 0 /\ ProductOf[b] = p
       /\ remaining' = [remaining EXCEPT ![b] = req[t].qty[p]]
       /\ received' = [received EXCEPT ![b] = req[t].qty[p]]
  /\ index' = [index EXCEPT ![Header(req[t])] = t]
  /\ pc' = [pc EXCEPT ![t] = "created"]
  /\ UNCHANGED <<lineId, batchLock, lineLock, req, todo, toLock, seen, cost>>

(* The movement's key was committed by a concurrent replay: its INSERT is  *)
(* part of the commit, the IntegrityError is caught and the winner is      *)
(* returned.                                                               *)
ReceiveReplayed(t) ==
  /\ pc[t] = "header" /\ req[t].kind = "receive"
  /\ KeyCommitted(Header(req[t]))
  /\ AnswerAtOnce(t, "replayed")
-----------------------------------------------------------------------------
(* Lines are taken in product order by a consumer, in sale_line.id order   *)
(* by a return.                                                            *)
NextLine(t, p) ==
  /\ p \in todo[t]
  /\ \A q \in todo[t] :
       IF IsConsumer(t) THEN p <= q
       ELSE lineId[req[t].sale][p] <= lineId[req[t].sale][q]

(* consume_quantity_fifo: the query's snapshot fixes the candidate rows.   *)
QueryStock(t, p) ==
  /\ pc[t] = "query" /\ IsConsumer(t) /\ NextLine(t, p)
  /\ toLock' = [toLock EXCEPT ![t] =
                  {b \in Batch : ProductOf[b] = p /\ remaining[b] > 0}]
  /\ pc' = [pc EXCEPT ![t] = "lock"]
  /\ UNCHANGED <<stock, lineId, locks, req, todo, seen, cost>>

OverReturn(t, p) ==
  /\ pc[t] = "query" /\ ~IsConsumer(t) /\ NextLine(t, p)
  /\ ReturnedSoFar(req[t].sale, p) + req[t].qty[p] > req[req[t].sale].qty[p]
  /\ Abort(t, "overReturn")

(* _return_part_line: the over-return check, the plan, and the unlocked    *)
(* read of the batches by the cost-line join.                              *)
PlanReturn(t, p) ==
  /\ pc[t] = "query" /\ ~IsConsumer(t) /\ NextLine(t, p)
  /\ ReturnedSoFar(req[t].sale, p) + req[t].qty[p] <= req[req[t].sale].qty[p]
  /\ LET sold == OfProduct(cost[req[t].sale], p)
         plan == ReturnPlan(sold, ReturnedSoFar(req[t].sale, p), req[t].qty[p])
     IN  /\ cost' = [cost EXCEPT ![t] = [b \in Batch |-> @[b] + plan[b]]]
         /\ toLock' = [toLock EXCEPT ![t] = {b \in Batch : plan[b] > 0}]
         /\ seen' = [seen EXCEPT ![t] =
                       [b \in Batch |-> IF sold[b] > 0 THEN remaining[b]
                                                       ELSE @[b]]]
  /\ pc' = [pc EXCEPT ![t] = "lock"]
  /\ UNCHANGED <<stock, lineId, locks, req, todo>>

(* Mutant: the return keeps the row its join had loaded (no                *)
(* populate_existing).                                                     *)
ReadUnderLock_Stale(t, b) == IF IsConsumer(t) THEN remaining[b] ELSE seen[t][b]

ReadUnderLock(t, b) == remaining[b]

(* Mutant: the query has no FOR UPDATE.                                    *)
RowFree_NoLock(b) == TRUE

RowFree(b) == batchLock[b] = None

(* FOR UPDATE: the next row, re-read once it is locked.  The row a         *)
(* consumer finds drained stays locked and counts for nothing.             *)
LockBatch(t, b) ==
  /\ pc[t] = "lock" /\ NextBatch(t, b)
  /\ RowFree(b)
  /\ batchLock' = [batchLock EXCEPT ![b] = t]
  /\ toLock' = [toLock EXCEPT ![t] = @ \ {b}]
  /\ seen' = [seen EXCEPT ![t][b] = ReadUnderLock(t, b)]
  /\ UNCHANGED <<stock, lineId, index, lineLock, req, pc, todo, cost>>

(* The rows of the result, as the session read them under lock.            *)
LockedStock(t, p) ==
  [b \in Batch |-> IF ProductOf[b] = p /\ batchLock[b] = t THEN seen[t][b]
                                                           ELSE 0]

(* Mutant: the check is one short.                                         *)
Covers_OffByOne(t, p) == Total(LockedStock(t, p), Batch) + 1 >= req[t].qty[p]

(* Mutant: stock that exactly covers the request is refused.               *)
Covers_Strict(t, p) == Total(LockedStock(t, p), Batch) > req[t].qty[p]

Covers(t, p) == Total(LockedStock(t, p), Batch) >= req[t].qty[p]

Shortage(t, p) ==
  /\ pc[t] = "lock" /\ toLock[t] = {} /\ IsConsumer(t) /\ NextLine(t, p)
  /\ ~Covers(t, p)
  /\ Abort(t, "shortage")

Draw(t, p) ==
  /\ pc[t] = "lock" /\ toLock[t] = {} /\ IsConsumer(t) /\ NextLine(t, p)
  /\ Covers(t, p)
  /\ LET take == FifoTake(LockedStock(t, p), req[t].qty[p])
     IN  cost' = [cost EXCEPT ![t] = [b \in Batch |-> @[b] + take[b]]]
  /\ todo' = [todo EXCEPT ![t] = @ \ {p}]
  /\ pc' = [pc EXCEPT ![t] = "query"]
  /\ UNCHANGED <<stock, lineId, locks, req, toLock, seen>>

(* batch.remaining_qty += qty on the rows just locked.                     *)
Restore(t, p) ==
  /\ pc[t] = "lock" /\ toLock[t] = {} /\ ~IsConsumer(t) /\ NextLine(t, p)
  /\ todo' = [todo EXCEPT ![t] = @ \ {p}]
  /\ pc' = [pc EXCEPT ![t] = "query"]
  /\ UNCHANGED <<stock, lineId, locks, req, toLock, seen, cost>>

(* Mutant: a return takes its pieces out once more.                        *)
NewQty_Subtracts(t, b) == seen[t][b] - cost[t][b]

(* The ORM writes the value it computed from the row it read.              *)
NewQty(t, b) ==
  IF IsConsumer(t) THEN seen[t][b] - cost[t][b] ELSE seen[t][b] + cost[t][b]

LineOrders ==
  {f \in [Product -> 1 .. Cardinality(Product)] :
     \A p, q \in Product : f[p] = f[q] => p = q}

Commit(t) ==
  /\ pc[t] = "query" /\ todo[t] = {}
  /\ remaining' = [b \in Batch |->
                     IF cost[t][b] > 0 THEN NewQty(t, b) ELSE remaining[b]]
  /\ IF req[t].kind = "sale"
     THEN \E f \in LineOrders : lineId' = [lineId EXCEPT ![t] = f]
     ELSE lineId' = lineId
  /\ pc' = [pc EXCEPT ![t] = "created"]
  /\ ReleaseRows(t)
  /\ ClearSession(t)
  /\ UNCHANGED <<received, index, req, cost>>
-----------------------------------------------------------------------------
(* deadlock_timeout expires in a waiter of a cycle and it is aborted.      *)
DeadlockVictim(t) ==
  /\ \E C \in SUBSET Tx : t \in C /\ WaitCycle(C)
  /\ Abort(t, "deadlock")

(* The backend process dies and the server rolls its session back.         *)
Crash(t) ==
  /\ t \in Crashable /\ Active(t)
  /\ Abort(t, "lost")

Handle(t) ==
  \/ ForeignLine(t) \/ LinesLocked(t) \/ InsertHeader(t) \/ DuplicateHeader(t)
  \/ Receive(t) \/ ReceiveReplayed(t) \/ Commit(t) \/ DeadlockVictim(t)
  \/ \E p \in Product :
       \/ LockSaleLine(t, p) \/ QueryStock(t, p) \/ OverReturn(t, p)
       \/ PlanReturn(t, p) \/ Shortage(t, p) \/ Draw(t, p) \/ Restore(t, p)
  \/ \E b \in Batch : LockBatch(t, b)

Next ==
  \E t \in Tx : Replay(t) \/ NoSuchSale(t) \/ Begin(t) \/ Handle(t) \/ Crash(t)

Spec == Init /\ [][Next]_vars
FairSpec == Spec /\ \A t \in Tx : WF_vars(Handle(t))
-----------------------------------------------------------------------------
TypeOK ==
  /\ remaining \in [Batch -> Nat] /\ received \in [Batch -> Nat]
  /\ lineId \in [Tx -> [Product -> Nat]]
  /\ index \in [Kinds \X Key -> Tx \cup {None}]
  /\ batchLock \in [Batch -> Tx \cup {None}]
  /\ lineLock \in [Tx -> [Product -> Tx \cup {None}]]
  /\ req \in [Tx -> Request]
  /\ pc \in [Tx -> {"idle", "lines", "header", "query", "lock"} \cup Outcomes]
  /\ todo \in [Tx -> SUBSET Product]
  /\ toLock \in [Tx -> SUBSET Batch]
  /\ seen \in [Tx -> [Batch -> Nat]] /\ cost \in [Tx -> [Batch -> Nat]]

(* Committed cost lines of a batch: what consumers took and returns gave.  *)
Taken(b) ==
  Total([t \in Tx |-> IF Created(t) /\ IsConsumer(t) THEN cost[t][b] ELSE 0],
        Tx)
GivenBack(b) ==
  Total([t \in Tx |-> IF Created(t) /\ req[t].kind = "return" THEN cost[t][b]
                                                            ELSE 0], Tx)
PutBack(s, b) ==
  Total([t \in Tx |-> IF IsReturnOf(t, s) THEN cost[t][b] ELSE 0], Tx)

(* The ledger and the balance agree: a batch's remaining_qty is what was   *)
(* received, less the committed cost lines of every consumer, plus those   *)
(* of every return, whatever ran concurrently; and it stays within         *)
(* ck_part_batch_qty_bounds, so the bare += of _return_part_line is safe.  *)
LedgerBalances ==
  \A b \in Batch :
    /\ remaining[b] + Taken(b) = received[b] + GivenBack(b)
    /\ remaining[b] <= received[b]

(* Returns of a sale line never exceed it, and together have restored the  *)
(* newest pieces it drew, each once, however the returns were split,       *)
(* retried and interleaved.                                                *)
ReturnsUndoTheSale ==
  \A s \in Tx : IsSale(s) =>
    \A p \in Product :
      /\ ReturnedSoFar(s, p) <= req[s].qty[p]
      /\ \A b \in Batch : ProductOf[b] = p =>
           PutBack(s, b) =
             LifoPrefix(OfProduct(cost[s], p), ReturnedSoFar(s, p))[b]

(* A committed request has the cost lines of all its lines, no more.       *)
AllLinesCommitTogether ==
  \A t \in Tx : Created(t) /\ req[t].kind # "receive" =>
    \A p \in Product : Total(OfProduct(cost[t], p), Batch) = req[t].qty[p]

(* A request and its retries take effect once.                             *)
OneEffectPerKey ==
  \A t, u \in Tx :
    t # u /\ Created(t) /\ Created(u) => Header(req[t]) # Header(req[u])

(* What a session computed from a locked row is still what the row says.   *)
LockedCopyIsCurrent ==
  \A t \in Tx, b \in Batch : batchLock[b] = t => seen[t][b] = remaining[b]

(* No two transactions wait for one another.                               *)
NoDeadlock == \A C \in SUBSET Tx : ~WaitCycle(C)

(* A consumer that commits takes from a batch only when it empties every   *)
(* older batch of the product, as the committed rows stand at that moment. *)
FifoAtCommit ==
  [][\A t \in Tx : Commit(t) /\ IsConsumer(t) =>
       \A o, n \in Batch :
         o < n /\ ProductOf[o] = ProductOf[n] /\ cost[t][n] > 0 =>
           remaining[o] = cost[t][o]]_vars

(* A retry whose first attempt has committed gets that result, not a 409.  *)
RetryGetsTheWinner ==
  \A t, u \in Tx :
    t # u /\ Created(u) /\ req[u] = req[t] => pc[t] # "conflict"

(* Every request a handler takes up is answered.                           *)
EveryRequestAnswered == \A t \in Tx : Active(t) ~> Answered(t)

(* The committed rows, seen as the ledger: a batch, the cost lines of each *)
(* committed consumer, and those of the returns against it.                *)
Ledger == INSTANCE StockLedger WITH
  drawn    <- [t \in Tx |-> IF Created(t) /\ IsConsumer(t) THEN cost[t]
                                                         ELSE Nothing],
  restored <- [s \in Tx |-> [b \in Batch |-> PutBack(s, b)]]

(* Every interleaving of the statements above amounts to the ledger's      *)
(* atomic steps, one per commit.                                           *)
ImplementsLedger == Ledger!Spec
=============================================================================
