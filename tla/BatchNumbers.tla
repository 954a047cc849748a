---------------------------- MODULE BatchNumbers ----------------------------
(***************************************************************************)
(* Numbering the batches of one product as receipts and positive           *)
(* adjustments of several terminals overlap: an advisory lock on the day   *)
(* and the SKU, a scan for the highest suffix, the insert, the commit.     *)
(* Each terminal sends its request and the server goes through it; what    *)
(* comes back is the batch, or the 409 of the unique constraint.           *)
(***************************************************************************)
EXTENDS Tab

CONSTANT Days

Receipts == 1..MaxRequests[screen]

\* Plain and ADJ batches of a day are numbered apart.
Series == Days \X BOOLEAN

BatchInit ==
    /\ screen = "batches" /\ screen \in Mounted
    /\ form = [draft |-> NoKey]
    /\ wire = <<>>
    /\ db = [at |-> [i \in Receipts |-> "coming"], suffix |-> [i \in Receipts |-> 0],
             lock |-> [d \in Days |-> 0]]

OnBatches == screen = "batches"

\* receive_quantity, or create_stock_adjustment that adds.
SubmitBatch(day, adj) ==
    /\ OnBatches
    /\ Send("batch", <<day, adj>>)
    /\ UNCHANGED <<screen, form, db>>

Day(i) == wire[i].body[1]

Committed(series) == {i \in At("batch", "sent") : db.at[i] = "done" /\ wire[i].body = series}
Suffixes(series) == {db.suffix[i] : i \in Committed(series)}

(* Mutant: no advisory lock.                                                *)
LockIsFree_NoLock(day) == TRUE

LockIsFree(day) == db.lock[day] = 0

\* pg_advisory_xact_lock: one lock for both series of the day.
LockDay(i) ==
    /\ OnBatches /\ db.at[i] = "coming"
    /\ LockIsFree(Day(i))
    /\ db' = [db EXCEPT !.at[i] = "locked", !.lock[Day(i)] = i]
    /\ UNCHANGED <<screen, form, wire>>

\* The highest suffix taken, 0 without any, and one more.
NextSuffix(taken) == 1 + CHOOSE m \in taken \cup {0} : \A n \in taken : n <= m

\* The scan sees what is committed by then.
ScanSuffixes(i) ==
    /\ OnBatches /\ db.at[i] = "locked"
    /\ db' = [db EXCEPT !.at[i] = "scanned", !.suffix[i] = NextSuffix(Suffixes(wire[i].body))]
    /\ UNCHANGED <<screen, form, wire>>

Finish(i, how) == [db EXCEPT !.at[i] = how, !.lock = [d \in Days |-> IF @[d] = i THEN 0 ELSE @[d]]]

\* UNIQUE(product_id, batch_no) is the backstop.
CommitBatch(i) ==
    /\ OnBatches /\ db.at[i] = "scanned"
    /\ db' = Finish(i, IF db.suffix[i] \in Suffixes(wire[i].body) THEN "conflict" ELSE "done")
    /\ UNCHANGED <<screen, form, wire>>

\* The rest of the transaction fails, or the process dies.
RollBackBatch(i) ==
    /\ OnBatches /\ db.at[i] \in {"locked", "scanned"}
    /\ db' = Finish(i, "failed")
    /\ UNCHANGED <<screen, form, wire>>

BatchNext ==
    \/ \E d \in Days, adj \in BOOLEAN : SubmitBatch(d, adj)
    \/ \E i \in Sent("batch") : LockDay(i) \/ ScanSuffixes(i) \/ CommitBatch(i) \/ RollBackBatch(i)

BatchSpec == BatchInit /\ [][BatchNext]_tabVars

-----------------------------------------------------------------------------
(* "Two staff receiving the same SKU on the same day get sequential         *)
(* suffixes with no collision": the committed suffixes of a series run from *)
(* one without a gap, and no receipt is ever refused for its number, also   *)
(* when transactions in between roll back.                                  *)
NumbersRunOn ==
    OnBatches =>
    /\ \A i \in Sent("batch") : db.at[i] # "conflict"
    /\ \A s \in Series : \A n \in Suffixes(s) : n = 1 \/ n - 1 \in Suffixes(s)
=============================================================================
