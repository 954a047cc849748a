----------------------------- MODULE ConsumeLoop -----------------------------
(***************************************************************************)
(* consume_quantity_fifo once its FOR UPDATE query has returned: the check *)
(* of the total and the loop over the locked batches, one iteration per    *)
(* step.  Nothing else runs against these rows while they are locked.      *)
(***************************************************************************)
EXTENDS Fifo

CONSTANTS
  Batch,      \* part_batch rows, as receipt ranks
  MaxQty,     \* bound: most pieces left in one batch
  MaxNeed     \* bound: largest quantity_needed

ASSUME BatchAssumption == Batch \subseteq Nat /\ IsFiniteSet(Batch)
ASSUME BoundAssumption == MaxQty \in Nat /\ MaxNeed \in Nat

VARIABLES
  pc,         \* "query", "loop", "done" or "short" (the 409)
  avail,      \* remaining_qty of the rows when the query locked them
  need,       \* quantity_needed
  todo,       \* rows of the result the loop has not reached
  left,       \* the local remaining
  stock,      \* remaining_qty as the loop leaves it
  lines       \* quantity of the CostLine appended for a batch, 0 for none

vars == <<pc, avail, need, todo, left, stock, lines>>

Init ==
  /\ avail \in [Batch -> 0 .. MaxQty]
  /\ need \in 1 .. MaxNeed
  /\ pc = "query"
  /\ todo = {}
  /\ left = need
  /\ stock = avail
  /\ lines = [b \in Batch |-> 0]

(* Mutant: the comparison is strict.                                       *)
Enough_Strict == Total(avail, Batch) > need

(* total_available < quantity_needed does not hold.                        *)
Enough == Total(avail, Batch) >= need

Refuse ==
  /\ pc = "query"
  /\ ~Enough
  /\ pc' = "short"
  /\ UNCHANGED <<avail, need, todo, left, stock, lines>>

Accept ==
  /\ pc = "query"
  /\ Enough
  /\ todo' = {b \in Batch : avail[b] > 0}
  /\ pc' = "loop"
  /\ UNCHANGED <<avail, need, left, stock, lines>>

(* Mutant: newest first.                                                   *)
IsNext_Newest(b) == b \in todo /\ \A n \in todo : n <= b

IsNext(b) == b \in todo /\ \A o \in todo : b <= o

Take(b) == Clip(left, stock[b])

Iterate(b) ==
  /\ pc = "loop" /\ left # 0
  /\ IsNext(b)
  /\ stock' = [stock EXCEPT ![b] = @ - Take(b)]
  /\ lines' = [lines EXCEPT ![b] = Take(b)]
  /\ left' = left - Take(b)
  /\ todo' = todo \ {b}
  /\ UNCHANGED <<pc, avail, need>>

Return ==
  /\ pc = "loop"
  /\ left = 0 \/ todo = {}
  /\ pc' = "done"
  /\ UNCHANGED <<avail, need, todo, left, stock, lines>>

Next == Refuse \/ Accept \/ Return \/ \E b \in Batch : Iterate(b)

Spec == Init /\ [][Next]_vars /\ WF_vars(Next)
-----------------------------------------------------------------------------
TypeOK ==
  /\ pc \in {"query", "loop", "done", "short"}
  /\ avail \in [Batch -> Nat]
  /\ need \in Nat
  /\ todo \subseteq Batch
  /\ left \in Nat
  /\ stock \in [Batch -> Nat]
  /\ lines \in [Batch -> Nat]

(* The cost lines the loop returns are the oldest need pieces, every one   *)
(* of them left a batch, and no piece left a batch without a cost line.    *)
LoopIsFifo ==
  pc = "done" =>
    /\ lines = FifoTake(avail, need)
    /\ Total(lines, Batch) = need
    /\ \A b \in Batch : stock[b] + lines[b] = avail[b]

(* Between two iterations the pieces still to find are what is missing     *)
(* from the cost lines, and a batch is opened only when every older one is *)
(* empty: stopping the loop anywhere leaves a FIFO prefix.                 *)
OldestDrainedFirst ==
  pc = "loop" =>
    /\ left + Total(lines, Batch) = need
    /\ \A o, n \in Batch : o < n /\ lines[n] > 0 => stock[o] = 0

(* The 409 is given exactly when the locked rows cannot cover the request, *)
(* and the call always ends in one or the other.                           *)
EndsAsTheTotalSays ==
  /\ (Total(avail, Batch) < need) ~> (pc = "short")
  /\ (Total(avail, Batch) >= need) ~> (pc = "done")
=============================================================================
