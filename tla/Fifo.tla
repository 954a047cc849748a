-------------------------------- MODULE Fifo --------------------------------
(***************************************************************************)
(* The costing arithmetic of a quantity-tracked product.                   *)
(*                                                                         *)
(* A part_batch is a natural number, its rank in receipt order             *)
(* (received_at, id): a smaller number is an older batch.  A quantity per  *)
(* batch is a function from batches to naturals.  These operators state    *)
(* what consume_quantity_fifo and _return_part_line compute; ConsumeLoop   *)
(* and ReturnLoop have the loops themselves, checked against them.         *)
(***************************************************************************)
EXTENDS Integers, FiniteSets

(* The pieces that f puts in the batches of S, numbered within a batch.    *)
Pieces(f, S) == UNION {{b} \X (1 .. f[b]) : b \in S}

(* Python's sum(f[b] for b in S).                                          *)
Total(f, S) == Cardinality(Pieces(f, S))

Older(f, b) == Total(f, {o \in DOMAIN f : o < b})
Newer(f, b) == Total(f, {n \in DOMAIN f : n > b})

Clip(x, hi) == IF x < 0 THEN 0 ELSE IF x > hi THEN hi ELSE x

(* Mutant: newest batch first.                                             *)
FifoTake_Newest(avail, need) ==
  [b \in DOMAIN avail |-> Clip(need - Newer(avail, b), avail[b])]

(***************************************************************************)
(* The cost lines of consuming need pieces from avail, oldest batch first. *)
(***************************************************************************)
FifoTake(avail, need) ==
  [b \in DOMAIN avail |-> Clip(need - Older(avail, b), avail[b])]

(***************************************************************************)
(* The qty newest pieces of what a sale drew: what partial returns of qty  *)
(* pieces altogether have put back.                                        *)
(***************************************************************************)
LifoPrefix(drawn, qty) ==
  [b \in DOMAIN drawn |-> Clip(qty - Newer(drawn, b), drawn[b])]

(* Mutant: pieces that already went back are not skipped.                  *)
ReturnPlan_NoSkip(drawn, already, qty) == LifoPrefix(drawn, qty)

(***************************************************************************)
(* The plan of one return of qty pieces after already pieces went back.    *)
(***************************************************************************)
ReturnPlan(drawn, already, qty) ==
  [b \in DOMAIN drawn |->
     LifoPrefix(drawn, already + qty)[b] - LifoPrefix(drawn, already)[b]]
=============================================================================
