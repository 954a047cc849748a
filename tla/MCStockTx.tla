------------------------------ MODULE MCStockTx ------------------------------
(***************************************************************************)
(* Small instances of StockTx: two products, three or four batches, three  *)
(* or four handlers.                                                       *)
(***************************************************************************)
EXTENDS StockTx, TLC

(* Batches of odd rank are of product 1, of even rank of product 2.        *)
OddEven == [b \in Batch |-> IF b % 2 = 1 THEN 1 ELSE 2]

OneEach == [b \in Batch |-> 1]
TwoEach == [b \in Batch |-> 2]

(* Batch 3 is received late and backdated, between batches 1 and 5.        *)
GapAtThree == 1 :> 1 @@ 2 :> 2 @@ 3 :> 0 @@ 4 :> 0 @@ 5 :> 2

Ask(k, key, q1, q2) ==
  [kind |-> k, key |-> key, sale |-> None, qty |-> (1 :> q1 @@ 2 :> q2)]
Return(s, key, q1, q2) ==
  [kind |-> "return", key |-> key, sale |-> s, qty |-> (1 :> q1 @@ 2 :> q2)]

(* Each handler is given one of the requests f has for it.                 *)
OneOfEach(f) ==
  {load \in [Tx -> UNION {f[t] : t \in Tx}] : \A t \in Tx : load[t] \in f[t]}

(* Consumers only: sales, tickets and write-offs, with a retry of a sale.  *)
ConsumerLoad == OneOfEach(
  1 :> {Ask("sale", "k1", 2, 1)} @@
  2 :> {Ask("sale", "k1", 2, 1), Ask("sale", "k2", 1, 2)} @@
  3 :> {Ask("ticket", "k3", 1, 1), Ask("adjust", "k4", 0, 1)} @@
  4 :> {Ask("adjust", "k4", 1, 0), Ask("ticket", "k3", 1, 1)})

(* A sale and two returns of its only line: a retry, a second part of it,  *)
(* one too many or one with a line of another product; next to a receipt,  *)
(* perhaps sent twice, or a consumer of the same product.                  *)
OneLineLoad == OneOfEach(
  1 :> {Ask("sale", "k1", 3, 0)} @@
  2 :> {Return(1, "k2", 2, 0)} @@
  3 :> {Return(1, "k2", 2, 0), Return(1, "k3", 1, 0), Return(1, "k3", 2, 0),
        Return(1, "k3", 1, 1), Ask("receive", "k4", 1, 0)} @@
  4 :> {Ask("receive", "k4", 1, 0), Ask("ticket", "k5", 1, 0)})

(* Two sales of both products, each returned in full while a third is rung *)
(* up.                                                                     *)
TwoLineLoad == OneOfEach(
  1 :> {Ask("sale", "k1", 1, 1)} @@
  2 :> {Ask("sale", "k2", 1, 1)} @@
  3 :> {Return(1, "k3", 1, 1)} @@
  4 :> {Return(2, "k4", 1, 1), Ask("sale", "k4", 1, 1)})

ReturnLoad == OneLineLoad \cup TwoLineLoad

(* One sale comes back while two others compete for the product.           *)
ShortageLoad == OneOfEach(
  1 :> {Ask("sale", "k1", 1, 0)} @@
  2 :> {Return(1, "k2", 1, 0)} @@
  3 :> {Ask("sale", "k3", 1, 0)} @@
  4 :> {Ask("sale", "k4", 1, 0)})

(* One sale and its retry.                                                 *)
RetryLoad == OneOfEach(
  1 :> {Ask("sale", "k1", 1, 0)} @@
  2 :> {Ask("sale", "k1", 1, 0)})
=============================================================================
