------------------------------ MODULE MCUnitTx -------------------------------
(***************************************************************************)
(* Small instances of UnitTx: two or three units of one product, one pull  *)
(* of two lines, two overrides, four handlers.                     *)
(***************************************************************************)
EXTENDS UnitTx, TLC

OneProduct == [u \in Unit |-> "fridge"]
FirstTwo == [p \in Pull |-> {1, 2}]

(* Override 1 prices a sale line, override 2 a ticket part.                *)
SaleThenTicket ==
  1 :> [kind |-> "sale", product |-> "fridge"] @@
  2 :> [kind |-> "ticket", product |-> "fridge"]

Uncited == [o \in Override |-> None]
Cite(o) == [Uncited EXCEPT ![o] = "fridge"]

Ask(k, key, units, cites) ==
  [kind |-> k, key |-> key, units |-> units, cites |-> cites,
   sale |-> None, pull |-> None]
Return(s, key, units) ==
  [Ask("return", key, units, Uncited) EXCEPT !.sale = s]
OnPull(k, units) == [Ask(k, None, units, Uncited) EXCEPT !.pull = "p1"]

(* Each handler is given one of the requests f has for it.                 *)
OneOfEach(f) ==
  {load \in [Tx -> UNION {f[t] : t \in Tx}] : \A t \in Tx : load[t] \in f[t]}

(* Two tills and a write-off compete with the fulfilment of a pull, which  *)
(* is sent twice or cancelled.                                             *)
PullLoad == OneOfEach(
  1 :> {Ask("sale", "k1", {1, 2}, Uncited), Ask("sale", "k1", {2, 3}, Uncited)} @@
  2 :> {Ask("adjust", "k2", {1}, Uncited), Ask("sale", "k1", {1, 2}, Uncited)} @@
  3 :> {OnPull("fulfil", {1, 2}), OnPull("fulfil", {1})} @@
  4 :> {OnPull("fulfil", {1, 2}), OnPull("cancel", {})})

(* Overrides are decided while sales and tickets cite them.                *)
OverrideLoad == OneOfEach(
  1 :> {Ask("sale", "k1", {1}, Cite(1)), Ask("ticket", "k3", {}, Cite(2))} @@
  2 :> {Ask("sale", "k2", {2}, Cite(1)), Ask("sale", "k1", {1}, Cite(1)),
        Ask("sale", "k2", {2}, Cite(2)), Ask("ticket", "k4", {}, Cite(2)),
        Ask("ticket", "k4", {}, Cite(1))} @@
  3 :> {Ask("approve", None, {}, Cite(1)), Ask("reject", None, {}, Cite(1))} @@
  4 :> {Ask("approve", None, {}, Cite(1)), Ask("reject", None, {}, Cite(1))})

CounterLoad == PullLoad \cup OverrideLoad

(* A unit is sold, returned, sold again and returned against either sale.  *)
ReturnLoad == OneOfEach(
  1 :> {Ask("sale", "k1", {1, 2}, Uncited)} @@
  2 :> {Return(1, "k2", {1}), Return(1, "k2", {1, 2})} @@
  3 :> {Ask("sale", "k3", {1}, Uncited), Ask("sale", "k3", {1, 2}, Uncited)} @@
  4 :> {Return(1, "k2", {1}), Return(1, "k4", {1, 2}), Return(3, "k4", {1, 2}),
        Return(3, "k2", {1})})
=============================================================================
