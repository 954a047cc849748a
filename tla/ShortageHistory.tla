--------------------------- MODULE ShortageHistory ---------------------------
(***************************************************************************)
(* StockTx with a history variable that tells whether the committed stock  *)
(* was ever below what a request asks for while the request was in hand.   *)
(***************************************************************************)
EXTENDS StockTx

VARIABLE wasShort

ShortOf(t) ==
  \E p \in Product : Total(OfProduct(remaining, p), Batch) < req[t].qty[p]

HistoryInit == Init /\ wasShort = [t \in Tx |-> FALSE]

HistoryNext ==
  /\ Next
  /\ wasShort' = [t \in Tx |-> wasShort[t] \/ (Active(t) /\ ShortOf(t))]

HistorySpec == HistoryInit /\ [][HistoryNext]_<<vars, wasShort>>
FairHistorySpec == HistorySpec /\ \A t \in Tx : WF_vars(Handle(t))

(* consume_quantity_fifo answers 409 when stock is insufficient: at some   *)
(* moment of the request the committed stock did not cover it.             *)
ShortageIsReal == \A t \in Tx : pc[t] = "shortage" => wasShort[t]
=============================================================================
