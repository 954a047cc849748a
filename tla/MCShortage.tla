----------------------------- MODULE MCShortage ------------------------------
(* The small instances of StockTx, with the history of shortages.          *)
EXTENDS ShortageHistory, MCStockTx
=============================================================================
