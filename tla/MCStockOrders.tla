----------------------------- MODULE MCStockOrders -----------------------------
(* A small instance of StockOrders for TLC. *)
EXTENDS StockOrders, TLC

(* Orders are alike, and so are restorations. *)
Symmetry == Permutations(Orders) \cup Permutations(Restorers)
=============================================================================
