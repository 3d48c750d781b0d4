----------------------------- MODULE MCListPage -----------------------------
(* Walks through four of the lists, one of each kind: a unique tiebreak, a *)
(* shared one, a column that may be NULL, a key the answer leaves out.     *)
EXTENDS ListPage, ServiceLists, TLC

CONSTANTS k1, k2, k3

MCLists == {CustomerList, LowStockList, ShipmentList, OrderItemList}
MCId == k1 :> 1 @@ k2 :> 2 @@ k3 :> 3
MCTieValue == k1 :> 1 @@ k2 :> 1 @@ k3 :> 2
=============================================================================
