---------------------------- MODULE ServiceLists ----------------------------
(***************************************************************************)
(* The lists of the services that come in pages, as far as paging depends  *)
(* on them: the orders a client may ask for (svc.Sortable), the one it     *)
(* gets for anything else, the tiebreak, whether the schema makes the      *)
(* tiebreak unique within the list, the columns the answer shows, and the  *)
(* columns that may be NULL.                                               *)
(***************************************************************************)

Asc(col)  == [col |-> col, desc |-> FALSE]
Desc(col) == [col |-> col, desc |-> TRUE]
Both(col) == {Asc(col), Desc(col)}

(* GET /customers *)
CustomerList ==
  [sorts |-> Both("customer_id") \cup Both("name"), default |-> Asc("customer_id"),
   tie |-> "customer_id", unique |-> TRUE, nullable |-> {},
   selected |-> {"customer_id", "name", "region", "status"}]

(* GET /customers/{customer_id}/contacts *)
ContactList ==
  [sorts |-> {}, default |-> Asc("contact_id"),
   tie |-> "contact_id", unique |-> TRUE, nullable |-> {},
   selected |-> {"contact_id", "name", "role", "email"}]

(* GET /orders *)
OrderList ==
  [sorts |-> Both("ordered_at") \cup Both("total_amount"), default |-> Desc("ordered_at"),
   tie |-> "order_id", unique |-> TRUE, nullable |-> {},
   selected |-> {"order_id", "customer_id", "status", "ordered_at", "total_amount"}]

(* GET /orders/{order_id}/items: the line number is not in the answer.     *)
OrderItemList ==
  [sorts |-> {}, default |-> Asc("line_no"),
   tie |-> "line_no", unique |-> TRUE, nullable |-> {},
   selected |-> {"product_id", "product_name", "quantity", "unit_price"}]

(* GET /products *)
ProductList ==
  [sorts |-> Both("unit_price") \cup Both("name"), default |-> Asc("product_id"),
   tie |-> "product_id", unique |-> TRUE, nullable |-> {},
   selected |-> {"product_id", "name", "category", "unit_price"}]

(* GET /stock/low: a product has a row in every warehouse.                 *)
LowStockList ==
  [sorts |-> Both("quantity"), default |-> Asc("quantity"),
   tie |-> "product_id", unique |-> FALSE, nullable |-> {},
   selected |-> {"product_id", "product_name", "warehouse_id", "quantity"}]

(* GET /shipments: what is still being prepared has no date.               *)
ShipmentList ==
  [sorts |-> Both("shipped_at"), default |-> Asc("shipment_id"),
   tie |-> "shipment_id", unique |-> TRUE, nullable |-> {"shipped_at"},
   selected |-> {"shipment_id", "order_id", "status", "carrier", "shipped_at"}]

(* GET /invoices/unpaid *)
UnpaidList ==
  [sorts |-> Both("due_at") \cup Both("amount"), default |-> Asc("due_at"),
   tie |-> "invoice_id", unique |-> TRUE, nullable |-> {},
   selected |-> {"invoice_id", "customer_id", "status", "due_at", "amount"}]

(* GET /invoices *)
InvoiceList ==
  [sorts |-> Both("issued_at") \cup Both("due_at") \cup Both("amount"),
   default |-> Desc("issued_at"),
   tie |-> "invoice_id", unique |-> TRUE, nullable |-> {},
   selected |-> {"invoice_id", "customer_id", "status", "issued_at", "due_at", "amount"}]

=============================================================================
