---------------------------- MODULE ServiceWrites ----------------------------
(***************************************************************************)
(* The updates of the services: the cancellation of an order               *)
(* (order/main.go), the new contact of a customer (customer/main.go) and   *)
(* the new quantity of a stock (inventory/main.go), behind the checks of   *)
(* svc.Handle.  A handler is a few SQL statements without a transaction    *)
(* around them: between the statement that looks and the one that writes,  *)
(* other requests and the warehouse go on.                                 *)
(*                                                                         *)
(* A call is [by, kind, target, given, readable]: who calls, what for, on  *)
(* which record, the fields of the body that are not empty, and whether    *)
(* the body can be decoded at all.                                         *)
(***************************************************************************)
EXTENDS Integers, AccessControl

CONSTANTS
  Requests,   \* requests the services get
  Calls,      \* what a request may ask for
  NoCall,     \* no request yet
  Targets,    \* record identifiers, those of no record included
  Orders, Customers, Stocks,  \* the records there are
  RegionOf,   \* [Targets -> regions]: the region column of a record
  Texts       \* the values of email and phone

Kinds == {"cancel", "contact", "stock"}
ContactFields == {"email", "phone"}
OrderStatuses == {"PLACED", "CONFIRMED", "SHIPPED", "DELIVERED", "CANCELLED"}

ASSUME CallsTyped ==
  /\ NoCall \notin Calls
  /\ Targets # {}
  /\ Orders \cup Customers \cup Stocks \subseteq Targets
  /\ \A c \in Calls :
       /\ c.kind \in Kinds
       /\ c.target \in Targets
       /\ c.kind = "contact" => \E F \in SUBSET ContactFields : c.given \in [F -> Texts]
       /\ c.kind = "stock" => \E F \in SUBSET {"quantity"} : c.given \in [F -> Int]

VARIABLES
  pc,       \* where the handler of a request stands
  call,     \* what the request asks for
  answer,   \* the answer of svc.Handle
  status,   \* orders.orders.status
  contact,  \* customer.customers.email and phone
  stock,    \* inventory.stock.quantity
  wrote,    \* the UPDATE of a request was committed
  version,  \* how often a record was written, plus one
  earlier,  \* the requests answered before this one arrived
  found     \* the status of its order when it arrived

tables == <<status, contact, stock>>
effects == <<tables, wrote, version>>
history == <<call, earlier, found>>
vars == <<pc, answer, effects, history>>

Refusals == {"unauthorized", "forbidden", "notfound", "conflict"}
Answers == {"none", "ok", "error"} \cup Refusals

TypeOK ==
  /\ pc \in [Requests -> {"idle", "received", "admitted", "checked", "done"}]
  /\ call \in [Requests -> Calls \cup {NoCall}]
  /\ answer \in [Requests -> Answers]
  /\ status \in [Orders -> OrderStatuses]
  /\ contact \in [Customers -> [ContactFields -> Texts]]
  /\ stock \in [Stocks -> Nat]
  /\ wrote \in [Requests -> BOOLEAN]
  /\ version \in [Targets -> Nat \ {0}]
  /\ earlier \in [Requests -> SUBSET Requests]
  /\ found \in [Requests -> OrderStatuses \cup {"none"}]

Init ==
  /\ pc = [r \in Requests |-> "idle"]
  /\ call = [r \in Requests |-> NoCall]
  /\ answer = [r \in Requests |-> "none"]
  /\ status \in [Orders -> OrderStatuses]
  /\ contact \in [Customers -> [ContactFields -> Texts]]
  /\ stock \in [Stocks -> Nat]
  /\ wrote = [r \in Requests |-> FALSE]
  /\ version = [t \in Targets |-> 1]
  /\ earlier = [r \in Requests |-> {}]
  /\ found = [r \in Requests |-> "none"]

Kind(r)   == call[r].kind
By(r)     == call[r].by
Target(r) == call[r].target
Given(r)  == call[r].given

Goto(r, label) == pc' = [pc EXCEPT ![r] = label] /\ UNCHANGED answer

Reply(r, code) ==
  /\ pc' = [pc EXCEPT ![r] = "done"]
  /\ answer' = [answer EXCEPT ![r] = code]

Service(kind) ==
  CASE kind = "cancel" -> "order" [] kind = "contact" -> "customer" [] OTHER -> "inventory"

-----------------------------------------------------------------------------
(* A request arrives at its service. *)
Receive(r, c) ==
  /\ pc[r] = "idle"
  /\ Goto(r, "received")
  /\ call' = [call EXCEPT ![r] = c]
  /\ earlier' = [earlier EXCEPT ![r] = {q \in Requests : pc[q] = "done"}]
  /\ found' = [found EXCEPT ![r] =
                 IF c.kind = "cancel" /\ c.target \in Orders THEN status[c.target] ELSE "none"]
  /\ UNCHANGED effects

(* svc.Handle before the handler, and RequireWrite, its first line. *)
Deny(r) ==
  /\ pc[r] = "received"
  /\ \/ ~Authenticated(By(r)) /\ Reply(r, "unauthorized")
     \/ /\ Authenticated(By(r))
        /\ ~CanWrite(By(r), Service(Kind(r)))
        /\ Reply(r, "forbidden")
  /\ UNCHANGED <<effects, history>>

(* A contact needs an email or a phone, a stock a quantity that is not     *)
(* negative (and a warehouse, part of the target); a cancellation has no   *)
(* body.                                                                   *)
BodyFits(c) ==
  CASE c.kind = "contact" -> DOMAIN c.given # {}
    [] c.kind = "stock"   -> "quantity" \in DOMAIN c.given /\ c.given["quantity"] >= 0
    [] OTHER              -> TRUE

Admit(r) ==
  /\ pc[r] = "received"
  /\ Authenticated(By(r)) /\ CanWrite(By(r), Service(Kind(r)))
  /\ \/ Kind(r) # "cancel" /\ ~call[r].readable /\ Reply(r, "error")
     \/ (Kind(r) # "cancel" => call[r].readable) /\ ~BodyFits(call[r]) /\ Reply(r, "conflict")
     \/ (Kind(r) # "cancel" => call[r].readable) /\ BodyFits(call[r]) /\ Goto(r, "admitted")
  /\ UNCHANGED <<effects, history>>

(* A statement fails, or its connection does: 500, nothing written.        *)
StatementFails(r) ==
  /\ pc[r] \in {"admitted", "checked"}
  /\ Reply(r, "error")
  /\ UNCHANGED <<effects, history>>

-----------------------------------------------------------------------------
(* POST /orders/{order_id}/cancel *)

(* Only a second cancellation is refused. *)
CancellableUnlessCancelled(s) == s # "CANCELLED"

Cancellable(s) == s \in {"PLACED", "CONFIRMED"}

SelectOrder(r) ==
  LET visible == Target(r) \in Orders /\ InScope(By(r), "order", RegionOf[Target(r)]) IN
  /\ pc[r] = "admitted" /\ Kind(r) = "cancel"
  /\ \/ ~visible /\ Reply(r, "notfound")
     \/ visible /\ ~Cancellable(status[Target(r)]) /\ Reply(r, "conflict")
     \/ visible /\ Cancellable(status[Target(r)]) /\ Goto(r, "checked")
  /\ UNCHANGED <<effects, history>>

(* An error after the commit, passed off as a refusal. *)
CommittedRefused(r) ==
  /\ wrote' = [wrote EXCEPT ![r] = TRUE]
  /\ version' = [version EXCEPT ![Target(r)] = @ + 1]
  /\ \E code \in {"ok", "conflict"} : Reply(r, code)

(* The commit of an UPDATE, answered, or lost on the way back (500).       *)
Committed(r) ==
  /\ wrote' = [wrote EXCEPT ![r] = TRUE]
  /\ version' = [version EXCEPT ![Target(r)] = @ + 1]
  /\ \E code \in {"ok", "error"} : Reply(r, code)

(* UPDATE ... WHERE order_id = $1: neither the status nor the region again.*)
UpdateOrder(r) ==
  /\ pc[r] = "checked" /\ Kind(r) = "cancel"
  /\ status' = [status EXCEPT ![Target(r)] = "CANCELLED"]
  /\ Committed(r)
  /\ UNCHANGED <<contact, stock, history>>

-----------------------------------------------------------------------------
(* PATCH /customers/{customer_id}/contact *)

(* assertVisible *)
SelectCustomer(r) ==
  LET visible == Target(r) \in Customers /\ InScope(By(r), "customer", RegionOf[Target(r)]) IN
  /\ pc[r] = "admitted" /\ Kind(r) = "contact"
  /\ IF visible THEN Goto(r, "checked") ELSE Reply(r, "notfound")
  /\ UNCHANGED <<effects, history>>

(* SET email = $2, phone = $3, the empty one too. *)
MergeBlank(old, given) ==
  [f \in ContactFields |-> IF f \in DOMAIN given THEN given[f] ELSE ""]

(* COALESCE(NULLIF($2, ''), email), and the same for the phone. *)
Merge(old, given) == [f \in ContactFields |-> IF f \in DOMAIN given THEN given[f] ELSE old[f]]

UpdateContact(r) ==
  /\ pc[r] = "checked" /\ Kind(r) = "contact"
  /\ contact' = [contact EXCEPT ![Target(r)] = Merge(@, Given(r))]
  /\ Committed(r)
  /\ UNCHANGED <<status, stock, history>>

-----------------------------------------------------------------------------
(* PATCH /products/{product_id}/stock: one statement, an absolute value. *)

UpdateStock(r) ==
  /\ pc[r] = "admitted" /\ Kind(r) = "stock"
  /\ \/ /\ Target(r) \notin Stocks
        /\ Reply(r, "notfound")
        /\ UNCHANGED effects
     \/ /\ Target(r) \in Stocks
        /\ stock' = [stock EXCEPT ![Target(r)] = Given(r)["quantity"]]
        /\ Committed(r)
        /\ UNCHANGED <<status, contact>>
  /\ UNCHANGED history

-----------------------------------------------------------------------------
(* The life of an order outside the repository: confirmed, shipped and     *)
(* delivered by others, who do not touch what is cancelled.                *)
Advance(o) ==
  LET next == [PLACED |-> "CONFIRMED", CONFIRMED |-> "SHIPPED", SHIPPED |-> "DELIVERED"] IN
  /\ status[o] \in DOMAIN next
  /\ status' = [status EXCEPT ![o] = next[status[o]]]
  /\ UNCHANGED <<pc, answer, contact, stock, wrote, version, history>>

Handle(r) ==
  \/ Deny(r) \/ Admit(r) \/ StatementFails(r)
  \/ SelectOrder(r) \/ UpdateOrder(r)
  \/ SelectCustomer(r) \/ UpdateContact(r)
  \/ UpdateStock(r)

Next ==
  \/ \E r \in Requests : Handle(r) \/ \E c \in Calls : Receive(r, c)
  \/ \E o \in Orders : Advance(o)

Spec == Init /\ [][Next]_vars

-----------------------------------------------------------------------------
(* Properties. *)

(* Check and update of a cancellation are two statements, and the second   *)
(* one has no condition (order/main.go:159).  Still, what is cancelled was *)
(* open when its cancellation arrived: a shipment is only ever overtaken   *)
(* inside the window of the request, and an order is not cancelled again   *)
(* by a request that came after the first one was answered.                *)
CancelsFoundOrdersOpen ==
  \A r \in Requests : wrote[r] /\ Kind(r) = "cancel" => found[r] \in {"PLACED", "CONFIRMED"}

Column(t, f) == IF f = "quantity" THEN stock[t] ELSE contact[t][f]

SameColumn(r, q, f) ==
  Kind(q) = Kind(r) /\ Target(q) = Target(r) /\ f \in DOMAIN Given(q)

(* No update is lost: a column a request has set holds its value until     *)
(* another request that sets the same column, not one answered before it   *)
(* arrived, overwrites it; a request that leaves the column out never does *)
(* (customer/main.go:121-125).                                             *)
NoFieldIsLost ==
  \A r \in Requests : wrote[r] /\ Kind(r) # "cancel" =>
    \A f \in DOMAIN Given(r) :
      \/ Column(Target(r), f) = Given(r)[f]
      \/ \E q \in Requests \ ({r} \cup earlier[r]) : wrote[q] /\ SameColumn(r, q, f)

(* Whatever a request wrote, it had the right to: support writes nothing,  *)
(* the warehouse nothing but stocks, a salesman nothing outside his region *)
(* (the UPDATEs themselves have no such condition: it is the statement     *)
(* before them that looks).                                                *)
WritersStayInTheirField ==
  \A r \in Requests : wrote[r] =>
    /\ By(r).role \in {"admin", "sales", "warehouse"}
    /\ By(r).role = "warehouse" => Kind(r) = "stock"
    /\ By(r).role = "sales" => Kind(r) # "stock" /\ RegionOf[Target(r)] = By(r).region

(* The services keep the contract the BFF relies on: an answer of 200 has  *)
(* had its effect, exactly once; 401, 403, 404 and 409 none; 500 is open.  *)
WireOf(p, a) ==
  CASE p = "idle"  -> "idle"
    [] p # "idle" /\ a = "none"  -> "inflight"
    [] p # "idle" /\ a = "ok"    -> "ok"
    [] p # "idle" /\ a = "error" -> "failed"
    [] OTHER       -> "refused"
Wire == [r \in Requests |-> WireOf(pc[r], answer[r])]
Addressed == [r \in Requests |-> IF pc[r] = "idle" THEN CHOOSE t \in Targets : TRUE ELSE Target(r)]

Contract == INSTANCE ServiceContract WITH wire <- Wire, addressed <- Addressed

ImplementsServiceContract == Contract!Spec

=============================================================================
