------------------------- MODULE ServiceWritesProofs -------------------------
(* The updates of the services, for every set of requests, calls and       *)
(* records: what they keep although check and update are two statements,   *)
(* and that they implement the contract the BFF relies on.                 *)
EXTENDS ServiceWrites, TLAPS

Asked(r) == pc[r] # "idle"

(* Where a request stands and what is known of its call there. *)
Control ==
  \A r \in Requests :
    /\ Asked(r) => call[r] \in Calls
    /\ pc[r] = "done" <=> answer[r] # "none"
    /\ wrote[r] => pc[r] = "done"
    /\ pc[r] \in {"admitted", "checked"} => BodyFits(call[r])
    /\ pc[r] = "checked" => \/ Kind(r) = "cancel" /\ Target(r) \in Orders
                            \/ Kind(r) = "contact" /\ Target(r) \in Customers

TypeInv == TypeOK /\ Control

Allowed(r) == Authenticated(By(r)) /\ CanWrite(By(r), Service(Kind(r)))

(* The right is looked at first, the region by the statement before the    *)
(* update.                                                                 *)
InField ==
  \A r \in Requests :
    /\ pc[r] \in {"admitted", "checked"} \/ wrote[r] => Allowed(r)
    /\ pc[r] = "checked" \/ (wrote[r] /\ Kind(r) # "stock")
         => InScope(By(r), Service(Kind(r)), RegionOf[Target(r)])

(* What was closed when a cancellation came has stayed closed. *)
ClosedStaysClosed ==
  \A r \in Requests : Asked(r) /\ Kind(r) = "cancel" =>
    /\ pc[r] \in {"received", "admitted"} /\ Target(r) \in Orders /\ ~Cancellable(found[r])
         => ~Cancellable(status[Target(r)])
    /\ pc[r] = "checked" \/ wrote[r] => Cancellable(found[r])

EarlierAreDone == \A r \in Requests : \A q \in earlier[r] : pc[q] = "done"

(* A column that was set holds the value of one of those who set it, and   *)
(* that one was not done before any other of them came.                    *)
LastWriter(r, f, q) ==
  /\ wrote[q] /\ SameColumn(r, q, f)
  /\ Column(Target(r), f) = Given(q)[f]
  /\ q \notin earlier[r]

ColumnsHaveWriters ==
  \A r \in Requests : wrote[r] /\ Kind(r) # "cancel" =>
    \A f \in DOMAIN Given(r) : \E q \in Requests : LastWriter(r, f, q)

-----------------------------------------------------------------------------
(* Merge keeps a contact a contact. *)
LEMMA MergeTyped ==
  ASSUME NEW old \in [ContactFields -> Texts], NEW c \in Calls, c.kind = "contact"
  PROVE  Merge(old, c.given) \in [ContactFields -> Texts]
  <1>1. PICK F \in SUBSET ContactFields : c.given \in [F -> Texts]
    BY CallsTyped
  <1> QED BY <1>1 DEF Merge

(* The fields a call gives belong to its kind. *)
LEMMA FieldsOfKind ==
  ASSUME NEW c \in Calls
  PROVE  /\ c.kind = "contact" => DOMAIN c.given \subseteq ContactFields
         /\ c.kind = "stock" => /\ DOMAIN c.given \subseteq {"quantity"}
                                /\ BodyFits(c) => c.given["quantity"] \in Nat
  <1>1. CASE c.kind = "contact"
    <2>1. PICK F \in SUBSET ContactFields : c.given \in [F -> Texts]
      BY <1>1, CallsTyped
    <2> QED BY <1>1, <2>1
  <1>2. CASE c.kind = "stock"
    <2>1. PICK F \in SUBSET {"quantity"} : c.given \in [F -> Int]
      BY <1>2, CallsTyped
    <2>2. BodyFits(c) => "quantity" \in F /\ c.given["quantity"] >= 0
      BY <1>2, <2>1 DEF BodyFits
    <2>3. DOMAIN c.given = F
      BY <2>1
    <2> QED BY <1>2, <2>1, <2>2, <2>3
  <1>3. c.kind \in Kinds
    BY CallsTyped
  <1> QED BY <1>1, <1>2, <1>3 DEF Kinds

LEMMA TypeInit == Init => TypeInv
  BY DEF Init, TypeInv, TypeOK, Control, Asked, Answers

(* An answer without an effect, or the next line of the handler. *)
LEMMA ControlMove ==
  ASSUME TypeInv, NEW r \in Requests, pc[r] \in {"received", "admitted", "checked"},
         UNCHANGED <<effects, history>>,
         \/ \E code \in Answers \ {"none"} : Reply(r, code)
         \/ Goto(r, "admitted") /\ BodyFits(call[r])
         \/ /\ Goto(r, "checked")
            /\ BodyFits(call[r])
            /\ \/ Kind(r) = "cancel" /\ Target(r) \in Orders
               \/ Kind(r) = "contact" /\ Target(r) \in Customers
  PROVE  TypeInv'
  <1>1. UNCHANGED <<call, status, contact, stock, wrote, version, earlier, found>>
    BY DEF effects, tables, history
  <1>2. TypeOK'
    BY <1>1 DEF TypeInv, TypeOK, Reply, Goto
  <1>3. ~wrote[r] /\ call[r] \in Calls
    BY DEF TypeInv, Control, Asked
  <1>4. Control'
    BY <1>1, <1>3 DEF TypeInv, TypeOK, Control, Asked, Reply, Goto, Kind, Target
  <1> QED BY <1>2, <1>4 DEF TypeInv

LEMMA TypeStep == TypeInv /\ [Next]_vars => TypeInv'
  <1> SUFFICES ASSUME TypeInv, [Next]_vars PROVE TypeInv'
    OBVIOUS
  <1>1. ASSUME NEW r \in Requests, NEW c \in Calls, Receive(r, c) PROVE TypeInv'
    BY <1>1 DEF Receive, Goto, effects, tables, TypeInv, TypeOK, Control, Asked, BodyFits, Kind, Target
  <1>2. ASSUME NEW r \in Requests, Deny(r) PROVE TypeInv'
    BY <1>2, ControlMove DEF Deny, Answers, Refusals
  <1>3. ASSUME NEW r \in Requests, Admit(r) PROVE TypeInv'
    BY <1>3, ControlMove DEF Admit, Answers, Refusals
  <1>4. ASSUME NEW r \in Requests, StatementFails(r) PROVE TypeInv'
    BY <1>4, ControlMove DEF StatementFails, Answers
  <1>5. ASSUME NEW r \in Requests, SelectOrder(r) PROVE TypeInv'
    <2>1. BodyFits(call[r])
      BY <1>5 DEF SelectOrder, TypeInv, Control
    <2> QED BY <1>5, <2>1, ControlMove DEF SelectOrder, Answers, Refusals
  <1>6. ASSUME NEW r \in Requests, SelectCustomer(r) PROVE TypeInv'
    <2>1. BodyFits(call[r])
      BY <1>6 DEF SelectCustomer, TypeInv, Control
    <2>2. CASE Target(r) \in Customers /\ InScope(By(r), "customer", RegionOf[Target(r)])
      BY <1>6, <2>1, <2>2, ControlMove DEF SelectCustomer
    <2>3. CASE ~(Target(r) \in Customers /\ InScope(By(r), "customer", RegionOf[Target(r)]))
      BY <1>6, <2>3, ControlMove DEF SelectCustomer, Answers, Refusals
    <2> QED BY <2>2, <2>3
  <1>7. ASSUME NEW r \in Requests, UpdateOrder(r) PROVE TypeInv'
    <2>1. call[r] \in Calls /\ Target(r) \in Targets
      BY <1>7, CallsTyped DEF UpdateOrder, TypeInv, Control, Asked, Target
    <2> QED BY <1>7, <2>1 DEF UpdateOrder, Committed, Reply, history, TypeInv, TypeOK, Control, Asked, Kind, Target, Answers, OrderStatuses
  <1>8. ASSUME NEW r \in Requests, UpdateContact(r) PROVE TypeInv'
    <2>1. call[r] \in Calls /\ Target(r) \in Targets /\ Target(r) \in Customers /\ call[r].kind = "contact"
      BY <1>8, CallsTyped DEF UpdateContact, TypeInv, Control, Asked, Target, Kind
    <2>2. Merge(contact[Target(r)], Given(r)) \in [ContactFields -> Texts]
      BY <2>1, MergeTyped DEF TypeInv, TypeOK, Given
    <2> QED BY <1>8, <2>1, <2>2 DEF UpdateContact, Committed, Reply, history, TypeInv, TypeOK, Control, Asked, Kind, Target, Answers
  <1>9. ASSUME NEW r \in Requests, UpdateStock(r) PROVE TypeInv'
    <2>1. call[r] \in Calls /\ Target(r) \in Targets /\ call[r].kind = "stock" /\ BodyFits(call[r])
      BY <1>9, CallsTyped DEF UpdateStock, TypeInv, Control, Asked, Target, Kind
    <2>2. Given(r)["quantity"] \in Nat
      BY <2>1, FieldsOfKind DEF Given
    <2>3. CASE Target(r) \notin Stocks
      BY <1>9, <2>3, ControlMove DEF UpdateStock, Answers, Refusals
    <2>4. CASE Target(r) \in Stocks
      <3>1. TypeOK'
        <4>1. stock' = [stock EXCEPT ![Target(r)] = Given(r)["quantity"]] /\ UNCHANGED <<status, contact>>
          BY <1>9, <2>4 DEF UpdateStock
        <4>2. stock' \in [Stocks -> Nat]
          BY <4>1, <2>2 DEF TypeInv, TypeOK
        <4>3. Committed(r) /\ UNCHANGED history
          BY <1>9, <2>4 DEF UpdateStock
        <4>4. version' \in [Targets -> Nat \ {0}] /\ wrote' \in [Requests -> BOOLEAN]
          BY <4>3, <2>1 DEF Committed, TypeInv, TypeOK
        <4> QED BY <4>1, <4>2, <4>3, <4>4 DEF Committed, Reply, history, TypeInv, TypeOK, Answers
      <3>2. Control'
        BY <1>9, <2>1, <2>4 DEF UpdateStock, Committed, Reply, history, TypeInv, TypeOK, Control, Asked, Kind, Target
      <3> QED BY <3>1, <3>2 DEF TypeInv
    <2> QED BY <2>3, <2>4
  <1>10. ASSUME NEW o \in Orders, Advance(o) PROVE TypeInv'
    BY <1>10 DEF Advance, history, TypeInv, TypeOK, Control, Asked, Kind, Target, OrderStatuses
  <1>11. CASE UNCHANGED vars
    BY <1>11 DEF vars, effects, tables, history, TypeInv, TypeOK, Control, Asked, Kind, Target
  <1> QED BY <1>1, <1>2, <1>3, <1>4, <1>5, <1>6, <1>7, <1>8, <1>9, <1>10, <1>11 DEF Next, Handle

(* Types, and the control of the handlers. *)
THEOREM TypeCorrect == Spec => []TypeOK
  <1>1. Spec => []TypeInv
    BY TypeInit, TypeStep, PTL DEF Spec
  <1> QED BY <1>1, PTL DEF TypeInv

-----------------------------------------------------------------------------
(* Whether a caller may and what he reaches, along the handlers. *)
LEMMA InFieldStep == TypeInv /\ InField /\ [Next]_vars => InField'
  <1> SUFFICES ASSUME TypeInv, InField, [Next]_vars PROVE InField'
    OBVIOUS
  <1>1. ASSUME NEW r \in Requests, NEW c \in Calls, Receive(r, c) PROVE InField'
    BY <1>1 DEF Receive, Goto, effects, TypeInv, TypeOK, Control, InField, Allowed, By, Kind, Target
  <1>2. ASSUME NEW r \in Requests, Deny(r) \/ StatementFails(r) PROVE InField'
    BY <1>2 DEF Deny, StatementFails, Reply, effects, history, TypeInv, TypeOK, Control, InField, Allowed, By, Kind, Target
  <1>3. ASSUME NEW r \in Requests, Admit(r) PROVE InField'
    BY <1>3 DEF Admit, Reply, Goto, effects, history, TypeInv, TypeOK, Control, InField, Allowed, By, Kind, Target
  <1>4. ASSUME NEW r \in Requests, SelectOrder(r) PROVE InField'
    BY <1>4 DEF SelectOrder, Reply, Goto, effects, history, TypeInv, TypeOK, Control, InField, Allowed, By, Kind, Target, Service
  <1>5. ASSUME NEW r \in Requests, SelectCustomer(r) PROVE InField'
    <2>1. Service(Kind(r)) = "customer"
      BY <1>5 DEF SelectCustomer, Service
    <2> QED BY <1>5, <2>1 DEF SelectCustomer, Reply, Goto, effects, history, TypeInv, TypeOK, Control, InField, Allowed, By, Kind, Target
  <1>6. ASSUME NEW r \in Requests, UpdateOrder(r) \/ UpdateContact(r) PROVE InField'
    BY <1>6 DEF UpdateOrder, UpdateContact, Committed, Reply, history, TypeInv, TypeOK, Control, InField, Allowed, By, Kind, Target
  <1>7. ASSUME NEW r \in Requests, UpdateStock(r) PROVE InField'
    BY <1>7 DEF UpdateStock, Committed, Reply, effects, history, TypeInv, TypeOK, Control, InField, Allowed, By, Kind, Target
  <1>8. ASSUME NEW o \in Orders, Advance(o) PROVE InField'
    BY <1>8 DEF Advance, history, InField, Allowed, By, Kind, Target
  <1>9. CASE UNCHANGED vars
    BY <1>9 DEF vars, effects, history, InField, Allowed, By, Kind, Target
  <1> QED BY <1>1, <1>2, <1>3, <1>4, <1>5, <1>6, <1>7, <1>8, <1>9 DEF Next, Handle

LEMMA InFieldSuffices == TypeInv /\ InField => WritersStayInTheirField
  <1> SUFFICES ASSUME TypeInv, InField, NEW r \in Requests, wrote[r]
               PROVE  /\ By(r).role \in {"admin", "sales", "warehouse"}
                      /\ By(r).role = "warehouse" => Kind(r) = "stock"
                      /\ By(r).role = "sales" => Kind(r) # "stock" /\ RegionOf[Target(r)] = By(r).region
    BY DEF WritersStayInTheirField
  <1>1. Kind(r) \in Kinds
    BY CallsTyped DEF TypeInv, Control, Asked, Kind
  <1>2. Allowed(r) /\ (Kind(r) # "stock" => InScope(By(r), Service(Kind(r)), RegionOf[Target(r)]))
    BY DEF InField
  <1>3. Kind(r) = "stock" <=> Service(Kind(r)) = "inventory"
    BY <1>1 DEF Kinds, Service
  <1>4. By(r).role \in {"admin", "sales", "warehouse"} /\ Service(Kind(r)) \in WritableBy(By(r).role)
    BY <1>2 DEF Allowed, CanWrite, WritableBy
  <1>5. By(r).role = "warehouse" => Kind(r) = "stock"
    BY <1>3, <1>4 DEF WritableBy
  <1>6. ASSUME By(r).role = "sales" PROVE Kind(r) # "stock" /\ RegionOf[Target(r)] = By(r).region
    <2>1. Kind(r) # "stock" /\ By(r).region # NoRegion
      BY <1>2, <1>3, <1>4, <1>6 DEF WritableBy, Allowed, Authenticated
    <2>2. RegionFilter(By(r), Service(Kind(r))) = By(r).region
      BY <1>3, <1>6, <2>1 DEF RegionFilter, AccessTo
    <2> QED BY <1>2, <2>1, <2>2 DEF InScope
  <1> QED BY <1>4, <1>5, <1>6

(* A committed write was within the right and the region of its caller.    *)
THEOREM WritesAreInField == Spec => []WritersStayInTheirField
  <1>1. Init => InField
    BY DEF Init, InField
  <1>2. Spec => [](TypeInv /\ InField)
    BY <1>1, TypeInit, TypeStep, InFieldStep, PTL DEF Spec
  <1> QED BY <1>2, InFieldSuffices, PTL

-----------------------------------------------------------------------------
(* An order never opens again, so what a cancellation finds open at its    *)
(* check was open when it came.                                            *)
LEMMA ClosedStep == TypeInv /\ ClosedStaysClosed /\ [Next]_vars => ClosedStaysClosed'
  <1> SUFFICES ASSUME TypeInv, ClosedStaysClosed, [Next]_vars PROVE ClosedStaysClosed'
    OBVIOUS
  <1>1. ASSUME NEW r \in Requests, NEW c \in Calls, Receive(r, c) PROVE ClosedStaysClosed'
    BY <1>1 DEF Receive, Goto, effects, tables, TypeInv, TypeOK, Control, ClosedStaysClosed, Asked, Kind, Target
  <1>2. ASSUME NEW r \in Requests, Deny(r) \/ StatementFails(r) \/ Admit(r) PROVE ClosedStaysClosed'
    BY <1>2 DEF Deny, StatementFails, Admit, Reply, Goto, effects, tables, history, TypeInv, TypeOK, Control, ClosedStaysClosed, Asked, Kind, Target
  <1>3. ASSUME NEW r \in Requests, SelectOrder(r) PROVE ClosedStaysClosed'
    BY <1>3 DEF SelectOrder, Reply, Goto, effects, tables, history, TypeInv, TypeOK, Control, ClosedStaysClosed, Asked, Kind, Target
  <1>4. ASSUME NEW r \in Requests, SelectCustomer(r) PROVE ClosedStaysClosed'
    BY <1>4 DEF SelectCustomer, Reply, Goto, effects, tables, history, TypeInv, TypeOK, Control, ClosedStaysClosed, Asked, Kind, Target
  <1>5. ASSUME NEW r \in Requests, UpdateOrder(r) PROVE ClosedStaysClosed'
    BY <1>5 DEF UpdateOrder, Committed, Reply, history, TypeInv, TypeOK, Control, ClosedStaysClosed, Asked, Kind, Target, Cancellable
  <1>6. ASSUME NEW r \in Requests, UpdateContact(r) \/ UpdateStock(r) PROVE ClosedStaysClosed'
    BY <1>6 DEF UpdateContact, UpdateStock, Committed, Reply, effects, tables, history, TypeInv, TypeOK, Control, ClosedStaysClosed, Asked, Kind, Target
  <1>7. ASSUME NEW o \in Orders, Advance(o) PROVE ClosedStaysClosed'
    <2>1. \A x \in Orders : ~Cancellable(status[x]) => ~Cancellable(status'[x])
      BY <1>7 DEF Advance, Cancellable, TypeInv, TypeOK
    <2> QED BY <1>7, <2>1 DEF Advance, history, ClosedStaysClosed, Asked, Kind, Target
  <1>8. CASE UNCHANGED vars
    BY <1>8 DEF vars, effects, tables, history, ClosedStaysClosed, Asked, Kind, Target
  <1> QED BY <1>1, <1>2, <1>3, <1>4, <1>5, <1>6, <1>7, <1>8 DEF Next, Handle

(* What is cancelled was open when the cancellation arrived. *)
THEOREM CancelledWasOpen == Spec => []CancelsFoundOrdersOpen
  <1>1. Init => ClosedStaysClosed
    BY DEF Init, ClosedStaysClosed, Asked
  <1>2. TypeInv /\ ClosedStaysClosed => CancelsFoundOrdersOpen
    BY DEF TypeInv, Control, ClosedStaysClosed, Asked, Cancellable, CancelsFoundOrdersOpen
  <1>3. Spec => [](TypeInv /\ ClosedStaysClosed)
    BY <1>1, TypeInit, TypeStep, ClosedStep, PTL DEF Spec
  <1> QED BY <1>2, <1>3, PTL

-----------------------------------------------------------------------------
(* Nothing that was answered becomes unanswered. *)
LEMMA EarlierStep == TypeInv /\ EarlierAreDone /\ [Next]_vars => EarlierAreDone'
  <1> SUFFICES ASSUME TypeInv, EarlierAreDone, [Next]_vars PROVE EarlierAreDone'
    OBVIOUS
  <1>1. ASSUME NEW r \in Requests, NEW c \in Calls, Receive(r, c) PROVE EarlierAreDone'
    BY <1>1 DEF Receive, Goto, TypeInv, TypeOK, EarlierAreDone
  <1>2. ASSUME NEW r \in Requests, Handle(r) PROVE EarlierAreDone'
    <2>1. earlier' = earlier
      BY <1>2 DEF Handle, Deny, Admit, StatementFails, SelectOrder, UpdateOrder, SelectCustomer,
                  UpdateContact, UpdateStock, history
    <2>2. \A q \in Requests : pc[q] = "done" => pc'[q] = "done"
      BY <1>2 DEF Handle, Deny, Admit, StatementFails, SelectOrder, UpdateOrder, SelectCustomer,
                  UpdateContact, UpdateStock, Committed, Reply, Goto, TypeInv, TypeOK
    <2> QED BY <2>1, <2>2 DEF EarlierAreDone, TypeInv, TypeOK
  <1>3. ASSUME NEW o \in Orders, Advance(o) PROVE EarlierAreDone'
    BY <1>3 DEF Advance, history, EarlierAreDone
  <1>4. CASE UNCHANGED vars
    BY <1>4 DEF vars, history, EarlierAreDone
  <1> QED BY <1>1, <1>2, <1>3, <1>4 DEF Next

(* A step that writes no column of a contact or a stock.                   *)
LEMMA ColumnsKept ==
  ASSUME TypeInv, ColumnsHaveWriters, UNCHANGED <<contact, stock>>,
         \A q \in Requests : wrote[q] \/ wrote'[q] =>
            /\ call'[q] = call[q] /\ earlier'[q] = earlier[q]
            /\ Kind(q) # "cancel" => wrote'[q] = wrote[q]
  PROVE  ColumnsHaveWriters'
  <1> SUFFICES ASSUME NEW r \in Requests, wrote'[r], Kind(r)' # "cancel", NEW f \in DOMAIN Given(r)'
               PROVE  \E q \in Requests : LastWriter(r, f, q)'
    BY DEF ColumnsHaveWriters
  <1>1. wrote[r] /\ call'[r] = call[r] /\ Kind(r) # "cancel" /\ f \in DOMAIN Given(r)
    BY DEF Kind, Given
  <1>2. PICK q \in Requests : LastWriter(r, f, q)
    BY <1>1 DEF ColumnsHaveWriters
  <1>3. wrote'[q] /\ call'[q] = call[q] /\ earlier'[r] = earlier[r]
    BY <1>1, <1>2 DEF LastWriter, SameColumn
  <1> QED BY <1>1, <1>2, <1>3 DEF LastWriter, SameColumn, Column, Kind, Target, Given

(* A request that has just written is the last writer of its columns.      *)
LEMMA ColumnsWritten ==
  ASSUME TypeInv, EarlierAreDone, ColumnsHaveWriters, NEW p \in Requests,
         pc[p] # "done", Kind(p) # "cancel", UNCHANGED <<call, earlier>>,
         wrote' = [wrote EXCEPT ![p] = TRUE],
         \A f \in DOMAIN Given(p) : Column(Target(p), f)' = Given(p)[f],
         \A r \in Requests : wrote[r] /\ Kind(r) # "cancel" =>
           \A f \in DOMAIN Given(r) : ~SameColumn(r, p, f) =>
             Column(Target(r), f)' = Column(Target(r), f)
  PROVE  ColumnsHaveWriters'
  <1> SUFFICES ASSUME NEW r \in Requests, wrote'[r], Kind(r)' # "cancel", NEW f \in DOMAIN Given(r)'
               PROVE  \E q \in Requests : LastWriter(r, f, q)'
    BY DEF ColumnsHaveWriters
  <1>1. \A q \in Requests : /\ Kind(q)' = Kind(q) /\ Target(q)' = Target(q) /\ Given(q)' = Given(q)
                            /\ p \notin earlier[q]
    BY DEF Kind, Target, Given, EarlierAreDone, TypeInv, TypeOK
  <1>2. wrote' \in [Requests -> BOOLEAN] /\ wrote'[p] /\ \A q \in Requests : wrote[q] => wrote'[q]
    BY DEF TypeInv, TypeOK
  <1>3. CASE SameColumn(r, p, f)
    <2>1. f \in DOMAIN Given(p) /\ Target(p) = Target(r)
      BY <1>3 DEF SameColumn
    <2>2. Column(Target(r), f)' = Given(p)[f]
      BY <1>1, <2>1 DEF Column
    <2> QED BY <1>1, <1>2, <1>3, <2>2 DEF LastWriter, SameColumn
  <1>4. CASE ~SameColumn(r, p, f)
    <2>1. r # p /\ wrote[r]
      BY <1>1, <1>4 DEF SameColumn, TypeInv, TypeOK
    <2>2. PICK q \in Requests : LastWriter(r, f, q)
      BY <1>1, <2>1 DEF ColumnsHaveWriters
    <2>3. Column(Target(r), f)' = Column(Target(r), f)
      BY <1>1, <1>4, <2>1
    <2> QED BY <1>1, <1>2, <2>2, <2>3 DEF LastWriter, SameColumn
  <1> QED BY <1>3, <1>4

LEMMA ColumnsStep == TypeInv /\ EarlierAreDone /\ ColumnsHaveWriters /\ [Next]_vars => ColumnsHaveWriters'
  <1> SUFFICES ASSUME TypeInv, EarlierAreDone, ColumnsHaveWriters, [Next]_vars PROVE ColumnsHaveWriters'
    OBVIOUS
  <1>1. ASSUME NEW r \in Requests, NEW c \in Calls, Receive(r, c) PROVE ColumnsHaveWriters'
    BY <1>1, ColumnsKept DEF Receive, Goto, effects, tables, TypeInv, TypeOK, Control
  <1>2. ASSUME NEW r \in Requests,
               Deny(r) \/ Admit(r) \/ StatementFails(r) \/ SelectOrder(r) \/ SelectCustomer(r)
        PROVE ColumnsHaveWriters'
    <2>1. UNCHANGED <<call, earlier, wrote, contact, stock>>
      BY <1>2 DEF Deny, Admit, StatementFails, SelectOrder, SelectCustomer, effects, tables, history
    <2> QED BY <2>1, ColumnsKept
  <1>3. ASSUME NEW r \in Requests, UpdateOrder(r) PROVE ColumnsHaveWriters'
    BY <1>3, ColumnsKept DEF UpdateOrder, Committed, history, TypeInv, TypeOK
  <1>4. ASSUME NEW p \in Requests, UpdateContact(p) PROVE ColumnsHaveWriters'
    <2>1. /\ call[p] \in Calls /\ Kind(p) = "contact" /\ Target(p) \in Customers /\ pc[p] # "done"
          /\ contact \in [Customers -> [ContactFields -> Texts]]
          /\ contact' = [contact EXCEPT ![Target(p)] = Merge(@, Given(p))]
      BY <1>4 DEF UpdateContact, TypeInv, TypeOK, Control, Asked, Kind
    <2>2. UNCHANGED <<call, earlier, stock>> /\ wrote' = [wrote EXCEPT ![p] = TRUE]
      BY <1>4 DEF UpdateContact, Committed, history
    <2>3. DOMAIN Given(p) \subseteq ContactFields
      BY <2>1, FieldsOfKind DEF Kind, Given
    <2>4. \A f \in DOMAIN Given(p) : Column(Target(p), f)' = Given(p)[f]
      BY <2>1, <2>2, <2>3 DEF Column, Merge, Target, ContactFields
    <2>5. ASSUME NEW r \in Requests, wrote[r], Kind(r) # "cancel", NEW f \in DOMAIN Given(r), ~SameColumn(r, p, f)
          PROVE  Column(Target(r), f)' = Column(Target(r), f)
      <3>1. Target(r)' = Target(r) /\ call[r] \in Calls
        BY <2>2, <2>5 DEF Target, TypeInv, Control, Asked
      <3>2. CASE f = "quantity"
        BY <2>2, <3>1, <3>2 DEF Column
      <3>3. CASE f # "quantity"
        <4>1. Kind(r) = "contact" /\ f \in ContactFields
          BY <2>5, <3>1, <3>3, FieldsOfKind, CallsTyped DEF Kind, Given, Kinds
        <4>2. Target(r) # Target(p) \/ f \notin DOMAIN Given(p)
          BY <2>1, <2>5, <4>1 DEF SameColumn
        <4>3. contact'[Target(r)][f] = contact[Target(r)][f]
          BY <2>1, <4>1, <4>2 DEF Merge
        <4> QED BY <3>1, <3>3, <4>3 DEF Column
      <3> QED BY <3>2, <3>3
    <2> QED BY <2>1, <2>2, <2>4, <2>5, ColumnsWritten
  <1>5. ASSUME NEW p \in Requests, UpdateStock(p) PROVE ColumnsHaveWriters'
    <2>1. CASE Target(p) \notin Stocks
      <3>1. UNCHANGED <<call, earlier, wrote, contact, stock>>
        BY <1>5, <2>1 DEF UpdateStock, effects, tables, history
      <3> QED BY <3>1, ColumnsKept
    <2>2. CASE Target(p) \in Stocks
      <3>1. /\ call[p] \in Calls /\ Kind(p) = "stock" /\ pc[p] # "done"
            /\ stock \in [Stocks -> Nat]
            /\ stock' = [stock EXCEPT ![Target(p)] = Given(p)["quantity"]]
        BY <1>5, <2>2 DEF UpdateStock, TypeInv, TypeOK, Control, Asked, Kind
      <3>2. UNCHANGED <<call, earlier, contact>> /\ wrote' = [wrote EXCEPT ![p] = TRUE]
        BY <1>5, <2>2 DEF UpdateStock, Committed, history
      <3>3. DOMAIN Given(p) \subseteq {"quantity"}
        BY <3>1, FieldsOfKind DEF Kind, Given
      <3>4. \A f \in DOMAIN Given(p) : Column(Target(p), f)' = Given(p)[f]
        BY <2>2, <3>1, <3>2, <3>3 DEF Column, Target
      <3>5. ASSUME NEW r \in Requests, wrote[r], Kind(r) # "cancel", NEW f \in DOMAIN Given(r), ~SameColumn(r, p, f)
            PROVE  Column(Target(r), f)' = Column(Target(r), f)
        <4>1. Target(r)' = Target(r) /\ call[r] \in Calls
          BY <3>2, <3>5 DEF Target, TypeInv, Control, Asked
        <4>2. CASE f # "quantity"
          BY <3>2, <4>1, <4>2 DEF Column
        <4>3. CASE f = "quantity"
          <5>1. Kind(r) = "stock"
            BY <3>5, <4>1, <4>3, FieldsOfKind, CallsTyped DEF Kind, Given, Kinds, ContactFields
          <5>2. f \in DOMAIN Given(p)
            BY <1>5, <3>1, <4>3 DEF UpdateStock, TypeInv, Control, BodyFits, Kind, Given
          <5>3. Target(r) # Target(p)
            BY <3>1, <3>5, <5>1, <5>2 DEF SameColumn
          <5> QED BY <3>1, <4>1, <4>3, <5>3 DEF Column
        <4> QED BY <4>2, <4>3
      <3> QED BY <3>1, <3>2, <3>4, <3>5, ColumnsWritten
    <2> QED BY <2>1, <2>2
  <1>6. ASSUME NEW o \in Orders, Advance(o) PROVE ColumnsHaveWriters'
    BY <1>6, ColumnsKept DEF Advance, history
  <1>7. CASE UNCHANGED vars
    BY <1>7, ColumnsKept DEF vars, effects, tables, history
  <1> QED BY <1>1, <1>2, <1>3, <1>4, <1>5, <1>6, <1>7 DEF Next, Handle

(* No update of a contact or a stock is lost. *)
THEOREM UpdatesAreKept == Spec => []NoFieldIsLost
  <1>1. Init => EarlierAreDone /\ ColumnsHaveWriters
    BY DEF Init, EarlierAreDone, ColumnsHaveWriters
  <1>2. ColumnsHaveWriters => NoFieldIsLost
    BY DEF ColumnsHaveWriters, LastWriter, NoFieldIsLost
  <1>3. Spec => [](TypeInv /\ EarlierAreDone /\ ColumnsHaveWriters)
    BY <1>1, TypeInit, TypeStep, EarlierStep, ColumnsStep, PTL DEF Spec
  <1> QED BY <1>2, <1>3, PTL

-----------------------------------------------------------------------------
(* A step of one request changes the mapped state of that request only. *)
LEMMA WireStep ==
  ASSUME TypeInv, NEW r \in Requests, NEW p, NEW a,
         pc' = [pc EXCEPT ![r] = p], answer' = [answer EXCEPT ![r] = a]
  PROVE  Wire' = [Wire EXCEPT ![r] = WireOf(p, a)]
  <1>1. ASSUME NEW q \in Requests
        PROVE  WireOf(pc[q], answer[q])' = IF q = r THEN WireOf(p, a) ELSE WireOf(pc[q], answer[q])
    <2>1. pc'[q] = (IF q = r THEN p ELSE pc[q]) /\ answer'[q] = (IF q = r THEN a ELSE answer[q])
      BY DEF TypeInv, TypeOK
    <2>2. CASE q = r
      <3>1. pc'[q] = p /\ answer'[q] = a
        BY <2>1, <2>2
      <3> QED BY <2>2, <3>1 DEF WireOf
    <2>3. CASE q # r
      <3>1. pc'[q] = pc[q] /\ answer'[q] = answer[q]
        BY <2>1, <2>3
      <3> QED BY <2>3, <3>1 DEF WireOf
    <2> QED BY <2>2, <2>3
  <1>2. Wire' = [q \in Requests |-> IF q = r THEN WireOf(p, a) ELSE WireOf(pc[q], answer[q])]
    BY <1>1 DEF Wire
  <1> QED BY <1>2 DEF Wire

LEMMA WireValues ==
  /\ WireOf("idle", "none") = "idle"
  /\ \A p : p # "idle" =>
       /\ WireOf(p, "none") = "inflight"
       /\ WireOf(p, "ok") = "ok"
       /\ WireOf(p, "error") = "failed"
       /\ \A a \in Refusals : WireOf(p, a) = "refused"
  BY DEF WireOf, Refusals

(* Steps that the contract does not see. *)
LEMMA QuietStep ==
  ASSUME TypeInv, NEW r \in Requests, pc[r] \notin {"idle", "done"}, NEW label \in {"admitted", "checked"},
         Goto(r, label), UNCHANGED <<call, version>>
  PROVE  UNCHANGED Contract!vars
  <1>0. answer[r] = "none"
    BY DEF TypeInv, Control
  <1>1. Wire' = [Wire EXCEPT ![r] = WireOf(label, "none")]
    <2>1. answer' = [answer EXCEPT ![r] = "none"]
      BY <1>0 DEF Goto, TypeInv, TypeOK
    <2> QED BY <2>1, WireStep DEF Goto
  <1>2. Wire[r] = "inflight" /\ WireOf(label, "none") = "inflight"
    BY <1>0, WireValues DEF Wire
  <1>3. Wire' = Wire
    BY <1>1, <1>2 DEF Wire
  <1>4. Addressed' = Addressed
    BY DEF Addressed, Target, Goto, TypeInv, TypeOK
  <1> QED BY <1>3, <1>4 DEF Contract!vars

LEMMA ReplyStep ==
  ASSUME TypeInv, NEW r \in Requests, pc[r] \notin {"idle", "done"}, NEW code, Reply(r, code), UNCHANGED call
  PROVE  /\ Wire[r] = "inflight"
         /\ Wire' = [Wire EXCEPT ![r] = WireOf("done", code)]
         /\ Addressed' = Addressed
         /\ Addressed[r] = Target(r)
  <1>1. answer[r] = "none"
    BY DEF TypeInv, Control
  <1>2. Wire[r] = "inflight"
    BY <1>1, WireValues DEF Wire
  <1>3. Wire' = [Wire EXCEPT ![r] = WireOf("done", code)]
    BY WireStep DEF Reply
  <1>4. Addressed' = Addressed
    BY DEF Addressed, Target, Reply, TypeInv, TypeOK
  <1>5. Addressed[r] = Target(r)
    BY DEF Addressed
  <1> QED BY <1>2, <1>3, <1>4, <1>5

(* An answer that is no 200, without an effect. *)
LEMMA RefusalStep ==
  ASSUME TypeInv, NEW r \in Requests, pc[r] \notin {"idle", "done"},
         \E code \in Refusals \cup {"error"} : Reply(r, code), UNCHANGED <<call, version>>
  PROVE  Contract!Refuses(r)
  <1>1. PICK code \in Refusals \cup {"error"} : Reply(r, code)
    OBVIOUS
  <1>2. WireOf("done", code) \in {"refused", "failed"}
    BY WireValues
  <1> QED BY <1>1, <1>2, ReplyStep DEF Contract!Refuses

(* A committed update. *)
LEMMA CommitStep ==
  ASSUME TypeInv, NEW r \in Requests, pc[r] \notin {"idle", "done"}, Committed(r), UNCHANGED call
  PROVE  Contract!Applies(r)
  <1>1. PICK code \in {"ok", "error"} : Reply(r, code)
    BY DEF Committed
  <1>2. WireOf("done", code) \in {"ok", "failed"}
    BY WireValues
  <1>3. version' = [version EXCEPT ![Addressed[r]] = @ + 1]
    BY <1>1, ReplyStep DEF Committed
  <1> QED BY <1>1, <1>2, <1>3, ReplyStep DEF Contract!Applies

LEMMA ContractStep == TypeInv /\ [Next]_vars => [Contract!Next]_(Contract!vars)
  <1> SUFFICES ASSUME TypeInv, [Next]_vars PROVE Contract!Next \/ UNCHANGED Contract!vars
    OBVIOUS
  <1>1. ASSUME NEW r \in Requests, NEW c \in Calls, Receive(r, c) PROVE Contract!Arrives(r)
    <2>1. pc[r] = "idle" /\ answer[r] = "none" /\ c.target \in Targets
      BY <1>1, CallsTyped DEF Receive, TypeInv, Control
    <2>2. Wire[r] = "idle" /\ Wire' = [Wire EXCEPT ![r] = "inflight"]
      <3>1. answer' = [answer EXCEPT ![r] = "none"]
        BY <1>1, <2>1 DEF Receive, Goto, TypeInv, TypeOK
      <3>2. Wire' = [Wire EXCEPT ![r] = WireOf("received", "none")]
        BY <1>1, <3>1, WireStep DEF Receive, Goto
      <3>3. Wire[r] = WireOf("idle", "none")
        BY <2>1 DEF Wire
      <3> QED BY <3>2, <3>3, WireValues
    <2>3. Addressed' = [Addressed EXCEPT ![r] = c.target]
      BY <1>1, <2>1 DEF Receive, Goto, Addressed, Target, TypeInv, TypeOK
    <2> QED BY <1>1, <2>1, <2>2, <2>3 DEF Contract!Arrives, Receive, effects
  <1>2. ASSUME NEW r \in Requests, Deny(r) \/ StatementFails(r) PROVE Contract!Refuses(r)
    <2>1. pc[r] \notin {"idle", "done"} /\ UNCHANGED <<call, version>>
      BY <1>2 DEF Deny, StatementFails, effects, history
    <2> QED BY <1>2, <2>1, RefusalStep DEF Deny, StatementFails, Refusals
  <1>3. ASSUME NEW r \in Requests, Admit(r) \/ SelectOrder(r) \/ SelectCustomer(r)
        PROVE  Contract!Refuses(r) \/ UNCHANGED Contract!vars
    <2>1. pc[r] \notin {"idle", "done"} /\ UNCHANGED <<call, version>>
      BY <1>3 DEF Admit, SelectOrder, SelectCustomer, effects, history
    <2>2. \/ \E code \in Refusals \cup {"error"} : Reply(r, code)
          \/ \E label \in {"admitted", "checked"} : Goto(r, label)
      BY <1>3 DEF Admit, SelectOrder, SelectCustomer, Refusals
    <2>3. CASE \E label \in {"admitted", "checked"} : Goto(r, label)
      BY <2>1, <2>3, QuietStep DEF Goto, TypeInv, TypeOK
    <2> QED BY <2>1, <2>2, <2>3, RefusalStep
  <1>4. ASSUME NEW r \in Requests, UpdateOrder(r) \/ UpdateContact(r) PROVE Contract!Applies(r)
    BY <1>4, CommitStep DEF UpdateOrder, UpdateContact, history
  <1>5. ASSUME NEW r \in Requests, UpdateStock(r) PROVE Contract!Applies(r) \/ Contract!Refuses(r)
    <2>1. pc[r] \notin {"idle", "done"} /\ UNCHANGED call
      BY <1>5 DEF UpdateStock, history
    <2>2. \/ Reply(r, "notfound") /\ UNCHANGED version
          \/ Committed(r)
      BY <1>5 DEF UpdateStock, effects
    <2> QED BY <2>1, <2>2, CommitStep, RefusalStep DEF Refusals
  <1>6. ASSUME NEW o \in Orders, Advance(o) PROVE UNCHANGED Contract!vars
    BY <1>6 DEF Advance, history, Contract!vars, Wire, Addressed, Target
  <1>7. CASE UNCHANGED vars
    BY <1>7 DEF vars, effects, history, Contract!vars, Wire, Addressed, Target
  <1> QED BY <1>1, <1>2, <1>3, <1>4, <1>5, <1>6, <1>7 DEF Next, Handle, Contract!Next

(* The services keep the contract CommandExecution assumes of them. *)
THEOREM ServicesKeepContract == Spec => ImplementsServiceContract
  <1>1. Init => Contract!Init
    <2> SUFFICES ASSUME Init PROVE Contract!Init
      OBVIOUS
    <2>1. Wire = [r \in Requests |-> "idle"]
      BY WireValues DEF Init, Wire
    <2>2. Addressed \in [Requests -> Targets]
      BY CallsTyped DEF Init, Addressed
    <2> QED BY <2>1, <2>2 DEF Init, Contract!Init
  <1>2. Spec => []TypeInv
    BY TypeInit, TypeStep, PTL DEF Spec
  <1> QED BY <1>1, <1>2, ContractStep, PTL DEF Spec, Contract!Spec, ImplementsServiceContract

=============================================================================
