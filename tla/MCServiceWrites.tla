--------------------------- MODULE MCServiceWrites ---------------------------
(* An order, a customer and a stock in the east, and callers that may, may *)
(* not, or may elsewhere; a record that does not exist.                    *)
EXTENDS ServiceWrites, TLC

CONSTANTS r1, r2, r3, o1, c1, s1, ghost

Who(role, region) == [role |-> role, region |-> region]
Admin == Who("admin", NoRegion)
East  == Who("sales", "EAST")
West  == Who("sales", "WEST")
Wh    == Who("warehouse", NoRegion)

Ask(by, kind, target, given) ==
  [by |-> by, kind |-> kind, target |-> target, given |-> given, readable |-> TRUE]
Nothing == [f \in {} |-> f]

MCCalls ==
  {Ask(East, "cancel", o1, Nothing), Ask(West, "cancel", o1, Nothing),
   Ask(Who("sales", NoRegion), "cancel", o1, Nothing),
   Ask(East, "contact", c1, [email |-> "b"]), Ask(Admin, "contact", c1, [phone |-> "b"]),
   Ask(Admin, "contact", c1, Nothing), Ask(Who("support", NoRegion), "contact", c1, [phone |-> "b"]),
   [Ask(Admin, "contact", c1, Nothing) EXCEPT !.readable = FALSE],
   Ask(Wh, "stock", s1, [quantity |-> 1]), Ask(Admin, "stock", s1, [quantity |-> 2]),
   Ask(Wh, "stock", s1, [quantity |-> -1]), Ask(Wh, "stock", ghost, [quantity |-> 1])}

MCRegionOf == [t \in Targets |-> "EAST"]

(* From an order just placed; Advance and the cancellations reach the other*)
(* statuses.                                                               *)
MCInit ==
  /\ status = [o \in Orders |-> "PLACED"]
  /\ contact = [c \in Customers |-> [f \in ContactFields |-> "a"]]
  /\ stock = [k \in Stocks |-> 0]
  /\ Init

MCSpec == MCInit /\ [][Next]_vars

Symmetric == Permutations(Requests)
=============================================================================
