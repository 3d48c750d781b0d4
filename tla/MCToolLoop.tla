----------------------------- MODULE MCToolLoop -----------------------------
(* Instances of ToolLoop: a search for customers, a sorted one, the orders *)
(* of a customer found by it, and the open invoices of that customer.      *)
EXTENDS ToolLoop

CONSTANTS a1, a2, c1, c2, o1, o2, n1, n2,
          find, oldest, orders, unpaid, bogus, change1, change2, screen1

Person(c, n) == [ids |-> {c}, name |-> n]
Order(o, c) == [ids |-> {o, c}, name |-> Nameless]
List(rows, n) == [kind |-> "list", items |-> rows, count |-> n]
Object(row) == [kind |-> "object", items |-> <<row>>, count |-> 0]
NoData(k) == [kind |-> k, items |-> <<>>, count |-> 0]

MCArgs == [x \in Choices |-> CASE x \in {orders, unpaid, change1, screen1} -> {c1}
                               [] x = change2 -> {c2}
                               [] OTHER -> {}]

MCUnfit == {bogus} \cap Calls
MCSorted == {oldest} \cap Calls

Two == <<Person(c1, n1), Person(c2, n2)>>
MCResultsOf ==
  [x \in Calls |->
     CASE x = find   -> {List(<<Person(c1, n1)>>, 1), List(Two, 2), List(Two, 25), NoData("broken")}
       [] x = oldest -> {List(Two, 2), NoData("list")}
       [] x = orders -> {List(<<Order(o1, c1), Order(o2, c1)>>, 2), NoData("denied")}
       [] x = unpaid -> {Object(Order(o1, c1)), NoData("refused")}
       [] OTHER      -> {}]

Say(ids, names) == [ids |-> ids, names |-> names]
Nothing == Say({}, {})

(* Nobody is named; one question names an identifier and a customer. *)
OneNamed == [a \in Asks |-> IF a = a1 THEN Nothing ELSE Say({c2}, {n1})]
Unnamed == [a \in Asks |-> Nothing]

(* What an earlier conversation may have left in the Executor. *)
Leftovers ==
  {Reset(Nothing)} \cup
  {Learn(Reset(w), x, FALSE) : w \in {Nothing, Say({c2}, {n1})},
                               x \in MCResultsOf[find] \cup MCResultsOf[orders]}

(* An Executor used before, and one question still to come: the others have *)
(* been declined.                                                           *)
UsedInit ==
  /\ known \in Leftovers
  /\ \E a \in Asks : pc = [b \in Asks |-> IF b = a THEN "idle" ELSE "declined"]
  /\ FreshLocals

UsedSpec == UsedInit /\ [][Next]_vars /\ Fairness
=============================================================================
