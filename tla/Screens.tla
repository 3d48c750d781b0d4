------------------------------ MODULE Screens ------------------------------
(***************************************************************************)
(* The list screens: the page in the browser (useResource, usePaging and   *)
(* the page components), the handlers of the BFF that join service lists   *)
(* into a page (handleOrders, handleStock, handleCustomers), and the       *)
(* summary of a screen that the assistant shows before one goes there      *)
(* (screenSummary).                                                        *)
(*                                                                         *)
(* A page has no user until the list of users has come, for ever if it     *)
(* does not come.                                                          *)
(*                                                                         *)
(* A service call is one step.  Of the filters the model has the name of a *)
(* customer and the two thresholds of the stock; the names put beside the  *)
(* orders are left out, and so are sorting and the size of a page.         *)
(***************************************************************************)
EXTENDS Naturals, FiniteSets, AccessControl

CONSTANTS
  Users,                          \* identities [role, region]
  Orders, Stocks, Customers,      \* the rows there may be, numbered
  Owner, OrderRegion,             \* of an order: its customer, its region
  CustomerRegion, Quantity,
  Named,                          \* the customers a typed name matches
  Thresholds,                     \* typed numbers
  Changing,                       \* rows that come and go
  PageSize, PreviewRows, MaxResolve, DefaultThreshold,
  Requests,                       \* numbers of the requests under way at once
  None,
  MaxActs, MaxChanges             \* bounds of the model: acts of the user, writes

ASSUME ConstantsTyped ==
  /\ \A u \in Users : Authenticated(u)
  /\ \A S \in {Orders, Stocks, Customers} : S \subseteq Nat /\ IsFiniteSet(S)
  /\ Orders \cap Stocks = {} /\ Stocks \cap Customers = {} /\ Customers \cap Orders = {}
  /\ Owner \in [Orders -> Customers]
  /\ Quantity \in [Stocks -> Nat] /\ Thresholds \subseteq Nat
  /\ \A n \in DOMAIN Named : Named[n] \subseteq Customers
  /\ Changing \subseteq Orders \cup Stocks \cup Customers
  /\ {PageSize, PreviewRows, MaxResolve} \subseteq Nat \ {0}
  /\ {DefaultThreshold, MaxActs, MaxChanges} \subseteq Nat
  /\ Requests \subseteq Nat
  /\ None \notin DOMAIN Named \cup Requests \cup Nat /\ None \notin Users

VARIABLES
  page,      \* what the page is to show: [user, route, filter, offset]
  live,      \* the request whose answer the page waits for, or got
  loaded,    \* what was loaded last: [key, route, reply, quiet]
  requests,  \* [Requests -> a request, or None]
  there,     \* the rows there are
  changes, acts,
  strayed    \* the page may lie behind the end of the list for a known reason

vars == <<page, live, loaded, requests, there, changes, acts, strayed>>

Routes == {"/orders", "/stock", "/customers"}
ServiceOf(route) == CASE route = "/orders" -> "order"
                      [] route = "/stock" -> "inventory"
                      [] route = "/customers" -> "customer"

Assistant == "/assistant"
NoFilter == [name |-> None, below |-> None, at_most |-> None]
NameFilters == [name : DOMAIN Named \cup {None}, below : {None}, at_most : {None}]
StockFilters == [name : {None}, below : Thresholds \cup {None},
                 at_most : Thresholds \cup {DefaultThreshold, None}]
FiltersOf(route) ==
  CASE route = "/stock" -> StockFilters
    [] route \in {"/orders", "/customers"} -> NameFilters
    [] route = Assistant -> {NoFilter}

UserOrNone == Users \cup {None}

IsParams(p) ==
  /\ p \in [user : UserOrNone, route : Routes \cup {Assistant}, filter : NameFilters \cup StockFilters, offset : Nat]
  /\ p.filter \in FiltersOf(p.route)
Rows == Orders \cup Stocks \cup Customers

Replies == [status : {"ok", "denied", "failed", "ambiguous"}, count : Nat, items : SUBSET Rows]

(* A request: the call it is at, and what it knows.                        *)
Steps == {"resolve", "list", "answered", "delivered"}
Requested ==
  [kind : {"screen", "summary"},
   params : [user : UserOrNone, route : Routes, filter : NameFilters \cup StockFilters, offset : Nat],
   ids : SUBSET Customers, step : Steps, reply : Replies \cup {None},
   quiet : BOOLEAN]    \* nobody has written since it was asked

Loads ==
  [key : UserOrNone \X Routes \X (NameFilters \cup StockFilters) \X Nat, route : Routes,
   reply : Replies, quiet : BOOLEAN]

ASSUME NoneIsNoRecord == None \notin Replies \cup Requested \cup Loads

Reply(status, count, items) == [status |-> status, count |-> count, items |-> items]
Failure(status) == Reply(status, 0, {})

-----------------------------------------------------------------------------
(* The services. *)

RowsOf(route) ==
  CASE route = "/orders" -> Orders [] route = "/stock" -> Stocks [] route = "/customers" -> Customers

(* One row more, to see whether there are more. *)
SliceAndNext(M, k, n) ==
  {r \in M : LET before == Cardinality({q \in M : q < r}) IN k <= before /\ before <= k + n}

(* The n rows of M behind the first k. *)
Slice(M, k, n) ==
  {r \in M : LET before == Cardinality({q \in M : q < r}) IN k <= before /\ before < k + n}

(* A service answers with one page of the rows M, and the count of all. *)
Answer(user, route, M, offset, limit) ==
  IF AccessTo(user, ServiceOf(route)) = "deny" THEN Failure("denied")
  ELSE Reply("ok", Cardinality(M), Slice(M, offset, limit))

(* GET /customers?name= *)
CustomersOf(user, name) ==
  {c \in there \cap Customers : /\ name # None => c \in Named[name]
                                /\ InScope(user, "customer", CustomerRegion[c])}

(* GET /orders?customer_ids=: no identifier is no condition. *)
OrdersOf(user, ids) ==
  {o \in there \cap Orders : /\ ids # {} => Owner[o] \in ids
                             /\ InScope(user, "order", OrderRegion[o])}

(* GET /stock/low?below=&threshold= *)
StocksOf(below, threshold) ==
  {s \in there \cap Stocks :
     IF below # None THEN Quantity[s] < below
     ELSE Quantity[s] <= (IF threshold = None THEN DefaultThreshold ELSE threshold)}

-----------------------------------------------------------------------------
(* The handlers of the BFF, call by call. *)

(* Take what the first page holds of a name that matches too many.        *)
ResolveSome(p) ==
  LET found == Answer(p.user, "/customers", CustomersOf(p.user, p.filter.name), 0, MaxResolve) IN
  [found EXCEPT !.count = Cardinality(found.items)]

(* The customers of a name; a name that matches too many is refused.       *)
Resolve(p) ==
  LET found == Answer(p.user, "/customers", CustomersOf(p.user, p.filter.name), 0, MaxResolve) IN
  IF Cardinality(found.items) < found.count THEN Failure("ambiguous") ELSE found

(* resolveCustomerIDs, which only the summary uses. *)
ResolveIDsSome(p) == ResolveSome(p)
ResolveIDs(p) == Resolve(p)

(* handleOrders, handleStock and handleCustomers; no customer, no order.   *)
ScreenList(p, ids) ==
  CASE p.route = "/orders" /\ p.filter.name # None /\ ids = {} -> Reply("ok", 0, {})
    [] p.route = "/orders" /\ (p.filter.name = None \/ ids # {}) ->
         Answer(p.user, p.route, OrdersOf(p.user, ids), p.offset, PageSize)
    [] p.route = "/stock" ->
         Answer(p.user, p.route, StocksOf(p.filter.below, p.filter.at_most), p.offset, PageSize)
    [] p.route = "/customers" ->
         Answer(p.user, p.route, CustomersOf(p.user, p.filter.name), p.offset, PageSize)

(* screenSummary has no case for a name nobody has, and passes at_most on  *)
(* under a name the service does not know.                                 *)
SummaryList(p, ids) ==
  CASE p.route = "/orders" -> Answer(p.user, p.route, OrdersOf(p.user, ids), 0, PreviewRows)
    [] p.route = "/stock" ->
         Answer(p.user, p.route, StocksOf(p.filter.below, None), 0, PreviewRows)
    [] p.route = "/customers" ->
         Answer(p.user, p.route, CustomersOf(p.user, p.filter.name), 0, PreviewRows)

List(q) == IF q.kind = "screen" THEN ScreenList(q.params, q.ids) ELSE SummaryList(q.params, q.ids)

(* A page without a user asks nobody, and takes an empty list.             *)
NotAsked == Reply("ok", 0, {})

Asks(kind, p) ==
  [kind |-> kind, params |-> p, ids |-> {}, quiet |-> TRUE,
   reply |-> IF p.user = None THEN NotAsked ELSE None,
   step |-> CASE p.user = None -> "answered"
              [] p.user # None /\ p.route = "/orders" /\ p.filter.name # None -> "resolve"
              [] p.user # None /\ (p.route # "/orders" \/ p.filter.name = None) -> "list"]

-----------------------------------------------------------------------------
(* useResource: the key of a page, and whether it is being loaded.         *)
KeyWithoutUser(p) == <<p.route, p.filter, p.offset>>
Key(p) == <<p.user, p.route, p.filter, p.offset>>

Loading == page.route # Assistant /\ (loaded = None \/ loaded.key # Key(page))

WholePages(offset) == \E k \in 0 .. offset : offset = k * PageSize

TypeOK ==
  /\ IsParams(page) /\ WholePages(page.offset)
  /\ live \in Requests \cup {None} /\ (live # None => requests[live] # None)
  /\ loaded \in Loads \cup {None}
  /\ loaded # None =>
       loaded.route = page.route /\ Cardinality(loaded.reply.items) <= PageSize
  /\ requests \in [Requests -> Requested \cup {None}]
  /\ \A i \in Requests : requests[i] # None =>
       /\ IsParams(requests[i].params)
       /\ requests[i].reply # None <=> requests[i].step \in {"answered", "delivered"}
  /\ there \subseteq Rows
  /\ changes \in 0 .. MaxChanges /\ acts \in 0 .. MaxActs /\ strayed \in BOOLEAN

Init ==
  /\ page \in [user : {None}, route : Routes \cup {Assistant}, filter : {NoFilter}, offset : {0}]
  /\ live = None /\ loaded = None
  /\ requests = [i \in Requests |-> None]
  /\ there = Rows
  /\ changes = 0 /\ acts = 0 /\ strayed = FALSE

Act == acts < MaxActs /\ acts' = acts + 1

(* A page goes: its effect is undone, what it had loaded is forgotten.     *)
Unmount ==
  /\ loaded' = None /\ live' = None
  /\ requests' = [i \in Requests |->
                    IF i = live /\ requests[i].step = "delivered" THEN None ELSE requests[i]]

(* Another page is opened, from the menu or from the assistant.            *)
Open ==
  /\ Act
  /\ \E r \in (Routes \cup {Assistant}) \ {page.route} : \E f \in FiltersOf(r) :
       page' = [page EXCEPT !.route = r, !.filter = f, !.offset = 0]
  /\ strayed' = FALSE
  /\ Unmount
  /\ UNCHANGED <<there, changes>>

(* The page number outlives the filter. *)
ChangeFilterOnly(f) == page' = [page EXCEPT !.filter = f] /\ UNCHANGED strayed

ChangeFilter(f) == page' = [page EXCEPT !.filter = f, !.offset = 0] /\ strayed' = FALSE

(* A filter is typed; the field of the stock page is at_most, if it is set.*)
SetFilter ==
  LET filter == page.filter IN
  /\ Act
  /\ \/ /\ page.route \in {"/orders", "/customers"}
        /\ \E n \in (DOMAIN Named \cup {None}) \ {filter.name} : ChangeFilter([filter EXCEPT !.name = n])
     \/ /\ page.route = "/stock" /\ filter.at_most # None
        /\ \E t \in (Thresholds \cup {None}) \ {filter.at_most} :
             ChangeFilter([filter EXCEPT !.at_most = t])
     \/ /\ page.route = "/stock" /\ filter.at_most = None
        /\ \E t \in (Thresholds \cup {None}) \ {filter.below} :
             ChangeFilter([filter EXCEPT !.below = t])
  /\ UNCHANGED <<live, loaded, requests, there, changes>>

(* Pager: on by one page as long as the count loaded last has one, be it   *)
(* the count of another filter; or back.                                   *)
SetPage ==
  /\ Act
  /\ \/ /\ loaded # None /\ page.offset + PageSize < loaded.reply.count
        /\ page' = [page EXCEPT !.offset = @ + PageSize]
        /\ strayed' = (strayed \/ Loading \/ ~loaded.quiet)
     \/ /\ page.offset >= PageSize
        /\ page' = [page EXCEPT !.offset = @ - PageSize]
        /\ strayed' = (strayed /\ page.offset > PageSize)
  /\ UNCHANGED <<live, loaded, requests, there, changes>>

(* The list of users has come, and one of them is the current one.         *)
UsersCome ==
  /\ page.user = None
  /\ \E u \in Users : page' = [page EXCEPT !.user = u]
  /\ strayed' = (strayed \/ page.offset > 0)
  /\ UNCHANGED <<live, loaded, requests, there, changes, acts>>

(* Another user is chosen; the address stays as it is. *)
SwitchUser ==
  /\ page.user # None /\ Act
  /\ \E u \in Users \ {page.user} : page' = [page EXCEPT !.user = u]
  /\ strayed' = (strayed \/ page.offset > 0)
  /\ UNCHANGED <<live, loaded, requests, there, changes>>

(* StockPage writes the threshold of the service into the address.         *)
ShowDefault ==
  /\ page.route = "/stock" /\ page.filter.below = None /\ page.filter.at_most = None
  /\ page' = [page EXCEPT !.filter.at_most = DefaultThreshold]
  /\ UNCHANGED <<live, loaded, requests, there, changes, acts, strayed>>

Free(i) == requests[i] = None \/ (i = live /\ requests[i].step = "delivered")

(* The key changed: the effect of the old one is undone, the new one asks. *)
RunEffect ==
  /\ page.route \in Routes
  /\ live # None => Key(requests[live].params) # Key(page)
  /\ \E i \in Requests :
       /\ Free(i) /\ \A j \in Requests : Free(j) => i <= j
       /\ requests' = [j \in Requests |-> IF j = i THEN Asks("screen", page)
                                          ELSE IF Free(j) THEN None ELSE requests[j]]
       /\ live' = i
  /\ UNCHANGED <<page, loaded, there, changes, acts, strayed>>

(* The assistant proposes a screen, which handleAsk sums up first.         *)
Propose ==
  /\ page.route = Assistant /\ page.user # None
  /\ Act
  /\ \E r \in Routes : \E f \in FiltersOf(r) : \E i \in Requests :
       /\ requests[i] = None /\ \A j \in Requests : requests[j] = None => i <= j
       /\ requests' = [requests EXCEPT ![i] =
            Asks("summary", [user |-> page.user, route |-> r, filter |-> f, offset |-> 0])]
  /\ UNCHANGED <<page, live, loaded, there, changes, strayed>>

-----------------------------------------------------------------------------
(* The steps of a handler. *)

(* The call for the customers of a name. *)
ResolveNames(i) ==
  /\ requests[i] # None /\ requests[i].step = "resolve"
  /\ LET q == requests[i]
         found == IF q.kind = "screen" THEN Resolve(q.params) ELSE ResolveIDs(q.params) IN
     requests' = [requests EXCEPT ![i] =
       IF found.status = "ok" THEN [@ EXCEPT !.step = "list", !.ids = found.items]
                              ELSE [@ EXCEPT !.step = "answered", !.reply = found]]
  /\ UNCHANGED <<page, live, loaded, there, changes, acts, strayed>>

(* The call for the list itself; it ends the handler. *)
ListRows(i) ==
  /\ requests[i] # None /\ requests[i].step = "list"
  /\ requests' = [requests EXCEPT ![i].step = "answered", ![i].reply = List(requests[i])]
  /\ UNCHANGED <<page, live, loaded, there, changes, acts, strayed>>

(* A call fails, or the way back to the browser does. *)
Fail(i) ==
  /\ requests[i] # None /\ requests[i].step \in {"resolve", "list"}
  /\ requests' = [requests EXCEPT ![i].step = "answered", ![i].reply = Failure("failed")]
  /\ UNCHANGED <<page, live, loaded, there, changes, acts, strayed>>

Load(i) ==
  loaded' = [key |-> Key(requests[i].params), route |-> requests[i].params.route,
             reply |-> requests[i].reply, quiet |-> requests[i].quiet]

(* An answer is taken whether its effect is still the page's or not.       *)
TakeAny(i) ==
  /\ requests[i].params.route = page.route
  /\ Load(i)
  /\ requests' = [requests EXCEPT ![i] = IF i = live THEN [@ EXCEPT !.step = "delivered"] ELSE None]

(* An error is not caught. *)
TakeAnswers(i) ==
  IF i = live
  THEN /\ requests' = [requests EXCEPT ![i].step = "delivered"]
       /\ IF requests[i].reply.status = "ok" THEN Load(i) ELSE UNCHANGED loaded
  ELSE requests' = [requests EXCEPT ![i] = None] /\ UNCHANGED loaded

(* then and catch of useResource: a cancelled effect does nothing.         *)
Take(i) ==
  IF i = live
  THEN requests' = [requests EXCEPT ![i].step = "delivered"] /\ Load(i)
  ELSE requests' = [requests EXCEPT ![i] = None] /\ UNCHANGED loaded

(* An answer reaches the browser. *)
Deliver(i) ==
  /\ requests[i] # None /\ requests[i].step = "answered"
  /\ Take(i)
  /\ UNCHANGED <<page, live, there, changes, acts, strayed>>

(* A row comes into a table or leaves it. *)
Write ==
  /\ changes < MaxChanges /\ changes' = changes + 1
  /\ \E r \in Changing : there' = (there \ {r}) \cup ({r} \ there)
  /\ requests' = [i \in Requests |->
                    IF requests[i] = None THEN None ELSE [requests[i] EXCEPT !.quiet = FALSE]]
  /\ loaded' = IF loaded = None THEN None ELSE [loaded EXCEPT !.quiet = FALSE]
  /\ strayed' = (strayed \/ page.offset > 0)
  /\ UNCHANGED <<page, live, acts>>

Serve(i) == ResolveNames(i) \/ ListRows(i) \/ Deliver(i)

Next ==
  \/ Open \/ SetFilter \/ SetPage \/ UsersCome \/ SwitchUser \/ Propose
  \/ ShowDefault \/ RunEffect \/ Write
  \/ \E i \in Requests : Serve(i) \/ Fail(i)

Spec == Init /\ [][Next]_vars

(* Effects run, calls come back within their timeout, answers arrive.      *)
FairSpec ==
  /\ Spec
  /\ WF_vars(ShowDefault) /\ WF_vars(RunEffect)
  /\ \A i \in Requests : WF_vars(Serve(i))

-----------------------------------------------------------------------------
(* Properties. *)

(* Once the page has the answer to what it shows now, it shows that one,   *)
(* whatever other answers come in before or after (useResource.ts:15-21).  *)
AnswerOfTheKeyIsShown ==
  live # None /\ requests[live].step = "delivered" /\ Key(requests[live].params) = Key(page) =>
    ~Loading /\ loaded.reply = requests[live].reply

(* Nobody sees rows outside his region, or of a service closed to him, on  *)
(* a page that is not loading: not those of the user before him either     *)
(* (OrderPage.tsx:58).                                                     *)
RowsAreTheUsers ==
  ~Loading /\ loaded # None =>
    \A r \in loaded.reply.items :
      /\ AccessTo(page.user, ServiceOf(page.route)) # "deny"
      /\ r \in RowsOf(page.route)
      /\ r \in Orders => InScope(page.user, "order", OrderRegion[r])
      /\ r \in Customers => InScope(page.user, "customer", CustomerRegion[r])

(* To a user "nothing found" is shown only where the service counted       *)
(* nothing: a filter that cuts the list short does not leave the page      *)
(* behind its end (usePaging.ts:9-11).  It may lie there when the pager    *)
(* was used with the count of something else, when another user took over, *)
(* or when rows went.  A page without a user is not spoken of: it says     *)
(* "nothing found" of a list that nobody was asked for (OrderPage.tsx:66). *)
NothingFoundIsNothingThere ==
  ~Loading /\ loaded # None /\ page.user # None
    /\ loaded.reply.status = "ok" /\ loaded.reply.items = {} /\ ~strayed =>
      loaded.reply.count = 0

(* A list of the orders of a name counts all orders of all the customers   *)
(* with that name whom the user may see, or is refused: never a part       *)
(* (server.go:615-617), as long as nobody writes meanwhile.                *)
OrdersOfANameAreAll ==
  \A i \in Requests :
    LET q == requests[i] IN
    q # None /\ q.kind = "screen" /\ q.params.user # None /\ q.quiet /\ q.step = "answered" /\ q.reply.status = "ok"
      /\ q.params.route = "/orders" /\ q.params.filter.name # None =>
        q.reply.count =
          Cardinality({o \in there \cap Orders :
            LET c == Owner[o] IN
            /\ c \in there /\ c \in Named[q.params.filter.name]
            /\ InScope(q.params.user, "customer", CustomerRegion[c])
            /\ InScope(q.params.user, "order", OrderRegion[o])})

(* What the screen answers to its first page, if no call fails.            *)
ScreenReply(p) ==
  LET found == Resolve(p) IN
  CASE p.user = None -> NotAsked
    [] p.user # None /\ p.route = "/orders" /\ p.filter.name # None ->
         IF found.status = "ok" THEN ScreenList(p, found.items) ELSE found
    [] p.user # None /\ (p.route # "/orders" \/ p.filter.name = None) -> ScreenList(p, {})

SummaryIsRight(q) ==
  LET screen == ScreenReply(q.params) IN
  /\ q.reply.status = "ok" => screen.status = "ok" /\ q.reply.count = screen.count
  /\ q.reply.status = "denied" <=> screen.status = "denied" /\ q.reply.status # "failed"

Summaries ==
  {requests[i] : i \in {j \in Requests : requests[j] # None /\ requests[j].kind = "summary"
                                           /\ requests[j].quiet /\ requests[j].step = "answered"}}

(* The two cases screenSummary treats otherwise than the screen. *)
NobodyHasTheName(q) ==
  q.params.route = "/orders" /\ q.params.filter.name # None
    /\ CustomersOf(q.params.user, q.params.filter.name) = {}
OnlyAtMost(q) == q.params.filter.below = None /\ q.params.filter.at_most # None

(* But for these, a summary counts what the screen behind it counts for    *)
(* the same user, and says that he has no access exactly when the screen   *)
(* would (server.go:900-912).                                              *)
OtherSummariesAreRight ==
  \A q \in Summaries : ~NobodyHasTheName(q) /\ ~OnlyAtMost(q) => SummaryIsRight(q)

(* "screenSummary returns the summary of the screen (route + filters): the *)
(* count and the first few rows" (server.go:900).                          *)
SummariesAreRight == \A q \in Summaries : SummaryIsRight(q)

(* When the user leaves the page alone it comes to rest: with an answer or *)
(* an error, never loading for ever.                                       *)
PagesSettle == <>[]~Loading

=============================================================================
