---------------------------- MODULE ScreensProofs ----------------------------
(* The list screens, for every table, every set of users and any number of *)
(* requests under way: the page shows the answer to what it asks for, with *)
(* the rows of its user, and the lists and summaries count what is there.  *)
EXTENDS Screens, FiniteSetTheorems, WellFoundedInduction, NaturalsInduction, TLAPS

(* The orders of a name take a call for its customers first.               *)
ByName(p) == p.route = "/orders" /\ p.filter.name # None

(* What a summary answers, if no call fails.                               *)
SummaryReply(p) ==
  LET found == Resolve(p) IN
  IF ByName(p) THEN IF found.status = "ok" THEN SummaryList(p, found.items) ELSE found
  ELSE SummaryList(p, {})

Expected(q) == IF q.kind = "screen" THEN ScreenReply(q.params) ELSE SummaryReply(q.params)

(* Whatever the rows there are: the user may see what is answered.         *)
SeenBy(user, route, items) ==
  \A r \in items :
    /\ AccessTo(user, ServiceOf(route)) # "deny"
    /\ r \in RowsOf(route)
    /\ r \in Orders => InScope(user, "order", OrderRegion[r])
    /\ r \in Customers => InScope(user, "customer", CustomerRegion[r])

(* A page of a list; an empty one lies behind the end.                     *)
PageOf(offset, reply) ==
  /\ Cardinality(reply.items) <= PageSize
  /\ reply.status # "ok" => reply.count = 0
  /\ reply.status = "ok" /\ reply.items = {} => reply.count <= offset

ReplyOk(q) ==
  q.reply # None =>
    /\ SeenBy(q.params.user, q.params.route, q.reply.items)
    /\ q.kind = "screen" => PageOf(q.params.offset, q.reply)

(* As long as nobody writes, two calls are as good as one.                 *)
QuietOk(q) ==
  q.quiet =>
    /\ q.step = "list" =>
         IF ByName(q.params) THEN Resolve(q.params).status = "ok" /\ q.ids = Resolve(q.params).items
         ELSE q.ids = {}
    /\ q.step \in {"answered", "delivered"} /\ q.reply.status # "failed" => q.reply = Expected(q)

(* Only a page goes without a user, and then nobody is called.             *)
RequestOk(q) ==
  /\ q.kind = "summary" \/ q.step \in {"resolve", "list"} => q.params.user # None
  /\ q.step = "resolve" => ByName(q.params)
  /\ ReplyOk(q) /\ QuietOk(q)

RequestsOk == \A i \in Requests : requests[i] # None => RequestOk(requests[i])

(* The request that the page waits for is of this page, and no older than  *)
(* what was loaded; once it is answered it is what was loaded.             *)
LiveOk ==
  live # None =>
    LET q == requests[live] IN
    /\ q.kind = "screen" /\ q.params.route = page.route
    /\ loaded # None /\ loaded.quiet => q.quiet
    /\ q.step = "delivered" =>
         /\ loaded # None /\ loaded.key = Key(q.params)
         /\ loaded.reply = q.reply /\ loaded.quiet = q.quiet

ParamsOf(key) == [user |-> key[1], route |-> key[2], filter |-> key[3], offset |-> key[4]]

LoadedOk ==
  loaded # None =>
    LET p == ParamsOf(loaded.key) IN
    /\ p.route = loaded.route
    /\ SeenBy(p.user, p.route, loaded.reply.items) /\ PageOf(p.offset, loaded.reply)
    /\ loaded.quiet /\ loaded.reply.status # "failed" => loaded.reply = ScreenReply(p)

(* Who pages on through a quiet list stays within it. *)
WithinTheList ==
  page.offset > 0 /\ ~strayed =>
    loaded # None /\ loaded.quiet /\ page.offset < ScreenReply(page).count

ScreensInv == RequestsOk /\ LiveOk /\ LoadedOk /\ WithinTheList

-----------------------------------------------------------------------------
(* Slices of a finite set of numbers. *)

LEMMA SmallestOf ==
  ASSUME NEW S \in SUBSET Nat, S # {}
  PROVE  \E m \in S : \A x \in S : m <= x
  <1> DEFINE R == OpToRel(<, Nat)
  <1>1. IsWellFoundedOn(R, Nat)
    BY NatLessThanWellFounded
  <1>2. \A x, y \in Nat : <<y, x>> \in R <=> y < x
    BY DEF OpToRel
  <1> HIDE DEF R
  <1>3. PICK m \in S : \A y \in S : ~ (<<y, m>> \in R)
    BY <1>1, WFMin
  <1>4. \A x \in S : ~(x < m) /\ x \in Nat /\ m \in Nat
    BY <1>2, <1>3
  <1> QED BY <1>4

Before(M, r) == {q \in M : q < r}

(* The rows with fewer than k before them. *)
FirstOf(M, k) == {r \in M : Cardinality(Before(M, r)) < k}

LEMMA BeforeFinite ==
  ASSUME NEW M \in SUBSET Nat, IsFiniteSet(M), NEW r
  PROVE  /\ Before(M, r) \subseteq M /\ IsFiniteSet(Before(M, r))
         /\ Cardinality(Before(M, r)) \in Nat
  <1>1. Before(M, r) \in SUBSET M
    BY DEF Before
  <1> QED BY <1>1, FS_Subset, FS_CardinalityType

(* What comes before such a row is such a row. *)
LEMMA FirstOfIsClosed ==
  ASSUME NEW M \in SUBSET Nat, IsFiniteSet(M), NEW k \in Nat, NEW r \in M, NEW q \in M, q <= r
  PROVE  /\ Cardinality(Before(M, q)) <= Cardinality(Before(M, r))
         /\ r \in FirstOf(M, k) => q \in FirstOf(M, k)
  <1>1. Before(M, q) \in SUBSET Before(M, r)
    <2> SUFFICES ASSUME NEW x \in M, x < q PROVE x < r
      BY DEF Before
    <2>1. x \in Nat /\ q \in Nat /\ r \in Nat
      OBVIOUS
    <2> QED BY <2>1
  <1>2. Cardinality(Before(M, q)) <= Cardinality(Before(M, r))
    BY <1>1, BeforeFinite, FS_Subset
  <1> QED BY <1>2, BeforeFinite DEF FirstOf

(* There are no more than k of them. *)
LEMMA FirstOfBounded ==
  ASSUME NEW M \in SUBSET Nat, IsFiniteSet(M), NEW k \in Nat
  PROVE  /\ FirstOf(M, k) \subseteq M /\ IsFiniteSet(FirstOf(M, k))
         /\ Cardinality(FirstOf(M, k)) \in Nat /\ Cardinality(FirstOf(M, k)) <= k
  <1> DEFINE L == FirstOf(M, k)
             after(x) == {y \in L : y > x}
             sizes == {Cardinality(after(x)) : x \in L}
  <1>1. L \in SUBSET M /\ IsFiniteSet(L) /\ Cardinality(L) \in Nat /\ L \in SUBSET Nat
    <2>1. L \in SUBSET M
      BY DEF FirstOf
    <2> QED BY <2>1, FS_Subset, FS_CardinalityType
  <1>2. \A x : IsFiniteSet(after(x)) /\ Cardinality(after(x)) \in Nat
    <2> TAKE x
    <2>1. after(x) \in SUBSET L
      OBVIOUS
    <2> HIDE DEF L, after
    <2> QED BY <1>1, <2>1, FS_Subset, FS_CardinalityType
  <1> SUFFICES Cardinality(L) <= k
    BY <1>1
  <1>3. CASE L = {}
    BY <1>1, <1>3, FS_EmptySet
  <1>4. CASE L # {}
    <2>1. PICK x \in L : \A z \in L : Cardinality(after(x)) <= Cardinality(after(z))
      <3>1. sizes \in SUBSET Nat /\ sizes # {}
        BY <1>2, <1>4
      <3>2. PICK c \in sizes : \A d \in sizes : c <= d
        BY <3>1, SmallestOf
      <3> QED BY <3>2
    <2>2. ASSUME NEW z \in L PROVE z <= x
      <3> SUFFICES ASSUME z > x PROVE FALSE
        BY <1>1
      <3>1. after(z) \in SUBSET after(x) /\ z \in after(x) /\ z \notin after(z)
        BY <1>1
      <3> HIDE DEF L, after
      <3>2. Cardinality(after(z)) <= Cardinality(after(x)) /\ Cardinality(after(z)) # Cardinality(after(x))
        BY <1>2, <3>1, FS_Subset
      <3>3. Cardinality(after(x)) <= Cardinality(after(z))
        BY <2>1
      <3> QED BY <1>2, <3>2, <3>3
    <2>3. L = Before(M, x) \cup {x}
      <3>1. L \subseteq Before(M, x) \cup {x}
        BY <1>1, <2>2 DEF Before
      <3>2. ASSUME NEW q \in Before(M, x) PROVE q \in L
        <4>1. q \in M /\ x \in M /\ q <= x
          BY <1>1 DEF Before
        <4> QED BY <4>1, FirstOfIsClosed
      <3> QED BY <3>1, <3>2
    <2>4. x \notin Before(M, x) /\ Cardinality(Before(M, x)) < k /\ Cardinality(Before(M, x)) \in Nat
      <3>1. x \in Nat /\ x \in M /\ Cardinality(Before(M, x)) < k
        BY <1>1 DEF FirstOf
      <3>2. ~(x < x)
        BY <3>1
      <3> QED BY <3>1, <3>2, BeforeFinite DEF Before
    <2>5. Cardinality(Before(M, x) \cup {x}) = Cardinality(Before(M, x)) + 1
      BY <2>4, BeforeFinite, FS_AddElement
    <2> QED BY <2>3, <2>4, <2>5
  <1> QED BY <1>3, <1>4

(* A page has no more rows than asked for, and one without any lies behind *)
(* the end.                                                                *)
LEMMA SliceBounded ==
  ASSUME NEW M \in SUBSET Nat, IsFiniteSet(M), NEW k \in Nat, NEW n \in Nat \ {0}
  PROVE  /\ Slice(M, k, n) \subseteq M /\ Cardinality(Slice(M, k, n)) <= n
         /\ Slice(M, k, n) = {} => Cardinality(M) <= k
  <1> DEFINE S == Slice(M, k, n)
  <1>1. S \subseteq M /\ \A r \in M : r \in S <=> k <= Cardinality(Before(M, r)) /\ Cardinality(Before(M, r)) < k + n
    BY DEF Slice, Before
  <1>2. S \in SUBSET Nat /\ S = FirstOf(M, k + n) \ FirstOf(M, k)
    <2>1. \A r \in M : Cardinality(Before(M, r)) \in Nat
      BY BeforeFinite
    <2>2. \A r \in M : k <= Cardinality(Before(M, r)) <=> ~(Cardinality(Before(M, r)) < k)
      BY <2>1
    <2>3. \A r \in M : r \in S <=> r \in FirstOf(M, k + n) /\ r \notin FirstOf(M, k)
      BY <1>1, <2>2 DEF FirstOf
    <2> HIDE DEF S
    <2> QED BY <1>1, <2>3 DEF FirstOf
  <1> HIDE DEF S
  <1>3. ASSUME NEW m \in M, m \notin FirstOf(M, k),
               \A x \in M : x \notin FirstOf(M, k) /\ x < m => x \in FirstOf(M, k)
        PROVE  k <= Cardinality(Before(M, m)) /\ Cardinality(Before(M, m)) <= Cardinality(FirstOf(M, k))
    <2>1. k <= Cardinality(Before(M, m))
      BY <1>3, BeforeFinite DEF FirstOf
    <2>2. Before(M, m) \in SUBSET FirstOf(M, k)
      BY <1>3 DEF Before
    <2> QED BY <2>1, <2>2, FirstOfBounded, FS_Subset
  <1>4. Cardinality(S) <= n
    <2>1. CASE S = {}
      BY <2>1, FS_EmptySet
    <2>2. CASE S # {}
      <3>1. PICK m \in S : \A x \in S : m <= x
        BY <1>2, <2>2, SmallestOf
      <3>2. m \in M /\ m \notin FirstOf(M, k) /\ m \in FirstOf(M, k + n)
        BY <1>1, <1>2
      <3>3. ASSUME NEW x \in M, x < m PROVE x \in FirstOf(M, k)
        <4>1. x \in FirstOf(M, k + n)
          BY <3>2, <3>3, FirstOfIsClosed
        <4>2. x \notin S
          BY <1>2, <3>1, <3>3
        <4> QED BY <1>2, <4>1, <4>2
      <3>4. k <= Cardinality(FirstOf(M, k)) /\ Cardinality(FirstOf(M, k)) \in Nat
        <4>1. k <= Cardinality(Before(M, m)) /\ Cardinality(Before(M, m)) <= Cardinality(FirstOf(M, k))
          BY <1>3, <3>2, <3>3
        <4> QED BY <4>1, BeforeFinite, FirstOfBounded
      <3>5. IsFiniteSet(FirstOf(M, k + n)) /\ Cardinality(FirstOf(M, k + n)) \in Nat
            /\ Cardinality(FirstOf(M, k + n)) <= k + n
        BY FirstOfBounded
      <3>6. FirstOf(M, k + n) \cap FirstOf(M, k) = FirstOf(M, k)
        BY BeforeFinite DEF FirstOf
      <3>7. Cardinality(S) = Cardinality(FirstOf(M, k + n)) - Cardinality(FirstOf(M, k))
        BY <1>2, <3>5, <3>6, FS_Difference
      <3> QED BY <3>4, <3>5, <3>7
    <2> QED BY <2>1, <2>2
  <1>5. ASSUME S = {} PROVE Cardinality(M) <= k
    <2>1. CASE M = FirstOf(M, k)
      BY <2>1, FirstOfBounded
    <2>2. CASE M # FirstOf(M, k)
      <3> DEFINE rest == M \ FirstOf(M, k)
      <3>1. rest # {} /\ rest \in SUBSET Nat
        BY <2>2, FirstOfBounded
      <3>2. PICK m \in rest : \A x \in rest : m <= x
        BY <3>1, SmallestOf
      <3>3. m \in M /\ m \notin FirstOf(M, k) /\ \A x \in M : x < m => x \in FirstOf(M, k)
        BY <3>2
      <3>4. k <= Cardinality(Before(M, m)) /\ Cardinality(Before(M, m)) <= Cardinality(FirstOf(M, k))
        BY <1>3, <3>3
      <3>5. Cardinality(Before(M, m)) < k + n
        BY <3>4, BeforeFinite, FirstOfBounded
      <3> QED BY <1>1, <1>5, <3>3, <3>4, <3>5
    <2> QED BY <2>1, <2>2
  <1> QED BY <1>1, <1>4, <1>5 DEF S

-----------------------------------------------------------------------------
(* Answers. *)

LEMMA RowsTyped ==
  ASSUME NEW route \in Routes
  PROVE  RowsOf(route) \in SUBSET Nat /\ IsFiniteSet(RowsOf(route)) /\ RowsOf(route) \subseteq Rows
  BY ConstantsTyped DEF Routes, RowsOf, Rows

(* One page of the rows M, or a refusal. *)
Answers(reply, access, M, offset, limit) ==
  /\ reply \in Replies
  /\ reply.status = IF access = "deny" THEN "denied" ELSE "ok"
  /\ reply.status = "ok" => reply.count = Cardinality(M) /\ reply.items \subseteq M
  /\ reply.status # "ok" => reply.count = 0 /\ reply.items = {}
  /\ Cardinality(reply.items) <= limit
  /\ reply.status = "ok" /\ reply.items = {} => reply.count <= offset

LEMMA AnswerOk ==
  ASSUME NEW user, NEW route \in Routes, NEW M \in SUBSET RowsOf(route),
         NEW offset \in Nat, NEW limit \in Nat, limit # 0
  PROVE  Answers(Answer(user, route, M, offset, limit), AccessTo(user, ServiceOf(route)), M, offset, limit)
  <1> DEFINE S == Slice(M, offset, limit)
             access == AccessTo(user, ServiceOf(route))
  <1>1. M \in SUBSET Nat /\ IsFiniteSet(M) /\ Cardinality(M) \in Nat /\ M \subseteq Rows
    BY RowsTyped, FS_Subset, FS_CardinalityType
  <1>2. S \subseteq M /\ Cardinality(S) <= limit /\ (S = {} => Cardinality(M) <= offset)
    BY <1>1, SliceBounded
  <1> HIDE DEF S
  <1>3. CASE access = "deny"
    <2>1. Answer(user, route, M, offset, limit) = [status |-> "denied", count |-> 0, items |-> {}]
      BY <1>3 DEF Answer, Failure, Reply
    <2>2. Cardinality({}) = 0
      BY FS_EmptySet
    <2> QED BY <1>3, <2>1, <2>2 DEF Replies, Answers
  <1>4. CASE access # "deny"
    <2>1. Answer(user, route, M, offset, limit) = [status |-> "ok", count |-> Cardinality(M), items |-> S]
      BY <1>4 DEF Answer, Reply, S
    <2>2. S \in SUBSET Rows
      BY <1>1, <1>2
    <2> QED BY <1>1, <1>2, <1>4, <2>1, <2>2 DEF Replies, Answers
  <1> QED BY <1>3, <1>4

(* The rows of a condition are rows of the table, and the user's.          *)
LEMMA ConditionsOk ==
  ASSUME NEW user, NEW name, NEW ids, NEW below, NEW threshold
  PROVE  /\ CustomersOf(user, name) \in SUBSET RowsOf("/customers")
         /\ OrdersOf(user, ids) \in SUBSET RowsOf("/orders")
         /\ StocksOf(below, threshold) \in SUBSET RowsOf("/stock")
         /\ \A c \in CustomersOf(user, name) : InScope(user, "customer", CustomerRegion[c])
         /\ \A o \in OrdersOf(user, ids) : InScope(user, "order", OrderRegion[o])
  BY DEF CustomersOf, OrdersOf, StocksOf, RowsOf

LEMMA FailureOk ==
  ASSUME NEW status \in {"denied", "failed", "ambiguous"}
  PROVE  /\ Failure(status) \in Replies
         /\ Failure(status).status = status /\ Failure(status).count = 0 /\ Failure(status).items = {}
  BY DEF Failure, Reply, Replies

(* The customers of a name are all there are, or nobody. *)
LEMMA ResolveOk ==
  ASSUME NEW p
  PROVE  LET found == Resolve(p) IN
         /\ found \in Replies /\ found.status \in {"ok", "denied", "ambiguous"}
         /\ found.status = "denied" <=> AccessTo(p.user, "customer") = "deny"
         /\ found.status = "ok" => found.items = CustomersOf(p.user, p.filter.name)
         /\ found.status # "ok" => found.count = 0 /\ found.items = {}
  <1> DEFINE M == CustomersOf(p.user, p.filter.name)
             found == Answer(p.user, "/customers", M, 0, MaxResolve)
  <1>1. M \in SUBSET RowsOf("/customers") /\ "/customers" \in Routes /\ ServiceOf("/customers") = "customer"
    BY ConditionsOk DEF Routes, ServiceOf
  <1>2. IsFiniteSet(M)
    BY <1>1, RowsTyped, FS_Subset
  <1> HIDE DEF M
  <1>3. Answers(found, AccessTo(p.user, "customer"), M, 0, MaxResolve)
    <2>1. MaxResolve \in Nat /\ MaxResolve # 0 /\ 0 \in Nat
      BY ConstantsTyped
    <2> QED BY <1>1, <2>1, AnswerOk
  <1> HIDE DEF found
  <1>4. /\ found \in Replies
        /\ found.status = IF AccessTo(p.user, "customer") = "deny" THEN "denied" ELSE "ok"
        /\ found.status = "ok" => found.count = Cardinality(M) /\ found.items \subseteq M
        /\ found.status # "ok" => found.count = 0 /\ found.items = {}
    BY <1>3 DEF Answers
  <1>5. Resolve(p) = IF Cardinality(found.items) < found.count THEN Failure("ambiguous") ELSE found
    BY DEF Resolve, M, found
  <1>6. CASE Cardinality(found.items) < found.count
    <2>1. found.status = "ok"
      <3>1. found.status # "ok" => ~(0 < found.count) /\ Cardinality(found.items) = 0
        BY <1>4, FS_EmptySet
      <3> QED BY <1>6, <3>1
    <2> QED BY <1>4, <1>5, <1>6, <2>1, FailureOk
  <1>7. CASE ~(Cardinality(found.items) < found.count)
    <2>1. found.status = "ok" => found.items = M
      <3> SUFFICES ASSUME found.status = "ok" PROVE found.items = M
        OBVIOUS
      <3>1. found.items \in SUBSET M /\ ~(Cardinality(found.items) < Cardinality(M))
        BY <1>4, <1>7
      <3>2. Cardinality(found.items) <= Cardinality(M) /\ Cardinality(M) \in Nat
            /\ Cardinality(found.items) \in Nat
        BY <1>2, <3>1, FS_Subset, FS_CardinalityType
      <3> QED BY <1>2, <3>1, <3>2, FS_Subset
    <2> QED BY <1>4, <1>5, <1>7, <2>1 DEF M
  <1> QED BY <1>6, <1>7

(* The list of a screen. *)
LEMMA ScreenListOk ==
  ASSUME NEW p, p.route \in Routes, p.offset \in Nat, NEW ids
  PROVE  LET reply == ScreenList(p, ids) IN
         /\ reply \in Replies /\ reply.status # "failed"
         /\ SeenBy(p.user, p.route, reply.items) /\ PageOf(p.offset, reply)
  <1> DEFINE Page(M) == Answer(p.user, p.route, M, p.offset, PageSize)
  <1>1. ASSUME NEW M \in SUBSET RowsOf(p.route),
               \A r \in M : /\ r \in Orders => InScope(p.user, "order", OrderRegion[r])
                            /\ r \in Customers => InScope(p.user, "customer", CustomerRegion[r])
        PROVE  /\ Page(M) \in Replies /\ Page(M).status # "failed"
               /\ SeenBy(p.user, p.route, Page(M).items) /\ PageOf(p.offset, Page(M))
    <2>1. PageSize \in Nat /\ PageSize # 0
      BY ConstantsTyped
    <2>2. Answers(Page(M), AccessTo(p.user, ServiceOf(p.route)), M, p.offset, PageSize)
      BY <2>1, AnswerOk
    <2> HIDE DEF Page
    <2> QED BY <1>1, <2>2 DEF Answers, SeenBy, PageOf
  <1> HIDE DEF Page
  <1>2. Orders \cap Stocks = {} /\ Stocks \cap Customers = {} /\ Customers \cap Orders = {}
    BY ConstantsTyped
  <1>3. CASE p.route = "/orders"
    <2>1. CASE p.filter.name # None /\ ids = {}
      <3>1. ScreenList(p, ids) = [status |-> "ok", count |-> 0, items |-> {}]
        BY <1>3, <2>1 DEF ScreenList, Reply
      <3>2. Cardinality({}) = 0 /\ PageSize \in Nat
        BY FS_EmptySet, ConstantsTyped
      <3> QED BY <3>1, <3>2 DEF Replies, SeenBy, PageOf
    <2>2. CASE p.filter.name = None \/ ids # {}
      <3> DEFINE M == OrdersOf(p.user, ids)
      <3>1. ScreenList(p, ids) = Page(M)
        BY <1>3, <2>2 DEF ScreenList, Page
      <3>2. M \in SUBSET RowsOf(p.route) /\ \A r \in M : r \in Orders /\ InScope(p.user, "order", OrderRegion[r])
        BY <1>3, ConditionsOk DEF OrdersOf
      <3> HIDE DEF M
      <3> QED BY <1>1, <1>2, <3>1, <3>2
    <2> QED BY <2>1, <2>2
  <1>4. CASE p.route = "/stock"
    <2> DEFINE M == StocksOf(p.filter.below, p.filter.at_most)
    <2>1. ScreenList(p, ids) = Page(M)
      BY <1>4 DEF ScreenList, Page
    <2>2. M \in SUBSET RowsOf(p.route) /\ \A r \in M : r \in Stocks
      BY <1>4, ConditionsOk DEF StocksOf
    <2> HIDE DEF M
    <2> QED BY <1>1, <1>2, <2>1, <2>2
  <1>5. CASE p.route = "/customers"
    <2> DEFINE M == CustomersOf(p.user, p.filter.name)
    <2>1. ScreenList(p, ids) = Page(M)
      BY <1>5 DEF ScreenList, Page
    <2>2. /\ M \in SUBSET RowsOf(p.route)
          /\ \A r \in M : r \in Customers /\ InScope(p.user, "customer", CustomerRegion[r])
      BY <1>5, ConditionsOk DEF CustomersOf
    <2> HIDE DEF M
    <2> QED BY <1>1, <1>2, <2>1, <2>2
  <1> QED BY <1>3, <1>4, <1>5 DEF Routes

(* The list of a summary: as the screen's, without its two special cases.  *)
LEMMA SummaryListOk ==
  ASSUME NEW p, p.route \in Routes, NEW ids
  PROVE  LET reply == SummaryList(p, ids) IN
         /\ reply \in Replies /\ reply.status # "failed"
         /\ SeenBy(p.user, p.route, reply.items)
  <1> DEFINE First(M) == Answer(p.user, p.route, M, 0, PreviewRows)
  <1>1. ASSUME NEW M \in SUBSET RowsOf(p.route),
               \A r \in M : /\ r \in Orders => InScope(p.user, "order", OrderRegion[r])
                            /\ r \in Customers => InScope(p.user, "customer", CustomerRegion[r])
        PROVE  /\ First(M) \in Replies /\ First(M).status # "failed"
               /\ SeenBy(p.user, p.route, First(M).items)
    <2>1. PreviewRows \in Nat /\ PreviewRows # 0 /\ 0 \in Nat
      BY ConstantsTyped
    <2>2. Answers(First(M), AccessTo(p.user, ServiceOf(p.route)), M, 0, PreviewRows)
      BY <2>1, AnswerOk
    <2> HIDE DEF First
    <2> QED BY <1>1, <2>2 DEF Answers, SeenBy
  <1> HIDE DEF First
  <1>2. Orders \cap Stocks = {} /\ Stocks \cap Customers = {} /\ Customers \cap Orders = {}
    BY ConstantsTyped
  <1>3. CASE p.route = "/orders"
    <2> DEFINE M == OrdersOf(p.user, ids)
    <2>1. SummaryList(p, ids) = First(M)
      BY <1>3 DEF SummaryList, First
    <2>2. M \in SUBSET RowsOf(p.route) /\ \A r \in M : r \in Orders /\ InScope(p.user, "order", OrderRegion[r])
      BY <1>3, ConditionsOk DEF OrdersOf
    <2> HIDE DEF M
    <2> QED BY <1>1, <1>2, <2>1, <2>2
  <1>4. CASE p.route = "/stock"
    <2> DEFINE M == StocksOf(p.filter.below, None)
    <2>1. SummaryList(p, ids) = First(M)
      BY <1>4 DEF SummaryList, First
    <2>2. M \in SUBSET RowsOf(p.route) /\ \A r \in M : r \in Stocks
      BY <1>4, ConditionsOk DEF StocksOf
    <2> HIDE DEF M
    <2> QED BY <1>1, <1>2, <2>1, <2>2
  <1>5. CASE p.route = "/customers"
    <2> DEFINE M == CustomersOf(p.user, p.filter.name)
    <2>1. SummaryList(p, ids) = First(M)
      BY <1>5 DEF SummaryList, First
    <2>2. /\ M \in SUBSET RowsOf(p.route)
          /\ \A r \in M : r \in Customers /\ InScope(p.user, "customer", CustomerRegion[r])
      BY <1>5, ConditionsOk DEF CustomersOf
    <2> HIDE DEF M
    <2> QED BY <1>1, <1>2, <2>1, <2>2
  <1> QED BY <1>3, <1>4, <1>5 DEF Routes

(* A refusal is a page without rows. *)
LEMMA RefusalOk ==
  ASSUME NEW reply, reply.status # "ok", reply.count = 0, reply.items = {}, NEW user, NEW route, NEW offset
  PROVE  SeenBy(user, route, reply.items) /\ PageOf(offset, reply)
  <1>1. Cardinality({}) = 0 /\ PageSize \in Nat
    BY FS_EmptySet, ConstantsTyped
  <1> QED BY <1>1 DEF SeenBy, PageOf

(* Nor does a page without a user have any. *)
LEMMA NotAskedOk ==
  /\ NotAsked \in Replies /\ NotAsked.count = 0 /\ NotAsked.status = "ok" /\ NotAsked.items = {}
  /\ \A user, route : SeenBy(user, route, NotAsked.items)
  /\ \A offset \in Nat : PageOf(offset, NotAsked)
  <1>1. Cardinality({}) = 0 /\ PageSize \in Nat
    BY FS_EmptySet, ConstantsTyped
  <1>2. NotAsked = [status |-> "ok", count |-> 0, items |-> {}]
    BY DEF NotAsked, Reply
  <1> QED BY <1>1, <1>2 DEF SeenBy, PageOf, Replies

LEMMA ScreenReplyOk ==
  ASSUME NEW p, p.route \in Routes, p.offset \in Nat
  PROVE  ScreenReply(p) \in Replies /\ ScreenReply(p).count \in Int
  <1>1. ScreenReply(p) \in Replies
    <2>1. NotAsked \in Replies
      BY NotAskedOk
    <2> QED BY <2>1, ResolveOk, ScreenListOk DEF ScreenReply
  <1> QED BY <1>1 DEF Replies

(* What is answered depends on the rows there are, and on nothing else.    *)
LEMMA SameRows ==
  ASSUME there' = there
  PROVE  /\ \A p : Resolve(p)' = Resolve(p)
         /\ \A p : ScreenReply(p)' = ScreenReply(p)
         /\ \A p : SummaryReply(p)' = SummaryReply(p)
         /\ \A q : RequestOk(q)' <=> RequestOk(q)
  <1>1. /\ \A user, name : CustomersOf(user, name)' = CustomersOf(user, name)
        /\ \A user, ids : OrdersOf(user, ids)' = OrdersOf(user, ids)
        /\ \A b, t : StocksOf(b, t)' = StocksOf(b, t)
    BY DEF CustomersOf, OrdersOf, StocksOf
  <1>2. \A p : Resolve(p)' = Resolve(p)
    BY <1>1 DEF Resolve
  <1>3. \A p, ids : ScreenList(p, ids)' = ScreenList(p, ids)
    BY <1>1 DEF ScreenList
  <1>4. \A p, ids : SummaryList(p, ids)' = SummaryList(p, ids)
    BY <1>1 DEF SummaryList
  <1>5. \A p : ScreenReply(p)' = ScreenReply(p)
    BY <1>2, <1>3 DEF ScreenReply, NotAsked
  <1>6. \A p : SummaryReply(p)' = SummaryReply(p)
    BY <1>2, <1>4 DEF SummaryReply
  <1>7. \A q : RequestOk(q)' <=> RequestOk(q)
    BY <1>2, <1>5, <1>6 DEF RequestOk, QuietOk, Expected
  <1> QED BY <1>2, <1>5, <1>6, <1>7

(* All pages of a list count the same, and so does the list with the       *)
(* threshold the service would have taken.                                 *)
SameList(p, q) ==
  /\ p.user = q.user /\ p.route = q.route /\ p.route \in Routes
  /\ \/ p.filter = q.filter
     \/ /\ p.route = "/stock" /\ p.filter.below = q.filter.below
        /\ p.filter.below # None
           \/ {p.filter.at_most, q.filter.at_most} \subseteq {None, DefaultThreshold}

LEMMA CountsAgree ==
  ASSUME NEW p, NEW q, SameList(p, q)
  PROVE  ScreenReply(p).count = ScreenReply(q).count /\ ScreenReply(p).status = ScreenReply(q).status
  <1>0. CASE p.user = None
    BY <1>0 DEF SameList, ScreenReply
  <1> SUFFICES ASSUME p.user # None
               PROVE  ScreenReply(p).count = ScreenReply(q).count /\ ScreenReply(p).status = ScreenReply(q).status
    BY <1>0
  <1>1. ASSUME NEW user, NEW route, NEW M, NEW j, NEW k
        PROVE  /\ Answer(user, route, M, j, PageSize).count = Answer(user, route, M, k, PageSize).count
               /\ Answer(user, route, M, j, PageSize).status = Answer(user, route, M, k, PageSize).status
    BY DEF Answer, Reply, Failure
  <1>2. DefaultThreshold # None
    BY ConstantsTyped
  <1>3. CASE p.route = "/stock"
    <2>1. StocksOf(p.filter.below, p.filter.at_most) = StocksOf(q.filter.below, q.filter.at_most)
      BY <1>2, <1>3 DEF SameList, StocksOf
    <2> DEFINE M == StocksOf(p.filter.below, p.filter.at_most)
    <2>2. /\ ScreenReply(p) = Answer(p.user, p.route, M, p.offset, PageSize)
          /\ ScreenReply(q) = Answer(p.user, p.route, M, q.offset, PageSize)
      BY <1>3, <2>1 DEF SameList, ScreenReply, ScreenList
    <2> HIDE DEF M
    <2> QED BY <1>1, <2>2
  <1>4. CASE p.route = "/customers"
    <2> DEFINE M == CustomersOf(p.user, p.filter.name)
    <2>1. /\ ScreenReply(p) = Answer(p.user, p.route, M, p.offset, PageSize)
          /\ ScreenReply(q) = Answer(p.user, p.route, M, q.offset, PageSize)
      BY <1>4 DEF SameList, ScreenReply, ScreenList
    <2> HIDE DEF M
    <2> QED BY <1>1, <2>1
  <1>5. CASE p.route = "/orders"
    <2>1. p.filter = q.filter /\ p.user = q.user /\ q.route = "/orders" /\ Resolve(p) = Resolve(q)
      BY <1>5 DEF SameList, Resolve
    <2>2. ASSUME NEW ids
          PROVE  /\ ScreenList(p, ids).count = ScreenList(q, ids).count
                 /\ ScreenList(p, ids).status = ScreenList(q, ids).status
      <3>1. CASE p.filter.name # None /\ ids = {}
        BY <1>5, <2>1, <3>1 DEF ScreenList
      <3>2. CASE p.filter.name = None \/ ids # {}
        <4> DEFINE M == OrdersOf(p.user, ids)
        <4>1. /\ ScreenList(p, ids) = Answer(p.user, p.route, M, p.offset, PageSize)
              /\ ScreenList(q, ids) = Answer(p.user, p.route, M, q.offset, PageSize)
          BY <1>5, <2>1, <3>2 DEF ScreenList
        <4> HIDE DEF M
        <4> QED BY <1>1, <4>1
      <3> QED BY <3>1, <3>2
    <2>3. CASE p.filter.name # None
      <3>1. CASE Resolve(p).status = "ok"
        <4>1. /\ ScreenReply(p) = ScreenList(p, Resolve(p).items)
              /\ ScreenReply(q) = ScreenList(q, Resolve(p).items)
          BY <1>5, <2>1, <2>3, <3>1 DEF ScreenReply
        <4> QED BY <2>2, <4>1
      <3>2. CASE Resolve(p).status # "ok"
        BY <1>5, <2>1, <2>3, <3>2 DEF ScreenReply
      <3> QED BY <3>1, <3>2
    <2>4. CASE p.filter.name = None
      <3>1. ScreenReply(p) = ScreenList(p, {}) /\ ScreenReply(q) = ScreenList(q, {})
        BY <1>5, <2>1, <2>4 DEF ScreenReply
      <3> QED BY <2>2, <3>1
    <2> QED BY <2>3, <2>4
  <1> QED BY <1>3, <1>4, <1>5 DEF SameList, Routes

-----------------------------------------------------------------------------
(* Requests. *)

(* What is asked for is one of the lists. *)
Wanted == [user : UserOrNone, route : Routes, filter : NameFilters \cup StockFilters, offset : Nat]

Sound(q) ==
  /\ q \in Requested /\ IsParams(q.params) /\ RequestOk(q)
  /\ q.reply # None <=> q.step \in {"answered", "delivered"}

LEMMA RequestTyped ==
  ASSUME TypeOK, ScreensInv, NEW i \in Requests, requests[i] # None
  PROVE  Sound(requests[i]) /\ requests[i].params \in Wanted /\ requests[i].params.route \in Routes
         /\ (requests[i].reply # None => requests[i].reply \in Replies)
  <1>1. requests[i] \in Requested
    BY DEF TypeOK
  <1>2. requests[i].params \in Wanted /\ requests[i].reply \in Replies \cup {None}
    BY <1>1 DEF Requested, Wanted
  <1> QED BY <1>1, <1>2 DEF TypeOK, ScreensInv, RequestsOk, Sound, Wanted

LEMMA AskedOk ==
  ASSUME NEW kind \in {"screen", "summary"}, NEW p, p \in Wanted, IsParams(p),
         kind = "summary" => p.user # None
  PROVE  LET q == Asks(kind, p) IN
         /\ Sound(q) /\ q # None /\ q.kind = kind /\ q.params = p /\ q.quiet /\ q.step # "delivered"
  <1> DEFINE q == Asks(kind, p)
             reply == IF p.user = None THEN NotAsked ELSE None
             step == IF p.user = None THEN "answered" ELSE IF ByName(p) THEN "resolve" ELSE "list"
  <1>1. q = [kind |-> kind, params |-> p, ids |-> {}, quiet |-> TRUE, reply |-> reply, step |-> step]
    <2>1. step = CASE p.user = None -> "answered"
                   [] p.user # None /\ p.route = "/orders" /\ p.filter.name # None -> "resolve"
                   [] p.user # None /\ (p.route # "/orders" \/ p.filter.name = None) -> "list"
      BY DEF ByName
    <2> HIDE DEF step
    <2> QED BY <2>1 DEF Asks
  <1>2. step \in Steps /\ reply \in Replies \cup {None}
    BY NotAskedOk DEF Steps
  <1>3. reply # None <=> step \in {"answered", "delivered"}
    BY NotAskedOk, NoneIsNoRecord
  <1>4. q \in Requested /\ q # None
    <2>1. {} \in SUBSET Customers
      OBVIOUS
    <2> HIDE DEF q, step, reply
    <2>2. q \in Requested
      BY <1>1, <1>2, <2>1 DEF Requested, Wanted
    <2> QED BY <2>2, NoneIsNoRecord
  <1>5. RequestOk(q)
    <2>1. CASE p.user = None
      <3>1. q.params = p /\ q.kind = "screen" /\ q.step = "answered" /\ q.reply = NotAsked
        BY <1>1, <2>1
      <3>2. Expected(q) = NotAsked
        BY <2>1, <3>1 DEF Expected, ScreenReply
      <3> HIDE DEF q
      <3> QED BY <3>1, <3>2, NotAskedOk DEF RequestOk, ReplyOk, QuietOk, Wanted
    <2>2. CASE p.user # None
      <3>1. /\ q.params = p /\ q.reply = None /\ q.ids = {}
            /\ q.step = IF ByName(p) THEN "resolve" ELSE "list"
        BY <1>1, <2>2
      <3> HIDE DEF q
      <3> QED BY <2>2, <3>1 DEF RequestOk, ReplyOk, QuietOk
    <2> QED BY <2>1, <2>2
  <1> HIDE DEF step, reply
  <1>6. q.kind = kind /\ q.params = p /\ q.quiet /\ q.step = step /\ q.reply = reply
    BY <1>1
  <1>7. step # "delivered"
    BY DEF step
  <1> QED BY <1>3, <1>4, <1>5, <1>6, <1>7 DEF Sound

(* A request goes on. *)
Goes(q, r) ==
  /\ Sound(r) /\ r.step \in {"list", "answered"}
  /\ r.kind = q.kind /\ r.params = q.params /\ r.quiet = q.quiet

(* The call for the customers of a name. *)
Resolved(q) ==
  LET found == Resolve(q.params) IN
  IF found.status = "ok" THEN [q EXCEPT !.step = "list", !.ids = found.items]
                         ELSE [q EXCEPT !.step = "answered", !.reply = found]

LEMMA ResolvedOk == ASSUME NEW q, Sound(q), q.step = "resolve" PROVE Goes(q, Resolved(q))
  <1> DEFINE found == Resolve(q.params)
             r == Resolved(q)
  <1>1. /\ q \in Requested /\ ByName(q.params) /\ q.reply = None /\ IsParams(q.params)
        /\ q.params.user # None /\ q.kind \in {"screen", "summary"}
    BY DEF Sound, RequestOk, Requested
  <1>2. /\ found \in Replies /\ found.status \in {"ok", "denied", "ambiguous"}
        /\ found.status = "ok" => found.items = CustomersOf(q.params.user, q.params.filter.name)
        /\ found.status # "ok" => found.count = 0 /\ found.items = {}
    BY ResolveOk
  <1>3. CASE found.status = "ok"
    <2>1. /\ r = [q EXCEPT !.step = "list", !.ids = found.items]
          /\ found.items \subseteq Customers
      BY <1>2, <1>3 DEF CustomersOf, Resolved
    <2>2. /\ r \in Requested /\ r.step = "list" /\ r.ids = found.items /\ r.reply = None
          /\ r.kind = q.kind /\ r.params = q.params /\ r.quiet = q.quiet
      BY <1>1, <2>1 DEF Requested, Steps
    <2>3. RequestOk(r)
      BY <1>1, <1>3, <2>2 DEF RequestOk, ReplyOk, QuietOk
    <2> QED BY <1>1, <2>2, <2>3 DEF Sound, Goes
  <1>4. CASE found.status # "ok"
    <2>1. r = [q EXCEPT !.step = "answered", !.reply = found]
      BY <1>4 DEF Resolved
    <2>2. /\ r \in Requested /\ r.step = "answered" /\ r.reply = found /\ found # None
          /\ r.kind = q.kind /\ r.params = q.params /\ r.quiet = q.quiet
      BY <1>1, <1>2, <2>1, NoneIsNoRecord DEF Requested, Steps
    <2>3. Expected(r) = found
      BY <1>1, <1>4, <2>2 DEF Expected, ScreenReply, SummaryReply, ByName
    <2>4. RequestOk(r)
      BY <1>1, <1>2, <1>4, <2>2, <2>3, RefusalOk DEF RequestOk, ReplyOk, QuietOk
    <2> QED BY <1>1, <2>2, <2>4 DEF Sound, Goes
  <1> QED BY <1>3, <1>4

(* The call for the list. *)
Listed(q) == [q EXCEPT !.step = "answered", !.reply = List(q)]

LEMMA ListedOk == ASSUME NEW q, Sound(q), q.step = "list" PROVE Goes(q, Listed(q))
  <1> DEFINE reply == List(q)
             p == q.params
             r == Listed(q)
  <1>1. q \in Requested /\ q.reply = None /\ IsParams(p) /\ q.kind \in {"screen", "summary"}
        /\ p.route \in Routes /\ p.offset \in Nat /\ p.user # None
    BY DEF Sound, RequestOk, Requested
  <1>2. /\ reply \in Replies /\ SeenBy(p.user, p.route, reply.items)
        /\ q.kind = "screen" => PageOf(p.offset, reply)
    <2>1. CASE q.kind = "screen"
      BY <1>1, <2>1, ScreenListOk DEF List
    <2>2. CASE q.kind = "summary"
      BY <1>1, <2>2, SummaryListOk DEF List
    <2> QED BY <1>1, <2>1, <2>2
  <1>3. ASSUME q.quiet PROVE reply = Expected(q)
    <2>1. IF ByName(p) THEN Resolve(p).status = "ok" /\ q.ids = Resolve(p).items ELSE q.ids = {}
      BY <1>3 DEF Sound, RequestOk, QuietOk
    <2>2. CASE q.kind = "screen"
      BY <1>1, <2>1, <2>2 DEF List, Expected, ScreenReply, ByName
    <2>3. CASE q.kind = "summary"
      BY <2>1, <2>3 DEF List, Expected, SummaryReply
    <2> QED BY <1>1, <2>2, <2>3
  <1>4. r = [q EXCEPT !.step = "answered", !.reply = reply]
    BY DEF Listed
  <1> HIDE DEF reply, r
  <1>5. /\ r \in Requested /\ r.step = "answered" /\ r.reply = reply /\ reply # None
        /\ r.kind = q.kind /\ r.params = q.params /\ r.quiet = q.quiet
    BY <1>1, <1>2, <1>4, NoneIsNoRecord DEF Requested, Steps
  <1>6. Expected(r) = Expected(q)
    BY <1>5 DEF Expected
  <1>7. RequestOk(r)
    BY <1>1, <1>2, <1>3, <1>5, <1>6 DEF RequestOk, ReplyOk, QuietOk
  <1> QED BY <1>1, <1>5, <1>7 DEF Sound, Goes, r

Failed(q) == [q EXCEPT !.step = "answered", !.reply = Failure("failed")]

LEMMA FailedOk == ASSUME NEW q, Sound(q) PROVE Goes(q, Failed(q))
  <1> DEFINE reply == Failure("failed")
             r == Failed(q)
  <1>1. reply \in Replies /\ reply # None /\ reply.status = "failed" /\ reply.count = 0 /\ reply.items = {}
    BY FailureOk, NoneIsNoRecord
  <1>2. r = [q EXCEPT !.step = "answered", !.reply = reply]
    BY DEF Failed
  <1> HIDE DEF reply, r
  <1>3. /\ r \in Requested /\ r.step = "answered" /\ r.reply = reply /\ IsParams(q.params)
        /\ r.kind = q.kind /\ r.params = q.params /\ r.quiet = q.quiet
    BY <1>1, <1>2 DEF Sound, Requested, Steps
  <1>4. RequestOk(r)
    BY <1>1, <1>3, RefusalOk DEF Sound, RequestOk, ReplyOk, QuietOk
  <1> QED BY <1>1, <1>3, <1>4 DEF Sound, Goes, r

-----------------------------------------------------------------------------
(* The steps of a handler. *)

(* A handler goes on with its request. *)
LEMMA HandlerStep ==
  ASSUME TypeOK, ScreensInv, NEW i \in Requests, requests[i] # None,
         requests[i].step \in {"resolve", "list"}, NEW r, Goes(requests[i], r),
         requests' = [requests EXCEPT ![i] = r],
         UNCHANGED <<page, live, loaded, there, changes, acts, strayed>>
  PROVE  TypeOK' /\ ScreensInv'
  <1>0. /\ Sound(r) /\ r.step \in {"list", "answered"} /\ r.kind = requests[i].kind
        /\ r.params = requests[i].params /\ r.quiet = requests[i].quiet
    BY DEF Goes
  <1>1. /\ requests'[i] = r /\ r \in Requested /\ r # None
        /\ \A j \in Requests \ {i} : requests'[j] = requests[j]
    BY <1>0, NoneIsNoRecord DEF TypeOK, Sound
  <1>2. TypeOK'
    <2>1. requests' \in [Requests -> Requested \cup {None}]
      BY <1>1 DEF TypeOK
    <2>2. ASSUME NEW j \in Requests, requests'[j] # None
          PROVE  IsParams(requests'[j].params) /\ (requests'[j].reply # None <=> requests'[j].step \in {"answered", "delivered"})
      BY <1>0, <1>1, <2>2 DEF TypeOK, Sound
    <2>3. live # None => requests'[live] # None
      BY <1>1 DEF TypeOK
    <2>4. \A p : IsParams(p)' <=> IsParams(p)
      OBVIOUS
    <2> QED BY <2>1, <2>2, <2>3, <2>4 DEF TypeOK
  <1>3. RequestsOk'
    <2> SUFFICES ASSUME NEW j \in Requests, requests'[j] # None PROVE RequestOk(requests'[j])
      BY SameRows DEF RequestsOk
    <2> QED BY <1>0, <1>1 DEF ScreensInv, RequestsOk, Sound
  <1>4. LiveOk'
    <2> SUFFICES ASSUME live # None PROVE LiveOk'
      BY DEF LiveOk
    <2>1. live \in Requests
      BY DEF TypeOK
    <2>2. requests'[live].kind = requests[live].kind /\ requests'[live].params = requests[live].params
          /\ requests'[live].quiet = requests[live].quiet
          /\ (requests'[live].step = "delivered" => live # i)
      BY <1>0, <1>1, <2>1
    <2>3. live # i => requests'[live] = requests[live]
      BY <1>1, <2>1
    <2> QED BY <2>2, <2>3 DEF LiveOk, ScreensInv
  <1>5. LoadedOk' /\ WithinTheList'
    BY SameRows DEF ScreensInv, LoadedOk, WithinTheList
  <1> QED BY <1>2, <1>3, <1>4, <1>5 DEF ScreensInv

LEMMA HandlerOk ==
  ASSUME TypeOK, ScreensInv, NEW i \in Requests, ResolveNames(i) \/ ListRows(i) \/ Fail(i)
  PROVE  TypeOK' /\ ScreensInv'
  <1> DEFINE q == requests[i]
  <1>1. q # None /\ q.step \in {"resolve", "list"} /\ UNCHANGED <<page, live, loaded, there, changes, acts, strayed>>
    BY DEF ResolveNames, ListRows, Fail
  <1>2. Sound(q)
    BY <1>1, RequestTyped
  <1>3. \E r : requests' = [requests EXCEPT ![i] = r] /\ Goes(q, r)
    <2>1. CASE ResolveNames(i)
      <3>1. q.step = "resolve" /\ requests' = [requests EXCEPT ![i] = Resolved(q)]
        BY <2>1 DEF ResolveNames, ResolveIDs, Resolved
      <3> QED BY <1>2, <3>1, ResolvedOk
    <2>2. CASE ListRows(i)
      <3>1. q.step = "list" /\ requests' = [requests EXCEPT ![i] = Listed(q)]
        BY <2>2 DEF ListRows, Listed
      <3> QED BY <1>2, <3>1, ListedOk
    <2>3. CASE Fail(i)
      <3>1. requests' = [requests EXCEPT ![i] = Failed(q)]
        BY <2>3 DEF Fail, Failed
      <3> QED BY <1>2, <3>1, FailedOk
    <2> QED BY <2>1, <2>2, <2>3
  <1> QED BY <1>1, <1>3, HandlerStep

(* The key of what was asked for tells what was asked for. *)
LEMMA KeysTell ==
  ASSUME NEW p \in Wanted
  PROVE  /\ Key(p) \in UserOrNone \X Routes \X (NameFilters \cup StockFilters) \X Nat
         /\ ParamsOf(Key(p)) = p
         /\ \A q : Key(q) = Key(p) => /\ q.user = p.user /\ q.route = p.route
                                      /\ q.filter = p.filter /\ q.offset = p.offset
  BY DEF Wanted, Key, ParamsOf

(* An answer reaches the browser: it is loaded, or dropped. *)
LEMMA DeliverOk ==
  ASSUME TypeOK, ScreensInv, NEW i \in Requests, Deliver(i)
  PROVE  TypeOK' /\ ScreensInv'
  <1> DEFINE q == requests[i]
  <1>1. q # None /\ q.step = "answered" /\ Take(i) /\ UNCHANGED <<page, live, there, changes, acts, strayed>>
    BY DEF Deliver
  <1>2. /\ Sound(q) /\ q.params \in Wanted /\ q.params.route \in Routes /\ q.reply # None /\ q.reply \in Replies
        /\ q.quiet \in BOOLEAN
    BY <1>1, RequestTyped DEF Sound, Requested
  <1>3. CASE i = live
    <2> DEFINE r == [q EXCEPT !.step = "delivered"]
               l == [key |-> Key(q.params), route |-> q.params.route, reply |-> q.reply, quiet |-> q.quiet]
    <2>1. requests' = [requests EXCEPT ![i] = r] /\ loaded' = l
      BY <1>1, <1>3 DEF Take, Load
    <2>2. live # None /\ q.kind = "screen" /\ q.params.route = page.route /\ (loaded # None /\ loaded.quiet => q.quiet)
      BY <1>1, <1>3, ConstantsTyped DEF ScreensInv, LiveOk
    <2>3. /\ l \in Loads /\ l # None /\ l.key = Key(q.params) /\ l.route = q.params.route
          /\ l.reply = q.reply /\ l.quiet = q.quiet
      BY <1>2, KeysTell, NoneIsNoRecord DEF Loads
    <2>4. /\ r \in Requested /\ r # None /\ r.step = "delivered" /\ r.kind = q.kind /\ r.params = q.params
          /\ r.quiet = q.quiet /\ r.reply = q.reply
      BY <1>2, NoneIsNoRecord DEF Sound, Requested, Steps
    <2>5. RequestOk(r)
      <3>1. Expected(r) = Expected(q)
        BY <2>4 DEF Expected
      <3> QED BY <1>1, <1>2, <2>4, <3>1 DEF Sound, RequestOk, ReplyOk, QuietOk
    <2> HIDE DEF r, l, q
    <2>6. requests'[i] = r /\ (\A j \in Requests \ {i} : requests'[j] = requests[j])
          /\ requests' \in [Requests -> Requested \cup {None}]
      BY <2>1, <2>4 DEF TypeOK
    <2>7. SeenBy(q.params.user, q.params.route, q.reply.items) /\ PageOf(q.params.offset, q.reply)
      BY <1>2, <2>2 DEF Sound, RequestOk, ReplyOk
    <2>8. TypeOK'
      <3>1. ASSUME NEW j \in Requests, requests'[j] # None
            PROVE  IsParams(requests'[j].params) /\ (requests'[j].reply # None <=> requests'[j].step \in {"answered", "delivered"})
        BY <1>2, <2>4, <2>6, <3>1 DEF TypeOK, Sound
      <3>2. loaded'.route = page.route /\ Cardinality(loaded'.reply.items) <= PageSize
        BY <2>1, <2>2, <2>3, <2>7 DEF PageOf
      <3>3. requests'[live] # None
        BY <1>3, <2>4, <2>6
      <3> QED BY <1>1, <2>1, <2>3, <2>6, <3>1, <3>2, <3>3 DEF TypeOK
    <2>9. RequestsOk'
      <3> SUFFICES ASSUME NEW j \in Requests, requests'[j] # None PROVE RequestOk(requests'[j])
        BY <1>1, SameRows DEF RequestsOk
      <3> QED BY <2>5, <2>6 DEF ScreensInv, RequestsOk
    <2>10. LiveOk'
      BY <1>1, <1>3, <2>1, <2>2, <2>3, <2>4, <2>6 DEF LiveOk
    <2>11. LoadedOk'
      <3>1. ParamsOf(l.key) = q.params
        BY <1>2, <2>3, KeysTell
      <3>2. q.quiet /\ q.reply.status # "failed" => q.reply = ScreenReply(q.params)
        BY <1>1, <1>2, <2>2 DEF Sound, RequestOk, QuietOk, Expected, q
      <3> QED BY <1>1, <2>1, <2>3, <2>7, <3>1, <3>2, SameRows DEF LoadedOk
    <2>12. WithinTheList'
      BY <1>1, <2>1, <2>2, <2>3, SameRows DEF ScreensInv, WithinTheList
    <2> QED BY <2>8, <2>9, <2>10, <2>11, <2>12 DEF ScreensInv
  <1>4. CASE i # live
    <2>1. requests' = [requests EXCEPT ![i] = None] /\ loaded' = loaded
      BY <1>1, <1>4 DEF Take
    <2>2. requests'[i] = None /\ (\A j \in Requests \ {i} : requests'[j] = requests[j])
          /\ requests' \in [Requests -> Requested \cup {None}]
      BY <2>1 DEF TypeOK
    <2>3. live # None => live \in Requests /\ requests'[live] = requests[live]
      BY <1>4, <2>2 DEF TypeOK
    <2>4. TypeOK'
      BY <1>1, <2>1, <2>2, <2>3 DEF TypeOK
    <2>5. RequestsOk'
      <3> SUFFICES ASSUME NEW j \in Requests, requests'[j] # None PROVE RequestOk(requests'[j])
        BY <1>1, SameRows DEF RequestsOk
      <3> QED BY <2>2 DEF ScreensInv, RequestsOk
    <2>6. LiveOk' /\ LoadedOk' /\ WithinTheList'
      BY <1>1, <2>1, <2>3, SameRows DEF ScreensInv, LiveOk, LoadedOk, WithinTheList
    <2> QED BY <2>4, <2>5, <2>6 DEF ScreensInv
  <1> QED BY <1>3, <1>4

-----------------------------------------------------------------------------
(* The acts of the user, and the writes of others. *)

LEMMA FiltersTyped ==
  /\ Assistant \notin Routes
  /\ NoFilter \in NameFilters
  /\ \A r \in Routes \cup {Assistant} : FiltersOf(r) \subseteq NameFilters \cup StockFilters
  /\ \A p \in [user : UserOrNone, route : Routes \cup {Assistant}, filter : NameFilters \cup StockFilters, offset : Nat] :
       p.route \in Routes => p \in Wanted
  BY DEF Assistant, Routes, NoFilter, NameFilters, StockFilters, FiltersOf, Wanted

(* The page is another one of the same route. *)
LEMMA PageTurned ==
  ASSUME TypeOK, ScreensInv, UNCHANGED <<live, loaded, requests, there, changes>>,
         page'.route = page.route, IsParams(page'), WholePages(page'.offset),
         acts' \in 0 .. MaxActs, strayed' \in BOOLEAN, WithinTheList'
  PROVE  TypeOK' /\ ScreensInv'
  <1>1. TypeOK'
    BY DEF TypeOK, WholePages
  <1>2. RequestsOk' /\ LiveOk' /\ LoadedOk'
    BY SameRows DEF ScreensInv, RequestsOk, LiveOk, LoadedOk
  <1> QED BY <1>1, <1>2 DEF ScreensInv

LEMMA SetFilterOk == ASSUME TypeOK, ScreensInv, SetFilter PROVE TypeOK' /\ ScreensInv'
  <1>1. /\ UNCHANGED <<live, loaded, requests, there, changes>> /\ acts' \in 0 .. MaxActs
    BY ConstantsTyped DEF SetFilter, Act, TypeOK
  <1>2. page \in [user : UserOrNone, route : Routes \cup {Assistant}, filter : NameFilters \cup StockFilters, offset : Nat]
        /\ page.filter \in FiltersOf(page.route)
    BY DEF TypeOK, IsParams
  <1>3. \E f \in FiltersOf(page.route) : page' = [page EXCEPT !.filter = f, !.offset = 0] /\ strayed' = FALSE
    <2>1. CASE /\ page.route \in {"/orders", "/customers"}
               /\ \E n \in DOMAIN Named \cup {None} : ChangeFilter([page.filter EXCEPT !.name = n])
      <3>1. PICK n \in DOMAIN Named \cup {None} : ChangeFilter([page.filter EXCEPT !.name = n])
        BY <2>1
      <3>2. [page.filter EXCEPT !.name = n] \in FiltersOf(page.route)
        BY <1>2, <2>1 DEF FiltersOf, NameFilters, Assistant
      <3> QED BY <3>1, <3>2 DEF ChangeFilter
    <2>2. CASE /\ page.route = "/stock"
               /\ \E t \in Thresholds \cup {None} : ChangeFilter([page.filter EXCEPT !.at_most = t])
      <3>1. PICK t \in Thresholds \cup {None} : ChangeFilter([page.filter EXCEPT !.at_most = t])
        BY <2>2
      <3>2. [page.filter EXCEPT !.at_most = t] \in FiltersOf(page.route)
        <4>1. FiltersOf(page.route) = StockFilters
          BY <2>2 DEF FiltersOf, Assistant
        <4>2. page.filter \in StockFilters
          BY <1>2, <4>1
        <4>3. [page.filter EXCEPT !.at_most = t] \in StockFilters
          BY <4>2 DEF StockFilters
        <4> QED BY <4>1, <4>3
      <3> QED BY <3>1, <3>2 DEF ChangeFilter
    <2>3. CASE /\ page.route = "/stock"
               /\ \E t \in Thresholds \cup {None} : ChangeFilter([page.filter EXCEPT !.below = t])
      <3>1. PICK t \in Thresholds \cup {None} : ChangeFilter([page.filter EXCEPT !.below = t])
        BY <2>3
      <3>2. [page.filter EXCEPT !.below = t] \in FiltersOf(page.route)
        <4>1. FiltersOf(page.route) = StockFilters
          BY <2>3 DEF FiltersOf, Assistant
        <4>2. page.filter \in StockFilters
          BY <1>2, <4>1
        <4>3. [page.filter EXCEPT !.below = t] \in StockFilters
          BY <4>2 DEF StockFilters
        <4> QED BY <4>1, <4>3
      <3> QED BY <3>1, <3>2 DEF ChangeFilter
    <2> QED BY <2>1, <2>2, <2>3 DEF SetFilter
  <1>4. IsParams(page') /\ page'.route = page.route /\ page'.offset = 0 /\ strayed' = FALSE
    <2>1. PICK f \in FiltersOf(page.route) : page' = [page EXCEPT !.filter = f, !.offset = 0] /\ strayed' = FALSE
      BY <1>3
    <2>2. f \in NameFilters \cup StockFilters
      BY <1>2, FiltersTyped
    <2> QED BY <1>2, <2>1, <2>2 DEF IsParams
  <1>5. WholePages(page'.offset)
    BY <1>4, ConstantsTyped DEF WholePages
  <1>6. WithinTheList'
    BY <1>4 DEF WithinTheList
  <1> QED BY <1>1, <1>4, <1>5, <1>6, PageTurned

(* The pager goes on only as far as a list it knows reaches.               *)
LEMMA SetPageOk == ASSUME TypeOK, ScreensInv, SetPage PROVE TypeOK' /\ ScreensInv'
  <1>1. /\ UNCHANGED <<live, loaded, requests, there, changes>> /\ acts' \in 0 .. MaxActs
    BY ConstantsTyped DEF SetPage, Act, TypeOK
  <1>2. /\ page \in [user : UserOrNone, route : Routes \cup {Assistant}, filter : NameFilters \cup StockFilters, offset : Nat]
        /\ page.filter \in FiltersOf(page.route) /\ page.offset \in Nat /\ strayed \in BOOLEAN
        /\ PageSize \in Nat /\ PageSize # 0
    BY ConstantsTyped DEF TypeOK, IsParams
  <1>3. PICK k \in Nat : page.offset = k * PageSize
    BY <1>2 DEF TypeOK, WholePages
  <1>4. ASSUME NEW o \in Nat, page' = [page EXCEPT !.offset = o]
        PROVE  /\ IsParams(page') /\ page'.route = page.route /\ page'.offset = o
               /\ page.route \in Routes => SameList(page', page)
    <2>1. /\ page' \in [user : UserOrNone, route : Routes \cup {Assistant}, filter : NameFilters \cup StockFilters, offset : Nat]
          /\ page'.route = page.route /\ page'.filter = page.filter /\ page'.user = page.user /\ page'.offset = o
      BY <1>2, <1>4
    <2> QED BY <1>2, <2>1 DEF IsParams, SameList
  <1>5. ASSUME NEW j \in Nat PROVE j * PageSize \in Nat /\ WholePages(j * PageSize)
    <2>1. j * PageSize \in Nat /\ j <= j * PageSize
      BY <1>2
    <2> QED BY <2>1 DEF WholePages
  <1>6. CASE /\ loaded # None /\ page.offset + PageSize < loaded.reply.count
             /\ page' = [page EXCEPT !.offset = @ + PageSize]
             /\ strayed' = (strayed \/ Loading \/ ~loaded.quiet)
    <2>1. page.offset + PageSize = (k + 1) * PageSize /\ k + 1 \in Nat /\ page.offset + PageSize \in Nat
      BY <1>2, <1>3
    <2>2. /\ IsParams(page') /\ page'.route = page.route /\ page'.offset = page.offset + PageSize
          /\ page.route \in Routes => SameList(page', page)
      BY <1>4, <1>6, <2>1
    <2>3. WholePages(page'.offset)
      BY <1>5, <2>1, <2>2
    <2>4. loaded \in Loads /\ page.route \in Routes /\ loaded.reply.count \in Nat
      BY <1>6 DEF TypeOK, Loads, Replies
    <2>5. WithinTheList'
      <3> SUFFICES ASSUME ~strayed' PROVE loaded.quiet /\ page'.offset < ScreenReply(page').count
        BY <1>1, <1>6, SameRows DEF WithinTheList
      <3>1. ~Loading /\ loaded.quiet
        BY <1>6
      <3>2. loaded.key = Key(page)
        BY <1>6, <2>4, <3>1, FiltersTyped DEF Loading
      <3>3. page \in Wanted /\ ParamsOf(loaded.key) = page
        BY <1>2, <2>4, <3>2, FiltersTyped, KeysTell
      <3>4. loaded.reply.status = "ok"
        <4>1. PageOf(page.offset, loaded.reply)
          BY <1>6, <3>3 DEF ScreensInv, LoadedOk
        <4>2. loaded.reply.count # 0
          BY <1>2, <1>6, <2>4
        <4> QED BY <4>1, <4>2 DEF PageOf
      <3>5. loaded.reply = ScreenReply(page)
        BY <1>6, <3>1, <3>3, <3>4 DEF ScreensInv, LoadedOk
      <3>6. ScreenReply(page').count = ScreenReply(page).count
        BY <2>2, <2>4, CountsAgree
      <3> QED BY <1>6, <2>2, <3>1, <3>5, <3>6
    <2> QED BY <1>1, <1>2, <1>6, <2>2, <2>3, <2>5, PageTurned DEF Loading
  <1>7. CASE /\ page.offset >= PageSize
             /\ page' = [page EXCEPT !.offset = @ - PageSize]
             /\ strayed' = (strayed /\ page.offset > PageSize)
    <2>1. page.offset - PageSize = (k - 1) * PageSize /\ k - 1 \in Nat /\ page.offset - PageSize \in Nat
      <3>1. k # 0
        BY <1>2, <1>3, <1>7
      <3> QED BY <1>2, <1>3, <1>7, <3>1
    <2>2. /\ IsParams(page') /\ page'.route = page.route /\ page'.offset = page.offset - PageSize
          /\ page.route \in Routes => SameList(page', page)
      BY <1>4, <1>7, <2>1
    <2>3. WholePages(page'.offset)
      BY <1>5, <2>1, <2>2
    <2>4. WithinTheList'
      <3> SUFFICES ASSUME page'.offset > 0, ~strayed'
                   PROVE loaded # None /\ loaded.quiet /\ page'.offset < ScreenReply(page').count
        BY <1>1, <1>7, SameRows DEF WithinTheList
      <3>1. page.offset > 0 /\ ~strayed
        BY <1>2, <1>7, <2>1, <2>2
      <3>2. loaded # None /\ loaded.quiet /\ page.offset < ScreenReply(page).count
        BY <3>1 DEF ScreensInv, WithinTheList
      <3>3. page.route \in Routes
        BY <3>2 DEF TypeOK, Loads
      <3>5. ScreenReply(page').count = ScreenReply(page).count
        BY <2>2, <3>3, CountsAgree
      <3>6. ScreenReply(page).count \in Int
        BY <1>2, <3>3, ScreenReplyOk
      <3> QED BY <1>2, <2>1, <2>2, <3>2, <3>5, <3>6
    <2> QED BY <1>1, <1>2, <1>7, <2>2, <2>3, <2>4, PageTurned
  <1> QED BY <1>6, <1>7 DEF SetPage

(* Another user, or the first one, is another reader of the list.          *)
LEMMA SwitchUserOk == ASSUME TypeOK, ScreensInv, UsersCome \/ SwitchUser PROVE TypeOK' /\ ScreensInv'
  <1>0. MaxActs \in Nat /\ acts \in 0 .. MaxActs
        /\ (acts' = acts \/ (acts < MaxActs /\ acts' = acts + 1))
    BY ConstantsTyped DEF UsersCome, SwitchUser, Act, TypeOK
  <1>1. /\ UNCHANGED <<live, loaded, requests, there, changes>> /\ acts' \in 0 .. MaxActs
        /\ strayed' = (strayed \/ page.offset > 0) /\ strayed' \in BOOLEAN
    <2>1. UNCHANGED <<live, loaded, requests, there, changes>> /\ strayed' = (strayed \/ page.offset > 0)
      BY DEF UsersCome, SwitchUser
    <2>2. acts' \in 0 .. MaxActs
      BY <1>0
    <2>3. strayed' \in BOOLEAN
      BY <2>1 DEF TypeOK
    <2> QED BY <2>1, <2>2, <2>3
  <1>2. PICK u \in Users : page' = [page EXCEPT !.user = u]
    BY DEF UsersCome, SwitchUser
  <1>3. IsParams(page') /\ page'.route = page.route /\ page'.offset = page.offset
    BY <1>2 DEF TypeOK, IsParams, UserOrNone
  <1>4. WholePages(page'.offset)
    BY <1>3 DEF TypeOK
  <1>5. WithinTheList'
    BY <1>1, <1>3 DEF WithinTheList
  <1> QED BY <1>1, <1>3, <1>4, <1>5, PageTurned

(* The threshold that is shown is the one the service took. *)
LEMMA ShowDefaultOk == ASSUME TypeOK, ScreensInv, ShowDefault PROVE TypeOK' /\ ScreensInv'
  <1>1. /\ UNCHANGED <<live, loaded, requests, there, changes, acts, strayed>>
        /\ page.route = "/stock" /\ page.filter.below = None /\ page.filter.at_most = None
        /\ page' = [page EXCEPT !.filter = [@ EXCEPT !.at_most = DefaultThreshold]]
    BY DEF ShowDefault
  <1>2. page \in [user : UserOrNone, route : Routes \cup {Assistant}, filter : NameFilters \cup StockFilters, offset : Nat]
        /\ page.filter \in FiltersOf(page.route)
    BY DEF TypeOK, IsParams
  <1>3. FiltersOf("/stock") = StockFilters
    BY DEF FiltersOf, Assistant
  <1> DEFINE f == [page.filter EXCEPT !.at_most = DefaultThreshold]
  <1>4. f \in StockFilters /\ f.below = None /\ f.at_most = DefaultThreshold
    <2>1. page.filter \in StockFilters
      BY <1>1, <1>2, <1>3
    <2> QED BY <1>1, <2>1 DEF StockFilters
  <1>5. page' = [page EXCEPT !.filter = f]
    BY <1>1
  <1> HIDE DEF f
  <1>6. /\ IsParams(page') /\ page'.route = page.route /\ page'.offset = page.offset
        /\ page'.user = page.user /\ page'.filter = f
    BY <1>1, <1>2, <1>3, <1>4, <1>5 DEF IsParams
  <1>7. SameList(page', page)
    BY <1>1, <1>4, <1>6 DEF SameList, Routes
  <1>8. ScreenReply(page').count = ScreenReply(page).count
    BY <1>7, CountsAgree
  <1>9. WithinTheList'
    BY <1>1, <1>6, <1>8, SameRows DEF ScreensInv, WithinTheList
  <1>10. WholePages(page'.offset) /\ acts' \in 0 .. MaxActs /\ strayed' \in BOOLEAN
    BY <1>1, <1>6 DEF TypeOK
  <1> QED BY <1>1, <1>6, <1>9, <1>10, PageTurned

(* A page that goes forgets its answer; what is under way goes on.         *)
LEMMA OpenOk == ASSUME TypeOK, ScreensInv, Open PROVE TypeOK' /\ ScreensInv'
  <1>1. /\ UNCHANGED <<there, changes>> /\ acts' \in 0 .. MaxActs /\ strayed' = FALSE
        /\ loaded' = None /\ live' = None
    BY ConstantsTyped DEF Open, Unmount, Act, TypeOK
  <1>2. \A j \in Requests : requests'[j] = None \/ requests'[j] = requests[j]
    BY DEF Open, Unmount
  <1>3. requests' \in [Requests -> Requested \cup {None}]
    BY DEF Open, Unmount, TypeOK
  <1>4. PICK r \in Routes \cup {Assistant} : \E f \in FiltersOf(r) :
          page' = [page EXCEPT !.route = r, !.filter = f, !.offset = 0]
    BY DEF Open
  <1>5. PICK f \in FiltersOf(r) : page' = [page EXCEPT !.route = r, !.filter = f, !.offset = 0]
    BY <1>4
  <1>6. IsParams(page') /\ page'.offset = 0
    <2>1. f \in NameFilters \cup StockFilters
      BY FiltersTyped
    <2> QED BY <1>5, <2>1 DEF TypeOK, IsParams
  <1>7. WholePages(page'.offset)
    BY <1>6, ConstantsTyped DEF WholePages
  <1>8. TypeOK'
    BY <1>1, <1>2, <1>3, <1>6, <1>7 DEF TypeOK, WholePages
  <1>9. RequestsOk'
    <2> SUFFICES ASSUME NEW j \in Requests, requests'[j] # None PROVE RequestOk(requests'[j])
      BY <1>1, SameRows DEF RequestsOk
    <2> QED BY <1>2 DEF ScreensInv, RequestsOk
  <1>10. LiveOk' /\ LoadedOk' /\ WithinTheList'
    BY <1>1, <1>6 DEF LiveOk, LoadedOk, WithinTheList
  <1> QED BY <1>8, <1>9, <1>10 DEF ScreensInv

(* A free place takes a request. *)
LEMMA PlaceTaken ==
  ASSUME TypeOK, ScreensInv, NEW i \in Requests, NEW r, Sound(r), r # None,
         requests' \in [Requests -> Requested \cup {None}], requests'[i] = r,
         \A j \in Requests \ {i} : requests'[j] \in {requests[j], None},
         live' = None \/ live' = i \/ (live' = live /\ live # i /\ (live # None => requests'[live] = requests[live])),
         UNCHANGED <<page, loaded, there, changes, strayed>>, acts' \in 0 .. MaxActs
  PROVE  TypeOK' /\ RequestsOk' /\ LoadedOk' /\ WithinTheList'
  <1>1. TypeOK'
    <2>1. ASSUME NEW j \in Requests, requests'[j] # None
          PROVE  IsParams(requests'[j].params) /\ (requests'[j].reply # None <=> requests'[j].step \in {"answered", "delivered"})
      BY <2>1 DEF TypeOK, Sound
    <2>2. live' \in Requests \cup {None} /\ (live' # None => requests'[live'] # None)
      BY DEF TypeOK
    <2> QED BY <2>1, <2>2 DEF TypeOK, WholePages
  <1>2. RequestsOk'
    <2> SUFFICES ASSUME NEW j \in Requests, requests'[j] # None PROVE RequestOk(requests'[j])
      BY SameRows DEF RequestsOk
    <2> QED BY DEF ScreensInv, RequestsOk, Sound
  <1>3. LoadedOk' /\ WithinTheList'
    BY SameRows DEF ScreensInv, LoadedOk, WithinTheList
  <1> QED BY <1>1, <1>2, <1>3

LEMMA RunEffectOk == ASSUME TypeOK, ScreensInv, RunEffect PROVE TypeOK' /\ ScreensInv'
  <1>1. page.route \in Routes /\ UNCHANGED <<page, loaded, there, changes, acts, strayed>>
    BY DEF RunEffect
  <1>2. PICK i \in Requests :
          /\ requests' = [j \in Requests |-> IF j = i THEN Asks("screen", page)
                                             ELSE IF Free(j) THEN None ELSE requests[j]]
          /\ live' = i
    BY DEF RunEffect
  <1> DEFINE r == Asks("screen", page)
  <1>3. IsParams(page) /\ page \in Wanted
    BY <1>1, FiltersTyped DEF TypeOK, IsParams
  <1>4. Sound(r) /\ r # None /\ r.kind = "screen" /\ r.params = page /\ r.quiet /\ r.step # "delivered"
    BY <1>3, AskedOk
  <1>5. /\ requests'[i] = r /\ \A j \in Requests \ {i} : requests'[j] \in {requests[j], None}
    BY <1>2
  <1>6. requests' \in [Requests -> Requested \cup {None}]
    <2>1. r \in Requested
      BY <1>4 DEF Sound
    <2> HIDE DEF r
    <2>2. requests' = [j \in Requests |-> IF j = i THEN r ELSE IF Free(j) THEN None ELSE requests[j]]
      BY <1>2 DEF r
    <2> QED BY <2>1, <2>2 DEF TypeOK
  <1> HIDE DEF r
  <1>7. acts' \in 0 .. MaxActs
    BY <1>1 DEF TypeOK
  <1>8. TypeOK' /\ RequestsOk' /\ LoadedOk' /\ WithinTheList'
    BY <1>1, <1>2, <1>4, <1>5, <1>6, <1>7, PlaceTaken
  <1>9. LiveOk'
    BY <1>1, <1>2, <1>4, <1>5 DEF LiveOk
  <1> QED BY <1>8, <1>9 DEF ScreensInv

LEMMA ProposeOk == ASSUME TypeOK, ScreensInv, Propose PROVE TypeOK' /\ ScreensInv'
  <1>1. UNCHANGED <<page, live, loaded, there, changes, strayed>> /\ acts' \in 0 .. MaxActs
    BY ConstantsTyped DEF Propose, Act, TypeOK
  <1>0. PICK route \in Routes : \E f \in FiltersOf(route) : \E i \in Requests :
          /\ requests[i] = None
          /\ requests' = [requests EXCEPT ![i] =
               Asks("summary", [user |-> page.user, route |-> route, filter |-> f, offset |-> 0])]
    BY DEF Propose
  <1>2. PICK f \in FiltersOf(route), i \in Requests :
          /\ requests[i] = None
          /\ requests' = [requests EXCEPT ![i] =
               Asks("summary", [user |-> page.user, route |-> route, filter |-> f, offset |-> 0])]
    BY <1>0
  <1> DEFINE p == [user |-> page.user, route |-> route, filter |-> f, offset |-> 0]
             r == Asks("summary", p)
  <1>3. IsParams(p) /\ p \in Wanted /\ p.user # None
    <2>1. f \in NameFilters \cup StockFilters /\ page.user \in UserOrNone /\ page.user # None
      BY FiltersTyped DEF Propose, TypeOK, IsParams
    <2> QED BY <2>1 DEF IsParams, Wanted
  <1>4. Sound(r) /\ r # None
    <2> HIDE DEF p
    <2> QED BY <1>3, AskedOk
  <1>5. r \in Requested /\ requests' = [requests EXCEPT ![i] = r]
    BY <1>2, <1>4 DEF Sound
  <1> HIDE DEF r
  <1>6. /\ requests'[i] = r /\ \A j \in Requests \ {i} : requests'[j] = requests[j]
        /\ requests' \in [Requests -> Requested \cup {None}]
    BY <1>5 DEF TypeOK
  <1>7. live' = live /\ live # i /\ (live # None => live \in Requests /\ requests'[live] = requests[live])
    BY <1>1, <1>2, <1>6, ConstantsTyped DEF TypeOK
  <1>8. TypeOK' /\ RequestsOk' /\ LoadedOk' /\ WithinTheList'
    BY <1>1, <1>4, <1>6, <1>7, PlaceTaken
  <1>9. LiveOk'
    BY <1>1, <1>7 DEF ScreensInv, LiveOk
  <1> QED BY <1>8, <1>9 DEF ScreensInv

(* Nothing that was read before a write counts as quiet after it.          *)
LEMMA WriteOk == ASSUME TypeOK, ScreensInv, Write PROVE TypeOK' /\ ScreensInv'
  <1>1. /\ UNCHANGED <<page, live, acts>> /\ strayed' = (strayed \/ page.offset > 0)
        /\ changes' \in 0 .. MaxChanges /\ there' \subseteq Rows
    <2>1. changes < MaxChanges /\ changes' = changes + 1 /\ UNCHANGED <<page, live, acts>>
          /\ strayed' = (strayed \/ page.offset > 0)
      BY DEF Write
    <2>2. PICK r \in Changing : there' = (there \ {r}) \cup ({r} \ there)
      BY DEF Write
    <2>3. there' \subseteq Rows
      BY <2>2, ConstantsTyped DEF TypeOK, Rows
    <2> QED BY <2>1, <2>3, ConstantsTyped DEF TypeOK
  <1> DEFINE Loud(q) == [q EXCEPT !.quiet = FALSE]
  <1>2. /\ requests' = [j \in Requests |-> IF requests[j] = None THEN None ELSE Loud(requests[j])]
        /\ loaded' = IF loaded = None THEN None ELSE Loud(loaded)
    BY DEF Write
  <1>3. ASSUME NEW j \in Requests, requests[j] # None
        PROVE  /\ requests'[j] \in Requested /\ requests'[j] # None
               /\ requests'[j].kind = requests[j].kind /\ requests'[j].params = requests[j].params
               /\ requests'[j].step = requests[j].step /\ requests'[j].reply = requests[j].reply
               /\ requests'[j].quiet = FALSE
    <2>1. requests[j] \in Requested /\ requests'[j] = Loud(requests[j])
      BY <1>2, <1>3 DEF TypeOK
    <2>2. Loud(requests[j]) \in Requested
      BY <2>1 DEF Requested
    <2> QED BY <2>1, <2>2, NoneIsNoRecord DEF Requested
  <1>4. \A j \in Requests : requests[j] = None => requests'[j] = None
    BY <1>2
  <1>5. loaded # None =>
          /\ loaded' \in Loads /\ loaded' # None /\ loaded'.key = loaded.key /\ loaded'.route = loaded.route
          /\ loaded'.reply = loaded.reply /\ loaded'.quiet = FALSE
    <2> SUFFICES ASSUME loaded # None
                 PROVE  /\ loaded' \in Loads /\ loaded' # None /\ loaded'.key = loaded.key
                        /\ loaded'.route = loaded.route /\ loaded'.reply = loaded.reply
                        /\ loaded'.quiet = FALSE
      OBVIOUS
    <2>1. loaded \in Loads /\ loaded' = Loud(loaded)
      BY <1>2 DEF TypeOK
    <2>2. Loud(loaded) \in Loads
      BY <2>1 DEF Loads
    <2> QED BY <2>1, <2>2, NoneIsNoRecord DEF Loads
  <1>6. (loaded = None <=> loaded' = None)
    BY <1>2, <1>5
  <1>7. TypeOK'
    <2>1. requests' \in [Requests -> Requested \cup {None}]
      <3>1. \A j \in Requests : requests'[j] \in Requested \cup {None}
        BY <1>3, <1>4
      <3>2. requests' = [j \in Requests |-> requests'[j]]
        BY <1>2
      <3> QED BY <3>1, <3>2
    <2>2. ASSUME NEW j \in Requests, requests'[j] # None
          PROVE  IsParams(requests'[j].params) /\ (requests'[j].reply # None <=> requests'[j].step \in {"answered", "delivered"})
      BY <1>3, <1>4, <2>2 DEF TypeOK
    <2>3. live' # None => requests'[live'] # None
      BY <1>1, <1>3 DEF TypeOK
    <2>4. loaded' \in Loads \cup {None} /\ (loaded' # None => loaded'.route = page'.route
                                              /\ Cardinality(loaded'.reply.items) <= PageSize)
      BY <1>1, <1>5, <1>6 DEF TypeOK
    <2> QED BY <1>1, <2>1, <2>2, <2>3, <2>4 DEF TypeOK, WholePages
  <1>8. RequestsOk'
    <2>0. \A q : q.quiet = FALSE => (RequestOk(q)' <=> RequestOk(q))
      BY DEF RequestOk, ReplyOk, QuietOk
    <2> SUFFICES ASSUME NEW j \in Requests, requests'[j] # None
                 PROVE  RequestOk(requests'[j]) /\ requests'[j].quiet = FALSE
      BY <2>0 DEF RequestsOk
    <2>1. requests[j] # None /\ RequestOk(requests[j])
      BY <1>4 DEF ScreensInv, RequestsOk
    <2> QED BY <1>3, <2>1 DEF RequestOk, ReplyOk, QuietOk
  <1>9. LiveOk'
    <2> SUFFICES ASSUME live # None PROVE LiveOk'
      BY <1>1 DEF LiveOk
    <2>1. live \in Requests /\ requests[live] # None
      BY DEF TypeOK
    <2> QED BY <1>1, <1>3, <1>5, <1>6, <2>1 DEF ScreensInv, LiveOk
  <1>10. LoadedOk'
    <2> SUFFICES ASSUME loaded # None PROVE LoadedOk'
      BY <1>6 DEF LoadedOk
    <2> QED BY <1>5 DEF ScreensInv, LoadedOk
  <1>11. WithinTheList'
    BY <1>1 DEF WithinTheList
  <1> QED BY <1>7, <1>8, <1>9, <1>10, <1>11 DEF ScreensInv

-----------------------------------------------------------------------------

LEMMA ScreensInit == Init => TypeOK /\ ScreensInv
  <1> SUFFICES ASSUME Init PROVE TypeOK /\ ScreensInv
    OBVIOUS
  <1>1. /\ page \in [user : {None}, route : Routes \cup {Assistant}, filter : {NoFilter}, offset : {0}]
        /\ live = None /\ loaded = None /\ requests = [i \in Requests |-> None]
        /\ there = Rows /\ changes = 0 /\ acts = 0 /\ strayed = FALSE
    BY DEF Init
  <1>2. IsParams(page) /\ page.offset = 0
    <2>1. NoFilter \in NameFilters \cap StockFilters
      BY DEF NoFilter, NameFilters, StockFilters
    <2>2. \A r \in Routes \cup {Assistant} : NoFilter \in FiltersOf(r)
      BY <2>1 DEF FiltersOf, Routes, Assistant
    <2> QED BY <1>1, <2>1, <2>2 DEF IsParams, UserOrNone
  <1>3. WholePages(0)
    BY ConstantsTyped DEF WholePages
  <1>4. \A i \in Requests : requests[i] = None
    BY <1>1
  <1>5. requests \in [Requests -> Requested \cup {None}]
    BY <1>1
  <1>6. TypeOK
    <2>1. 0 \in 0 .. MaxChanges /\ 0 \in 0 .. MaxActs
      BY ConstantsTyped
    <2>2. WholePages(page.offset)
      BY <1>2, <1>3
    <2> QED BY <1>1, <1>2, <1>4, <1>5, <2>1, <2>2 DEF TypeOK
  <1>7. ScreensInv
    BY <1>1, <1>2, <1>4 DEF ScreensInv, RequestsOk, LiveOk, LoadedOk, WithinTheList
  <1> QED BY <1>6, <1>7

LEMMA ScreensStep == TypeOK /\ ScreensInv /\ [Next]_vars => TypeOK' /\ ScreensInv'
  <1> SUFFICES ASSUME TypeOK, ScreensInv, [Next]_vars PROVE TypeOK' /\ ScreensInv'
    OBVIOUS
  <1>1. CASE UNCHANGED vars
    <2>1. TypeOK'
      BY <1>1 DEF vars, TypeOK, WholePages
    <2>2. ScreensInv'
      BY <1>1, SameRows DEF vars, ScreensInv, RequestsOk, LiveOk, LoadedOk, WithinTheList
    <2> QED BY <2>1, <2>2
  <1>2. CASE Open
    BY <1>2, OpenOk
  <1>3. CASE SetFilter
    BY <1>3, SetFilterOk
  <1>4. CASE SetPage
    BY <1>4, SetPageOk
  <1>5. CASE UsersCome \/ SwitchUser
    BY <1>5, SwitchUserOk
  <1>6. CASE Propose
    BY <1>6, ProposeOk
  <1>7. CASE ShowDefault
    BY <1>7, ShowDefaultOk
  <1>8. CASE RunEffect
    BY <1>8, RunEffectOk
  <1>9. CASE Write
    BY <1>9, WriteOk
  <1>10. ASSUME NEW i \in Requests, Serve(i) \/ Fail(i) PROVE TypeOK' /\ ScreensInv'
    <2>1. CASE ResolveNames(i) \/ ListRows(i) \/ Fail(i)
      BY <2>1, HandlerOk
    <2>2. CASE Deliver(i)
      BY <2>2, DeliverOk
    <2> QED BY <1>10, <2>1, <2>2 DEF Serve
  <1> QED BY <1>1, <1>2, <1>3, <1>4, <1>5, <1>6, <1>7, <1>8, <1>9, <1>10 DEF Next

LEMMA ScreensInvariant == Spec => [](TypeOK /\ ScreensInv)
  BY ScreensInit, ScreensStep, PTL DEF Spec

(* The page that is not loading shows what was loaded for its key.         *)
LEMMA ShownOfThePage ==
  ASSUME TypeOK, ~Loading, loaded # None
  PROVE  /\ loaded \in Loads /\ page \in Wanted /\ page.route \in Routes /\ page.offset \in Nat
         /\ loaded.route = page.route /\ ParamsOf(loaded.key) = page
  <1>1. loaded \in Loads /\ loaded.route = page.route /\ page.route \in Routes
    BY DEF TypeOK, Loads
  <1>2. loaded.key = Key(page)
    BY <1>1, FiltersTyped DEF Loading
  <1>3. page \in Wanted /\ page.offset \in Nat
    BY <1>1, FiltersTyped DEF TypeOK, IsParams
  <1> QED BY <1>1, <1>2, <1>3, KeysTell

(* The page, the requests under way and what was loaded are what the code  *)
(* can make of them, however many requests there are: an offset of whole   *)
(* pages, a filter that the page has a field for (usePaging.ts, pages).    *)
THEOREM ScreensTyped == Spec => []TypeOK
  BY ScreensInvariant, PTL

(* Once the answer to what the page shows has come, the page shows that    *)
(* one, whatever other answers come in before or after it                  *)
(* (useResource.ts:15-21).                                                 *)
THEOREM TheAnswerIsShown == Spec => []AnswerOfTheKeyIsShown
  <1>1. ASSUME TypeOK, ScreensInv PROVE AnswerOfTheKeyIsShown
    <2> SUFFICES ASSUME live # None, requests[live].step = "delivered",
                        Key(requests[live].params) = Key(page)
                 PROVE  ~Loading /\ loaded.reply = requests[live].reply
      BY DEF AnswerOfTheKeyIsShown
    <2>1. loaded # None /\ loaded.key = Key(page) /\ loaded.reply = requests[live].reply
      BY <1>1 DEF ScreensInv, LiveOk
    <2> QED BY <2>1 DEF Loading
  <1> QED BY <1>1, ScreensInvariant, PTL

(* Nobody sees a row of a region, or of a service, that is closed to him,  *)
(* on a page that is not loading: the user is part of the key, so that     *)
(* what was loaded for the user before him is not shown (OrderPage.tsx:58).*)
THEOREM RowsShownAreTheUsers == Spec => []RowsAreTheUsers
  <1>1. ASSUME TypeOK, ScreensInv PROVE RowsAreTheUsers
    <2> SUFFICES ASSUME ~Loading, loaded # None
                 PROVE  SeenBy(page.user, page.route, loaded.reply.items)
      BY DEF RowsAreTheUsers, SeenBy
    <2>1. ParamsOf(loaded.key) = page
      BY <1>1, ShownOfThePage
    <2> QED BY <1>1, <2>1 DEF ScreensInv, LoadedOk
  <1> QED BY <1>1, ScreensInvariant, PTL

(* A page that finds nothing for its user has nothing to find: no filter   *)
(* leaves the page behind the end of its list (usePaging.ts:9-11).         *)
THEOREM AnEmptyPageIsAnEmptyList == Spec => []NothingFoundIsNothingThere
  <1>1. ASSUME TypeOK, ScreensInv PROVE NothingFoundIsNothingThere
    <2> SUFFICES ASSUME ~Loading, loaded # None, page.user # None, loaded.reply.status = "ok",
                        loaded.reply.items = {}, ~strayed
                 PROVE  loaded.reply.count = 0
      BY DEF NothingFoundIsNothingThere
    <2>1. /\ loaded \in Loads /\ page.route \in Routes /\ page.offset \in Nat
          /\ ParamsOf(loaded.key) = page
      BY <1>1, ShownOfThePage
    <2>2. loaded.reply.count <= page.offset /\ loaded.reply.count \in Nat
      BY <1>1, <2>1 DEF ScreensInv, LoadedOk, PageOf, Loads, Replies
    <2>3. CASE page.offset > 0
      <3>1. loaded.quiet /\ page.offset < ScreenReply(page).count
        BY <1>1, <2>3 DEF ScreensInv, WithinTheList
      <3>2. loaded.reply = ScreenReply(page)
        BY <1>1, <2>1, <3>1 DEF ScreensInv, LoadedOk
      <3> QED BY <2>1, <2>2, <3>1, <3>2
    <2> QED BY <2>1, <2>2, <2>3
  <1> QED BY <1>1, ScreensInvariant, PTL

(* The orders of the customers whom a name finds, where it finds them all. *)
LEMMA OrdersOfTheName ==
  ASSUME NEW p, p.user # None, p.route = "/orders", p.filter.name # None, p.offset \in Nat,
         ScreenReply(p).status = "ok"
  PROVE  /\ Resolve(p).status = "ok"
         /\ ScreenReply(p).count =
              Cardinality({o \in there \cap Orders : /\ Owner[o] \in CustomersOf(p.user, p.filter.name)
                                                     /\ InScope(p.user, "order", OrderRegion[o])})
  <1> DEFINE ids == CustomersOf(p.user, p.filter.name)
             S == {o \in there \cap Orders : Owner[o] \in ids /\ InScope(p.user, "order", OrderRegion[o])}
  <1>1. Resolve(p).status = "ok"
    BY DEF ScreenReply
  <1>2. Resolve(p).items = ids
    BY <1>1, ResolveOk
  <1>3. ScreenReply(p) = ScreenList(p, ids)
    BY <1>1, <1>2 DEF ScreenReply
  <1>4. CASE ids = {}
    <2>1. S = {}
      BY <1>4
    <2>2. ScreenReply(p).count = 0
      BY <1>3, <1>4 DEF ScreenList, Reply
    <2> HIDE DEF S
    <2> QED BY <1>1, <2>1, <2>2, FS_EmptySet DEF S
  <1>5. CASE ids # {}
    <2>1. S = OrdersOf(p.user, ids)
      BY <1>5 DEF OrdersOf
    <2>2. ScreenReply(p) = Answer(p.user, p.route, OrdersOf(p.user, ids), p.offset, PageSize)
      BY <1>3, <1>5 DEF ScreenList
    <2>3. Answers(ScreenReply(p), AccessTo(p.user, ServiceOf(p.route)), OrdersOf(p.user, ids), p.offset, PageSize)
      <3>1. OrdersOf(p.user, ids) \in SUBSET RowsOf(p.route) /\ p.route \in Routes
        BY ConditionsOk DEF Routes
      <3>2. PageSize \in Nat /\ PageSize # 0
        BY ConstantsTyped
      <3> HIDE DEF ids
      <3> QED BY <2>2, <3>1, <3>2, AnswerOk
    <2>4. ScreenReply(p).count = Cardinality(OrdersOf(p.user, ids))
      BY <2>3 DEF Answers
    <2> QED BY <1>1, <2>1, <2>4
  <1> QED BY <1>4, <1>5

(* The orders of a name are those of all the customers with that name whom *)
(* the user may see, or the list is refused (server.go:615-617).           *)
THEOREM OrdersOfANameAreNeverAPart == Spec => []OrdersOfANameAreAll
  <1>1. ASSUME TypeOK, ScreensInv PROVE OrdersOfANameAreAll
    <2> SUFFICES ASSUME NEW i \in Requests, requests[i] # None, requests[i].kind = "screen",
                        requests[i].params.user # None, requests[i].quiet, requests[i].step = "answered", requests[i].reply.status = "ok",
                        requests[i].params.route = "/orders", requests[i].params.filter.name # None
                 PROVE  requests[i].reply.count =
                          Cardinality({o \in there \cap Orders :
                            LET c == Owner[o] IN
                            /\ c \in there /\ c \in Named[requests[i].params.filter.name]
                            /\ InScope(requests[i].params.user, "customer", CustomerRegion[c])
                            /\ InScope(requests[i].params.user, "order", OrderRegion[o])})
      BY DEF OrdersOfANameAreAll
    <2> DEFINE p == requests[i].params
    <2>1. requests[i].reply = ScreenReply(p) /\ p.offset \in Nat
      BY <1>1, RequestTyped DEF Sound, RequestOk, QuietOk, Expected, Wanted
    <2>2. requests[i].reply.count =
            Cardinality({o \in there \cap Orders : /\ Owner[o] \in CustomersOf(p.user, p.filter.name)
                                                   /\ InScope(p.user, "order", OrderRegion[o])})
      BY <2>1, OrdersOfTheName
    <2>3. {o \in there \cap Orders : /\ Owner[o] \in CustomersOf(p.user, p.filter.name)
                                     /\ InScope(p.user, "order", OrderRegion[o])}
          = {o \in there \cap Orders :
               LET c == Owner[o] IN
               /\ c \in there /\ c \in Named[p.filter.name]
               /\ InScope(p.user, "customer", CustomerRegion[c])
               /\ InScope(p.user, "order", OrderRegion[o])}
      BY ConstantsTyped DEF CustomersOf
    <2> QED BY <2>2, <2>3
  <1> QED BY <1>1, ScreensInvariant, PTL

(* A summary says of a list what the screen says of its first page. *)
LEMMA SummaryAgrees ==
  ASSUME NEW p \in Wanted, p.user # None, ~(ByName(p) /\ CustomersOf(p.user, p.filter.name) = {}),
         ~(p.filter.below = None /\ p.filter.at_most # None)
  PROVE  SummaryReply(p).status = ScreenReply(p).status /\ SummaryReply(p).count = ScreenReply(p).count
  <1>1. ASSUME NEW user, NEW route, NEW M
        PROVE  /\ Answer(user, route, M, p.offset, PageSize).count = Answer(user, route, M, 0, PreviewRows).count
               /\ Answer(user, route, M, p.offset, PageSize).status = Answer(user, route, M, 0, PreviewRows).status
    BY DEF Answer, Reply, Failure
  <1>2. CASE p.route = "/stock"
    <2>1. StocksOf(p.filter.below, p.filter.at_most) = StocksOf(p.filter.below, None)
      BY DEF StocksOf
    <2> DEFINE M == StocksOf(p.filter.below, None)
    <2>2. ScreenReply(p) = Answer(p.user, p.route, M, p.offset, PageSize)
      BY <1>2, <2>1 DEF ScreenReply, ScreenList
    <2>3. SummaryReply(p) = Answer(p.user, p.route, M, 0, PreviewRows)
      BY <1>2 DEF SummaryReply, SummaryList, ByName
    <2> HIDE DEF M
    <2> QED BY <1>1, <2>2, <2>3
  <1>3. CASE p.route = "/customers"
    <2> DEFINE M == CustomersOf(p.user, p.filter.name)
    <2>1. ScreenReply(p) = Answer(p.user, p.route, M, p.offset, PageSize)
      BY <1>3 DEF ScreenReply, ScreenList
    <2>2. SummaryReply(p) = Answer(p.user, p.route, M, 0, PreviewRows)
      BY <1>3 DEF SummaryReply, SummaryList, ByName
    <2> HIDE DEF M
    <2> QED BY <1>1, <2>1, <2>2
  <1>4. CASE p.route = "/orders"
    <2>1. ASSUME NEW ids, p.filter.name = None \/ ids # {}
          PROVE  /\ ScreenList(p, ids) = Answer(p.user, p.route, OrdersOf(p.user, ids), p.offset, PageSize)
                 /\ SummaryList(p, ids) = Answer(p.user, p.route, OrdersOf(p.user, ids), 0, PreviewRows)
      BY <1>4, <2>1 DEF ScreenList, SummaryList
    <2>2. CASE p.filter.name = None
      BY <1>1, <1>4, <2>1, <2>2 DEF ScreenReply, SummaryReply, ByName
    <2>3. CASE p.filter.name # None /\ Resolve(p).status = "ok"
      <3>1. Resolve(p).items # {}
        BY <1>4, <2>3, ResolveOk DEF ByName
      <3>2. ScreenReply(p) = ScreenList(p, Resolve(p).items) /\ SummaryReply(p) = SummaryList(p, Resolve(p).items)
        BY <1>4, <2>3 DEF ScreenReply, SummaryReply, ByName
      <3> QED BY <1>1, <2>1, <3>1, <3>2
    <2>4. CASE p.filter.name # None /\ Resolve(p).status # "ok"
      BY <1>4, <2>4 DEF ScreenReply, SummaryReply, ByName
    <2> QED BY <2>2, <2>3, <2>4
  <1> QED BY <1>2, <1>3, <1>4 DEF Wanted, Routes

(* But for two cases that it does not know, the summary of a screen counts *)
(* what the screen counts, and is denied when the screen is                *)
(* (server.go:900-912).                                                    *)
THEOREM SummariesCountAsTheScreen == Spec => []OtherSummariesAreRight
  <1>1. ASSUME TypeOK, ScreensInv PROVE OtherSummariesAreRight
    <2> SUFFICES ASSUME NEW i \in Requests, requests[i] # None, requests[i].kind = "summary",
                        requests[i].quiet, requests[i].step = "answered",
                        ~NobodyHasTheName(requests[i]), ~OnlyAtMost(requests[i])
                 PROVE  SummaryIsRight(requests[i])
      BY DEF OtherSummariesAreRight, Summaries
    <2> DEFINE q == requests[i]
               p == requests[i].params
    <2>1. p \in Wanted /\ p.user # None /\ p.route \in Routes /\ p.offset \in Nat /\ (q.reply.status # "failed" => q.reply = SummaryReply(p))
      BY <1>1, RequestTyped DEF Sound, RequestOk, QuietOk, Expected, Wanted
    <2>2. SummaryReply(p).status = ScreenReply(p).status /\ SummaryReply(p).count = ScreenReply(p).count
      BY <2>1, SummaryAgrees DEF NobodyHasTheName, OnlyAtMost, ByName
    <2> QED BY <2>1, <2>2 DEF SummaryIsRight
  <1> QED BY <1>1, ScreensInvariant, PTL

=============================================================================
