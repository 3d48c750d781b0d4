------------------------------ MODULE ListPage ------------------------------
(***************************************************************************)
(* The pages of a list (svc.ListPage, query.go): a client walks through    *)
(* one list of a service, with the cursor each page hands it or by offset, *)
(* while the table behind it is written.  A page is two statements, the    *)
(* count of all rows and the rows themselves; nothing holds the table      *)
(* still between them, or between two pages.                               *)
(*                                                                         *)
(* A row is what the filter and the region of the caller let through: one  *)
(* that stops to match is gone from the list.                              *)
(***************************************************************************)
EXTENDS Integers, FiniteSets

CONSTANTS
  Rows,          \* rows the table may have
  Lists,         \* the list walked through: one of ServiceLists
  Values, Null,  \* what a column holds
  TieValue,      \* [Rows -> Int]: the tiebreak of a row where it is not unique
  Id,            \* [Rows -> Int]: the tiebreak where it is
  Limits,        \* the limit parameter of a client
  DefaultLimit, MaxLimit, MaxOffset,
  Absent,        \* of a row: not in the table, or not in the filter
  NoCursor,      \* no cursor parameter
  MaxChanges     \* bound of the model on writes and changes of the order

ASSUME ConstantsTyped ==
  /\ Values \subseteq Int /\ Null \notin Int
  /\ TieValue \in [Rows -> Int] /\ Id \in [Rows -> Int]
  /\ \A r, q \in Rows : r # q => Id[r] # Id[q]
  /\ Limits \subseteq Int
  /\ {DefaultLimit, MaxLimit} \subseteq Nat \ {0} /\ {MaxOffset, MaxChanges} \subseteq Nat
  /\ IsFiniteSet(Rows)
  /\ NoCursor \notin [sort : UNION {l.sorts \cup {l.default} : l \in Lists},
                      value : Int \cup {Null}, id : Int \cup {Null}]
  /\ \A l \in Lists : Absent \notin UNION {[C -> Values \cup {Null}] : C \in SUBSET {s.col : s \in l.sorts \cup {l.default}}}

VARIABLES
  list,     \* the list the client walks through
  table,    \* the rows, by their columns
  changes,  \* writes and changes of the order so far
  mode,     \* follow "cursor"s or count up the "offset"
  counts,   \* FALSE: the client passes count=none
  limit,    \* the client's limit parameter
  asked,    \* its sort parameter
  cursor,   \* its cursor parameter: [sort, value, id]
  offset,   \* its offset parameter
  pc,       \* the request: none, at the count, at the rows
  total,    \* what the count found
  raced,    \* the table was written between the count and the rows it is used for
  shown,    \* rows the walk has shown
  twice,    \* ... more than once
  steady,   \* rows that are as they were when the walk began
  quiet,    \* the whole table is
  ended     \* the last page said that there are no more

request == <<list, mode, counts, limit>>
place == <<asked, cursor, offset>>
walk == <<shown, twice, ended>>
still == <<steady, quiet>>
vars == <<request, place, walk, still, table, changes, pc, total, raced>>

Unsortable == [col |-> "none", desc |-> FALSE]

SortColumns(l) == {s.col : s \in l.sorts \cup {l.default}} \ {l.tie}
Records(l) == {x \in [SortColumns(l) -> Values \cup {Null}] :
                 \A c \in SortColumns(l) \ l.nullable : x[c] # Null}
Tie(r) == IF list.unique THEN Id[r] ELSE TieValue[r]

Cursors == [sort : UNION {l.sorts \cup {l.default} : l \in Lists}, value : Int \cup {Null},
            id : Int \cup {Null}]

TypeOK ==
  /\ list \in Lists
  /\ table \in [Rows -> Records(list) \cup {Absent}]
  /\ changes \in 0 .. MaxChanges
  /\ mode \in {"cursor", "offset"} /\ counts \in BOOLEAN /\ limit \in Limits
  /\ asked \in list.sorts \cup {Unsortable}
  /\ cursor \in Cursors \cup {NoCursor} /\ offset \in Nat
  /\ pc \in {"idle", "count", "rows"}
  /\ total \in Nat \cup {-1}
  /\ raced \in BOOLEAN /\ quiet \in BOOLEAN /\ ended \in BOOLEAN
  /\ {shown, twice, steady} \subseteq SUBSET Rows

Present == {r \in Rows : table[r] # Absent}

Init ==
  /\ list \in Lists
  /\ table \in [Rows -> Records(list) \cup {Absent}]
  /\ changes = 0
  /\ mode \in {"cursor", "offset"} /\ counts \in BOOLEAN /\ limit \in Limits
  /\ asked \in list.sorts \cup {Unsortable}
  /\ cursor = NoCursor /\ offset = 0
  /\ pc = "idle" /\ total = -1 /\ raced = FALSE
  /\ shown = {} /\ twice = {} /\ ended = FALSE
  /\ steady = {} /\ quiet = TRUE

-----------------------------------------------------------------------------
(* The order of the rows. *)

(* Pg *)
PageLimit == IF limit <= 0 THEN DefaultLimit ELSE IF limit > MaxLimit THEN MaxLimit ELSE limit
PageOffset == IF offset > MaxOffset THEN MaxOffset ELSE offset

(* The order a request gets: the one it asks for, if the list has it. *)
OrderBy == IF asked \in list.sorts THEN asked ELSE list.default

Key(r) == IF OrderBy.col = list.tie THEN Tie(r) ELSE table[r][OrderBy.col]

(* PostgreSQL: NULL is larger than every value. *)
Less(a, b) == a # Null /\ (b = Null \/ a < b)

(* ORDER BY without a tiebreak. *)
PrecedesUntied(r, q) ==
  IF OrderBy.desc THEN Less(Key(q), Key(r)) ELSE Less(Key(r), Key(q))

(* ORDER BY col dir, tie dir *)
Precedes(r, q) ==
  IF OrderBy.desc
  THEN Less(Key(q), Key(r)) \/ (Key(q) = Key(r) /\ Tie(q) < Tie(r))
  ELSE Less(Key(r), Key(q)) \/ (Key(r) = Key(q) /\ Tie(r) < Tie(q))

(* (col, tie) > ($1, $2) as SQL has it: of two values that differ in the   *)
(* first column, or are equal there and differ in the second; unknown, and *)
(* the row left out, where a NULL decides.                                 *)
RowAbove(a, t, x, y) ==
  /\ a # Null /\ x # Null
  /\ a > x \/ (a = x /\ y # Null /\ t > y)
RowBelow(a, t, x, y) ==
  /\ a # Null /\ x # Null
  /\ a < x \/ (a = x /\ y # Null /\ t < y)

(* The row the cursor was made from comes again. *)
KeysetInclusive(r, c) ==
  \/ IF OrderBy.desc THEN RowBelow(Key(r), Tie(r), c.value, c.id)
                     ELSE RowAbove(Key(r), Tie(r), c.value, c.id)
  \/ Key(r) = c.value /\ Tie(r) = c.id

Keyset(r, c) ==
  IF OrderBy.desc THEN RowBelow(Key(r), Tie(r), c.value, c.id)
                  ELSE RowAbove(Key(r), Tie(r), c.value, c.id)

(* A cursor of whatever order. *)
AnyCursor == cursor

(* A cursor of another order is dropped. *)
DecodeCursor == IF cursor # NoCursor /\ cursor.sort = OrderBy THEN cursor ELSE NoCursor

(* S can be what LIMIT n returns of the rows M. *)
IsFirst(S, M, n) ==
  /\ S \subseteq M
  /\ Cardinality(S) <= n
  /\ Cardinality(S) < n => S = M
  /\ \A s \in S, x \in M \ S : ~Precedes(x, s)

(* A last row of the page S. *)
IsLast(m, S) == m \in S /\ \A s \in S : ~Precedes(m, s)

(* nextCursor reads the columns of the answer. *)
NextCursor(m) ==
  LET Column(col, value) == IF col \in list.selected THEN value ELSE Null IN
  [sort |-> OrderBy, value |-> Column(OrderBy.col, Key(m)), id |-> Column(list.tie, Tie(m))]

-----------------------------------------------------------------------------
(* The client asks for the first page, or for the next one.                *)
Ask ==
  LET first == IF mode = "cursor" THEN DecodeCursor = NoCursor ELSE offset = 0 IN
  /\ pc = "idle" /\ ~ended
  /\ pc' = IF counts THEN "count" ELSE "rows"
  /\ total' = -1 /\ raced' = FALSE
  /\ IF first
     THEN /\ shown' = {} /\ twice' = {} /\ steady' = Present /\ quiet' = TRUE
     ELSE UNCHANGED <<shown, twice, still>>
  /\ UNCHANGED <<request, place, table, changes, ended>>

(* SELECT count( * ) *)
Count ==
  /\ pc = "count"
  /\ pc' = "rows"
  /\ total' = Cardinality(Present)
  /\ UNCHANGED <<request, place, walk, still, table, changes, raced>>

(* "More than were returned": right for the first page only. *)
HasMoreOfAll(S, skipped, keyset) ==
  IF keyset \/ ~counts THEN Cardinality(S) = PageLimit ELSE Cardinality(S) < total

HasMore(S, skipped, keyset) ==
  IF keyset \/ ~counts THEN Cardinality(S) = PageLimit ELSE skipped + Cardinality(S) < total

(* SELECT ... ORDER BY ... LIMIT, and what the client does with the page.  *)
Read ==
  /\ pc = "rows"
  /\ LET c == DecodeCursor
         keyset == c # NoCursor
         M == IF keyset THEN {r \in Present : Keyset(r, c)} ELSE Present
         skipped == IF keyset THEN 0 ELSE PageOffset
     IN \E T \in {X \in SUBSET M : IsFirst(X, M, skipped)} :
        \E S \in {X \in SUBSET (M \ T) : IsFirst(X, M \ T, PageLimit)} :
          /\ LET more == HasMore(S, skipped, keyset) IN
             \/ /\ more /\ mode = "offset"
                /\ offset' = skipped + PageLimit
                /\ UNCHANGED <<cursor, ended>>
             \/ /\ more /\ mode = "cursor"
                /\ \E m \in S : IsLast(m, S) /\ cursor' = NextCursor(m)
                /\ UNCHANGED <<offset, ended>>
             \/ /\ ~more \/ (mode = "cursor" /\ S = {})
                /\ ended' = TRUE
                /\ UNCHANGED <<cursor, offset>>
          /\ shown' = shown \cup S
          /\ twice' = twice \cup (shown \cap S)
  /\ pc' = "idle"
  /\ UNCHANGED <<request, asked, still, table, changes, total, raced>>

(* A statement fails: 500, and the client may ask again; for a first page  *)
(* without a cursor that was of no use.                                    *)
Fail ==
  /\ pc \in {"count", "rows"}
  /\ pc' = "idle"
  /\ cursor' = DecodeCursor
  /\ UNCHANGED <<request, asked, offset, walk, still, table, changes, total, raced>>

(* The client asks for another order, with the cursor it has. *)
Resort ==
  /\ pc = "idle" /\ mode = "cursor" /\ cursor # NoCursor /\ ~ended
  /\ changes < MaxChanges
  /\ asked' \in list.sorts \ {asked}
  /\ changes' = changes + 1
  /\ UNCHANGED <<request, cursor, offset, walk, still, table, pc, total, raced>>

(* A row is written, comes into the list or leaves it.                     *)
Write(r) ==
  /\ changes < MaxChanges
  /\ \E x \in (Records(list) \cup {Absent}) \ {table[r]} : table' = [table EXCEPT ![r] = x]
  /\ changes' = changes + 1
  /\ steady' = steady \ {r}
  /\ quiet' = FALSE
  /\ raced' = (raced \/ (pc = "rows" /\ counts /\ DecodeCursor = NoCursor))
  /\ UNCHANGED <<request, place, walk, pc, total>>

Next == Ask \/ Count \/ Read \/ Fail \/ Resort \/ \E r \in Rows : Write(r)

Spec == Init /\ [][Next]_vars

(* A client that goes on, and a database that does not fail for ever.      *)
FairSpec == Spec /\ WF_vars(Ask) /\ SF_vars(Count) /\ SF_vars(Read)

-----------------------------------------------------------------------------
(* Properties. *)

(* A walk by cursor never shows a row twice that nobody has written since  *)
(* it began, whatever happens to the other rows, for every list: keyset    *)
(* paging takes up strictly behind the last row shown (query.go:163).      *)
CursorWalksRepeatNothing == mode = "cursor" => twice \cap steady = {}

(* A cursor that points nowhere: a NULL, or a column the answer leaves out.*)
Blind == DecodeCursor # NoCursor /\ Null \in {cursor.value, cursor.id}

(* A walk by cursor that ended has shown every row that was there all the  *)
(* time, but for: rows with NULL in the sort column, and all that is left  *)
(* once the cursor holds NULL; rows that share the tiebreak of one shown,  *)
(* where the tiebreak is not the key of the table (query.go:147); and a    *)
(* first page that was counted before and read after a write.              *)
CursorWalksMissOnlyTiesAndNulls ==
  mode = "cursor" /\ ended /\ ~raced /\ ~Blind =>
    \A r \in steady \ shown : Key(r) = Null \/ \E q \in shown \ {r} : Tie(q) = Tie(r)

(* With a unique tiebreak and a table nobody writes, a walk by offset      *)
(* shows every row once, as far as offsets go: the pages fit together      *)
(* although each is a query of its own (query.go:144-148).                 *)
QuietPagesFitTogether ==
  mode = "offset" /\ quiet /\ list.unique /\ Cardinality(Present) <= MaxOffset =>
    /\ twice = {}
    /\ ended => shown = Present

(* A client that goes on until it is told that there are no more is told   *)
(* so: no page leads back to itself (beyond MaxOffset, all do).            *)
WalksEnd ==
  [](mode = "offset" => Cardinality(Present) <= MaxOffset) => <>ended

=============================================================================
