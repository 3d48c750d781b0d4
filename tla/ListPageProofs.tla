--------------------------- MODULE ListPageProofs ---------------------------
(* Walks, for every list, every table and every number of writes: by       *)
(* cursor, what was left alone is shown once, and what is missed is missed *)
(* for a reason; by offset, the pages of a table at rest fit together.     *)
EXTENDS ListPage, FiniteSetTheorems, TLAPS

(* The order a cursor was made for decides what it stands for.             *)
KeyIn(r, s) == IF s.col = list.tie THEN Tie(r) ELSE table[r][s.col]

BehindCursor(r) ==
  IF cursor.sort.desc
  THEN RowBelow(KeyIn(r, cursor.sort), Tie(r), cursor.value, cursor.id)
  ELSE RowAbove(KeyIn(r, cursor.sort), Tie(r), cursor.value, cursor.id)

Excused(r, s) == KeyIn(r, s) = Null \/ \E q \in shown \ {r} : Tie(q) = Tie(r)

(* The request under way starts a list, or there was none yet.             *)
Fresh == cursor = NoCursor \/ (pc # "idle" /\ DecodeCursor = NoCursor)

(* The cursor cuts the rows nobody has written into those shown and those  *)
(* to come.                                                                *)
CursorCuts ==
  mode = "cursor" /\ ~ended /\ ~Fresh =>
    /\ \A r \in steady \cap shown : ~BehindCursor(r)
    /\ Null \notin {cursor.value, cursor.id} =>
         \A r \in steady \ shown : BehindCursor(r) \/ Excused(r, cursor.sort)

FreshIsEmpty == mode = "cursor" /\ ~ended /\ Fresh => shown = {} /\ twice = {}

CountIsTrue ==
  pc = "rows" /\ counts /\ ~raced /\ DecodeCursor = NoCursor => total = Cardinality(Present)

Frame ==
  /\ steady \subseteq Present
  /\ mode = "cursor" => offset = 0
  /\ cursor # NoCursor =>
       /\ cursor.sort \in list.sorts \cup {list.default}
       /\ cursor.id = Null => list.tie \notin list.selected
  /\ ended => pc = "idle"

TypeInv == TypeOK /\ Frame

WalkInv ==
  /\ CursorCuts /\ FreshIsEmpty /\ CountIsTrue
  /\ CursorWalksRepeatNothing /\ CursorWalksMissOnlyTiesAndNulls

-----------------------------------------------------------------------------
(* The values that are compared are integers or NULL. *)
LEMMA KeysTyped ==
  ASSUME TypeOK, NEW r \in Present, NEW s \in list.sorts \cup {list.default}
  PROVE  KeyIn(r, s) \in Int \cup {Null} /\ Tie(r) \in Int
  <1>1. Tie(r) \in Int
    BY ConstantsTyped DEF Tie, Present
  <1>2. CASE s.col = list.tie
    BY <1>1, <1>2 DEF KeyIn
  <1>3. CASE s.col # list.tie
    <2>1. s.col \in SortColumns(list)
      BY <1>3 DEF SortColumns
    <2>2. table[r] \in Records(list)
      BY DEF TypeOK, Present
    <2>3. table[r][s.col] \in Values \cup {Null}
      BY <2>1, <2>2 DEF Records
    <2> QED BY <1>1, <1>3, <2>3, ConstantsTyped DEF KeyIn
  <1> QED BY <1>1, <1>2, <1>3

LEMMA OrderTyped == ASSUME TypeOK PROVE OrderBy \in list.sorts \cup {list.default}
  BY DEF OrderBy

LEMMA KeyOfOrder == \A r : Key(r) = KeyIn(r, OrderBy)
  BY DEF Key, KeyIn

LEMMA LimitPositive == ASSUME TypeOK PROVE PageLimit \in Nat \ {0} /\ PageOffset \in Nat
  BY ConstantsTyped DEF PageLimit, PageOffset, TypeOK

LEMMA PresentFinite == IsFiniteSet(Present) /\ Cardinality(Present) \in Nat
  <1>1. Present \subseteq Rows
    BY DEF Present
  <1> QED BY <1>1, ConstantsTyped, FS_Subset, FS_CardinalityType

LEMMA CursorTyped ==
  ASSUME TypeOK, NEW m \in Present
  PROVE  /\ NextCursor(m) \in Cursors
         /\ NextCursor(m) # NoCursor
         /\ NextCursor(m).sort = OrderBy
         /\ NextCursor(m).value \in {Key(m), Null}
         /\ NextCursor(m).id = (IF list.tie \in list.selected THEN Tie(m) ELSE Null)
  <1>1. Key(m) \in Int \cup {Null} /\ Tie(m) \in Int
    BY KeysTyped, OrderTyped, KeyOfOrder
  <1>2. OrderBy \in UNION {l.sorts \cup {l.default} : l \in Lists}
    BY OrderTyped DEF TypeOK
  <1>3. NextCursor(m) \in Cursors
    BY <1>1, <1>2 DEF NextCursor, Cursors
  <1> QED BY <1>1, <1>3, ConstantsTyped DEF NextCursor, Cursors

-----------------------------------------------------------------------------
LEMMA TypeInit == Init => TypeInv
  <1> SUFFICES ASSUME Init PROVE TypeInv
    OBVIOUS
  <1>1. TypeOK
    <2>1. /\ list \in Lists
          /\ table \in [Rows -> Records(list) \cup {Absent}]
          /\ changes \in 0 .. MaxChanges
          /\ mode \in {"cursor", "offset"} /\ counts \in BOOLEAN /\ limit \in Limits
          /\ asked \in list.sorts \cup {Unsortable}
          /\ cursor \in Cursors \cup {NoCursor} /\ offset \in Nat
          /\ pc \in {"idle", "count", "rows"}
          /\ total \in Nat \cup {-1}
      BY ConstantsTyped DEF Init
    <2>2. raced \in BOOLEAN /\ quiet \in BOOLEAN /\ ended \in BOOLEAN
      BY DEF Init
    <2>3. {shown, twice, steady} \subseteq SUBSET Rows
      BY DEF Init
    <2> QED BY <2>1, <2>2, <2>3 DEF TypeOK
  <1>2. Frame
    BY DEF Init, Frame
  <1> QED BY <1>1, <1>2 DEF TypeInv

LEMMA TypeStep == TypeInv /\ [Next]_vars => TypeInv'
  <1> SUFFICES ASSUME TypeInv, [Next]_vars PROVE TypeInv'
    OBVIOUS
  <1> USE DEF TypeInv, request, place, walk, still
  <1>1. CASE Ask
    <2>1. TypeOK'
      <3>1. /\ UNCHANGED <<list, table, changes, mode, counts, limit, asked, cursor, offset, ended>>
            /\ pc' \in {"idle", "count", "rows"} /\ total' = -1 /\ raced' = FALSE
        BY <1>1 DEF Ask
      <3>2. {shown', twice', steady'} \subseteq SUBSET Rows /\ quiet' \in BOOLEAN
        BY <1>1 DEF Ask, TypeOK, Present
      <3> QED BY <3>1, <3>2 DEF TypeOK
    <2>2. Frame'
      BY <1>1 DEF Ask, Frame, Present
    <2> QED BY <2>1, <2>2
  <1>2. CASE Count
    <2>1. TypeOK'
      BY <1>2, PresentFinite DEF Count, TypeOK
    <2>2. Frame'
      BY <1>2 DEF Count, Frame, Present
    <2> QED BY <2>1, <2>2
  <1>3. CASE Read
    <2> DEFINE c == DecodeCursor
    <2> DEFINE M == IF c # NoCursor THEN {r \in Present : Keyset(r, c)} ELSE Present
    <2>1. PICK S \in SUBSET M : shown' = shown \cup S /\ twice' = twice \cup (shown \cap S)
      BY <1>3 DEF Read
    <2>2. S \subseteq Rows
      BY <2>1 DEF Present
    <2>3. UNCHANGED <<request, asked, still, table, changes, total, raced>> /\ pc' = "idle"
      BY <1>3 DEF Read
    <2>4. \/ mode = "offset" /\ offset' \in Nat /\ UNCHANGED <<cursor, ended>>
          \/ (\E m \in Present : cursor' = NextCursor(m)) /\ UNCHANGED <<offset, ended>>
          \/ ended' = TRUE /\ UNCHANGED <<cursor, offset>>
      <3>1. PageOffset + PageLimit \in Nat /\ 0 + PageLimit \in Nat
        BY LimitPositive
      <3> QED BY <1>3, <3>1 DEF Read, IsLast
    <2>5. /\ cursor' \in Cursors \cup {NoCursor}
          /\ cursor' # NoCursor => cursor'.sort \in list.sorts \cup {list.default}
          /\ cursor' # NoCursor /\ cursor'.id = Null => list.tie \notin list.selected
      <3>1. \A m \in Present : Tie(m) # Null
        BY KeysTyped, ConstantsTyped, OrderTyped
      <3> QED BY <2>4, <3>1, CursorTyped, OrderTyped DEF TypeOK, Frame
    <2>6. TypeOK'
      BY <2>1, <2>2, <2>3, <2>4, <2>5 DEF TypeOK
    <2>7. Frame'
      <3>1. steady' \subseteq Present' /\ (ended' => pc' = "idle")
        BY <2>3 DEF Frame, Present
      <3>2. mode' = "cursor" => offset' = 0
        BY <2>3, <2>4 DEF Frame, TypeOK
      <3>3. list' = list
        BY <2>3
      <3>4. cursor' # NoCursor => cursor'.sort \in list'.sorts \cup {list'.default}
        BY <2>5, <3>3
      <3>5. cursor' # NoCursor /\ cursor'.id = Null => list'.tie \notin list'.selected
        BY <2>5, <3>3
      <3> QED BY <3>1, <3>2, <3>4, <3>5 DEF Frame
    <2> QED BY <2>6, <2>7
  <1>4. CASE Fail
    <2>1. cursor' \in {cursor, NoCursor}
      BY <1>4 DEF Fail, DecodeCursor
    <2>2. TypeOK'
      BY <1>4, <2>1 DEF Fail, TypeOK
    <2>3. Frame'
      BY <1>4, <2>1 DEF Fail, Frame, Present
    <2> QED BY <2>2, <2>3
  <1>5. CASE Resort
    <2>1. TypeOK'
      BY <1>5, ConstantsTyped DEF Resort, TypeOK
    <2>2. Frame'
      BY <1>5 DEF Resort, Frame, Present
    <2> QED BY <2>1, <2>2
  <1>6. ASSUME NEW r \in Rows, Write(r) PROVE TypeInv'
    <2>1. table' \in [Rows -> Records(list) \cup {Absent}]
      BY <1>6 DEF Write, TypeOK
    <2>2. changes' \in 0 .. MaxChanges
      BY <1>6, ConstantsTyped DEF Write, TypeOK
    <2>3. raced' \in BOOLEAN /\ quiet' \in BOOLEAN
      BY <1>6 DEF Write
    <2>4. steady' \in SUBSET Rows
      BY <1>6 DEF Write, TypeOK
    <2>5. UNCHANGED <<list, mode, counts, limit, asked, cursor, offset, pc, total, shown, twice, ended>>
      BY <1>6 DEF Write
    <2>6. TypeOK'
      BY <2>1, <2>2, <2>3, <2>4, <2>5 DEF TypeOK
    <2>7. Frame'
      BY <1>6 DEF Write, Frame, Present, TypeOK
    <2> QED BY <2>6, <2>7
  <1>7. CASE UNCHANGED vars
    <2>1. TypeOK'
      BY <1>7 DEF vars, TypeOK
    <2>2. Frame'
      BY <1>7 DEF vars, Frame, Present
    <2> QED BY <2>1, <2>2
  <1> QED BY <1>1, <1>2, <1>3, <1>4, <1>5, <1>6, <1>7 DEF Next

(* What the state holds is what the answers and requests can hold. *)
THEOREM TypeCorrect == Spec => []TypeOK
  BY TypeInit, TypeStep, PTL DEF Spec, TypeInv

-----------------------------------------------------------------------------
(* A page ends where the cursor made from it begins. *)
LEMMA PageCuts ==
  ASSUME TypeOK, NEW M \in SUBSET Present, NEW S \in SUBSET M, NEW n, IsFirst(S, M, n), NEW m, IsLast(m, S)
  PROVE  /\ \A r \in S : ~Keyset(r, NextCursor(m))
         /\ Null \notin {NextCursor(m).value, NextCursor(m).id} =>
              \A r \in M \ S : \/ Keyset(r, NextCursor(m))
                               \/ Key(r) = Null
                               \/ m # r /\ Tie(m) = Tie(r)
  <1>1. m \in S /\ m \in Present
    BY DEF IsLast
  <1>2. Key(m) \in Int \cup {Null} /\ Tie(m) \in Int
    BY <1>1, KeysTyped, OrderTyped, KeyOfOrder
  <1>3. NextCursor(m).value \in {Key(m), Null} /\ NextCursor(m).id \in {Tie(m), Null}
    BY <1>1, CursorTyped
  <1>4. ASSUME NEW r \in S PROVE ~Keyset(r, NextCursor(m))
    <2>1. ~Precedes(m, r)
      BY <1>4 DEF IsLast
    <2>2. Key(r) \in Int \cup {Null} /\ Tie(r) \in Int
      BY <1>4, KeysTyped, OrderTyped, KeyOfOrder
    <2> QED BY <1>2, <1>3, <2>1, <2>2, ConstantsTyped DEF Keyset, RowAbove, RowBelow, Precedes, Less
  <1>5. ASSUME Null \notin {NextCursor(m).value, NextCursor(m).id}, NEW r \in M \ S
        PROVE  Keyset(r, NextCursor(m)) \/ Key(r) = Null \/ (m # r /\ Tie(m) = Tie(r))
    <2>1. ~Precedes(r, m)
      BY <1>1 DEF IsFirst
    <2>2. Key(r) \in Int \cup {Null} /\ Tie(r) \in Int
      BY <1>5, KeysTyped, OrderTyped, KeyOfOrder
    <2>3. NextCursor(m).value = Key(m) /\ NextCursor(m).id = Tie(m) /\ Key(m) # Null
      BY <1>3, <1>5
    <2> QED BY <1>1, <1>2, <2>1, <2>2, <2>3, ConstantsTyped DEF Keyset, RowAbove, RowBelow, Precedes, Less
  <1> QED BY <1>4, <1>5

(* What Read can do to a walk by cursor. *)
LEMMA ReadOfWalk ==
  ASSUME TypeInv, Read, mode = "cursor"
  PROVE  LET keyset == DecodeCursor # NoCursor
             M == IF keyset THEN {r \in Present : Keyset(r, DecodeCursor)} ELSE Present
         IN \E S \in SUBSET M :
              /\ IsFirst(S, M, PageLimit)
              /\ shown' = shown \cup S /\ twice' = twice \cup (shown \cap S)
              /\ \/ /\ \E m \in S : IsLast(m, S) /\ cursor' = NextCursor(m)
                    /\ UNCHANGED ended
                 \/ /\ ended' = TRUE
                    /\ UNCHANGED cursor
                    /\ keyset \/ ~counts \/ S = {} => S = M
                    /\ ~keyset /\ counts => S = {} \/ ~(Cardinality(S) < total)
  <1> DEFINE keyset == DecodeCursor # NoCursor
  <1> DEFINE M == IF keyset THEN {r \in Present : Keyset(r, DecodeCursor)} ELSE Present
  <1> DEFINE skipped == IF keyset THEN 0 ELSE PageOffset
  <1>1. skipped = 0
    BY ConstantsTyped DEF PageOffset, TypeInv, Frame
  <1>2. PICK T \in {X \in SUBSET M : IsFirst(X, M, skipped)} :
        \E S \in {X \in SUBSET (M \ T) : IsFirst(X, M \ T, PageLimit)} :
          /\ LET more == HasMore(S, skipped, keyset) IN
             \/ more /\ \E m \in S : IsLast(m, S) /\ cursor' = NextCursor(m) /\ UNCHANGED ended
             \/ (~more \/ S = {}) /\ ended' = TRUE /\ UNCHANGED cursor
          /\ shown' = shown \cup S
          /\ twice' = twice \cup (shown \cap S)
    BY DEF Read
  <1>3. T = {}
    <2>1. M \subseteq Present
      OBVIOUS
    <2>2. IsFiniteSet(T)
      BY <2>1, PresentFinite, FS_Subset
    <2>3. Cardinality(T) <= 0 /\ Cardinality(T) \in Nat
      BY <1>1, <2>2, FS_CardinalityType DEF IsFirst
    <2> QED BY <2>2, <2>3, FS_EmptySet
  <1>4. M \ T = M
    BY <1>3
  <1>5. PICK S \in SUBSET M :
          /\ IsFirst(S, M, PageLimit)
          /\ LET more == HasMore(S, 0, keyset) IN
             \/ more /\ \E m \in S : IsLast(m, S) /\ cursor' = NextCursor(m) /\ UNCHANGED ended
             \/ (~more \/ S = {}) /\ ended' = TRUE /\ UNCHANGED cursor
          /\ shown' = shown \cup S
          /\ twice' = twice \cup (shown \cap S)
    BY <1>1, <1>2, <1>4
  <1>6. Cardinality(S) \in Nat /\ PageLimit \in Nat \ {0} /\ Cardinality({}) = 0
    <2>1. IsFiniteSet(S)
      BY PresentFinite, FS_Subset
    <2> QED BY <2>1, FS_CardinalityType, FS_EmptySet, LimitPositive DEF TypeInv
  <1>7. Cardinality(S) # PageLimit \/ S = {} => S = M
    BY <1>5, <1>6 DEF IsFirst
  <1>8. CASE \E m \in S : IsLast(m, S) /\ cursor' = NextCursor(m) /\ UNCHANGED ended
    BY <1>5, <1>8
  <1>9. CASE (~HasMore(S, 0, keyset) \/ S = {}) /\ ended' = TRUE /\ UNCHANGED cursor
    <2>1. keyset \/ ~counts \/ S = {} => S = M
      BY <1>7, <1>9 DEF HasMore
    <2>2. ~keyset /\ counts => S = {} \/ ~(Cardinality(S) < total)
      BY <1>6, <1>9 DEF HasMore
    <2> QED BY <1>5, <1>9, <2>1, <2>2
  <1> QED BY <1>5, <1>8, <1>9

-----------------------------------------------------------------------------
LEMMA WalkInit == Init => WalkInv
  BY DEF Init, WalkInv, CursorCuts, FreshIsEmpty, CountIsTrue, Fresh,
         CursorWalksRepeatNothing, CursorWalksMissOnlyTiesAndNulls

(* As long as cursor, list and table stand still, so does the cut. *)
LEMMA CutKept ==
  ASSUME UNCHANGED <<list, table, cursor, shown>>
  PROVE  /\ \A r : BehindCursor(r)' <=> BehindCursor(r)
         /\ \A r : Excused(r, cursor.sort)' <=> Excused(r, cursor.sort)
         /\ Present' = Present
         /\ \A r : Tie(r)' = Tie(r)
  BY DEF BehindCursor, Excused, KeyIn, Tie, Present

LEMMA OrderKept ==
  ASSUME UNCHANGED <<list, asked>>
  PROVE  /\ OrderBy' = OrderBy
         /\ cursor' = cursor => DecodeCursor' = DecodeCursor
  BY DEF OrderBy, DecodeCursor

(* The end of a walk stays justified while nothing but the cut moves.      *)
LEMMA EndKept ==
  ASSUME CursorWalksMissOnlyTiesAndNulls, UNCHANGED <<list, table, mode, asked, cursor, shown, steady, ended, raced>>
  PROVE  CursorWalksMissOnlyTiesAndNulls'
  BY OrderKept DEF CursorWalksMissOnlyTiesAndNulls, Blind, Key, Tie

LEMMA WalkFrame ==
  ASSUME TypeInv, WalkInv, UNCHANGED <<request, place, walk, steady, table>>,
         pc' = pc \/ {pc, pc'} \subseteq {"count", "rows"}, CountIsTrue', raced' = raced
  PROVE  WalkInv'
  <1> USE DEF request, place, walk
  <1>1. DecodeCursor' = DecodeCursor
    BY OrderKept
  <1>2. Fresh' <=> Fresh
    BY <1>1 DEF Fresh
  <1>3. CursorCuts'
    BY <1>2, CutKept DEF WalkInv, CursorCuts
  <1>4. FreshIsEmpty' /\ CursorWalksRepeatNothing'
    BY <1>2 DEF WalkInv, FreshIsEmpty, CursorWalksRepeatNothing
  <1>5. CursorWalksMissOnlyTiesAndNulls'
    BY EndKept DEF WalkInv
  <1> QED BY <1>3, <1>4, <1>5 DEF WalkInv

LEMMA AskStep == TypeInv /\ WalkInv /\ Ask => WalkInv'
  <1> SUFFICES ASSUME TypeInv, WalkInv, Ask PROVE WalkInv'
    OBVIOUS
  <1> USE DEF request, place
  <1>1. /\ pc = "idle" /\ ~ended /\ ~ended' /\ pc' \in {"count", "rows"}
        /\ UNCHANGED <<request, place, table>>
        /\ (pc' = "rows" => ~counts')
    BY DEF Ask
  <1>2. DecodeCursor' = DecodeCursor
    BY <1>1, OrderKept
  <1>3. CountIsTrue' /\ CursorWalksMissOnlyTiesAndNulls'
    BY <1>1 DEF CountIsTrue, CursorWalksMissOnlyTiesAndNulls
  <1>4. CASE mode # "cursor"
    BY <1>1, <1>3, <1>4 DEF WalkInv, CursorCuts, FreshIsEmpty, CursorWalksRepeatNothing
  <1>5. CASE mode = "cursor" /\ DecodeCursor = NoCursor
    <2>1. shown' = {} /\ twice' = {} /\ Fresh'
      BY <1>1, <1>2, <1>5 DEF Ask, Fresh
    <2> QED BY <1>3, <2>1 DEF WalkInv, CursorCuts, FreshIsEmpty, CursorWalksRepeatNothing
  <1>6. CASE mode = "cursor" /\ DecodeCursor # NoCursor
    <2>1. UNCHANGED <<shown, twice, steady>>
      BY <1>6 DEF Ask, still
    <2>2. ~Fresh /\ ~Fresh'
      BY <1>1, <1>2, <1>6 DEF Fresh, DecodeCursor
    <2>3. CursorCuts'
      BY <1>1, <2>1, <2>2, CutKept DEF WalkInv, CursorCuts
    <2> QED BY <1>1, <1>3, <2>1, <2>2, <2>3 DEF WalkInv, FreshIsEmpty, CursorWalksRepeatNothing
  <1> QED BY <1>4, <1>5, <1>6

LEMMA WriteStep == ASSUME TypeInv, WalkInv, NEW r \in Rows, Write(r) PROVE WalkInv'
  <1> USE DEF request, place, walk
  <1>1. /\ UNCHANGED <<request, place, walk, pc, total>>
        /\ steady' = steady \ {r} /\ table' = [table EXCEPT ![r] = table'[r]]
        /\ raced' = (raced \/ (pc = "rows" /\ counts /\ DecodeCursor = NoCursor))
    BY DEF Write, TypeInv, TypeOK
  <1>2. DecodeCursor' = DecodeCursor /\ OrderBy' = OrderBy
    BY <1>1, OrderKept
  <1>3. Fresh' <=> Fresh
    BY <1>1, <1>2 DEF Fresh
  <1>4. ASSUME NEW q \in steady'
        PROVE  /\ q \in steady /\ Tie(q)' = Tie(q)
               /\ \A s : KeyIn(q, s)' = KeyIn(q, s)
               /\ BehindCursor(q)' <=> BehindCursor(q)
               /\ Key(q)' = Key(q)
    <2>1. q \in steady /\ q # r /\ q \in Rows
      BY <1>1 DEF TypeInv, TypeOK
    <2>2. table'[q] = table[q]
      BY <1>1, <2>1 DEF TypeInv, TypeOK
    <2> QED BY <1>1, <1>2, <2>1, <2>2 DEF KeyIn, Key, Tie, BehindCursor
  <1>5. \A q : Tie(q)' = Tie(q)
    BY <1>1 DEF Tie
  <1>6. CursorCuts'
    BY <1>1, <1>3, <1>4, <1>5 DEF WalkInv, CursorCuts, Excused
  <1>7. FreshIsEmpty' /\ CursorWalksRepeatNothing'
    BY <1>1, <1>3 DEF WalkInv, FreshIsEmpty, CursorWalksRepeatNothing
  <1>8. CountIsTrue'
    BY <1>1, <1>2 DEF WalkInv, CountIsTrue
  <1>9. CursorWalksMissOnlyTiesAndNulls'
    <2>1. Blind' <=> Blind
      BY <1>1, <1>2 DEF Blind
    <2>2. raced => raced'
      BY <1>1
    <2> QED BY <1>1, <1>4, <1>5, <2>1, <2>2 DEF WalkInv, CursorWalksMissOnlyTiesAndNulls
  <1> QED BY <1>6, <1>7, <1>8, <1>9 DEF WalkInv

LEMMA ReadStep == TypeInv /\ WalkInv /\ Read => WalkInv'
  <1> SUFFICES ASSUME TypeInv, WalkInv, Read PROVE WalkInv'
    OBVIOUS
  <1>0. /\ pc = "rows" /\ pc' = "idle" /\ ~ended
        /\ UNCHANGED <<list, mode, counts, limit, asked, steady, table, total, raced>>
    BY DEF Read, request, still, TypeInv, Frame
  <1>1. CountIsTrue'
    BY <1>0 DEF CountIsTrue
  <1>2. CASE mode # "cursor"
    BY <1>0, <1>1, <1>2 DEF WalkInv, CursorCuts, FreshIsEmpty, CursorWalksRepeatNothing,
                            CursorWalksMissOnlyTiesAndNulls
  <1>3. CASE mode = "cursor"
    <2> DEFINE keyset == DecodeCursor # NoCursor
    <2> DEFINE M == IF keyset THEN {r \in Present : Keyset(r, DecodeCursor)} ELSE Present
    <2>1. PICK S \in SUBSET M :
              /\ IsFirst(S, M, PageLimit)
              /\ shown' = shown \cup S /\ twice' = twice \cup (shown \cap S)
              /\ \/ /\ \E m \in S : IsLast(m, S) /\ cursor' = NextCursor(m)
                    /\ UNCHANGED ended
                 \/ /\ ended' = TRUE
                    /\ UNCHANGED cursor
                    /\ keyset \/ ~counts \/ S = {} => S = M
                    /\ ~keyset /\ counts => S = {} \/ ~(Cardinality(S) < total)
      BY <1>3, ReadOfWalk
    <2>2. M \subseteq Present /\ steady \subseteq Present /\ TypeOK
      BY DEF TypeInv, Frame
    <2>3. keyset => /\ ~Fresh /\ cursor # NoCursor /\ DecodeCursor = cursor /\ cursor.sort = OrderBy
                    /\ \A r : BehindCursor(r) <=> Keyset(r, DecodeCursor)
                    /\ \A r : KeyIn(r, cursor.sort) = Key(r)
      BY <1>0, KeyOfOrder DEF Fresh, DecodeCursor, BehindCursor, Keyset
    <2>4. ~keyset => shown = {} /\ twice = {}
      BY <1>0, <1>3 DEF Fresh, FreshIsEmpty, WalkInv
    <2>5. keyset => \A r \in steady \cap shown : r \notin M
      BY <1>0, <1>3, <2>3 DEF CursorCuts, WalkInv
    <2>6. keyset /\ Null \notin {cursor.value, cursor.id} =>
            \A r \in steady \ shown : r \in M \/ Key(r) = Null \/ \E q \in shown \ {r} : Tie(q) = Tie(r)
      BY <1>0, <1>3, <2>2, <2>3 DEF CursorCuts, WalkInv, Excused
    <2>7. /\ \A r : Tie(r)' = Tie(r) /\ Key(r)' = Key(r)
          /\ OrderBy' = OrderBy
      BY <1>0, OrderKept DEF Tie, Key
    <2>8. CursorWalksRepeatNothing'
      <3>1. twice \cap steady = {}
        BY <1>3 DEF WalkInv, CursorWalksRepeatNothing
      <3> QED BY <1>0, <2>1, <2>4, <2>5, <3>1 DEF CursorWalksRepeatNothing
    <2>9. CASE /\ \E m \in S : IsLast(m, S) /\ cursor' = NextCursor(m)
               /\ UNCHANGED ended
      <3>1. PICK m \in S : IsLast(m, S) /\ cursor' = NextCursor(m)
        BY <2>9
      <3>2. /\ \A r \in S : ~Keyset(r, NextCursor(m))
            /\ Null \notin {NextCursor(m).value, NextCursor(m).id} =>
                 \A r \in M \ S : Keyset(r, NextCursor(m)) \/ Key(r) = Null \/ (m # r /\ Tie(m) = Tie(r))
        <4>1. M \in SUBSET Present
          BY <2>2
        <4>2. IsFirst(S, M, PageLimit)
          BY <2>1
        <4> QED BY <2>2, <3>1, <4>1, <4>2, PageCuts
      <3>3. m \in Present /\ cursor' # NoCursor /\ cursor'.sort = OrderBy
            /\ cursor'.value \in {Key(m), Null}
            /\ cursor'.id = (IF list.tie \in list.selected THEN Tie(m) ELSE Null)
        BY <2>2, <3>1, CursorTyped
      <3>4. \A r : KeyIn(r, cursor.sort)' = Key(r)
        BY <1>0, <2>7, <3>3, KeyOfOrder DEF KeyIn, Tie, Key
      <3>5. \A r : BehindCursor(r)' <=> Keyset(r, NextCursor(m))
        <4>1. \A r : BehindCursor(r)' <=> IF cursor'.sort.desc
                  THEN RowBelow(KeyIn(r, cursor.sort)', Tie(r)', cursor'.value, cursor'.id)
                  ELSE RowAbove(KeyIn(r, cursor.sort)', Tie(r)', cursor'.value, cursor'.id)
          BY DEF BehindCursor, RowBelow, RowAbove
        <4> QED BY <2>7, <3>1, <3>3, <3>4, <4>1 DEF Keyset
      <3>6. ~Fresh'
        BY <1>0, <3>3 DEF Fresh
      <3>7. ASSUME NEW r \in steady \cap (shown \cup S) PROVE ~Keyset(r, NextCursor(m))
        <4>1. CASE r \in S
          BY <3>2, <4>1
        <4>2. CASE r \notin S
          <5>1. keyset /\ ~Keyset(r, cursor) /\ Keyset(m, cursor)
            BY <2>2, <2>3, <2>4, <2>5, <3>7, <4>2
          <5>2. cursor.value \in Int \cup {Null} /\ cursor.id \in Int \cup {Null}
            BY <2>2, <2>3, <5>1 DEF TypeOK, Cursors
          <5>3. /\ Key(r) \in Int \cup {Null} /\ Tie(r) \in Int
                /\ Key(m) \in Int \cup {Null} /\ Tie(m) \in Int
            BY <2>2, <3>3, <3>7, KeysTyped, OrderTyped, KeyOfOrder
          <5>4. NextCursor(m).value \in {Key(m), Null} /\ NextCursor(m).id \in {Tie(m), Null}
            BY <3>1, <3>3
          <5>5. /\ RowAbove(Key(r), Tie(r), NextCursor(m).value, NextCursor(m).id)
                     /\ RowAbove(Key(m), Tie(m), cursor.value, cursor.id)
                   => RowAbove(Key(r), Tie(r), cursor.value, cursor.id)
                /\ RowBelow(Key(r), Tie(r), NextCursor(m).value, NextCursor(m).id)
                     /\ RowBelow(Key(m), Tie(m), cursor.value, cursor.id)
                   => RowBelow(Key(r), Tie(r), cursor.value, cursor.id)
            BY <5>2, <5>3, <5>4, ConstantsTyped DEF RowAbove, RowBelow
          <5> QED BY <5>1, <5>5 DEF Keyset
        <4> QED BY <4>1, <4>2
      <3>8. ASSUME Null \notin {cursor'.value, cursor'.id}, NEW r \in steady \ (shown \cup S)
            PROVE  Keyset(r, NextCursor(m)) \/ Key(r) = Null \/ \E q \in (shown \cup S) \ {r} : Tie(q) = Tie(r)
        <4>1. keyset => Null \notin {cursor.value, cursor.id}
          <5>1. keyset => cursor.id # Null
            BY <2>3, <3>3, <3>8 DEF TypeInv, Frame
          <5>2. keyset => cursor.value # Null
            <6>1. keyset => Keyset(m, cursor)
              BY <2>3
            <6> QED BY <6>1 DEF Keyset, RowAbove, RowBelow
          <5> QED BY <5>1, <5>2
        <4>2. r \in M \/ Key(r) = Null \/ \E q \in shown \ {r} : Tie(q) = Tie(r)
          BY <2>2, <2>6, <3>8, <4>1
        <4>3. CASE r \in M
          BY <3>1, <3>2, <3>8, <4>3
        <4> QED BY <4>2, <4>3
      <3>9. CursorCuts'
        <4>1. \A r : Excused(r, cursor.sort)' <=> Key(r) = Null \/ \E q \in (shown \cup S) \ {r} : Tie(q) = Tie(r)
          BY <2>1, <2>7, <3>4 DEF Excused
        <4> QED BY <1>0, <2>1, <3>5, <3>7, <3>8, <4>1 DEF CursorCuts
      <3>10. FreshIsEmpty' /\ CursorWalksMissOnlyTiesAndNulls'
        BY <1>0, <2>9, <3>6 DEF FreshIsEmpty, CursorWalksMissOnlyTiesAndNulls
      <3> QED BY <1>1, <2>8, <3>9, <3>10 DEF WalkInv
    <2>10. CASE /\ ended' = TRUE
                /\ UNCHANGED cursor
                /\ keyset \/ ~counts \/ S = {} => S = M
                /\ ~keyset /\ counts => S = {} \/ ~(Cardinality(S) < total)
      <3>1. ~raced => S = M
        <4>1. CASE keyset \/ ~counts \/ S = {}
          BY <2>10, <4>1
        <4>2. CASE ~raced /\ ~keyset /\ counts /\ S # {}
          <5>1. ~(Cardinality(S) < total)
            BY <2>10, <4>2
          <5>2. total = Cardinality(Present)
            BY <1>0, <4>2 DEF WalkInv, CountIsTrue
          <5>3. M = Present
            BY <4>2
          <5>4. IsFiniteSet(Present) /\ IsFiniteSet(S) /\ Cardinality(S) \in Nat /\ Cardinality(Present) \in Nat
            BY <2>2, PresentFinite, FS_Subset, FS_CardinalityType
          <5>5. S # M => Cardinality(S) < Cardinality(Present)
            BY <5>3, <5>4, FS_Subset
          <5> QED BY <5>1, <5>2, <5>3, <5>4, <5>5
        <4> QED BY <4>1, <4>2
      <3>2. DecodeCursor' = DecodeCursor
        BY <1>0, <2>10, OrderKept
      <3>3. CursorWalksMissOnlyTiesAndNulls'
        <4> SUFFICES ASSUME ~raced, ~Blind', NEW r \in steady \ (shown \cup S)
                     PROVE  Key(r) = Null \/ \E q \in (shown \cup S) \ {r} : Tie(q) = Tie(r)
          BY <1>0, <2>1, <2>7 DEF CursorWalksMissOnlyTiesAndNulls
        <4>1. S = M
          BY <3>1
        <4>2. keyset
          BY <2>2, <4>1
        <4>3. Null \notin {cursor.value, cursor.id}
          BY <2>10, <3>2, <4>2 DEF Blind
        <4> QED BY <2>6, <4>1, <4>2, <4>3
      <3>4. CursorCuts' /\ FreshIsEmpty'
        BY <2>10 DEF CursorCuts, FreshIsEmpty
      <3> QED BY <1>1, <2>8, <3>3, <3>4 DEF WalkInv
    <2> QED BY <2>1, <2>9, <2>10
  <1> QED BY <1>2, <1>3

LEMMA WalkStep == TypeInv /\ WalkInv /\ [Next]_vars => WalkInv'
  <1> SUFFICES ASSUME TypeInv, WalkInv, [Next]_vars PROVE WalkInv'
    OBVIOUS
  <1>1. CASE Count
    <2>1. CountIsTrue'
      BY <1>1 DEF Count, CountIsTrue, Present
    <2> QED BY <1>1, <2>1, WalkFrame DEF Count, still
  <1>2. CASE Fail
    <2>1. /\ pc \in {"count", "rows"} /\ pc' = "idle" /\ cursor' = DecodeCursor
          /\ UNCHANGED <<request, asked, offset, walk, steady, table, raced>>
      BY <1>2 DEF Fail, still
    <2>2. ~ended
      BY <2>1 DEF TypeInv, Frame
    <2>3. CountIsTrue' /\ CursorWalksRepeatNothing' /\ CursorWalksMissOnlyTiesAndNulls'
      BY <2>1, <2>2 DEF CountIsTrue, WalkInv, CursorWalksRepeatNothing, CursorWalksMissOnlyTiesAndNulls,
                        request, walk
    <2>4. CASE DecodeCursor = NoCursor
      BY <2>1, <2>2, <2>3, <2>4 DEF Fresh, WalkInv, FreshIsEmpty, CursorCuts, request, walk
    <2>5. CASE DecodeCursor # NoCursor
      <3>1. cursor' = cursor /\ ~Fresh /\ ~Fresh'
        BY <2>1, <2>5 DEF DecodeCursor, Fresh
      <3>2. CursorCuts'
        BY <2>1, <2>2, <3>1, CutKept DEF WalkInv, CursorCuts, request, walk
      <3> QED BY <2>3, <3>1, <3>2 DEF WalkInv, FreshIsEmpty
    <2> QED BY <2>4, <2>5
  <1>3. CASE Resort
    <2>1. /\ pc = "idle" /\ pc' = "idle" /\ cursor # NoCursor /\ ~ended
          /\ UNCHANGED <<request, cursor, offset, walk, steady, table>>
      BY <1>3 DEF Resort, still
    <2>2. ~Fresh /\ ~Fresh'
      BY <2>1 DEF Fresh
    <2>3. CursorCuts'
      BY <2>1, <2>2, CutKept DEF WalkInv, CursorCuts, request, walk
    <2> QED BY <2>1, <2>2, <2>3 DEF WalkInv, FreshIsEmpty, CountIsTrue, CursorWalksRepeatNothing,
                                    CursorWalksMissOnlyTiesAndNulls, request, walk
  <1>4. CASE UNCHANGED vars
    <2>1. UNCHANGED <<request, place, walk, still, table, pc, total, raced>>
      BY <1>4 DEF vars
    <2>2. CountIsTrue'
      BY <2>1, OrderKept DEF WalkInv, CountIsTrue, Present, request, place
    <2> QED BY <2>1, <2>2, WalkFrame DEF still
  <1> QED BY <1>1, <1>2, <1>3, <1>4, AskStep, ReadStep, WriteStep DEF Next

LEMMA Invariance == Spec => []WalkInv
  BY TypeInit, TypeStep, WalkInit, WalkStep, PTL DEF Spec

(* No walk by cursor repeats a row that was left alone. *)
THEOREM NothingIsRepeated == Spec => []CursorWalksRepeatNothing
  BY Invariance, PTL DEF WalkInv

(* A walk by cursor that ended has missed nothing but what shares its      *)
(* tiebreak, or sorts by NULL.                                             *)
THEOREM NothingElseIsMissed == Spec => []CursorWalksMissOnlyTiesAndNulls
  BY Invariance, PTL DEF WalkInv

-----------------------------------------------------------------------------
(* Walks by offset. *)

(* No row outside S comes before one of S. *)
Leads(S) == S \subseteq Present /\ \A s \in S, x \in Present \ S : ~Precedes(x, s)

(* Where the order is a total one, the rows shown are the first ones, as   *)
(* many as the offset says: the next page skips just these.                *)
OffsetWalk ==
  mode = "offset" =>
    /\ cursor = NoCursor
    /\ quiet /\ list.unique /\ Cardinality(Present) <= MaxOffset =>
         /\ twice = {}
         /\ pc = "rows" /\ counts => total = Cardinality(Present)
         /\ ended => shown = Present
         /\ ~ended => /\ Leads(shown) /\ Cardinality(shown) = offset
                      /\ offset <= Cardinality(Present)

(* A unique tiebreak decides between any two rows. *)
LEMMA OrderIsTotal ==
  ASSUME TypeOK, list.unique, NEW r \in Present, NEW q \in Present, r # q
  PROVE  Precedes(r, q) \/ Precedes(q, r)
  <1>1. Tie(r) \in Int /\ Tie(q) \in Int /\ Tie(r) # Tie(q)
    BY ConstantsTyped DEF Tie, Present
  <1>2. Key(r) \in Int \cup {Null} /\ Key(q) \in Int \cup {Null}
    BY KeysTyped, OrderTyped, KeyOfOrder
  <1> QED BY <1>1, <1>2, ConstantsTyped DEF Precedes, Less

(* So there is only one choice of so many first rows. *)
LEMMA FirstRowsAreOne ==
  ASSUME TypeOK, list.unique, NEW S, NEW T, Leads(S), Leads(T), Cardinality(S) = Cardinality(T)
  PROVE  S = T
  <1>1. IsFiniteSet(S) /\ IsFiniteSet(T)
    BY PresentFinite, FS_Subset DEF Leads
  <1>2. CASE S \subseteq T \/ T \subseteq S
    BY <1>1, <1>2, FS_Subset
  <1>3. CASE ~(S \subseteq T \/ T \subseteq S)
    <2>1. PICK a \in S, b \in T : a \notin T /\ b \notin S
      BY <1>3
    <2>2. ~Precedes(a, b) /\ ~Precedes(b, a)
      BY <2>1 DEF Leads
    <2> QED BY <2>1, <2>2, OrderIsTotal DEF Leads
  <1> QED BY <1>2, <1>3

(* The page behind the first rows. *)
LEMMA PagesJoin ==
  ASSUME TypeOK, NEW T, Leads(T), NEW S \in SUBSET (Present \ T), NEW n \in Nat,
         IsFirst(S, Present \ T, n)
  PROVE  /\ Leads(T \cup S)
         /\ Cardinality(T \cup S) = Cardinality(T) + Cardinality(S)
         /\ Cardinality(T \cup S) \in Nat /\ Cardinality(S) \in Nat /\ Cardinality(T) \in Nat
         /\ Cardinality(T \cup S) <= Cardinality(Present)
         /\ Cardinality(T \cup S) = Cardinality(Present) => T \cup S = Present
         /\ Cardinality(S) <= n /\ (Cardinality(S) < n => T \cup S = Present)
  <1>1. T \subseteq Present /\ S \subseteq Present /\ T \cap S = {}
    BY DEF Leads
  <1>2. IsFiniteSet(T) /\ IsFiniteSet(S) /\ IsFiniteSet(T \cup S)
    BY <1>1, PresentFinite, FS_Subset, FS_Union
  <1>3. Cardinality(T) \in Nat /\ Cardinality(S) \in Nat /\ Cardinality(T \cup S) \in Nat
    BY <1>2, FS_CardinalityType
  <1>4. Cardinality(T \cup S) = Cardinality(T) + Cardinality(S)
    <2>1. Cardinality(T \cap S) = 0
      BY <1>1, FS_EmptySet
    <2>2. Cardinality(T \cup S) = Cardinality(T) + Cardinality(S) - Cardinality(T \cap S)
      BY <1>2, FS_Union
    <2> QED BY <1>3, <2>1, <2>2
  <1>5. /\ Cardinality(T \cup S) <= Cardinality(Present)
        /\ Cardinality(T \cup S) = Cardinality(Present) => T \cup S = Present
    BY <1>1, PresentFinite, FS_Subset
  <1>6. Leads(T \cup S)
    <2> SUFFICES ASSUME NEW s \in T \cup S, NEW x \in Present \ (T \cup S) PROVE ~Precedes(x, s)
      BY <1>1 DEF Leads
    <2>1. CASE s \in T
      BY <2>1 DEF Leads
    <2>2. CASE s \in S
      BY <2>2 DEF IsFirst
    <2> QED BY <2>1, <2>2
  <1>7. Cardinality(S) <= n /\ (Cardinality(S) < n => T \cup S = Present)
    BY <1>1 DEF IsFirst
  <1> QED BY <1>3, <1>4, <1>5, <1>6, <1>7

LEMMA OffsetInit == Init => OffsetWalk
  <1>1. Cardinality({}) = 0 /\ Cardinality(Present) \in Nat
    BY FS_EmptySet, PresentFinite
  <1> QED BY <1>1 DEF Init, OffsetWalk, Leads

(* While table, order and rows shown stand still, so does what is shown.   *)
LEMMA OffsetFrame ==
  ASSUME OffsetWalk, UNCHANGED <<request, place, walk, still, table>>,
         pc' = "rows" /\ counts => total' = Cardinality(Present) \/ (pc = "rows" /\ total' = total)
  PROVE  OffsetWalk'
  <1> USE DEF request, place, walk, still
  <1>1. Present' = Present /\ OrderBy' = OrderBy
    BY OrderKept DEF Present
  <1>2. \A r, q : Precedes(r, q)' <=> Precedes(r, q)
    BY <1>1 DEF Precedes, Key, Tie
  <1> QED BY <1>1, <1>2 DEF OffsetWalk, Leads

LEMMA OffsetAsk == TypeInv /\ OffsetWalk /\ Ask => OffsetWalk'
  <1> SUFFICES ASSUME TypeInv, OffsetWalk, Ask, mode = "offset" PROVE OffsetWalk'
    BY DEF Ask, request, OffsetWalk
  <1>1. /\ pc = "idle" /\ ~ended /\ pc' = (IF counts THEN "count" ELSE "rows")
        /\ UNCHANGED <<request, place, table, changes, ended>>
        /\ IF offset = 0 THEN shown' = {} /\ twice' = {} /\ quiet' = TRUE
                         ELSE UNCHANGED <<shown, twice, still>>
    BY DEF Ask
  <1>2. CASE offset = 0
    <2>1. Cardinality({}) = 0 /\ Cardinality(Present') \in Nat /\ Present' = Present
      BY <1>1, FS_EmptySet, PresentFinite DEF Present
    <2> QED BY <1>1, <1>2, <2>1 DEF OffsetWalk, Leads, request, place
  <1>3. CASE offset # 0
    BY <1>1, <1>3, OffsetFrame DEF walk
  <1> QED BY <1>2, <1>3

LEMMA OffsetRead == TypeInv /\ OffsetWalk /\ Read => OffsetWalk'
  <1> SUFFICES ASSUME TypeInv, OffsetWalk, Read, mode = "offset" PROVE OffsetWalk'
    BY DEF Read, request, OffsetWalk
  <1>1. /\ pc = "rows" /\ pc' = "idle" /\ ~ended /\ cursor = NoCursor /\ DecodeCursor = NoCursor
        /\ UNCHANGED <<request, asked, still, table>>
    BY DEF Read, OffsetWalk, DecodeCursor, TypeInv, Frame
  <1>2. PICK T \in SUBSET Present : \E S \in SUBSET (Present \ T) :
          /\ IsFirst(T, Present, PageOffset) /\ IsFirst(S, Present \ T, PageLimit)
          /\ LET more == HasMore(S, PageOffset, FALSE) IN
             \/ more /\ offset' = PageOffset + PageLimit /\ UNCHANGED ended
             \/ ~more /\ ended' = TRUE
          /\ cursor' = cursor /\ shown' = shown \cup S /\ twice' = twice \cup (shown \cap S)
    BY <1>1 DEF Read
  <1>3. PICK S \in SUBSET (Present \ T) :
          /\ IsFirst(T, Present, PageOffset) /\ IsFirst(S, Present \ T, PageLimit)
          /\ LET more == HasMore(S, PageOffset, FALSE) IN
             \/ more /\ offset' = PageOffset + PageLimit /\ UNCHANGED ended
             \/ ~more /\ ended' = TRUE
          /\ cursor' = cursor /\ shown' = shown \cup S /\ twice' = twice \cup (shown \cap S)
    BY <1>2
  <1>4. Present' = Present /\ (\A r, q : Precedes(r, q)' <=> Precedes(r, q))
    BY <1>1, OrderKept DEF Present, Precedes, Key, Tie, request
  <1> SUFFICES ASSUME quiet, list.unique, Cardinality(Present) <= MaxOffset
               PROVE  /\ twice' = {}
                      /\ ended' => shown' = Present
                      /\ ~ended' => /\ Leads(shown') /\ Cardinality(shown') = offset'
                                    /\ offset' <= Cardinality(Present)
    BY <1>1, <1>3, <1>4 DEF OffsetWalk, Leads, request, still
  <1>5. /\ twice = {} /\ (counts => total = Cardinality(Present))
        /\ Leads(shown) /\ Cardinality(shown) = offset /\ offset <= Cardinality(Present)
    BY <1>1 DEF OffsetWalk
  <1>6. TypeOK /\ offset \in Nat /\ PageLimit \in Nat \ {0} /\ MaxOffset \in Nat /\ Cardinality(Present) \in Nat
    BY LimitPositive, PresentFinite, ConstantsTyped DEF TypeInv, TypeOK
  <1>7. PageOffset = offset
    BY <1>5, <1>6 DEF PageOffset
  <1>8. T = shown
    <2>1. Leads(T)
      BY <1>3 DEF IsFirst, Leads
    <2>2. Cardinality(T) \in Nat
      BY PresentFinite, FS_Subset, FS_CardinalityType
    <2>3. Cardinality(T) = offset
      BY <1>3, <1>5, <1>6, <1>7, <2>2 DEF IsFirst
    <2> QED BY <1>5, <1>6, <2>1, <2>3, FirstRowsAreOne
  <1> DEFINE size == Cardinality(S)
             all == Cardinality(Present)
  <1>9. /\ Leads(shown \cup S) /\ Cardinality(shown \cup S) = offset + size /\ size \in Nat
        /\ offset + size <= all
        /\ offset + size = all <=> shown \cup S = Present
        /\ size <= PageLimit /\ (size < PageLimit => shown \cup S = Present)
    <2>1. S \in SUBSET (Present \ shown) /\ IsFirst(S, Present \ shown, PageLimit) /\ PageLimit \in Nat
      BY <1>3, <1>6, <1>8
    <2>2. /\ Leads(shown \cup S) /\ Cardinality(shown \cup S) = Cardinality(shown) + size
          /\ size \in Nat /\ Cardinality(shown \cup S) <= all
          /\ Cardinality(shown \cup S) = all => shown \cup S = Present
          /\ size <= PageLimit /\ (size < PageLimit => shown \cup S = Present)
      BY <1>5, <1>6, <2>1, PagesJoin
    <2> QED BY <1>5, <2>2
  <1>10. twice' = {}
    BY <1>3, <1>5, <1>8
  <1> DEFINE more == HasMore(S, PageOffset, FALSE)
  <1>11. (counts => (more <=> offset + size < all)) /\ (~counts => (more <=> size = PageLimit))
    BY <1>5, <1>7 DEF HasMore
  <1>12. /\ more => offset' = offset + PageLimit /\ ended' = ended
         /\ ~more => ended' = TRUE
         /\ shown' = shown \cup S /\ offset \in Nat /\ all \in Nat /\ PageLimit \in Nat
    BY <1>3, <1>6, <1>7
  <1> HIDE DEF size, all, more
  <1>13. CASE more
    <2>1. size = PageLimit
      <3>1. CASE counts
        <4>1. ~(size < PageLimit)
          BY <1>9, <1>11, <1>12, <1>13, <3>1
        <4> QED BY <1>9, <1>12, <4>1
      <3>2. CASE ~counts
        BY <1>11, <1>13, <3>2
      <3> QED BY <3>1, <3>2
    <2>2. offset' = offset + size
      BY <1>12, <1>13, <2>1
    <2> QED BY <1>1, <1>9, <1>10, <1>12, <1>13, <2>2 DEF all
  <1>14. CASE ~more
    <2>1. shown \cup S = Present
      <3>1. CASE counts
        <4>1. ~(offset + size < all)
          BY <1>11, <1>14, <3>1
        <4>2. offset + size = all
          BY <1>9, <1>12, <4>1
        <4> QED BY <1>9, <4>2
      <3>2. CASE ~counts
        <4>1. size # PageLimit
          BY <1>11, <1>14, <3>2
        <4> QED BY <1>9, <1>12, <4>1
      <3> QED BY <3>1, <3>2
    <2> QED BY <1>10, <1>12, <1>14, <2>1
  <1> QED BY <1>13, <1>14

LEMMA OffsetStep == TypeInv /\ OffsetWalk /\ [Next]_vars => OffsetWalk'
  <1> SUFFICES ASSUME TypeInv, OffsetWalk, [Next]_vars PROVE OffsetWalk'
    OBVIOUS
  <1>1. CASE Count
    BY <1>1, OffsetFrame DEF Count
  <1>2. CASE Fail
    <2>1. CASE mode = "offset"
      <3>1. cursor' = cursor
        BY <1>2, <2>1 DEF Fail, OffsetWalk, DecodeCursor
      <3> QED BY <1>2, <3>1, OffsetFrame DEF Fail, place
    <2>2. CASE mode # "offset"
      BY <1>2, <2>2 DEF Fail, OffsetWalk, request
    <2> QED BY <2>1, <2>2
  <1>3. CASE Resort
    BY <1>3 DEF Resort, OffsetWalk, request
  <1>4. ASSUME NEW r \in Rows, Write(r) PROVE OffsetWalk'
    BY <1>4 DEF Write, OffsetWalk, request, place
  <1>5. CASE UNCHANGED vars
    BY <1>5, OffsetFrame DEF vars
  <1> QED BY <1>1, <1>2, <1>3, <1>4, <1>5, OffsetAsk, OffsetRead DEF Next

(* A walk by offset through a table at rest, in an order that a unique     *)
(* tiebreak makes total, shows no row twice and none too few: every page,  *)
(* a query of its own, skips just what the pages before it showed          *)
(* (query.go:144-148).                                                     *)
THEOREM QuietPagesFit == Spec => []QuietPagesFitTogether
  <1>1. OffsetWalk => QuietPagesFitTogether
    BY DEF OffsetWalk, QuietPagesFitTogether
  <1> QED BY <1>1, TypeInit, TypeStep, OffsetInit, OffsetStep, PTL DEF Spec

=============================================================================
