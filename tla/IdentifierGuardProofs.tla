------------------------ MODULE IdentifierGuardProofs ------------------------
(* The marks that IdentifierGuard states at once are those the loop of     *)
(* markAmbiguity leaves, for lists of any length.                          *)
EXTENDS MCIdentifierGuard, WellFoundedInduction, NaturalsInduction, TLAPS

(* Induction over the naturals, by a least counterexample. *)
LEMMA LeastOf ==
  ASSUME NEW S \in SUBSET Nat, S # {}
  PROVE  \E m \in S : \A k \in Nat : k < m => k \notin S
  <1> DEFINE R == OpToRel(<, Nat)
  <1>1. IsWellFoundedOn(R, Nat)
    BY NatLessThanWellFounded
  <1>2. \A x, y \in Nat : <<y, x>> \in R <=> y < x
    BY DEF OpToRel
  <1> HIDE DEF R
  <1>3. PICK m \in S : \A y \in S : ~ (<<y, m>> \in R)
    BY <1>1, WFMin
  <1> QED BY <1>2, <1>3

(* The equation of the loop, and what it defines. *)
Visits(f, n, amb, x, sorted, query) ==
  f = [i \in 0 .. n |-> IF i = 0 THEN amb ELSE AfterRow(f[i - 1], x, sorted, query, i)]

After(amb, x, sorted, query) == CHOOSE f : Visits(f, Len(x.items), amb, x, sorted, query)

(* The loop can be run, up to any row. *)
LEMMA LoopRuns ==
  ASSUME NEW amb, NEW x, NEW sorted, NEW query, NEW n \in Nat
  PROVE  \E f : Visits(f, n, amb, x, sorted, query)
  <1> DEFINE bad == {k \in Nat : ~\E f : Visits(f, k, amb, x, sorted, query)}
  <1>1. ASSUME NEW m \in Nat, \A k \in Nat : k < m => \E f : Visits(f, k, amb, x, sorted, query)
        PROVE  \E f : Visits(f, m, amb, x, sorted, query)
    <2>1. CASE m = 0
      <3> DEFINE f == [i \in 0 .. 0 |-> amb]
      <3>1. f = [i \in 0 .. 0 |-> IF i = 0 THEN amb ELSE AfterRow(f[i - 1], x, sorted, query, i)]
        OBVIOUS
      <3> QED BY <2>1, <3>1 DEF Visits
    <2>2. CASE m # 0
      <3>1. m - 1 \in Nat /\ m - 1 < m
        BY <2>2
      <3>2. PICK g : Visits(g, m - 1, amb, x, sorted, query)
        BY <1>1, <3>1
      <3> DEFINE f == [i \in 0 .. m |-> IF i = m THEN AfterRow(g[m - 1], x, sorted, query, m) ELSE g[i]]
      <3>3. \A i \in 0 .. (m - 1) :
              f[i] = g[i] /\ g[i] = IF i = 0 THEN amb ELSE AfterRow(g[i - 1], x, sorted, query, i)
        <4>1. g = [i \in 0 .. (m - 1) |-> IF i = 0 THEN amb ELSE AfterRow(g[i - 1], x, sorted, query, i)]
          BY <3>2 DEF Visits
        <4>2. \A i \in 0 .. (m - 1) : i \in 0 .. m /\ i # m
          OBVIOUS
        <4>3. \A i \in 0 .. (m - 1) : g[i] = IF i = 0 THEN amb ELSE AfterRow(g[i - 1], x, sorted, query, i)
          BY <4>1
        <4> QED BY <4>2, <4>3
      <3>4. ASSUME NEW i \in 0 .. m
            PROVE  f[i] = IF i = 0 THEN amb ELSE AfterRow(f[i - 1], x, sorted, query, i)
        <4>1. CASE i = m
          <5>1. f[m] = AfterRow(g[m - 1], x, sorted, query, m) /\ m - 1 \in 0 .. (m - 1)
            BY <3>1
          <5>2. f[m - 1] = g[m - 1]
            BY <3>3, <5>1
          <5> QED BY <2>2, <4>1, <5>1, <5>2
        <4>2. CASE i # m
          <5>1. i \in 0 .. (m - 1) /\ (i # 0 => i - 1 \in 0 .. (m - 1))
            BY <4>2
          <5>2. f[i] = IF i = 0 THEN amb ELSE AfterRow(g[i - 1], x, sorted, query, i)
            BY <3>3, <5>1
          <5>3. i # 0 => f[i - 1] = g[i - 1]
            BY <3>3, <5>1
          <5> HIDE DEF f
          <5> QED BY <5>2, <5>3
        <4> QED BY <4>1, <4>2
      <3>5. f = [i \in 0 .. m |-> f[i]]
        OBVIOUS
      <3> HIDE DEF f
      <3>6. f = [i \in 0 .. m |-> IF i = 0 THEN amb ELSE AfterRow(f[i - 1], x, sorted, query, i)]
        BY <3>4, <3>5
      <3> QED BY <3>6 DEF Visits
    <2> QED BY <2>1, <2>2
  <1>2. bad = {}
    <2> SUFFICES ASSUME bad # {} PROVE FALSE
      OBVIOUS
    <2>1. PICK m \in bad : \A k \in Nat : k < m => k \notin bad
      BY LeastOf
    <2> QED BY <1>1, <2>1
  <1> QED BY <1>2

(* So the loop has the value that its equation says. *)
LEMMA RowByRowIs ==
  ASSUME NEW amb, NEW x, NEW sorted, NEW query, Len(x.items) \in Nat
  PROVE  LET n == Len(x.items)
             after == After(amb, x, sorted, query) IN
         /\ RowByRow(amb, x, sorted, query) = after[n]
         /\ after[0] = amb
         /\ \A i \in 1 .. n : after[i] = AfterRow(after[i - 1], x, sorted, query, i)
  <1> DEFINE n == Len(x.items)
             after == After(amb, x, sorted, query)
  <1>1. RowByRow(amb, x, sorted, query) = after[n]
    BY DEF RowByRow, After, Visits
  <1>2. Visits(after, n, amb, x, sorted, query)
    BY LoopRuns DEF After
  <1> HIDE DEF after
  <1>3. \A i \in 0 .. n : after[i] = IF i = 0 THEN amb ELSE AfterRow(after[i - 1], x, sorted, query, i)
    BY <1>2 DEF Visits
  <1>4. 0 \in 0 .. n /\ \A i \in 1 .. n : i \in 0 .. n /\ i # 0
    OBVIOUS
  <1> QED BY <1>1, <1>3, <1>4 DEF after

-----------------------------------------------------------------------------
(* An identifier in the rows up to i: its last row decides. *)

Has(x, id, i) == id \in x.items[i].ids

LastUpTo(x, id, i, j) == Has(x, id, j) /\ \A k \in 1 .. i : k > j => ~Has(x, id, k)

Decided(amb, x, sorted, query, id, i) ==
  IF \E j \in 1 .. i : Has(x, id, j)
  THEN /\ id \notin query.ids /\ Total(x) > 1
       /\ ~\E j \in 1 .. i : LastUpTo(x, id, i, j) /\ Determinate(x, sorted, query, j)
  ELSE id \in amb

LEMMA OneRowDecides ==
  ASSUME NEW amb, NEW next, NEW x, NEW sorted, NEW query, NEW i \in Nat, i # 0,
         next = AfterRow(amb, x, sorted, query, i), NEW id
  PROVE  id \in next <=>
           IF Has(x, id, i)
           THEN id \notin query.ids /\ Total(x) > 1 /\ ~Determinate(x, sorted, query, i)
           ELSE id \in amb
  BY DEF AfterRow, Has

(* One more row. *)
LEMMA DecidedByOneMore ==
  ASSUME NEW start, NEW amb, NEW next, NEW x, NEW sorted, NEW query, NEW i \in Nat, i # 0, NEW id,
         next = AfterRow(amb, x, sorted, query, i),
         id \in amb <=> Decided(start, x, sorted, query, id, i - 1)
  PROVE  id \in next <=> Decided(start, x, sorted, query, id, i)
  <1>1. id \in next <=>
           IF Has(x, id, i)
           THEN id \notin query.ids /\ Total(x) > 1 /\ ~Determinate(x, sorted, query, i)
           ELSE id \in amb
    BY OneRowDecides
  <1>2. i - 1 \in Nat /\ 1 .. i = (1 .. (i - 1)) \cup {i} /\ i \notin 1 .. (i - 1)
    OBVIOUS
  <1>3. CASE Has(x, id, i)
    <2>1. \A j \in 1 .. i : LastUpTo(x, id, i, j) <=> j = i
      BY <1>3 DEF LastUpTo
    <2> QED BY <1>1, <1>2, <1>3, <2>1 DEF Decided
  <1>4. CASE ~Has(x, id, i)
    <2>1. \A j \in 1 .. (i - 1) : LastUpTo(x, id, i, j) <=> LastUpTo(x, id, i - 1, j)
      BY <1>2, <1>4 DEF LastUpTo
    <2>2. ~LastUpTo(x, id, i, i)
      BY <1>4 DEF LastUpTo
    <2>3. (\E j \in 1 .. i : Has(x, id, j)) <=> \E j \in 1 .. (i - 1) : Has(x, id, j)
      BY <1>2, <1>4
    <2>4. (\E j \in 1 .. i : LastUpTo(x, id, i, j) /\ Determinate(x, sorted, query, j))
          <=> \E j \in 1 .. (i - 1) : LastUpTo(x, id, i - 1, j) /\ Determinate(x, sorted, query, j)
      BY <1>2, <2>1, <2>2
    <2> QED BY <1>1, <1>4, <2>3, <2>4 DEF Decided
  <1> QED BY <1>3, <1>4

LEMMA EveryRowDecides ==
  ASSUME NEW amb, NEW x, NEW sorted, NEW query, Len(x.items) \in Nat, NEW id
  PROVE  id \in RowByRow(amb, x, sorted, query) <=> Decided(amb, x, sorted, query, id, Len(x.items))
  <1> DEFINE n == Len(x.items)
             after == After(amb, x, sorted, query)
             Right(i) == id \in after[i] <=> Decided(amb, x, sorted, query, id, i)
             wrong == {i \in 0 .. n : ~Right(i)}
  <1>1. /\ RowByRow(amb, x, sorted, query) = after[n]
        /\ after[0] = amb
        /\ \A i \in 1 .. n : after[i] = AfterRow(after[i - 1], x, sorted, query, i)
    BY RowByRowIs
  <1> HIDE DEF after
  <1>2. Right(0)
    BY <1>1 DEF Decided
  <1>3. ASSUME NEW i \in 1 .. n, Right(i - 1) PROVE Right(i)
    <2>1. after[i] = AfterRow(after[i - 1], x, sorted, query, i) /\ i \in Nat /\ i # 0
      BY <1>1
    <2> QED BY <1>3, <2>1, DecidedByOneMore
  <1> HIDE DEF Right
  <1>4. wrong = {}
    <2> SUFFICES ASSUME wrong # {} PROVE FALSE
      OBVIOUS
    <2>1. wrong \in SUBSET Nat
      OBVIOUS
    <2>2. PICK m \in wrong : \A k \in Nat : k < m => k \notin wrong
      BY <2>1, LeastOf
    <2>3. m \in 1 .. n /\ m - 1 \in 0 .. n /\ m - 1 \in Nat /\ m - 1 < m
      BY <1>2, <2>2
    <2>4. Right(m - 1)
      BY <2>2, <2>3
    <2> QED BY <1>3, <2>2, <2>3, <2>4
  <1>5. n \in 0 .. n
    OBVIOUS
  <1>6. Right(n)
    BY <1>4, <1>5
  <1> QED BY <1>1, <1>6 DEF Right

(* What one reads of the marks of a list is what its rows leave behind.    *)
LEMMA LearnsRowByRow ==
  ASSUME NEW k, NEW x, NEW rows, x.items \in Seq(rows), x.kind = "list", NEW sorted
  PROVE  Learn(k, x, sorted).ambiguous = RowByRow(k.ambiguous, x, sorted, k.query)
  <1> DEFINE n == Len(x.items)
             learned == Learn(k, x, sorted).ambiguous
             looped == RowByRow(k.ambiguous, x, sorted, k.query)
  <1>1. n \in Nat /\ DOMAIN x.items = 1 .. n
    OBVIOUS
  <1>2. learned = (k.ambiguous \ IdsIn(x.items)) \cup Marked(x, sorted, k.query)
    BY DEF Learn, IsData
  <1>3. \A id : id \in IdsIn(x.items) <=> \E j \in 1 .. n : Has(x, id, j)
    BY <1>1 DEF IdsIn, Has
  <1>4. \A id, i : i \in 1 .. n => (LastRow(x, id, i) <=> LastUpTo(x, id, n, i))
    BY <1>1 DEF LastRow, LastUpTo, Has
  <1>5. \A id : id \in Marked(x, sorted, k.query) <=>
          /\ \E j \in 1 .. n : Has(x, id, j)
          /\ id \notin k.query.ids /\ Total(x) > 1
          /\ ~\E j \in 1 .. n : LastUpTo(x, id, n, j) /\ Determinate(x, sorted, k.query, j)
    BY <1>1, <1>3, <1>4 DEF Marked
  <1>6. ASSUME NEW id PROVE id \in learned <=> Decided(k.ambiguous, x, sorted, k.query, id, n)
    BY <1>2, <1>3, <1>5 DEF Decided
  <1>7. ASSUME NEW id PROVE id \in looped <=> Decided(k.ambiguous, x, sorted, k.query, id, n)
    BY <1>1, EveryRowDecides
  <1> HIDE DEF learned, looped
  <1>8. \A id : id \in learned <=> id \in looped
    BY <1>6, <1>7
  <1> QED BY <1>8 DEF learned, looped

(* After any lists, the marks that a further list of any length leaves are *)
(* those of the loop of markAmbiguity, which marks and unmarks row by row  *)
(* (executor.go:257-279).                                                  *)
THEOREM TheLoopMarksTheSame == Spec => []RowsDecideInOrder
  <1>1. RowsDecideInOrder
    <2> SUFFICES ASSUME NEW x \in Lists, NEW sorted \in BOOLEAN
                 PROVE  Learn(known, x, sorted).ambiguous = RowByRow(known.ambiguous, x, sorted, known.query)
      BY DEF RowsDecideInOrder
    <2>1. x.kind = "list" /\ \E k \in 0 .. MaxRows : x.items \in [1 .. k -> Row]
      BY DEF Lists
    <2>2. ASSUME NEW k \in 0 .. MaxRows, x.items \in [1 .. k -> Row] PROVE x.items \in Seq(Row)
      BY <2>2
    <2>3. x.items \in Seq(Row)
      BY <2>1, <2>2
    <2> QED BY <2>1, <2>3, LearnsRowByRow
  <1> QED BY <1>1, PTL

=============================================================================
