--------------------------- MODULE IdentifierGuard ---------------------------
(***************************************************************************)
(* What the Executor of the tool loop knows of identifiers                 *)
(* (executor.go): which ones have appeared anywhere (seenIDs), which ones  *)
(* only appeared as one of several candidates (ambiguousIDs) and which ones*)
(* the conversation itself contains (query, queryIDs).  On this knowledge  *)
(* rest the two refusals of the loop: unresolved_id and ambiguous_id.      *)
(*                                                                         *)
(* An identifier is a value of an argument or a field whose name ends in   *)
(* "id" and is not fixed by an enum; the values an enum fixes are left out.*)
(***************************************************************************)
EXTENDS Naturals, Sequences

CONSTANTS
  IDs,       \* the identifiers of the records
  Names,     \* the names records carry in their name fields
  Nameless   \* a row without a name field

ASSUME NamelessIsNoName == Nameless \notin Names

(* The words of a conversation: Reset takes its tokens and its whole text. *)
Words == [ids : SUBSET IDs, names : SUBSET Names]

(* A projected row: the values of its id fields, and its name.             *)
Row == [ids : SUBSET IDs, name : Names \cup {Nameless}]

(* What a call ends with.  "list" has a count of its own, which the service*)
(* may report larger than the rows the projection lets through; "object"   *)
(* has one row, or none if no projected field was there; "broken" stands   *)
(* for no answer or an unreadable one.                                     *)
Result == [kind : {"list", "object", "denied", "refused", "broken"},
           items : Seq(Row), count : Nat]

Knowledge == [seen : SUBSET IDs, ambiguous : SUBSET IDs, query : Words]

Reset(words) == [seen |-> words.ids, ambiguous |-> {}, query |-> words]

-----------------------------------------------------------------------------
IsData(x) == x.kind \in {"list", "object"}

IdsIn(items) == UNION {items[i].ids : i \in DOMAIN items}

(* The total of markAmbiguity: the service counts more than it shows.      *)
Total(x) == IF x.count > Len(x.items) THEN x.count ELSE Len(x.items)

(* A row that is no arbitrary pick: the first of a sorted list, or one the *)
(* conversation calls by its name.                                         *)
Determinate(x, sorted, query, i) == (sorted /\ i = 1) \/ x.items[i].name \in query.names

(* The variant in which the first row of an identifier decides.            *)
FirstRow(x, id, i) == id \in x.items[i].ids /\ \A j \in DOMAIN x.items : j < i => id \notin x.items[j].ids

(* The rows are visited in order and each one marks or unmarks its         *)
(* identifiers: the last row of an identifier decides.                     *)
LastRow(x, id, i) == id \in x.items[i].ids /\ \A j \in DOMAIN x.items : j > i => id \notin x.items[j].ids

Marked(x, sorted, query) ==
  {id \in IdsIn(x.items) \ query.ids :
     Total(x) > 1 /\ ~\E i \in DOMAIN x.items : LastRow(x, id, i) /\ Determinate(x, sorted, query, i)}

(* recordIDs and markAmbiguity on the projection of a 200 answer.  Only a  *)
(* list marks: an identifier met in an object stays as it was.             *)
Learn(k, x, sorted) ==
  IF ~IsData(x) THEN k
  ELSE [seen      |-> k.seen \cup IdsIn(x.items),
        ambiguous |-> IF x.kind = "list"
                      THEN (k.ambiguous \ IdsIn(x.items)) \cup Marked(x, sorted, k.query)
                      ELSE k.ambiguous,
        query     |-> k.query]

(* UnresolvedIDs and AmbiguousIDs of the arguments of a call or a command. *)
Unresolved(k, ids) == ids \ k.seen
AmbiguousAmong(k, ids) == ids \cap k.ambiguous

-----------------------------------------------------------------------------
(* The loop of markAmbiguity as it is written: row by row, identifier by   *)
(* identifier, marking or deleting.                                        *)
AfterRow(amb, x, sorted, query, i) ==
  IF Total(x) > 1 /\ ~Determinate(x, sorted, query, i)
  THEN (amb \cup x.items[i].ids) \ (x.items[i].ids \cap query.ids)
  ELSE amb \ x.items[i].ids

RowByRow(amb, x, sorted, query) ==
  LET after[i \in 0..Len(x.items)] ==
        IF i = 0 THEN amb ELSE AfterRow(after[i - 1], x, sorted, query, i)
  IN  after[Len(x.items)]

=============================================================================
