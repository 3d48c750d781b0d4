-------------------------- MODULE MCIdentifierGuard --------------------------
(* A conversation in which an Executor learns one list after another: the  *)
(* marks that IdentifierGuard states by what the rows say are compared with*)
(* those the loop of the source leaves, over every list of up to MaxRows   *)
(* rows, counted by the service or not, sorted or not, with and without    *)
(* identifiers and names in the user's words.                              *)
EXTENDS IdentifierGuard

CONSTANTS MaxRows, Counts

VARIABLE known

Lists == {[kind |-> "list", items |-> rows, count |-> n] :
            rows \in UNION {[1..k -> Row] : k \in 0..MaxRows}, n \in Counts}

Init == known \in {Reset(w) : w \in Words}

Next == \E x \in Lists, sorted \in BOOLEAN : known' = Learn(known, x, sorted)

Spec == Init /\ [][Next]_known

(* The marks after any further list are those of the loop of markAmbiguity,*)
(* which goes through the rows in order, marking and unmarking as it goes  *)
(* (executor.go:257-279).                                                  *)
RowsDecideInOrder ==
  \A x \in Lists, sorted \in BOOLEAN :
    Learn(known, x, sorted).ambiguous = RowByRow(known.ambiguous, x, sorted, known.query)

=============================================================================
