-------------------------- MODULE ApprovedOperation --------------------------
(***************************************************************************)
(* What the execution of approved operations promises, with no table, no   *)
(* clock and no process in it.  An approval has at most one holder; only a *)
(* holder hands the operation to the service, once; a new holder is named  *)
(* only when the former one is gone without having recorded a result; and  *)
(* after a result is recorded nothing happens to the approval any more     *)
(* (server.go:287-299, audit.go:230-240).                                  *)
(***************************************************************************)
CONSTANTS Approvals, Runners

VARIABLES
  state,    \* [Approvals -> {"unseen", "running", "recorded"}]
  holder,   \* [Approvals -> SUBSET Runners]: the runner in charge, or {}
  handed,   \* [Approvals -> SUBSET Runners]: who handed it to the service
  gone      \* the runners that ended without recording a result

vars == <<state, holder, handed, gone>>

Init ==
  /\ state = [a \in Approvals |-> "unseen"]
  /\ holder = [a \in Approvals |-> {}]
  /\ handed = [a \in Approvals |-> {}]
  /\ gone = {}

(* A runner takes an approval nobody has seen, or one whose holder is gone; *)
(* it may be gone itself by the time the claim is answered.                 *)
Take(a, r) ==
  /\ r \notin gone
  /\ \/ state[a] = "unseen"
     \/ state[a] = "running" /\ holder[a] \subseteq gone
  /\ state' = [state EXCEPT ![a] = "running"]
  /\ holder' = [holder EXCEPT ![a] = {r}]
  /\ gone' \in {gone, gone \cup {r}}
  /\ UNCHANGED handed

Hand(a, r) ==
  /\ state[a] = "running" /\ holder[a] = {r}
  /\ r \notin gone /\ r \notin handed[a]
  /\ handed' = [handed EXCEPT ![a] = @ \cup {r}]
  /\ UNCHANGED <<state, holder, gone>>

RecordResult(a, r) ==
  /\ state[a] = "running" /\ holder[a] = {r} /\ r \notin gone
  /\ state' = [state EXCEPT ![a] = "recorded"]
  /\ UNCHANGED <<holder, handed, gone>>

(* Runners vanish, alone or all the runners of a process together. *)
Vanish ==
  /\ \E lost \in SUBSET (Runners \ gone) : gone' = gone \cup lost
  /\ UNCHANGED <<state, holder, handed>>

Next ==
  \/ \E a \in Approvals, r \in Runners : Take(a, r) \/ Hand(a, r) \/ RecordResult(a, r)
  \/ Vanish

Spec == Init /\ [][Next]_vars
=============================================================================
