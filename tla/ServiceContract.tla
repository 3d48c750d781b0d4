--------------------------- MODULE ServiceContract ---------------------------
(***************************************************************************)
(* What the two sides of an update agree on: the BFF that sends it         *)
(* (CommandExecution assumes it of the service) and the service that       *)
(* carries it out (ServiceWrites gives it).  A request is answered once;   *)
(* its effect on the one record it addresses is a single step, made at     *)
(* most once; "ok" means that it was made, "refused" that it was not, and  *)
(* "failed" leaves it open.                                                *)
(***************************************************************************)
EXTENDS Naturals

CONSTANTS Requests, Targets

VARIABLES
  wire,       \* where the request stands: not sent, on its way, its answer
  addressed,  \* the record it is about
  version     \* how often a record has been written, plus one

vars == <<wire, addressed, version>>

Init ==
  /\ wire = [r \in Requests |-> "idle"]
  /\ addressed \in [Requests -> Targets]
  /\ version = [t \in Targets |-> 1]

Arrives(r) ==
  /\ wire[r] = "idle"
  /\ wire' = [wire EXCEPT ![r] = "inflight"]
  /\ \E t \in Targets : addressed' = [addressed EXCEPT ![r] = t]
  /\ UNCHANGED version

Applies(r) ==
  /\ wire[r] = "inflight"
  /\ \E answer \in {"ok", "failed"} : wire' = [wire EXCEPT ![r] = answer]
  /\ version' = [version EXCEPT ![addressed[r]] = @ + 1]
  /\ UNCHANGED addressed

Refuses(r) ==
  /\ wire[r] = "inflight"
  /\ \E answer \in {"refused", "failed"} : wire' = [wire EXCEPT ![r] = answer]
  /\ UNCHANGED <<addressed, version>>

Next == \E r \in Requests : Arrives(r) \/ Applies(r) \/ Refuses(r)

Spec == Init /\ [][Next]_vars

=============================================================================
