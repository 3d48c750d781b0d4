------------------------- MODULE MCCommandExecution -------------------------
(* Small instances of CommandExecution.  r1 and r2 are two sends of one    *)
(* approval (the double click, the retry after a timeout); r3 is chosen by *)
(* the configuration: a third send, or another approval on the same record.*)
EXTENDS CommandExecution, TLC

CONSTANTS r1, r2, r3, trace1

MCRequests == {r1, r2, r3}
MCOps      == {"cancel", "contact", "note"}
MCTargets  == {"record"}
MCTargetOf == [o \in MCOps |-> "record"]

(* r1, r2: one approval; r3: another operation proposed in the same chat. *)
MCOpOf     == [r \in MCRequests |-> IF r = r3 THEN "contact" ELSE "cancel"]
MCTraceOf  == [r \in MCRequests |-> trace1]

(* All three are sends of one approval. *)
MCSameOp   == [r \in MCRequests |-> "cancel"]

(* Three commands, two of which cannot be sent for a flaw of the catalog.  *)
MCThreeOps == [r \in MCRequests |-> CASE r = r1 -> "cancel" [] r = r2 -> "note" [] OTHER -> "contact"]
MCFlawed   == [o \in MCOps |-> CASE o = "note" -> "broken" [] o = "contact" -> "badpath" [] OTHER -> "ok"]

(* r1 and r2 carry one header, r3 arrives without a conversation: no key. *)
MCHeader    == [r \in MCRequests |-> IF r = r3 THEN None ELSE "header"]
MCSomeTrace == [r \in MCRequests |-> IF r = r3 THEN None ELSE trace1]

MCNoHeader  == [r \in MCRequests |-> None]

MCAllOk     == [o \in MCOps |-> "ok"]

(* Sends of one approval are interchangeable. *)
Interchangeable == Permutations(MCRequests)
=============================================================================
