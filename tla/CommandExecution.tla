-------------------------- MODULE CommandExecution --------------------------
(***************************************************************************)
(* The execution of an approved update: POST /api/commands/execute of the  *)
(* BFF (server.go, handleExecute), with the audit table it uses as its     *)
(* lock (audit.go, Claim / Complete / Prune), the BFF process that may die *)
(* between any two steps, and the service that receives the update.        *)
(*                                                                         *)
(* Every request is one run of handleExecute in its own goroutine.  One    *)
(* request that carries no idempotency key owns no row of the table; a     *)
(* keyed one executes only while it holds the row of its key.  The row's   *)
(* execution_id is the uuid Claim draws, one per call: the model uses the  *)
(* request itself.                                                         *)
(***************************************************************************)
EXTENDS Naturals, FiniteSets

CONSTANTS
  Requests,      \* calls of handleExecute, the retries of a client included
  Ops,           \* what is approved: a command with its validated arguments
  Targets,       \* the records of the services
  OpOf,          \* [Requests -> Ops]
  TargetOf,      \* [Ops -> Targets]: the record an operation writes
  Route,         \* [Ops -> RouteKinds]: what the catalog entry resolves to
  HeaderOf,      \* [Requests -> ...]: the Idempotency-Key header, or None
  TraceOf,       \* [Requests -> ...]: traceId of the body, or None
  None,          \* no header, no trace, no key
  NoRow,         \* no row in audit.command_executions for a key
  AuditOn,       \* Recorder.Enabled: the audit database is configured
  AuditMayFail,  \* a statement of the audit database may fail
  MayCrash,      \* the BFF process may die (or be restarted)
  StaleClaim,    \* staleClaim, in ticks of the clock
  LifeLimit,     \* bound on a live handler after its claim (the HTTP timeouts)
  Retention,     \* days * execRetentionFactor in ticks; 0 keeps rows for ever
  MaxTime        \* bound of the model on the clock

RouteKinds == {"ok", "badpath", "broken"}

ASSUME ConstantsTyped ==
  /\ OpOf \in [Requests -> Ops]
  /\ TargetOf \in [Ops -> Targets]
  /\ Route \in [Ops -> RouteKinds]
  /\ {AuditOn, AuditMayFail, MayCrash} \subseteq BOOLEAN
  /\ {StaleClaim, LifeLimit, Retention, MaxTime} \subseteq Nat

(***************************************************************************)
(* "Much longer than the timeout of the service call" (audit.go:225), and  *)
(* a retention of days against seconds.                                    *)
(***************************************************************************)
ASSUME Timing ==
  /\ LifeLimit <= StaleClaim
  /\ Retention = 0 \/ LifeLimit <= Retention

(***************************************************************************)
(* idempotencyKey: the header if there is one; no key without a trace; or  *)
(* else the hash of trace, command and arguments (taken as collision free).*)
(***************************************************************************)
IdempotencyKey(r) ==
  IF HeaderOf[r] # None THEN HeaderOf[r]
  ELSE IF TraceOf[r] = None THEN None
  ELSE <<TraceOf[r], OpOf[r]>>

Keys == {IdempotencyKey(r) : r \in Requests} \ {None}

(* The first test of Claim: whether the request takes a row at all. *)
Keyed(r) == AuditOn /\ IdempotencyKey(r) # None

ASSUME NoRowIsNoRow == NoRow \notin [id : Requests, op : Ops,
  status : {"running", "ok", "refused", "failed", "unreachable", "badpath"}, at : Nat]

VARIABLES
  pc,        \* where the goroutine of a request stands
  outcome,   \* what it answers, or is about to answer, to its client
  began,     \* when its claim was stamped (created_at)
  before,    \* version of the target readBefore saw; 0 is nil
  row,       \* audit.command_executions, the rows with a key, by key
  plain,     \* the rows without a key
  wire,      \* the update request on its way to the service and back
  version,   \* how often a target has been written, plus one
  replaced,  \* version of the target the update of a request replaced; 0 is none
  now        \* the clock of the audit database

vars == <<pc, outcome, began, before, row, plain, wire, version, replaced, now>>

Statuses == {"ok", "refused", "failed", "unreachable", "badpath"}
Replies  == {"none", "rejected", "unavailable", "busy", "already", "internal"} \cup Statuses

Row == [id : Requests, op : Ops, status : {"running"} \cup Statuses, at : Nat]
PlainRow == [id : Requests, op : Ops, status : {"rejected"} \cup Statuses, at : Nat]

Key(r) == IdempotencyKey(r)
Target(r) == TargetOf[OpOf[r]]

(* "done": answered, and recorded if it had to be; "unrecorded": answered  *)
(* although its row was not (or not certainly) written; "dead": killed.    *)
Active(r)  == pc[r] \notin {"idle", "done", "unrecorded", "dead"}
Working(r) == pc[r] \in {"read", "send", "sent", "complete"}
Ended(r)   == pc[r] \in {"done", "unrecorded", "dead"}

Sent(r)    == wire[r] # "idle"
Applied(r) == replaced[r] # 0

TypeOK ==
  /\ pc \in [Requests -> {"idle", "claim", "lookup", "read", "send", "sent",
                          "complete", "done", "unrecorded", "dead"}]
  /\ outcome \in [Requests -> Replies]
  /\ began \in [Requests -> Nat]
  /\ before \in [Requests -> Nat]
  /\ row \in [Keys -> Row \cup {NoRow}]
  /\ plain \subseteq PlainRow
  /\ wire \in [Requests -> {"idle", "inflight", "ok", "refused", "failed"}]
  /\ version \in [Targets -> Nat \ {0}]
  /\ replaced \in [Requests -> Nat]
  /\ now \in Nat

Init ==
  /\ pc = [r \in Requests |-> "idle"]
  /\ outcome = [r \in Requests |-> "none"]
  /\ began = [r \in Requests |-> 0]
  /\ before = [r \in Requests |-> 0]
  /\ row = [k \in Keys |-> NoRow]
  /\ plain = {}
  /\ wire = [r \in Requests |-> "idle"]
  /\ version = [t \in Targets |-> 1]
  /\ replaced = [r \in Requests |-> 0]
  /\ now = 0

-----------------------------------------------------------------------------
(* handleExecute up to the claim. *)

Finish(r, end, reply) ==
  /\ pc' = [pc EXCEPT ![r] = end]
  /\ outcome' = [outcome EXCEPT ![r] = reply]

Goto(r, label) == pc' = [pc EXCEPT ![r] = label] /\ UNCHANGED outcome

(* RecordExecution: one more row, without a key; best effort. *)
Record(r, status, reply) ==
  \/ /\ AuditOn
     /\ plain' = plain \cup {[id |-> r, op |-> OpOf[r], status |-> status, at |-> now]}
     /\ Finish(r, "done", reply)
  \/ /\ AuditOn => AuditMayFail
     /\ UNCHANGED plain
     /\ Finish(r, IF AuditOn THEN "unrecorded" ELSE "done", reply)

(* 401, 404 and an unreadable body are answered at once; an unknown        *)
(* command, bad arguments and a role that may not write are recorded.      *)
Reject(r) ==
  /\ pc[r] = "idle"
  /\ \/ Finish(r, "done", "rejected") /\ UNCHANGED plain
     \/ Record(r, "rejected", "rejected")
  /\ UNCHANGED <<began, before, row, wire, version, replaced, now>>

Accept(r) ==
  /\ pc[r] = "idle"
  /\ Goto(r, "claim")
  /\ UNCHANGED <<began, before, row, plain, wire, version, replaced, now>>

-----------------------------------------------------------------------------
(* Claim: INSERT ... ON CONFLICT DO UPDATE ... RETURNING, then a SELECT.   *)

Fresh(k) == row[k] = NoRow
(* The takeover without its test of the age, and without that of the status. *)
AbandonedAtAnyAge(k) == row[k] # NoRow /\ row[k].status = "running"
AbandonedAnyStatus(k) == row[k] # NoRow /\ row[k].at + StaleClaim < now

Abandoned(k) == row[k] # NoRow /\ row[k].status = "running" /\ row[k].at + StaleClaim < now

(* The statement that commits: a new row, or the takeover of an old claim, *)
(* which keeps the command and the arguments of the first one.             *)
CommitClaim(r) ==
  LET k == Key(r) IN
  /\ pc[r] = "claim" /\ Keyed(r)
  /\ \/ /\ Fresh(k)
        /\ row' = [row EXCEPT ![k] = [id |-> r, op |-> OpOf[r], status |-> "running", at |-> now]]
     \/ /\ Abandoned(k)
        /\ row' = [row EXCEPT ![k].id = r, ![k].at = now]
  /\ began' = [began EXCEPT ![r] = now]
  /\ UNCHANGED <<before, plain, wire, version, replaced, now>>

Claim(r) == CommitClaim(r) /\ Goto(r, "read")

(* The row is there but the answer of the database is not: 503, nothing    *)
(* executed, and nobody will complete the row.                             *)
ClaimAckLost(r) == AuditMayFail /\ CommitClaim(r) /\ Finish(r, "unrecorded", "unavailable")

ClaimFails(r) ==
  /\ AuditMayFail /\ pc[r] = "claim" /\ Keyed(r)
  /\ Finish(r, "done", "unavailable")
  /\ UNCHANGED <<began, before, row, plain, wire, version, replaced, now>>

(* Without a key, or without an audit database, everyone may execute. *)
ClaimNothing(r) ==
  /\ pc[r] = "claim" /\ ~Keyed(r)
  /\ Goto(r, "read")
  /\ UNCHANGED <<began, before, row, plain, wire, version, replaced, now>>

ClaimConflict(r) ==
  /\ pc[r] = "claim" /\ Keyed(r) /\ ~Fresh(Key(r)) /\ ~Abandoned(Key(r))
  /\ Goto(r, "lookup")
  /\ UNCHANGED <<began, before, row, plain, wire, version, replaced, now>>

(* What a duplicate is told, without a look at whether the execution it    *)
(* finds failed.                                                           *)
ReplayWithoutFailure(x) == IF x.status = "running" THEN "busy" ELSE "already"

(* What a duplicate is told of the execution it finds. *)
Replay(x) == IF x.status = "running" THEN "busy"
             ELSE IF x.status = "ok" THEN "already"
             ELSE x.status

(* The second statement of Claim and the answer to a duplicate: the row    *)
(* may have been pruned, completed or taken over since the first one.      *)
Lookup(r) ==
  LET k == Key(r) IN
  /\ pc[r] = "lookup"
  /\ \/ Fresh(k) /\ Finish(r, "done", "unavailable")
     \/ AuditMayFail /\ Finish(r, "done", "unavailable")
     \/ ~Fresh(k) /\ Finish(r, "done", Replay(row[k]))
  /\ UNCHANGED <<began, before, row, plain, wire, version, replaced, now>>

-----------------------------------------------------------------------------
(* The execution itself. *)

(* No base URL (before readBefore) or no request to build (after it): 500, *)
(* and Complete is not called.                                             *)
Abandon(r) ==
  /\ pc[r] = "read" /\ Route[OpOf[r]] = "broken"
  /\ Finish(r, "unrecorded", "internal")
  /\ UNCHANGED <<began, before, row, plain, wire, version, replaced, now>>

(* readBefore: any failure gives nil and the execution goes on. *)
ReadBefore(r) ==
  /\ pc[r] = "read" /\ Route[OpOf[r]] # "broken"
  /\ before' \in {before, [before EXCEPT ![r] = version[Target(r)]]}
  /\ Goto(r, "send")
  /\ UNCHANGED <<began, row, plain, wire, version, replaced, now>>

MissingPathParameter(r) ==
  /\ pc[r] = "send" /\ Route[OpOf[r]] = "badpath"
  /\ Finish(r, "complete", "badpath")
  /\ UNCHANGED <<began, before, row, plain, wire, version, replaced, now>>

Send(r) ==
  /\ pc[r] = "send" /\ Route[OpOf[r]] = "ok"
  /\ Goto(r, "sent")
  /\ wire' = [wire EXCEPT ![r] = "inflight"]
  /\ UNCHANGED <<began, before, row, plain, version, replaced, now>>

(* The state before, read with the answer at hand.                         *)
ReceiveThenRead(r) ==
  /\ pc[r] = "sent" /\ wire[r] \in {"ok", "refused", "failed"}
  /\ Finish(r, "complete", wire[r])
  /\ before' = [before EXCEPT ![r] = version[Target(r)]]
  /\ UNCHANGED <<began, row, plain, wire, version, replaced, now>>

Receive(r) ==
  /\ pc[r] = "sent" /\ wire[r] \in {"ok", "refused", "failed"}
  /\ Finish(r, "complete", wire[r])
  /\ UNCHANGED <<began, before, row, plain, wire, version, replaced, now>>

(* The error path that answers 502 and forgets Complete; a client without  *)
(* a timeout.                                                              *)
UnreachableUnrecorded(r) ==
  /\ pc[r] = "sent"
  /\ Finish(r, "done", "unreachable")
  /\ UNCHANGED <<began, before, row, plain, wire, version, replaced, now>>

(* A client that tries again after an error.                               *)
UnreachableRetried(r) ==
  /\ pc[r] = "sent"
  /\ Goto(r, "send")
  /\ UNCHANGED <<began, before, row, plain, wire, version, replaced, now>>

UnreachableNever(r) == pc[r] = "sent" /\ FALSE

(* HTTP.Do returns an error: no connection, 15 s without an answer, or the *)
(* client has gone (the request carries r.Context()).                      *)
Unreachable(r) ==
  /\ pc[r] = "sent"
  /\ Finish(r, "complete", "unreachable")
  /\ UNCHANGED <<began, before, row, plain, wire, version, replaced, now>>

(* UPDATE ... WHERE execution_id = r: no row if the claim was taken over.  *)
UpdateRow(r) ==
  row' = [k \in Keys |-> IF row[k] # NoRow /\ row[k].id = r
                         THEN [row[k] EXCEPT !.status = outcome[r]]
                         ELSE row[k]]

(* Complete, then the answer.  A write that fails is only logged. *)
Complete(r) ==
  /\ pc[r] = "complete"
  /\ \/ /\ Keyed(r)
        /\ UpdateRow(r)
        /\ Finish(r, "done", outcome[r])
        /\ UNCHANGED plain
     \/ /\ Keyed(r) /\ AuditMayFail
        /\ Finish(r, "unrecorded", outcome[r])
        /\ UNCHANGED <<row, plain>>
     \/ /\ ~Keyed(r)
        /\ Record(r, outcome[r], outcome[r])
        /\ UNCHANGED row
  /\ UNCHANGED <<began, before, wire, version, replaced, now>>

-----------------------------------------------------------------------------
(* The service, the process and the clock. *)

(* The service writes the record and answers, or fails after the commit.   *)
ServiceApplies(r) ==
  /\ wire[r] = "inflight"
  /\ \E answer \in {"ok", "failed"} : wire' = [wire EXCEPT ![r] = answer]
  /\ version' = [version EXCEPT ![Target(r)] = @ + 1]
  /\ replaced' = [replaced EXCEPT ![r] = version[Target(r)]]
  /\ UNCHANGED <<pc, outcome, began, before, row, plain, now>>

(* It refuses by a business rule or a permission, or fails before it.      *)
ServiceRefuses(r) ==
  /\ wire[r] = "inflight"
  /\ \E answer \in {"refused", "failed"} : wire' = [wire EXCEPT ![r] = answer]
  /\ UNCHANGED <<pc, outcome, began, before, row, plain, version, replaced, now>>

(* The process dies with every handler in it, or is restarted and drops    *)
(* what has not finished in the 5 s Shutdown grants.                       *)
Crash ==
  /\ MayCrash
  /\ \E r \in Requests : Active(r)
  /\ pc' = [r \in Requests |-> IF Active(r) THEN "dead" ELSE pc[r]]
  /\ UNCHANGED <<outcome, began, before, row, plain, wire, version, replaced, now>>

(* Prune, at start and every 24 h: rows of any status go by their age. *)
Prune ==
  /\ AuditOn /\ Retention # 0
  /\ row' = [k \in Keys |-> IF row[k] # NoRow /\ row[k].at + Retention < now
                            THEN NoRow ELSE row[k]]
  /\ plain' = {p \in plain : p.at + Retention >= now}
  /\ <<row, plain>>' # <<row, plain>>
  /\ UNCHANGED <<pc, outcome, began, before, wire, version, replaced, now>>

(* A live handler ends within LifeLimit of its claim: every call it makes  *)
(* carries a timeout (5 s Complete, 15 s each of the two HTTP calls).      *)
Tick ==
  /\ now < MaxTime
  /\ \A r \in Requests : Working(r) /\ Keyed(r) => now < began[r] + LifeLimit
  /\ now' = now + 1
  /\ UNCHANGED <<pc, outcome, began, before, row, plain, wire, version, replaced>>

Handle(r) ==
  \/ Claim(r) \/ ClaimAckLost(r) \/ ClaimFails(r) \/ ClaimNothing(r) \/ ClaimConflict(r)
  \/ Lookup(r) \/ Abandon(r) \/ ReadBefore(r) \/ MissingPathParameter(r) \/ Send(r)
  \/ Receive(r) \/ Unreachable(r) \/ Complete(r)

Next ==
  \/ \E r \in Requests : \/ Reject(r) \/ Accept(r) \/ Handle(r)
                         \/ ServiceApplies(r) \/ ServiceRefuses(r)
  \/ Crash \/ Prune \/ Tick

Spec == Init /\ [][Next]_vars

(* The goroutine of an accepted request is scheduled and its calls time    *)
(* out; clients, the service, the clock and the process promise nothing.   *)
FairSpec == Spec /\ \A r \in Requests : WF_vars(Handle(r))

-----------------------------------------------------------------------------
(* Properties. *)

(* Two handlers of the same approval are never past their claim together,  *)
(* whatever has crashed and been taken over before (audit.go Claim).       *)
OneRunnerPerApproval ==
  \A r1, r2 \in Requests :
    r1 # r2 /\ Keyed(r1) /\ Keyed(r2) /\ Key(r1) = Key(r2)
      => ~(Working(r1) /\ Working(r2))

(* With rows kept for ever, an approval reaches the service a second time  *)
(* only if the first execution was lost: its process died, or its result   *)
(* was not written (the takeover of audit.go:222-228 is the only way).     *)
RepeatOnlyAfterLoss ==
  Retention = 0 =>
    \A r1, r2 \in Requests :
      r1 # r2 /\ Keyed(r1) /\ Keyed(r2) /\ Key(r1) = Key(r2) /\ Sent(r1) /\ Sent(r2)
        => pc[r1] \in {"unrecorded", "dead"} \/ pc[r2] \in {"unrecorded", "dead"}

(* What the table and the answers call a success happened in the service,  *)
(* and what they call a refusal did not: late answers, takeovers and the   *)
(* replay of an earlier result never swap the two (server.go:501-540).     *)
OutcomesAreTrue ==
  /\ \A k \in Keys : row[k] # NoRow =>
       /\ row[k].status = "ok" => Applied(row[k].id)
       /\ row[k].status \in {"refused", "badpath"} => ~Applied(row[k].id)
  /\ \A r \in Requests :
       /\ outcome[r] = "ok" => Applied(r)
       /\ outcome[r] \in {"refused", "badpath"} => ~Applied(r)
       /\ outcome[r] = "already" =>
            \E x \in Requests : Key(x) = Key(r) /\ Applied(x)

(* Nothing executed escapes the audit: once the handler has answered, its  *)
(* result stands in the table unless a write failed (rows kept for ever).  *)
ExecutionsAreRecorded ==
  AuditOn /\ Retention = 0 =>
    \A r \in Requests : Sent(r) /\ pc[r] = "done" =>
      \/ \E k \in Keys : row[k] # NoRow /\ row[k].id = r /\ row[k].status = outcome[r]
      \/ \E p \in plain : p.id = r /\ p.status = outcome[r]

(* A recorded result is final: no late Complete, no second claim and no    *)
(* takeover changes it; it can only be pruned.                             *)
ResultsAreFinal ==
  [][\A k \in Keys : row[k] # NoRow /\ row[k].status # "running" =>
       row'[k] = row[k] \/ (row'[k] = NoRow /\ row[k].at + Retention < now)]_vars

(* The state recorded as before is the one the update replaced, but for    *)
(* updates of others that came in between the two requests of the handler: *)
(* readBefore never sees the update's own work, nor a later one.           *)
BeforeMissesOnlyOthers ==
  \A r \in Requests : Applied(r) /\ before[r] # 0 =>
    /\ before[r] <= replaced[r]
    /\ \A v \in before[r] .. replaced[r] - 1 :
         \E x \in Requests \ {r} : Target(x) = Target(r) /\ replaced[x] = v

(* Every accepted request is answered, or dies with the process. *)
EveryRequestEnds == \A r \in Requests : pc[r] = "claim" ~> Ended(r)

(* What the module implements: ApprovedOperation, rows kept for ever.  The  *)
(* row's execution_id is the holder; a request that ended without writing   *)
(* its row is gone.                                                         *)
Approval == INSTANCE ApprovedOperation WITH
  Approvals <- Keys,
  Runners   <- Requests,
  state     <- [k \in Keys |-> IF row[k] = NoRow THEN "unseen"
                               ELSE IF row[k].status = "running" THEN "running"
                               ELSE "recorded"],
  holder    <- [k \in Keys |-> IF row[k] = NoRow THEN {} ELSE {row[k].id}],
  handed    <- [k \in Keys |-> {r \in Requests : Keyed(r) /\ Key(r) = k /\ Sent(r)}],
  gone      <- {r \in Requests : pc[r] \in {"unrecorded", "dead"}}

ImplementsApprovedOperation == Approval!Spec

(* What the module uses of the services is no more than they promise: the  *)
(* contract ServiceWrites is shown to keep.                                *)
Service == INSTANCE ServiceContract WITH
  addressed <- [r \in Requests |-> Target(r)]

RespectsServiceContract == Service!Spec

(* server.go:287 names the key as what makes "the same approval" run once; *)
(* no approval is applied twice.  A takeover after a crash breaks it.      *)
AppliedAtMostOnce ==
  \A r1, r2 \in Requests :
    r1 # r2 /\ Keyed(r1) /\ Keyed(r2) /\ Key(r1) = Key(r2) => ~(Applied(r1) /\ Applied(r2))

(* audit.go:232: who is told claimed=true calls Complete when it is done;  *)
(* with a database that does not fail, no answered request leaves its row  *)
(* running.                                                                *)
ClaimedIsCompleted ==
  \A k \in Keys : row[k] # NoRow /\ row[k].status = "running" => ~(Ended(row[k].id))

=============================================================================
