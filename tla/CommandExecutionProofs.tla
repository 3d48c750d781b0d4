---------------------- MODULE CommandExecutionProofs ----------------------
(* The safety of CommandExecution for every set of requests, every key     *)
(* function, every fault and every value of the clock constants.           *)
EXTENDS CommandExecution, TLAPS

(* What Complete writes is always a status. *)
CompletesWithStatus == \A r \in Requests : pc[r] = "complete" => outcome[r] \in Statuses

(* Only a keyed claim can conflict. *)
LooksUpAKey == \A r \in Requests : pc[r] = "lookup" => Keyed(r)

TypeInv == TypeOK /\ CompletesWithStatus /\ LooksUpAKey

(* A handler past its claim owns the row of its key, with its own stamp,   *)
(* and is younger than LifeLimit.                                          *)
Owns(r) ==
  /\ row[Key(r)] # NoRow
  /\ row[Key(r)].id = r
  /\ row[Key(r)].status = "running"
  /\ row[Key(r)].at = began[r]
  /\ now <= began[r] + LifeLimit

OwnsItsRow == \A r \in Requests : Working(r) /\ Keyed(r) => Owns(r)

(* A request that was handed to the service is on its way to Complete, is  *)
(* recorded for good, or is lost.                                          *)
Settled(r) ==
  /\ row[Key(r)] # NoRow
  /\ row[Key(r)].id = r
  /\ row[Key(r)].status # "running"

SentIsAccounted ==
  \A r \in Requests : Sent(r) =>
    \/ pc[r] \in {"sent", "complete", "unrecorded", "dead"}
    \/ pc[r] = "done" /\ (Keyed(r) /\ Retention = 0 => Settled(r))

(* The wire tells whether the service applied the update. *)
WireIsTrue ==
  \A r \in Requests :
    /\ wire[r] = "ok" => Applied(r)
    /\ wire[r] \in {"idle", "inflight", "refused"} => ~Applied(r)

(* An outcome names an answer that really came, or a request never sent.   *)
OutcomeIsTrue(r) ==
  /\ outcome[r] = "ok" => wire[r] = "ok"
  /\ outcome[r] \in {"refused", "badpath"} => wire[r] \in {"idle", "refused"}
  /\ outcome[r] = "already" => \E x \in Requests : Key(x) = Key(r) /\ Applied(x)
  /\ outcome[r] # "none" => pc[r] = "complete" \/ Ended(r)

OutcomesFromWire == \A r \in Requests : OutcomeIsTrue(r)

(* A row belongs to a request of its key that claimed it.  It says running *)
(* as long as that request has not recorded its result, and the outcome of *)
(* that request ever after.                                                *)
NamesItsRunner(k) ==
  LET x == row[k].id IN
  /\ Key(x) = k /\ Keyed(x)
  /\ pc[x] \notin {"idle", "claim", "lookup"}
  /\ IF row[k].status = "running" THEN pc[x] # "done"
     ELSE pc[x] = "done" /\ outcome[x] = row[k].status

RowsNameTheirRunner == \A k \in Keys : row[k] # NoRow => NamesItsRunner(k)

(* A result without a key stands in a row of its own. *)
Noted(r) == \E p \in plain : p.id = r /\ p.status = outcome[r]

PlainResultsAreNoted ==
  AuditOn /\ Retention = 0 =>
    \A r \in Requests : Sent(r) /\ pc[r] = "done" /\ ~Keyed(r) => Noted(r)

(* The inductive invariant behind the theorems of this module. *)
IInv ==
  /\ TypeInv /\ OwnsItsRow /\ SentIsAccounted
  /\ WireIsTrue /\ OutcomesFromWire /\ RowsNameTheirRunner /\ PlainResultsAreNoted

-----------------------------------------------------------------------------

(* A keyed request has a key of the table; expanding Key is only needed here. *)
LEMMA KeyInKeys == \A r \in Requests : Keyed(r) => Key(r) \in Keys
  BY DEF Keyed, Key, Keys

(* What a duplicate is told is a reply, and "ok" is never repeated as such. *)
LEMMA ReplayIsReply ==
  ASSUME NEW x \in Row
  PROVE  /\ Replay(x) \in Replies \ {"none", "ok"}
         /\ Replay(x) \in {"refused", "badpath"} => Replay(x) = x.status
         /\ Replay(x) = "already" => x.status = "ok"
  BY DEF Replay, Row, Replies, Statuses

(* NoRow is told apart from a row. *)
LEMMA NoRowNotInRow == NoRow \notin Row
  BY NoRowIsNoRow DEF Row, Statuses

(* The types, with the two facts about pc that make them inductive. *)
LEMMA TypeInvariance == Spec => []TypeInv
  <1>1. Init => TypeInv
    BY DEF Init, TypeInv, TypeOK, CompletesWithStatus, LooksUpAKey, Replies
  <1>2. TypeInv /\ [Next]_vars => TypeInv'
    <2> SUFFICES ASSUME TypeInv, [Next]_vars PROVE TypeInv'
      OBVIOUS
    <2> USE ConstantsTyped DEF TypeInv, TypeOK, CompletesWithStatus, LooksUpAKey, Replies, Statuses,
                               Finish, Goto
    <2>1. ASSUME NEW r \in Requests, Reject(r) PROVE TypeInv'
      BY <2>1 DEF Reject, Record, PlainRow
    <2>2. ASSUME NEW r \in Requests, Accept(r) PROVE TypeInv'
      BY <2>2 DEF Accept
    <2>3. ASSUME NEW r \in Requests, CommitClaim(r)
          PROVE row' \in [Keys -> Row \cup {NoRow}] /\ began' \in [Requests -> Nat]
      BY <2>3, KeyInKeys DEF CommitClaim, Fresh, Abandoned, Row
    <2>4. ASSUME NEW r \in Requests, Claim(r) PROVE TypeInv'
      BY <2>3, <2>4 DEF Claim, CommitClaim
    <2>5. ASSUME NEW r \in Requests, ClaimAckLost(r) PROVE TypeInv'
      BY <2>3, <2>5 DEF ClaimAckLost, CommitClaim
    <2>6. ASSUME NEW r \in Requests, ClaimFails(r) \/ ClaimNothing(r) \/ ClaimConflict(r)
          PROVE TypeInv'
      BY <2>6 DEF ClaimFails, ClaimNothing, ClaimConflict
    <2>7. ASSUME NEW r \in Requests, Lookup(r) PROVE TypeInv'
      <3>1. Key(r) \in Keys
        BY <2>7, KeyInKeys DEF Lookup
      <3>2. ~Fresh(Key(r)) => Replay(row[Key(r)]) \in Replies
        BY <3>1, ReplayIsReply DEF Fresh
      <3> QED
        BY <2>7, <3>2 DEF Lookup
    <2>8. ASSUME NEW r \in Requests,
                 Abandon(r) \/ ReadBefore(r) \/ MissingPathParameter(r) \/ Send(r)
          PROVE TypeInv'
      BY <2>8 DEF Abandon, ReadBefore, MissingPathParameter, Send, Target
    <2>9. ASSUME NEW r \in Requests, Receive(r) \/ Unreachable(r) PROVE TypeInv'
      BY <2>9 DEF Receive, Unreachable
    <2>10. ASSUME NEW r \in Requests, Complete(r) PROVE TypeInv'
      <3>1. outcome[r] \in Statuses
        BY <2>10 DEF Complete
      <3>2. UpdateRow(r) => row' \in [Keys -> Row \cup {NoRow}]
        BY <3>1 DEF UpdateRow, Row
      <3> QED
        BY <2>10, <3>1, <3>2 DEF Complete, Record, PlainRow
    <2>11. ASSUME NEW r \in Requests, ServiceApplies(r) \/ ServiceRefuses(r) PROVE TypeInv'
      BY <2>11 DEF ServiceApplies, ServiceRefuses, Target
    <2>12. ASSUME Crash PROVE TypeInv'
      BY <2>12 DEF Crash
    <2>13. ASSUME Prune PROVE TypeInv'
      BY <2>13 DEF Prune
    <2>14. ASSUME Tick PROVE TypeInv'
      BY <2>14 DEF Tick
    <2>15. CASE UNCHANGED vars
      BY <2>15 DEF vars
    <2> QED
      BY <2>1, <2>2, <2>4, <2>5, <2>6, <2>7, <2>8, <2>9, <2>10, <2>11, <2>12, <2>13,
         <2>14, <2>15 DEF Next, Handle
  <1> QED
    BY <1>1, <1>2, PTL DEF Spec

(* Every variable keeps its type, for every value of the constants. *)
THEOREM TypeCorrect == Spec => []TypeOK
  <1>1. TypeInv => TypeOK
    BY DEF TypeInv
  <1> QED
    BY <1>1, TypeInvariance, PTL

-----------------------------------------------------------------------------

(* Steps that leave table, stamps and clock alone and put no keyed handler *)
(* past its claim.                                                         *)
LEMMA QuietStepsKeepOwnership ==
  ASSUME OwnsItsRow, UNCHANGED <<row, began, now>>,
         \A x \in Requests : Working(x)' /\ Keyed(x) => Working(x)
  PROVE  OwnsItsRow'
  BY DEF OwnsItsRow, Owns, Keyed, Key, IdempotencyKey

(* A claim of r takes no row from a handler that is at work: its row is    *)
(* running, and too young to be taken over because LifeLimit <= StaleClaim.*)
LEMMA ClaimRobsNobody ==
  ASSUME TypeInv, OwnsItsRow, NEW r \in Requests, CommitClaim(r)
  PROVE  /\ \A x \in Requests : Working(x) /\ Keyed(x) => x # r /\ Key(x) # Key(r)
         /\ row' \in [Keys -> Row \cup {NoRow}]
         /\ \A k \in Keys : k # Key(r) => row'[k] = row[k]
         /\ row'[Key(r)] # NoRow
         /\ row'[Key(r)].id = r
         /\ row'[Key(r)].status = "running"
         /\ row'[Key(r)].at = now
  <1> USE ConstantsTyped DEF TypeInv, TypeOK
  <1>1. Key(r) \in Keys /\ pc[r] = "claim"
    BY KeyInKeys DEF CommitClaim
  <1>2. ASSUME NEW x \in Requests, Working(x), Keyed(x) PROVE x # r /\ Key(x) # Key(r)
    <2>1. x # r
      BY <1>1, <1>2 DEF Working
    <2>2. Owns(x)
      BY <1>2 DEF OwnsItsRow
    <2>3. SUFFICES ASSUME Key(x) = Key(r) PROVE FALSE
      BY <2>1
    <2>4. ~Fresh(Key(r))
      BY <2>2, <2>3 DEF Fresh, Owns
    <2>5. ~Abandoned(Key(r))
      BY <2>2, <2>3, Timing DEF Abandoned, Owns
    <2> QED
      BY <2>4, <2>5 DEF CommitClaim
  <1>3. CASE Fresh(Key(r))
    <2>1. row' = [row EXCEPT ![Key(r)] =
                    [id |-> r, op |-> OpOf[r], status |-> "running", at |-> now]]
      BY <1>3 DEF CommitClaim, Fresh, Abandoned
    <2>2. row'[Key(r)] \in Row
      BY <2>1, <1>1 DEF Row
    <2> QED
      BY <2>1, <2>2, <1>1, <1>2, NoRowNotInRow
  <1>4. CASE Abandoned(Key(r))
    <2>1. row' = [row EXCEPT ![Key(r)].id = r, ![Key(r)].at = now]
      BY <1>4 DEF CommitClaim, Fresh, Abandoned
    <2>2. row[Key(r)] \in Row
      BY <1>1, <1>4 DEF Abandoned
    <2>3. row'[Key(r)] = [row[Key(r)] EXCEPT !.id = r, !.at = now]
      BY <2>1, <1>1
    <2>4. row'[Key(r)] \in Row
      BY <2>2, <2>3 DEF Row
    <2>5. row'[Key(r)].id = r /\ row'[Key(r)].at = now /\ row'[Key(r)].status = "running"
      BY <2>2, <2>3, <1>4 DEF Row, Abandoned
    <2> QED
      BY <2>1, <2>4, <2>5, <1>1, <1>2, NoRowNotInRow
  <1> QED
    BY <1>3, <1>4 DEF CommitClaim

LEMMA OwnershipStep == TypeInv /\ OwnsItsRow /\ [Next]_vars => OwnsItsRow'
  <1> SUFFICES ASSUME TypeInv, OwnsItsRow, [Next]_vars PROVE OwnsItsRow'
    OBVIOUS
  <1> USE ConstantsTyped DEF TypeInv, TypeOK, Working, Finish, Goto
  <1>1. ASSUME NEW r \in Requests, Reject(r) \/ Accept(r) \/ ClaimFails(r) \/ ClaimNothing(r)
                                   \/ ClaimConflict(r) \/ Lookup(r)
        PROVE OwnsItsRow'
    <2>1. UNCHANGED <<row, began, now>>
      BY <1>1 DEF Reject, Accept, ClaimFails, ClaimNothing, ClaimConflict, Lookup
    <2>2. \A x \in Requests : Working(x)' /\ Keyed(x) => Working(x)
      BY <1>1 DEF Reject, Record, Accept, ClaimFails, ClaimNothing, ClaimConflict, Lookup
    <2> QED
      BY <2>1, <2>2, QuietStepsKeepOwnership
  <1>2. ASSUME NEW r \in Requests, Abandon(r) \/ ReadBefore(r) \/ MissingPathParameter(r)
                                   \/ Send(r) \/ Receive(r) \/ Unreachable(r)
        PROVE OwnsItsRow'
    <2>1. UNCHANGED <<row, began, now>>
      BY <1>2 DEF Abandon, ReadBefore, MissingPathParameter, Send, Receive, Unreachable
    <2>2. \A x \in Requests : Working(x)' /\ Keyed(x) => Working(x)
      BY <1>2 DEF Abandon, ReadBefore, MissingPathParameter, Send, Receive, Unreachable
    <2> QED
      BY <2>1, <2>2, QuietStepsKeepOwnership
  <1>3. ASSUME NEW r \in Requests, Claim(r) \/ ClaimAckLost(r) PROVE OwnsItsRow'
    <2>1. CommitClaim(r)
      BY <1>3 DEF Claim, ClaimAckLost
    <2>2. began' = [began EXCEPT ![r] = now] /\ now' = now
      BY <2>1 DEF CommitClaim
    <2>3. \A x \in Requests \ {r} : Working(x)' => Working(x)
      BY <1>3 DEF Claim, ClaimAckLost
    <2>4. ASSUME NEW x \in Requests \ {r}, Working(x)', Keyed(x)' PROVE Owns(x)'
      <3>1. Working(x) /\ Keyed(x)
        BY <2>3, <2>4 DEF Keyed, IdempotencyKey
      <3>2. Key(x) # Key(r) /\ Key(x) \in Keys /\ Owns(x)
        BY <2>1, <3>1, ClaimRobsNobody, KeyInKeys DEF OwnsItsRow
      <3>3. row'[Key(x)] = row[Key(x)]
        BY <2>1, <3>2, ClaimRobsNobody
      <3> QED
        BY <2>2, <3>2, <3>3 DEF Owns, Key, IdempotencyKey
    <2>5. Owns(r)'
      BY <2>1, <2>2, ClaimRobsNobody DEF Owns, Key, IdempotencyKey
    <2> QED
      BY <2>4, <2>5 DEF OwnsItsRow
  <1>4. ASSUME NEW r \in Requests, Complete(r) PROVE OwnsItsRow'
    <2>1. UNCHANGED <<began, now>>
      BY <1>4 DEF Complete
    <2>2. \A x \in Requests : Working(x)' => x # r /\ Working(x)
      BY <1>4 DEF Complete, Record
    <2>3. CASE UNCHANGED row
      BY <2>1, <2>2, <2>3, QuietStepsKeepOwnership
    <2>4. CASE UpdateRow(r)
      <3>1. ASSUME NEW x \in Requests, Working(x)', Keyed(x)' PROVE Owns(x)'
        <4>1. x # r /\ Working(x) /\ Keyed(x)
          BY <2>2, <3>1 DEF Keyed, IdempotencyKey
        <4>2. Owns(x) /\ Key(x) \in Keys
          BY <4>1, KeyInKeys DEF OwnsItsRow
        <4>3. row'[Key(x)] = row[Key(x)]
          BY <2>4, <4>1, <4>2 DEF UpdateRow, Owns
        <4> QED
          BY <2>1, <4>2, <4>3 DEF Owns, Key, IdempotencyKey
      <3> QED
        BY <3>1 DEF OwnsItsRow
    <2> QED
      BY <1>4, <2>3, <2>4 DEF Complete
  <1>5. ASSUME NEW r \in Requests, ServiceApplies(r) \/ ServiceRefuses(r) PROVE OwnsItsRow'
    BY <1>5, QuietStepsKeepOwnership DEF ServiceApplies, ServiceRefuses
  <1>6. ASSUME Crash PROVE OwnsItsRow'
    BY <1>6, QuietStepsKeepOwnership DEF Crash
  <1>7. ASSUME Prune PROVE OwnsItsRow'
    <2>1. ASSUME NEW x \in Requests, Working(x)', Keyed(x)' PROVE Owns(x)'
      <3>1. Working(x) /\ Keyed(x)
        BY <1>7, <2>1 DEF Prune, Keyed, IdempotencyKey
      <3>2. Owns(x) /\ Key(x) \in Keys
        BY <3>1, KeyInKeys DEF OwnsItsRow
      <3>3. row'[Key(x)] = row[Key(x)]
        BY <1>7, <3>2, Timing DEF Prune, Owns
      <3> QED
        BY <1>7, <3>2, <3>3 DEF Prune, Owns, Key, IdempotencyKey
    <2> QED
      BY <2>1 DEF OwnsItsRow
  <1>8. ASSUME Tick PROVE OwnsItsRow'
    <2>1. ASSUME NEW x \in Requests, Working(x)', Keyed(x)' PROVE Owns(x)'
      <3>1. Working(x) /\ Keyed(x)
        BY <1>8, <2>1 DEF Tick, Keyed, IdempotencyKey
      <3>2. Owns(x) /\ now < began[x] + LifeLimit
        BY <1>8, <3>1 DEF OwnsItsRow, Tick
      <3> QED
        BY <1>8, <3>2 DEF Tick, Owns, Key, IdempotencyKey
    <2> QED
      BY <2>1 DEF OwnsItsRow
  <1>9. CASE UNCHANGED vars
    BY <1>9, QuietStepsKeepOwnership DEF vars
  <1> QED
    BY <1>1, <1>2, <1>3, <1>4, <1>5, <1>6, <1>7, <1>8, <1>9 DEF Next, Handle

(* Two handlers of one approval are never at work together, whatever has   *)
(* crashed and been taken over before.                                     *)
THEOREM RunnersExclude == Spec => []OneRunnerPerApproval
  <1>1. Init => OwnsItsRow
    BY DEF Init, OwnsItsRow, Working
  <1>2. TypeInv /\ OwnsItsRow => OneRunnerPerApproval
    BY DEF OwnsItsRow, Owns, OneRunnerPerApproval
  <1> QED
    BY <1>1, <1>2, OwnershipStep, TypeInvariance, PTL DEF Spec

-----------------------------------------------------------------------------

(* A step that moves only r, which was not sent before or is still on its  *)
(* way to Complete after it, and leaves settled rows alone.                *)
LEMMA SentFrame ==
  ASSUME TypeInv, SentIsAccounted, NEW r \in Requests,
         \A x \in Requests \ {r} : pc'[x] = pc[x] /\ (Sent(x)' => Sent(x)),
         \A x \in Requests \ {r} : Keyed(x) /\ Settled(x) => row'[Key(x)] = row[Key(x)],
         Sent(r)' => pc'[r] \in {"sent", "complete", "unrecorded", "dead"}
  PROVE  SentIsAccounted'
  BY DEF SentIsAccounted, Settled, Keyed, Key, IdempotencyKey

LEMMA SentStep == TypeInv /\ OwnsItsRow /\ SentIsAccounted /\ [Next]_vars => SentIsAccounted'
  <1> SUFFICES ASSUME TypeInv, OwnsItsRow, SentIsAccounted, [Next]_vars PROVE SentIsAccounted'
    OBVIOUS
  <1> USE DEF TypeInv, TypeOK, Finish, Goto
  <1>1. \A x \in Requests : pc[x] \in {"idle", "claim", "lookup", "read", "send"} => ~Sent(x)
    BY DEF SentIsAccounted
  <1>2. ASSUME NEW r \in Requests, Reject(r) \/ Accept(r) \/ ClaimFails(r) \/ ClaimNothing(r)
                                   \/ ClaimConflict(r) \/ Lookup(r)
        PROVE SentIsAccounted'
    <2>1. /\ pc[r] \in {"idle", "claim", "lookup"} /\ UNCHANGED <<wire, row>>
          /\ \A x \in Requests \ {r} : pc'[x] = pc[x]
      BY <1>2 DEF Reject, Record, Accept, ClaimFails, ClaimNothing, ClaimConflict, Lookup
    <2> QED
      BY <2>1, <1>1, SentFrame DEF Sent
  <1>3. ASSUME NEW r \in Requests, Claim(r) \/ ClaimAckLost(r) PROVE SentIsAccounted'
    <2>1. CommitClaim(r) /\ \A x \in Requests \ {r} : pc'[x] = pc[x]
      BY <1>3 DEF Claim, ClaimAckLost
    <2>2. pc[r] = "claim" /\ UNCHANGED wire /\ (Fresh(Key(r)) \/ Abandoned(Key(r)))
      BY <2>1 DEF CommitClaim
    <2>3. ASSUME NEW x \in Requests \ {r}, Keyed(x), Settled(x)
          PROVE row'[Key(x)] = row[Key(x)]
      <3>1. Key(x) # Key(r)
        BY <2>2, <2>3 DEF Fresh, Abandoned, Settled
      <3> QED
        BY <2>1, <2>3, <3>1, ClaimRobsNobody, KeyInKeys
    <2> QED
      BY <1>1, <2>1, <2>2, <2>3, SentFrame DEF Sent
  <1>4. ASSUME NEW r \in Requests, Abandon(r) \/ ReadBefore(r) \/ MissingPathParameter(r)
                                   \/ Send(r) \/ Receive(r) \/ Unreachable(r)
        PROVE SentIsAccounted'
    <2>1. /\ UNCHANGED row
          /\ \A x \in Requests \ {r} : pc'[x] = pc[x] /\ wire'[x] = wire[x]
          /\ wire'[r] = wire[r] \/ pc'[r] = "sent"
          /\ pc'[r] = "send" => pc[r] = "read"
          /\ pc'[r] \in {"send", "sent", "complete", "unrecorded"}
      BY <1>4 DEF Abandon, ReadBefore, MissingPathParameter, Send, Receive, Unreachable
    <2> QED
      BY <2>1, <1>1, SentFrame DEF Sent
  <1>5. ASSUME NEW r \in Requests, Complete(r) PROVE SentIsAccounted'
    <2>1. /\ pc[r] = "complete" /\ UNCHANGED wire
          /\ \A x \in Requests \ {r} : pc'[x] = pc[x]
          /\ pc'[r] \in {"done", "unrecorded"}
      BY <1>5 DEF Complete, Record
    <2>2. ASSUME NEW x \in Requests \ {r}, Keyed(x), Settled(x)
          PROVE row'[Key(x)] = row[Key(x)]
      <3>1. CASE UNCHANGED row
        BY <3>1
      <3>2. CASE UpdateRow(r)
        BY <2>2, <3>2, KeyInKeys DEF UpdateRow, Settled
      <3> QED
        BY <1>5, <3>1, <3>2 DEF Complete
    <2>3. CASE pc'[r] = "unrecorded"
      BY <2>1, <2>2, <2>3, SentFrame DEF Sent
    <2>4. CASE pc'[r] = "done"
      <3>1. ASSUME NEW x \in Requests, Sent(x)'
            PROVE  \/ pc'[x] \in {"sent", "complete", "unrecorded", "dead"}
                   \/ pc'[x] = "done" /\ (Keyed(x) /\ Retention = 0 => Settled(x)')
        <4>1. CASE x # r
          BY <2>1, <2>2, <3>1, <4>1 DEF SentIsAccounted, Settled, Sent, Key, IdempotencyKey
        <4>2. CASE x = r
          <5>1. SUFFICES ASSUME Keyed(r) PROVE Settled(r)'
            BY <2>4, <4>2
          <5>2. Owns(r) /\ Key(r) \in Keys /\ outcome[r] \in Statuses /\ UpdateRow(r)
            BY <1>5, <2>1, <2>4, <5>1, KeyInKeys
            DEF OwnsItsRow, Working, Complete, CompletesWithStatus
          <5>3. row'[Key(r)] = [row[Key(r)] EXCEPT !.status = outcome[r]]
            BY <5>2 DEF UpdateRow, Owns
          <5>4. row[Key(r)] \in Row
            BY <5>2 DEF Owns
          <5>5. row'[Key(r)] \in Row /\ row'[Key(r)].status # "running" /\ row'[Key(r)].id = r
            BY <5>2, <5>3, <5>4 DEF Row, Owns, Statuses
          <5> QED
            BY <5>5, NoRowNotInRow DEF Settled, Key, IdempotencyKey
        <4> QED
          BY <4>1, <4>2
      <3> QED
        BY <3>1 DEF SentIsAccounted, Keyed, Key, IdempotencyKey
    <2> QED
      BY <2>1, <2>3, <2>4
  <1>6. ASSUME NEW r \in Requests, ServiceApplies(r) \/ ServiceRefuses(r)
        PROVE SentIsAccounted'
    <2>1. UNCHANGED <<pc, row>> /\ \A x \in Requests : Sent(x)' => Sent(x)
      BY <1>6 DEF ServiceApplies, ServiceRefuses, Sent
    <2> QED
      BY <2>1 DEF SentIsAccounted, Settled, Keyed, Key, IdempotencyKey
  <1>7. ASSUME Crash PROVE SentIsAccounted'
    BY <1>7 DEF Crash, Active, SentIsAccounted, Sent, Settled, Keyed, Key, IdempotencyKey
  <1>8. ASSUME Prune PROVE SentIsAccounted'
    BY <1>8 DEF Prune, SentIsAccounted, Sent, Settled, Keyed, Key, IdempotencyKey
  <1>9. CASE Tick \/ UNCHANGED vars
    BY <1>9 DEF Tick, vars, SentIsAccounted, Sent, Settled, Keyed, Key, IdempotencyKey
  <1> QED
    BY <1>2, <1>3, <1>4, <1>5, <1>6, <1>7, <1>8, <1>9 DEF Next, Handle

(* An approval is handed to the service a second time only after a loss.   *)
THEOREM NoRepeatWithoutLoss == Spec => []RepeatOnlyAfterLoss
  <1>1. Init => OwnsItsRow /\ SentIsAccounted
    BY DEF Init, OwnsItsRow, SentIsAccounted, Sent, Working
  <1>2. TypeInv /\ OwnsItsRow /\ SentIsAccounted => RepeatOnlyAfterLoss
    <2> SUFFICES ASSUME OwnsItsRow, SentIsAccounted, Retention = 0,
                        NEW a \in Requests, NEW b \in Requests, a # b,
                        Keyed(a), Keyed(b), Key(a) = Key(b), Sent(a), Sent(b),
                        pc[a] \notin {"unrecorded", "dead"}, pc[b] \notin {"unrecorded", "dead"}
                 PROVE  FALSE
      BY DEF RepeatOnlyAfterLoss
    <2>1. (Owns(a) \/ Settled(a)) /\ (Owns(b) \/ Settled(b))
      BY DEF OwnsItsRow, SentIsAccounted, Working
    <2> QED
      BY <2>1 DEF Owns, Settled
  <1> QED
    BY <1>1, <1>2, OwnershipStep, SentStep, TypeInvariance, PTL DEF Spec

-----------------------------------------------------------------------------

(* Before its update is sent, and after it was answered, a request moves   *)
(* nothing on the wire.                                                    *)
LEMMA NotYetSent ==
  ASSUME SentIsAccounted, NEW r \in Requests,
         pc[r] \in {"idle", "claim", "lookup", "read", "send"}
  PROVE  wire[r] = "idle"
  BY DEF SentIsAccounted, Sent

LEMMA WireStep == TypeInv /\ SentIsAccounted /\ WireIsTrue /\ [Next]_vars => WireIsTrue'
  <1> SUFFICES ASSUME TypeInv, SentIsAccounted, WireIsTrue, [Next]_vars PROVE WireIsTrue'
    OBVIOUS
  <1> USE DEF TypeInv, TypeOK, WireIsTrue, Applied
  <1>1. ASSUME NEW r \in Requests, Send(r) PROVE WireIsTrue'
    BY <1>1, NotYetSent DEF Send
  <1>2. ASSUME NEW r \in Requests, ServiceApplies(r) PROVE WireIsTrue'
    <2>1. version[Target(r)] # 0
      BY ConstantsTyped DEF Target
    <2> QED
      BY <1>2, <2>1 DEF ServiceApplies
  <1>3. ASSUME NEW r \in Requests, ServiceRefuses(r) PROVE WireIsTrue'
    BY <1>3 DEF ServiceRefuses
  <1>4. CASE UNCHANGED <<wire, replaced>>
    BY <1>4
  <1> QED
    BY <1>1, <1>2, <1>3, <1>4
    DEF Next, Handle, vars, Reject, Accept, Claim, ClaimAckLost, CommitClaim, ClaimFails,
        ClaimNothing, ClaimConflict, Lookup, Abandon, ReadBefore, MissingPathParameter, Receive,
        Unreachable, Complete, Crash, Prune, Tick

-----------------------------------------------------------------------------

(* Steps that leave the rows alone, answer nobody again and send nobody    *)
(* back to before its claim; a request that owns a row does not end in     *)
(* "done" by them.                                                         *)
LEMMA RowsFrame ==
  ASSUME TypeInv, RowsNameTheirRunner, UNCHANGED row,
         \A x \in Requests :
           /\ pc[x] = "done" => pc'[x] = "done" /\ outcome'[x] = outcome[x]
           /\ pc[x] \notin {"idle", "claim", "lookup"} => pc'[x] \notin {"idle", "claim", "lookup"}
           /\ Keyed(x) /\ pc'[x] = "done" => pc[x] \in {"done", "idle", "claim", "lookup"}
  PROVE  RowsNameTheirRunner'
  <1> SUFFICES ASSUME NEW k \in Keys, row[k] # NoRow PROVE NamesItsRunner(k)'
    BY DEF RowsNameTheirRunner, Keys, IdempotencyKey
  <1>1. NamesItsRunner(k) /\ row[k].id \in Requests
    BY DEF RowsNameTheirRunner, TypeInv, TypeOK, Row
  <1> QED
    BY <1>1 DEF NamesItsRunner, Keyed, Key, IdempotencyKey

LEMMA RowsStep ==
  TypeInv /\ OwnsItsRow /\ RowsNameTheirRunner /\ [Next]_vars => RowsNameTheirRunner'
  <1> SUFFICES ASSUME TypeInv, OwnsItsRow, RowsNameTheirRunner, [Next]_vars
               PROVE  RowsNameTheirRunner'
    OBVIOUS
  <1> USE DEF Finish, Goto
  <1>0. \A k \in Keys : row[k] # NoRow => row[k] \in Row /\ row[k].id \in Requests
    BY DEF TypeInv, TypeOK, Row
  <1>1. ASSUME NEW r \in Requests, Reject(r) \/ Accept(r) \/ ClaimFails(r) \/ ClaimNothing(r)
                                   \/ ClaimConflict(r) \/ Lookup(r)
        PROVE RowsNameTheirRunner'
    <2>1. /\ pc[r] \in {"idle", "claim", "lookup"} /\ UNCHANGED row
          /\ \A x \in Requests \ {r} : pc'[x] = pc[x] /\ outcome'[x] = outcome[x]
      BY <1>1 DEF Reject, Record, Accept, ClaimFails, ClaimNothing, ClaimConflict, Lookup,
                  TypeInv, TypeOK
    <2> QED
      BY <2>1, RowsFrame
  <1>2. ASSUME NEW r \in Requests, Abandon(r) \/ ReadBefore(r) \/ MissingPathParameter(r)
                                   \/ Send(r) \/ Receive(r) \/ Unreachable(r)
        PROVE RowsNameTheirRunner'
    <2>1. /\ pc[r] \in {"read", "send", "sent"} /\ UNCHANGED row
          /\ pc'[r] \in {"send", "sent", "complete", "unrecorded"}
          /\ \A x \in Requests \ {r} : pc'[x] = pc[x] /\ outcome'[x] = outcome[x]
      BY <1>2 DEF Abandon, ReadBefore, MissingPathParameter, Send, Receive, Unreachable,
                  TypeInv, TypeOK
    <2> QED
      BY <2>1, RowsFrame
  <1>3. ASSUME NEW r \in Requests, Claim(r) \/ ClaimAckLost(r) PROVE RowsNameTheirRunner'
    <2>1. /\ CommitClaim(r) /\ pc[r] = "claim" /\ Keyed(r) /\ Key(r) \in Keys
          /\ pc'[r] \in {"read", "unrecorded"}
          /\ \A x \in Requests \ {r} : pc'[x] = pc[x] /\ outcome'[x] = outcome[x]
      BY <1>3, KeyInKeys DEF Claim, ClaimAckLost, CommitClaim, TypeInv, TypeOK
    <2>2. SUFFICES ASSUME NEW k \in Keys, row'[k] # NoRow PROVE NamesItsRunner(k)'
      BY DEF RowsNameTheirRunner, Keys, IdempotencyKey
    <2>3. CASE k = Key(r)
      <3>1. row'[k].id = r /\ row'[k].status = "running"
        BY <2>1, <2>3, ClaimRobsNobody
      <3> QED
        BY <2>1, <2>3, <3>1 DEF NamesItsRunner, Keyed, Key, IdempotencyKey
    <2>4. CASE k # Key(r)
      <3>1. row'[k] = row[k]
        BY <2>1, <2>4, ClaimRobsNobody
      <3>2. NamesItsRunner(k) /\ row[k].id \in Requests
        BY <2>2, <3>1, <1>0 DEF RowsNameTheirRunner
      <3>3. row[k].id # r
        BY <2>1, <3>2 DEF NamesItsRunner
      <3> QED
        BY <2>1, <3>1, <3>2, <3>3 DEF NamesItsRunner, Keyed, Key, IdempotencyKey
    <2> QED
      BY <2>3, <2>4
  <1>4. ASSUME NEW r \in Requests, Complete(r) PROVE RowsNameTheirRunner'
    <2>1. /\ pc[r] = "complete" /\ outcome[r] \in Statuses
          /\ pc'[r] \in {"done", "unrecorded"} /\ outcome'[r] = outcome[r]
          /\ \A x \in Requests \ {r} : pc'[x] = pc[x] /\ outcome'[x] = outcome[x]
      BY <1>4 DEF Complete, Record, TypeInv, TypeOK, CompletesWithStatus
    <2>2. CASE UNCHANGED row /\ (Keyed(r) => pc'[r] = "unrecorded")
      BY <2>1, <2>2, RowsFrame
    <2>3. CASE Keyed(r) /\ UpdateRow(r) /\ pc'[r] = "done"
      <3> SUFFICES ASSUME NEW k \in Keys, row'[k] # NoRow PROVE NamesItsRunner(k)'
        BY DEF RowsNameTheirRunner, Keys, IdempotencyKey
      <3>1. row[k] # NoRow /\ NamesItsRunner(k) /\ row[k] \in Row
        BY <2>3, <1>0 DEF UpdateRow, RowsNameTheirRunner
      <3>2. CASE row[k].id = r
        <4>1. row'[k] = [row[k] EXCEPT !.status = outcome[r]]
          BY <2>3, <3>1, <3>2 DEF UpdateRow
        <4>2. row'[k].id = r /\ row'[k].status = outcome[r] /\ outcome[r] # "running"
          BY <2>1, <3>1, <3>2, <4>1 DEF Row, Statuses
        <4> QED
          BY <2>1, <2>3, <3>1, <3>2, <4>2 DEF NamesItsRunner, Keyed, Key, IdempotencyKey
      <3>3. CASE row[k].id # r
        <4>1. row'[k] = row[k] /\ row[k].id \in Requests
          BY <2>3, <3>1, <3>3, <1>0 DEF UpdateRow
        <4> QED
          BY <2>1, <3>1, <3>3, <4>1 DEF NamesItsRunner, Keyed, Key, IdempotencyKey
      <3> QED
        BY <3>2, <3>3
    <2> QED
      BY <1>4, <2>2, <2>3 DEF Complete, TypeInv, TypeOK
  <1>5. ASSUME NEW r \in Requests, ServiceApplies(r) \/ ServiceRefuses(r)
        PROVE RowsNameTheirRunner'
    BY <1>5, RowsFrame DEF ServiceApplies, ServiceRefuses
  <1>6. ASSUME Crash PROVE RowsNameTheirRunner'
    BY <1>6, RowsFrame DEF Crash, Active, TypeInv, TypeOK
  <1>7. ASSUME Prune PROVE RowsNameTheirRunner'
    <2> SUFFICES ASSUME NEW k \in Keys, row'[k] # NoRow PROVE NamesItsRunner(k)'
      BY DEF RowsNameTheirRunner, Keys, IdempotencyKey
    <2>1. row'[k] = row[k] /\ UNCHANGED <<pc, outcome>>
      BY <1>7 DEF Prune
    <2> QED
      BY <2>1 DEF RowsNameTheirRunner, NamesItsRunner, Keyed, Key, IdempotencyKey
  <1>8. CASE Tick \/ UNCHANGED vars
    BY <1>8, RowsFrame DEF Tick, vars
  <1> QED
    BY <1>1, <1>2, <1>3, <1>4, <1>5, <1>6, <1>7, <1>8 DEF Next, Handle

-----------------------------------------------------------------------------

(* A step that answers nobody: what an outcome says stays as true as it    *)
(* was, also when the service applies an update or the process dies.       *)
LEMMA OutcomesFrame ==
  ASSUME OutcomesFromWire, UNCHANGED outcome,
         \A x \in Requests :
           /\ outcome[x] # "none" /\ wire[x] \in {"idle", "ok", "refused"} => wire'[x] = wire[x]
           /\ Applied(x) => Applied(x)'
           /\ pc[x] = "complete" \/ Ended(x) => pc'[x] = "complete" \/ Ended(x)'
  PROVE  OutcomesFromWire'
  BY DEF OutcomesFromWire, OutcomeIsTrue, Key, IdempotencyKey

(* A step that gives r an answer and touches neither wire nor records.     *)
LEMMA OutcomesOfOne ==
  ASSUME TypeInv, OutcomesFromWire, NEW r \in Requests, UNCHANGED <<wire, replaced>>,
         NEW end \in {"complete", "done", "unrecorded"}, NEW reply, Finish(r, end, reply),
         reply = "ok" => wire[r] = "ok",
         reply \in {"refused", "badpath"} => wire[r] \in {"idle", "refused"},
         reply = "already" => \E x \in Requests : Key(x) = Key(r) /\ Applied(x)
  PROVE  OutcomesFromWire'
  <1>1. \A x \in Requests \ {r} : pc'[x] = pc[x] /\ outcome'[x] = outcome[x]
    BY DEF Finish, TypeInv, TypeOK
  <1>2. pc'[r] = end /\ outcome'[r] = reply
    BY DEF Finish, TypeInv, TypeOK
  <1> QED
    BY <1>1, <1>2 DEF OutcomesFromWire, OutcomeIsTrue, Applied, Ended, Key, IdempotencyKey

LEMMA OutcomesStep ==
  TypeInv /\ SentIsAccounted /\ WireIsTrue /\ RowsNameTheirRunner /\ OutcomesFromWire
    /\ [Next]_vars => OutcomesFromWire'
  <1> SUFFICES ASSUME TypeInv, SentIsAccounted, WireIsTrue, RowsNameTheirRunner,
                      OutcomesFromWire, [Next]_vars
               PROVE  OutcomesFromWire'
    OBVIOUS
  <1>0. \A x \in Requests : pc[x] \in {"idle", "claim", "lookup", "read", "send", "sent"}
          => outcome[x] = "none"
    BY DEF OutcomesFromWire, OutcomeIsTrue, Ended
  <1>1. ASSUME NEW r \in Requests, Reject(r) PROVE OutcomesFromWire'
    <2>1. \E end \in {"done", "unrecorded"} : Finish(r, end, "rejected")
      BY <1>1 DEF Reject, Record
    <2> QED
      BY <1>1, <2>1, OutcomesOfOne DEF Reject
  <1>2. ASSUME NEW r \in Requests, ClaimAckLost(r) \/ ClaimFails(r) PROVE OutcomesFromWire'
    <2>1. \E end \in {"done", "unrecorded"} : Finish(r, end, "unavailable")
      BY <1>2 DEF ClaimAckLost, ClaimFails
    <2> QED
      BY <1>2, <2>1, OutcomesOfOne DEF ClaimAckLost, ClaimFails, CommitClaim
  <1>3. ASSUME NEW r \in Requests, Lookup(r) PROVE OutcomesFromWire'
    <2>1. Key(r) \in Keys /\ wire[r] = "idle" /\ UNCHANGED <<wire, replaced>>
      BY <1>3, KeyInKeys, NotYetSent DEF Lookup, TypeInv, LooksUpAKey
    <2>2. CASE Finish(r, "done", "unavailable")
      BY <2>1, <2>2, OutcomesOfOne
    <2>3. CASE ~Fresh(Key(r)) /\ Finish(r, "done", Replay(row[Key(r)]))
      <3>1. row[Key(r)] \in Row /\ NamesItsRunner(Key(r))
        BY <2>1, <2>3 DEF Fresh, TypeInv, TypeOK, RowsNameTheirRunner
      <3>2. Replay(row[Key(r)]) \notin {"none", "ok"}
        BY <3>1, ReplayIsReply
      <3>3. ASSUME Replay(row[Key(r)]) = "already"
            PROVE  \E x \in Requests : Key(x) = Key(r) /\ Applied(x)
        <4>1. row[Key(r)].status = "ok" /\ row[Key(r)].id \in Requests
          BY <3>1, <3>3, ReplayIsReply DEF Row
        <4>2. Key(row[Key(r)].id) = Key(r) /\ outcome[row[Key(r)].id] = "ok"
          BY <3>1, <4>1 DEF NamesItsRunner
        <4>3. Applied(row[Key(r)].id)
          BY <4>1, <4>2 DEF OutcomesFromWire, OutcomeIsTrue, WireIsTrue
        <4> QED
          BY <4>1, <4>2, <4>3
      <3> QED
        BY <2>1, <2>3, <3>2, <3>3, OutcomesOfOne
    <2> QED
      BY <1>3, <2>2, <2>3 DEF Lookup
  <1>4. ASSUME NEW r \in Requests, Abandon(r) PROVE OutcomesFromWire'
    BY <1>4, OutcomesOfOne DEF Abandon
  <1>5. ASSUME NEW r \in Requests, MissingPathParameter(r) PROVE OutcomesFromWire'
    BY <1>5, NotYetSent, OutcomesOfOne DEF MissingPathParameter
  <1>6. ASSUME NEW r \in Requests, Receive(r) PROVE OutcomesFromWire'
    BY <1>6, OutcomesOfOne DEF Receive
  <1>7. ASSUME NEW r \in Requests, Unreachable(r) PROVE OutcomesFromWire'
    BY <1>7, OutcomesOfOne DEF Unreachable
  <1>8. ASSUME NEW r \in Requests, Complete(r) PROVE OutcomesFromWire'
    <2>1. /\ UNCHANGED <<wire, replaced>>
          /\ \E end \in {"done", "unrecorded"} : Finish(r, end, outcome[r])
      BY <1>8 DEF Complete, Record
    <2> QED
      BY <2>1, OutcomesOfOne DEF OutcomesFromWire, OutcomeIsTrue
  <1>9. ASSUME NEW r \in Requests,
               Accept(r) \/ Claim(r) \/ ClaimNothing(r) \/ ClaimConflict(r) \/ ReadBefore(r)
        PROVE OutcomesFromWire'
    <2>1. /\ UNCHANGED <<outcome, wire, replaced>>
          /\ pc[r] \in {"idle", "claim", "lookup", "read"}
          /\ \A x \in Requests \ {r} : pc'[x] = pc[x]
      BY <1>9 DEF Accept, Claim, CommitClaim, ClaimNothing, ClaimConflict, ReadBefore, Goto,
                  TypeInv, TypeOK
    <2> QED
      BY <2>1, OutcomesFrame DEF Ended, Applied
  <1>10. ASSUME NEW r \in Requests, Send(r) PROVE OutcomesFromWire'
    <2>1. /\ UNCHANGED <<outcome, replaced>> /\ outcome[r] = "none" /\ pc[r] = "send"
          /\ \A x \in Requests \ {r} : pc'[x] = pc[x] /\ wire'[x] = wire[x]
      BY <1>10, <1>0 DEF Send, Goto, TypeInv, TypeOK
    <2> QED
      BY <2>1, OutcomesFrame DEF Ended, Applied
  <1>11. ASSUME NEW r \in Requests, ServiceApplies(r) \/ ServiceRefuses(r)
         PROVE OutcomesFromWire'
    <2>1. /\ UNCHANGED <<pc, outcome>> /\ wire[r] = "inflight"
          /\ \A x \in Requests \ {r} : wire'[x] = wire[x] /\ replaced'[x] = replaced[x]
      BY <1>11 DEF ServiceApplies, ServiceRefuses, TypeInv, TypeOK
    <2>2. Applied(r) => FALSE
      BY <2>1 DEF WireIsTrue
    <2> QED
      BY <2>1, <2>2, OutcomesFrame DEF Ended, Applied
  <1>12. ASSUME Crash PROVE OutcomesFromWire'
    <2>1. /\ UNCHANGED <<outcome, wire, replaced>>
          /\ \A x \in Requests : pc'[x] = IF Active(x) THEN "dead" ELSE pc[x]
      BY <1>12 DEF Crash
    <2> QED
      BY <2>1, OutcomesFrame DEF Ended, Active, Applied
  <1>13. CASE Prune \/ Tick \/ UNCHANGED vars
    BY <1>13, OutcomesFrame DEF Prune, Tick, vars, Ended, Applied
  <1> QED
    BY <1>1, <1>2, <1>3, <1>4, <1>5, <1>6, <1>7, <1>8, <1>9, <1>10, <1>11, <1>12, <1>13
    DEF Next, Handle

(* The invariant of this module, all but the rows without a key. *)
LEMMA Truthful ==
  Spec => [](TypeInv /\ OwnsItsRow /\ SentIsAccounted /\ WireIsTrue /\ OutcomesFromWire
             /\ RowsNameTheirRunner)
  <1>1. Init => OwnsItsRow /\ SentIsAccounted /\ WireIsTrue /\ OutcomesFromWire
                /\ RowsNameTheirRunner
    BY DEF Init, OwnsItsRow, SentIsAccounted, Sent, Working, WireIsTrue, Applied,
           OutcomesFromWire, OutcomeIsTrue, RowsNameTheirRunner
  <1> QED
    BY <1>1, OwnershipStep, SentStep, WireStep, OutcomesStep, RowsStep, TypeInvariance,
       PTL DEF Spec

(* What rows and answers call a success was applied, what they call a      *)
(* refusal was not, and "already executed" is only said of an approval     *)
(* that was.                                                               *)
THEOREM AnswersAreTrue == Spec => []OutcomesAreTrue
  <1>1. TypeInv /\ WireIsTrue /\ OutcomesFromWire /\ RowsNameTheirRunner => OutcomesAreTrue
    <2> SUFFICES ASSUME TypeInv, WireIsTrue, OutcomesFromWire, RowsNameTheirRunner
                 PROVE  OutcomesAreTrue
      OBVIOUS
    <2>1. \A r \in Requests : /\ outcome[r] = "ok" => Applied(r)
                              /\ outcome[r] \in {"refused", "badpath"} => ~Applied(r)
      BY DEF OutcomesFromWire, OutcomeIsTrue, WireIsTrue
    <2>2. ASSUME NEW k \in Keys, row[k] # NoRow, row[k].status # "running"
          PROVE row[k].id \in Requests /\ outcome[row[k].id] = row[k].status
      BY <2>2 DEF RowsNameTheirRunner, NamesItsRunner, TypeInv, TypeOK, Row
    <2> QED
      BY <2>1, <2>2 DEF OutcomesAreTrue, OutcomesFromWire, OutcomeIsTrue
  <1> QED
    BY <1>1, Truthful, PTL

-----------------------------------------------------------------------------

(* A recorded result can only be pruned. *)
THEOREM RecordsAreFinal == Spec => ResultsAreFinal
  <1> DEFINE Kept(k) == row'[k] = row[k] \/ (row'[k] = NoRow /\ row[k].at + Retention < now)
  <1>1. ASSUME TypeInv, OwnsItsRow, RowsNameTheirRunner, [Next]_vars,
               NEW k \in Keys, row[k] # NoRow, row[k].status # "running"
        PROVE  Kept(k)
    <2> USE <1>1
    <2>1. ASSUME NEW r \in Requests, Claim(r) \/ ClaimAckLost(r) PROVE Kept(k)
      <3>1. CommitClaim(r)
        BY <2>1 DEF Claim, ClaimAckLost
      <3>2. k # Key(r)
        BY <3>1 DEF CommitClaim, Fresh, Abandoned
      <3> QED
        BY <3>1, <3>2, ClaimRobsNobody
    <2>2. ASSUME NEW r \in Requests, Complete(r) PROVE Kept(k)
      <3>1. row[k].id # r
        BY <2>2 DEF Complete, RowsNameTheirRunner, NamesItsRunner
      <3> QED
        BY <2>2, <3>1 DEF Complete, UpdateRow
    <2>3. CASE Prune
      BY <2>3 DEF Prune
    <2>4. CASE UNCHANGED row
      BY <2>4
    <2> QED
      BY <2>1, <2>2, <2>3, <2>4
      DEF Next, Handle, vars, Reject, Accept, ClaimFails, ClaimNothing, ClaimConflict, Lookup,
          Abandon, ReadBefore, MissingPathParameter, Send, Receive, Unreachable,
          ServiceApplies, ServiceRefuses, Crash, Tick
  <1>2. TypeInv /\ OwnsItsRow /\ RowsNameTheirRunner /\ [Next]_vars
          => [\A k \in Keys : row[k] # NoRow /\ row[k].status # "running" => Kept(k)]_vars
    BY <1>1
  <1> QED
    BY <1>2, Truthful, PTL DEF Spec, ResultsAreFinal

-----------------------------------------------------------------------------

(* Nothing that was noted is lost while rows are kept for ever, and a      *)
(* request becomes "done" without its row only after noting its result.    *)
LEMMA NotesFrame ==
  ASSUME PlainResultsAreNoted, plain \subseteq plain',
         \A x \in Requests : (Sent(x)' /\ pc'[x] = "done" /\ ~Keyed(x) /\ AuditOn) =>
            \/ Sent(x) /\ pc[x] = "done" /\ outcome'[x] = outcome[x]
            \/ \E p \in plain' : p.id = x /\ p.status = outcome'[x]
  PROVE  PlainResultsAreNoted'
  BY DEF PlainResultsAreNoted, Noted, Keyed, IdempotencyKey

LEMMA NotesStep ==
  TypeInv /\ SentIsAccounted /\ PlainResultsAreNoted /\ [Next]_vars => PlainResultsAreNoted'
  <1> SUFFICES ASSUME TypeInv, SentIsAccounted, PlainResultsAreNoted, [Next]_vars
               PROVE  PlainResultsAreNoted'
    OBVIOUS
  <1> USE DEF Finish, Goto
  <1>1. ASSUME NEW r \in Requests, Reject(r) \/ Accept(r) \/ ClaimFails(r) \/ ClaimNothing(r)
                                   \/ ClaimConflict(r) \/ Lookup(r)
        PROVE PlainResultsAreNoted'
    <2>1. /\ pc[r] \in {"idle", "claim", "lookup"} /\ UNCHANGED wire /\ plain \subseteq plain'
          /\ \A x \in Requests \ {r} : pc'[x] = pc[x] /\ outcome'[x] = outcome[x]
      BY <1>1 DEF Reject, Record, Accept, ClaimFails, ClaimNothing, ClaimConflict, Lookup,
                  TypeInv, TypeOK
    <2> QED
      BY <2>1, NotYetSent, NotesFrame DEF Sent
  <1>2. ASSUME NEW r \in Requests, Claim(r) \/ ClaimAckLost(r) \/ Abandon(r) \/ ReadBefore(r)
                      \/ MissingPathParameter(r) \/ Send(r) \/ Receive(r) \/ Unreachable(r)
        PROVE PlainResultsAreNoted'
    <2>1. /\ pc'[r] # "done" /\ UNCHANGED plain
          /\ \A x \in Requests \ {r} :
               pc'[x] = pc[x] /\ outcome'[x] = outcome[x] /\ wire'[x] = wire[x]
      BY <1>2 DEF Claim, ClaimAckLost, CommitClaim, Abandon, ReadBefore, MissingPathParameter,
                  Send, Receive, Unreachable, TypeInv, TypeOK
    <2> QED
      BY <2>1, NotesFrame DEF Sent
  <1>3. ASSUME NEW r \in Requests, Complete(r) PROVE PlainResultsAreNoted'
    <2>1. /\ UNCHANGED wire /\ plain \subseteq plain'
          /\ \A x \in Requests \ {r} : pc'[x] = pc[x] /\ outcome'[x] = outcome[x]
          /\ outcome'[r] = outcome[r]
      BY <1>3 DEF Complete, Record, TypeInv, TypeOK
    <2>2. pc'[r] = "done" /\ ~Keyed(r) /\ AuditOn
            => [id |-> r, op |-> OpOf[r], status |-> outcome[r], at |-> now] \in plain'
      BY <1>3 DEF Complete, Record, TypeInv, TypeOK
    <2> QED
      BY <2>1, <2>2, NotesFrame DEF Sent
  <1>4. ASSUME NEW r \in Requests, ServiceApplies(r) \/ ServiceRefuses(r)
        PROVE PlainResultsAreNoted'
    <2>1. UNCHANGED <<pc, outcome, plain>> /\ \A x \in Requests : Sent(x)' => Sent(x)
      BY <1>4 DEF ServiceApplies, ServiceRefuses, Sent, TypeInv, TypeOK
    <2> QED
      BY <2>1, NotesFrame
  <1>5. ASSUME Crash PROVE PlainResultsAreNoted'
    BY <1>5, NotesFrame DEF Crash, Active, Sent
  <1>6. ASSUME Prune PROVE PlainResultsAreNoted'
    BY <1>6 DEF Prune, PlainResultsAreNoted
  <1>7. CASE Tick \/ UNCHANGED vars
    BY <1>7, NotesFrame DEF Tick, vars, Sent
  <1> QED
    BY <1>1, <1>2, <1>3, <1>4, <1>5, <1>6, <1>7 DEF Next, Handle

(* The whole invariant. *)
LEMMA Invariance == Spec => []IInv
  <1>1. Init => PlainResultsAreNoted
    BY DEF Init, PlainResultsAreNoted, Sent
  <1> QED
    BY <1>1, NotesStep, Truthful, PTL DEF Spec, IInv

(* With rows kept for ever, what was handed to the service and answered    *)
(* stands in the audit table with the outcome that was answered.           *)
THEOREM ExecutionsAudited == Spec => []ExecutionsAreRecorded
  <1>1. IInv => ExecutionsAreRecorded
    <2> SUFFICES ASSUME IInv, AuditOn, Retention = 0, NEW r \in Requests, Sent(r), pc[r] = "done"
                 PROVE  \/ \E k \in Keys : row[k] # NoRow /\ row[k].id = r
                                            /\ row[k].status = outcome[r]
                        \/ \E p \in plain : p.id = r /\ p.status = outcome[r]
      BY DEF ExecutionsAreRecorded
    <2>1. CASE Keyed(r)
      <3>1. Settled(r) /\ Key(r) \in Keys
        BY <2>1, KeyInKeys DEF IInv, SentIsAccounted
      <3>2. NamesItsRunner(Key(r))
        BY <3>1 DEF Settled, IInv, RowsNameTheirRunner
      <3> QED
        BY <3>1, <3>2 DEF Settled, NamesItsRunner
    <2>2. CASE ~Keyed(r)
      BY <2>2 DEF IInv, PlainResultsAreNoted, Noted
    <2> QED
      BY <2>1, <2>2
  <1> QED
    BY <1>1, Invariance, PTL

-----------------------------------------------------------------------------

(* Every version of a record but the present one was replaced by a request,*)
(* and what a request has read or replaced lies in the past, in this order.*)
Chronicle ==
  /\ \A r \in Requests :
       /\ replaced[r] < version[Target(r)] /\ before[r] <= version[Target(r)]
       /\ Applied(r) => before[r] <= replaced[r]
  /\ \A t \in Targets : \A v \in 1 .. version[t] - 1 :
       \E x \in Requests : Target(x) = t /\ replaced[x] = v

LEMMA ChronicleStep ==
  TypeInv /\ SentIsAccounted /\ WireIsTrue /\ Chronicle /\ [Next]_vars => Chronicle'
  <1> SUFFICES ASSUME TypeInv, SentIsAccounted, WireIsTrue, Chronicle, [Next]_vars
               PROVE  Chronicle'
    OBVIOUS
  <1> USE DEF TypeInv, TypeOK, Applied
  <1>0. \A r \in Requests : Target(r) \in Targets
    BY ConstantsTyped DEF Target
  <1>1. ASSUME NEW r \in Requests, ReadBefore(r) PROVE Chronicle'
    <2>1. ~Applied(r)
      BY <1>1, NotYetSent DEF ReadBefore, WireIsTrue
    <2> QED
      BY <1>0, <1>1, <2>1 DEF ReadBefore, Chronicle, Target
  <1>2. ASSUME NEW r \in Requests, ServiceApplies(r) PROVE Chronicle'
    <2>1. /\ ~Applied(r) /\ UNCHANGED before
          /\ version' = [version EXCEPT ![Target(r)] = version[Target(r)] + 1]
          /\ replaced' = [replaced EXCEPT ![r] = version[Target(r)]]
      BY <1>2 DEF ServiceApplies, WireIsTrue
    <2>2. ASSUME NEW x \in Requests
          PROVE  /\ replaced'[x] < version'[Target(x)] /\ before[x] <= version'[Target(x)]
                 /\ replaced'[x] # 0 => before[x] <= replaced'[x]
      <3>1. CASE x = r
        BY <1>0, <2>1, <3>1 DEF Chronicle
      <3>2. CASE x # r
        <4>1. version[Target(x)] <= version'[Target(x)]
          BY <1>0, <2>1
        <4> QED
          BY <1>0, <2>1, <3>2, <4>1 DEF Chronicle
      <3> QED
        BY <3>1, <3>2
    <2>3. ASSUME NEW t \in Targets, NEW v \in 1 .. version'[t] - 1
          PROVE  \E x \in Requests : Target(x) = t /\ replaced'[x] = v
      <3>1. CASE v \in 1 .. version[t] - 1
        <4>1. PICK x \in Requests : Target(x) = t /\ replaced[x] = v
          BY <3>1 DEF Chronicle
        <4>2. x # r
          BY <2>1, <3>1, <4>1
        <4> QED
          BY <2>1, <4>1, <4>2
      <3>2. CASE v \notin 1 .. version[t] - 1
        <4>1. t = Target(r) /\ v = version[t]
          BY <1>0, <2>1, <3>2
        <4> QED
          BY <2>1, <4>1
      <3> QED
        BY <3>1, <3>2
    <2> QED
      BY <2>1, <2>2, <2>3 DEF Chronicle, Target
  <1>3. CASE UNCHANGED <<before, version, replaced>>
    BY <1>3 DEF Chronicle, Target
  <1> QED
    BY <1>1, <1>2, <1>3
    DEF Next, Handle, vars, Reject, Accept, Claim, ClaimAckLost, CommitClaim, ClaimFails,
        ClaimNothing, ClaimConflict, Lookup, Abandon, MissingPathParameter, Send, Receive,
        Unreachable, Complete, ServiceRefuses, Crash, Prune, Tick

(* The recorded state before is off only by the updates of other requests  *)
(* that came in between.                                                   *)
THEOREM BeforeIsHonest == Spec => []BeforeMissesOnlyOthers
  <1>1. Init => Chronicle
    BY ConstantsTyped DEF Init, Chronicle, Applied, Target
  <1>2. TypeInv /\ Chronicle => BeforeMissesOnlyOthers
    <2> SUFFICES ASSUME TypeInv, Chronicle, NEW r \in Requests, Applied(r), before[r] # 0
                 PROVE  /\ before[r] <= replaced[r]
                        /\ \A v \in before[r] .. replaced[r] - 1 :
                             \E x \in Requests \ {r} : Target(x) = Target(r) /\ replaced[x] = v
      BY DEF BeforeMissesOnlyOthers
    <2>1. before[r] \in Nat /\ replaced[r] \in Nat /\ version[Target(r)] \in Nat /\ Target(r) \in Targets
      BY ConstantsTyped DEF TypeInv, TypeOK, Target
    <2>2. before[r] <= replaced[r] /\ replaced[r] < version[Target(r)]
      BY DEF Chronicle
    <2>3. ASSUME NEW v \in before[r] .. replaced[r] - 1
          PROVE  \E x \in Requests \ {r} : Target(x) = Target(r) /\ replaced[x] = v
      <3>1. v \in 1 .. version[Target(r)] - 1 /\ v # replaced[r]
        BY <2>1, <2>2
      <3> QED
        BY <2>1, <3>1 DEF Chronicle
    <2> QED
      BY <2>2, <2>3
  <1> QED
    BY <1>1, <1>2, ChronicleStep, Truthful, PTL DEF Spec

-----------------------------------------------------------------------------

NobodyLost == \A r \in Requests : pc[r] \notin {"unrecorded", "dead"}

(* Without crashes, failures of the audit database and flaws of the        *)
(* catalog an approval is applied at most once and no claim is left behind.*)
THEOREM OnceWithoutFaults ==
  ASSUME ~MayCrash, ~AuditMayFail, Retention = 0, \A o \in Ops : Route[o] # "broken"
  PROVE  Spec => [](AppliedAtMostOnce /\ ClaimedIsCompleted)
  <1>1. Init => NobodyLost
    BY DEF Init, NobodyLost
  <1>2. TypeInv /\ NobodyLost /\ [Next]_vars => NobodyLost'
    <2> SUFFICES ASSUME TypeInv, NobodyLost, [Next]_vars PROVE NobodyLost'
      OBVIOUS
    <2> USE DEF NobodyLost, TypeInv, TypeOK, Finish, Goto
    <2>1. ASSUME NEW r \in Requests, Reject(r) \/ Complete(r) PROVE NobodyLost'
      BY <2>1 DEF Reject, Complete, Record
    <2>2. ASSUME NEW r \in Requests, Abandon(r) PROVE FALSE
      BY <2>2, ConstantsTyped DEF Abandon
    <2>3. ASSUME NEW r \in Requests,
                 Accept(r) \/ Claim(r) \/ ClaimNothing(r) \/ ClaimConflict(r) \/ Lookup(r)
                 \/ ReadBefore(r) \/ MissingPathParameter(r) \/ Send(r) \/ Receive(r)
                 \/ Unreachable(r)
          PROVE NobodyLost'
      BY <2>3 DEF Accept, Claim, ClaimNothing, ClaimConflict, Lookup, ReadBefore,
                  MissingPathParameter, Send, Receive, Unreachable
    <2>4. CASE UNCHANGED pc
      BY <2>4
    <2> QED
      BY <2>1, <2>2, <2>3, <2>4
      DEF Next, Handle, vars, ClaimAckLost, ClaimFails, ServiceApplies, ServiceRefuses, Crash,
          Prune, Tick
  <1>3. IInv /\ NobodyLost => AppliedAtMostOnce /\ ClaimedIsCompleted
    <2> SUFFICES ASSUME IInv, NobodyLost PROVE AppliedAtMostOnce /\ ClaimedIsCompleted
      OBVIOUS
    <2> USE DEF IInv
    <2>1. \A r \in Requests : Applied(r) => Sent(r)
      BY DEF WireIsTrue, Sent
    <2>2. \A r \in Requests : Sent(r) /\ Keyed(r) => Owns(r) \/ Settled(r)
      BY DEF SentIsAccounted, OwnsItsRow, Working, NobodyLost
    <2>3. AppliedAtMostOnce
      BY <2>1, <2>2 DEF AppliedAtMostOnce, Owns, Settled
    <2>4. ClaimedIsCompleted
      BY DEF ClaimedIsCompleted, RowsNameTheirRunner, NamesItsRunner, NobodyLost, Ended,
             TypeInv, TypeOK, Row
    <2> QED
      BY <2>3, <2>4
  <1> QED
    BY <1>1, <1>2, <1>3, Invariance, PTL DEF Spec, IInv

-----------------------------------------------------------------------------

(* The other side of the contract between BFF and services: a handler      *)
(* sends its update once, and the service the model assumes does no more   *)
(* than ServiceContract allows, through crashes, takeovers and lost        *)
(* answers.                                                                *)
THEOREM UsesServicesAsPromised == Spec => RespectsServiceContract
  <1> DEFINE Addr == [r \in Requests |-> Target(r)]
  <1>0. Addr \in [Requests -> Targets] /\ Addr' = Addr
    BY ConstantsTyped DEF Target
  <1>1. Init => Service!Init
    BY <1>0 DEF Init, Service!Init
  <1>2. TypeInv /\ SentIsAccounted /\ [Next]_vars => [Service!Next]_(Service!vars)
    <2> SUFFICES ASSUME TypeInv, SentIsAccounted, [Next]_vars
                 PROVE  Service!Next \/ UNCHANGED Service!vars
      OBVIOUS
    <2>1. ASSUME NEW r \in Requests, Send(r) PROVE Service!Arrives(r)
      <3>1. wire[r] = "idle"
        BY <2>1, NotYetSent DEF Send
      <3>2. Target(r) \in Targets /\ Addr' = [Addr EXCEPT ![r] = Target(r)]
        BY <1>0
      <3> QED
        BY <2>1, <3>1, <3>2 DEF Send, Service!Arrives
    <2>2. ASSUME NEW r \in Requests, ServiceApplies(r) PROVE Service!Applies(r)
      BY <1>0, <2>2 DEF ServiceApplies, Service!Applies
    <2>3. ASSUME NEW r \in Requests, ServiceRefuses(r) PROVE Service!Refuses(r)
      BY <1>0, <2>3 DEF ServiceRefuses, Service!Refuses
    <2>4. CASE UNCHANGED <<wire, version>>
      BY <1>0, <2>4 DEF Service!vars
    <2> QED
      BY <2>1, <2>2, <2>3, <2>4
      DEF Next, Handle, vars, Service!Next, Reject, Accept, Claim, ClaimAckLost, CommitClaim,
          ClaimFails, ClaimNothing, ClaimConflict, Lookup, Abandon, ReadBefore,
          MissingPathParameter, Receive, Unreachable, Complete, Crash, Prune, Tick
  <1> QED
    BY <1>1, <1>2, Invariance, PTL DEF Spec, IInv, Service!Spec, RespectsServiceContract

=============================================================================
