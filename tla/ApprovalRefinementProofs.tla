---------------------- MODULE ApprovalRefinementProofs ----------------------
(* CommandExecution implements ApprovedOperation, for every value of the   *)
(* constants with rows kept for ever (Retention = 0, the default).       *)
(* The row of a key is the state of the approval, its execution_id the     *)
(* holder; every step of a handler is a step of the approval or a stutter. *)
EXTENDS CommandExecutionProofs

StateMap  == [k \in Keys |-> IF row[k] = NoRow THEN "unseen"
                             ELSE IF row[k].status = "running" THEN "running"
                             ELSE "recorded"]
HolderMap == [k \in Keys |-> IF row[k] = NoRow THEN {} ELSE {row[k].id}]
HandedMap == [k \in Keys |-> {r \in Requests : Keyed(r) /\ Key(r) = k /\ Sent(r)}]
GoneMap   == {r \in Requests : pc[r] \in {"unrecorded", "dead"}}

(* A function that differs from another at one argument only. *)
LEMMA Pointwise ==
  ASSUME NEW S, NEW f, NEW g, f = [x \in S |-> f[x]], g = [x \in S |-> g[x]],
         NEW a \in S, NEW v, g[a] = v, \A x \in S \ {a} : g[x] = f[x]
  PROVE  g = [f EXCEPT ![a] = v]
  OBVIOUS

(* The maps after a step, key by key. *)
LEMMA MapsPrimed ==
  /\ StateMap' = [k \in Keys |-> IF row'[k] = NoRow THEN "unseen"
                                 ELSE IF row'[k].status = "running" THEN "running"
                                 ELSE "recorded"]
  /\ HolderMap' = [k \in Keys |-> IF row'[k] = NoRow THEN {} ELSE {row'[k].id}]
  /\ HandedMap' = [k \in Keys |-> {r \in Requests : Keyed(r) /\ Key(r) = k /\ wire'[r] # "idle"}]
  BY DEF StateMap, HolderMap, HandedMap, Sent, Keyed, Key, Keys, IdempotencyKey

(* Steps that move neither a row nor the set of who was handed over.       *)
LEMMA MapsFrame ==
  /\ UNCHANGED row => UNCHANGED <<StateMap, HolderMap>>
  /\ UNCHANGED wire => UNCHANGED HandedMap
  BY DEF StateMap, HolderMap, HandedMap, Sent, Keyed, Key, Keys, IdempotencyKey

(* Requests that end without recording, and nothing else: Vanish. *)
LEMMA VanishStep ==
  ASSUME UNCHANGED <<StateMap, HolderMap, HandedMap>>,
         \A x \in Requests : x \in GoneMap => x \in GoneMap'
  PROVE  [Approval!Next]_(Approval!vars)
  <1>1. GoneMap' = GoneMap \cup (GoneMap' \ GoneMap) /\ GoneMap' \ GoneMap \in SUBSET (Requests \ GoneMap)
    BY DEF GoneMap
  <1> QED
    BY <1>1 DEF Approval!Next, Approval!Vanish, Approval!vars,
                StateMap, HolderMap, HandedMap, GoneMap

(* A claim takes an approval nobody has seen, or one whose holder is gone: *)
(* a holder at work has a claim too young to be taken over.                *)
LEMMA ClaimIsTake ==
  ASSUME IInv, NEW r \in Requests, Claim(r) \/ ClaimAckLost(r)
  PROVE  Approval!Next
  <1> USE DEF IInv, TypeInv, TypeOK
  <1>1. CommitClaim(r) /\ pc[r] = "claim" /\ Key(r) \in Keys /\ UNCHANGED wire
    BY KeyInKeys DEF Claim, ClaimAckLost, CommitClaim
  <1>2. StateMap' = [StateMap EXCEPT ![Key(r)] = "running"]
    <2>1. /\ StateMap'[Key(r)] = "running"
          /\ \A k \in Keys \ {Key(r)} : StateMap'[k] = StateMap[k]
      BY <1>1, ClaimRobsNobody, MapsPrimed DEF StateMap
    <2> QED
      BY <1>1, <2>1, MapsPrimed, Pointwise DEF StateMap
  <1>3. HolderMap' = [HolderMap EXCEPT ![Key(r)] = {r}]
    <2>1. /\ HolderMap'[Key(r)] = {r}
          /\ \A k \in Keys \ {Key(r)} : HolderMap'[k] = HolderMap[k]
      <3>1. row'[Key(r)] # NoRow /\ row'[Key(r)].id = r
        BY <1>1, ClaimRobsNobody
      <3>2. \A k \in Keys \ {Key(r)} : row'[k] = row[k]
        BY <1>1, ClaimRobsNobody
      <3> QED
        BY <1>1, <3>1, <3>2, MapsPrimed DEF HolderMap
    <2> QED
      BY <1>1, <2>1, MapsPrimed, Pointwise DEF HolderMap
  <1>4. r \notin GoneMap /\ GoneMap' \in {GoneMap, GoneMap \cup {r}}
    <2>1. CASE Claim(r)
      <3>1. GoneMap' = GoneMap
        BY <1>1, <2>1 DEF Claim, Goto, GoneMap
      <3> QED
        BY <1>1, <3>1 DEF GoneMap
    <2>2. CASE ClaimAckLost(r)
      <3>1. GoneMap' = GoneMap \cup {r}
        BY <1>1, <2>2 DEF ClaimAckLost, Finish, GoneMap
      <3> QED
        BY <1>1, <3>1 DEF GoneMap
    <2> QED
      BY <2>1, <2>2
  <1>5. StateMap[Key(r)] = "unseen"
          \/ (StateMap[Key(r)] = "running" /\ HolderMap[Key(r)] \subseteq GoneMap)
    <2>1. CASE Fresh(Key(r))
      BY <1>1, <2>1 DEF Fresh, StateMap
    <2>2. CASE Abandoned(Key(r))
      <3>1. row[Key(r)] # NoRow /\ row[Key(r)].status = "running" /\ row[Key(r)].id \in Requests
        BY <1>1, <2>2 DEF Abandoned, Row
      <3>2. NamesItsRunner(Key(r))
        BY <1>1, <3>1 DEF RowsNameTheirRunner
      <3>3. ~Working(row[Key(r)].id)
        BY <1>1, <3>1, <3>2, ClaimRobsNobody DEF NamesItsRunner
      <3>4. row[Key(r)].id \in GoneMap
        BY <3>1, <3>2, <3>3 DEF NamesItsRunner, Working, GoneMap
      <3> QED
        BY <1>1, <3>1, <3>4 DEF StateMap, HolderMap
    <2> QED
      BY <1>1, <2>1, <2>2 DEF CommitClaim
  <1>6. UNCHANGED HandedMap
    BY <1>1, MapsFrame
  <1>7. Approval!Take(Key(r), r)
    BY <1>1, <1>2, <1>3, <1>4, <1>5, <1>6
    DEF Approval!Take, StateMap, HolderMap, HandedMap, GoneMap
  <1> QED
    BY <1>1, <1>7 DEF Approval!Next

(* Send hands the approval of a keyed request over, once; without a key it *)
(* concerns no approval.                                                   *)
LEMMA SendIsHand ==
  ASSUME IInv, NEW r \in Requests, Send(r)
  PROVE  [Approval!Next]_(Approval!vars)
  <1> USE DEF IInv, TypeInv, TypeOK
  <1>1. /\ pc[r] = "send" /\ wire[r] = "idle" /\ wire' = [wire EXCEPT ![r] = "inflight"]
        /\ UNCHANGED row /\ GoneMap' = GoneMap
    BY NotYetSent DEF Send, Goto, GoneMap
  <1>2. UNCHANGED <<StateMap, HolderMap>>
    BY <1>1, MapsFrame
  <1>3. CASE ~Keyed(r)
    <2>1. UNCHANGED HandedMap
      BY <1>1, <1>3 DEF HandedMap, Sent, Keyed, Key, Keys, IdempotencyKey
    <2> QED
      BY <1>1, <1>2, <2>1, VanishStep
  <1>4. CASE Keyed(r)
    <2>1. Key(r) \in Keys /\ Owns(r)
      BY <1>1, <1>4, KeyInKeys DEF OwnsItsRow, Working
    <2>2. StateMap[Key(r)] = "running" /\ HolderMap[Key(r)] = {r}
      BY <2>1 DEF Owns, StateMap, HolderMap
    <2>3. r \notin GoneMap /\ r \notin HandedMap[Key(r)]
      BY <1>1, <2>1 DEF GoneMap, HandedMap, Sent
    <2>4. HandedMap' = [HandedMap EXCEPT ![Key(r)] = HandedMap[Key(r)] \cup {r}]
      <3>1. /\ HandedMap'[Key(r)] = HandedMap[Key(r)] \cup {r}
            /\ \A k \in Keys \ {Key(r)} : HandedMap'[k] = HandedMap[k]
        BY <1>1, <1>4, <2>1, MapsPrimed DEF HandedMap, Sent
      <3> QED
        BY <2>1, <3>1, MapsPrimed, Pointwise DEF HandedMap
    <2>5. Approval!Hand(Key(r), r)
      BY <1>1, <1>2, <2>2, <2>3, <2>4 DEF Approval!Hand, StateMap, HolderMap, HandedMap, GoneMap
    <2> QED
      BY <2>1, <2>5 DEF Approval!Next
  <1> QED
    BY <1>3, <1>4

(* Complete records the result of a holder that is not gone; if the write  *)
(* fails the holder vanishes.                                              *)
LEMMA CompleteIsRecord ==
  ASSUME IInv, NEW r \in Requests, Complete(r)
  PROVE  [Approval!Next]_(Approval!vars)
  <1> USE DEF IInv, TypeInv, TypeOK
  <1>1. /\ pc[r] = "complete" /\ outcome[r] \in Statuses /\ UNCHANGED wire
        /\ \A x \in Requests \ {r} : pc'[x] = pc[x]
    BY DEF Complete, Record, Finish, CompletesWithStatus
  <1>2. UNCHANGED HandedMap /\ \A x \in Requests : x \in GoneMap => x \in GoneMap'
    BY <1>1, MapsFrame DEF GoneMap
  <1>3. CASE UNCHANGED row
    BY <1>2, <1>3, MapsFrame, VanishStep
  <1>4. CASE Keyed(r) /\ UpdateRow(r) /\ pc'[r] = "done"
    <2>1. Key(r) \in Keys /\ Owns(r) /\ row[Key(r)] \in Row
      BY <1>1, <1>4, KeyInKeys DEF OwnsItsRow, Working, Owns
    <2>2. \A k \in Keys \ {Key(r)} : row'[k] = row[k]
      BY <1>4 DEF UpdateRow, RowsNameTheirRunner, NamesItsRunner
    <2>3. row'[Key(r)] = [row[Key(r)] EXCEPT !.status = outcome[r]]
      BY <1>4, <2>1 DEF UpdateRow, Owns
    <2>4. row'[Key(r)] \in Row /\ row'[Key(r)].status # "running" /\ row'[Key(r)].id = r
      BY <1>1, <2>1, <2>3 DEF Row, Owns, Statuses
    <2>5. row'[Key(r)] # NoRow
      BY <2>4, NoRowNotInRow
    <2>6. StateMap[Key(r)] = "running" /\ HolderMap[Key(r)] = {r}
      BY <2>1 DEF Owns, StateMap, HolderMap
    <2>7. StateMap' = [StateMap EXCEPT ![Key(r)] = "recorded"]
      <3>1. /\ StateMap'[Key(r)] = "recorded"
            /\ \A k \in Keys \ {Key(r)} : StateMap'[k] = StateMap[k]
        BY <2>1, <2>2, <2>4, <2>5, MapsPrimed DEF StateMap
      <3> QED
        BY <2>1, <3>1, MapsPrimed, Pointwise DEF StateMap
    <2>8. HolderMap' = HolderMap
      BY <2>1, <2>2, <2>4, <2>5, MapsPrimed DEF Owns, HolderMap
    <2>9. r \notin GoneMap /\ GoneMap' = GoneMap
      BY <1>1, <1>4 DEF GoneMap
    <2>10. Approval!RecordResult(Key(r), r)
      BY <1>2, <2>6, <2>7, <2>8, <2>9
      DEF Approval!RecordResult, StateMap, HolderMap, HandedMap, GoneMap
    <2> QED
      BY <2>1, <2>10 DEF Approval!Next
  <1> QED
    BY <1>3, <1>4 DEF Complete, Finish

THEOREM ImplementsApproval == Retention = 0 /\ Spec => ImplementsApprovedOperation
  <1> SUFFICES ASSUME Retention = 0 PROVE Spec => ImplementsApprovedOperation
    OBVIOUS
  <1>1. Init => Approval!Init
    BY DEF Init, Approval!Init, Sent
  <1>2. IInv /\ [Next]_vars => [Approval!Next]_(Approval!vars)
    <2> SUFFICES ASSUME IInv, [Next]_vars PROVE [Approval!Next]_(Approval!vars)
      OBVIOUS
    <2>1. ASSUME NEW r \in Requests,
                 Reject(r) \/ Accept(r) \/ ClaimFails(r) \/ ClaimNothing(r) \/ ClaimConflict(r)
                 \/ Lookup(r) \/ Abandon(r) \/ ReadBefore(r) \/ MissingPathParameter(r)
                 \/ Receive(r) \/ Unreachable(r)
          PROVE [Approval!Next]_(Approval!vars)
      <3>1. UNCHANGED <<row, wire>> /\ pc[r] \notin {"unrecorded", "dead"}
            /\ \A x \in Requests \ {r} : pc'[x] = pc[x]
        BY <2>1 DEF Reject, Record, Accept, ClaimFails, ClaimNothing, ClaimConflict, Lookup,
                    Abandon, ReadBefore, MissingPathParameter, Receive, Unreachable,
                    Finish, Goto, IInv, TypeInv, TypeOK
      <3>2. \A x \in Requests : x \in GoneMap => x \in GoneMap'
        BY <3>1 DEF GoneMap
      <3> QED
        BY <3>1, <3>2, MapsFrame, VanishStep
    <2>2. ASSUME NEW r \in Requests, Claim(r) \/ ClaimAckLost(r)
          PROVE [Approval!Next]_(Approval!vars)
      BY <2>2, ClaimIsTake
    <2>3. ASSUME NEW r \in Requests, Send(r) PROVE [Approval!Next]_(Approval!vars)
      BY <2>3, SendIsHand
    <2>4. ASSUME NEW r \in Requests, Complete(r) PROVE [Approval!Next]_(Approval!vars)
      BY <2>4, CompleteIsRecord
    <2>5. ASSUME NEW r \in Requests, ServiceApplies(r) \/ ServiceRefuses(r)
          PROVE [Approval!Next]_(Approval!vars)
      <3>1. UNCHANGED <<row, pc>> /\ \A x \in Requests : Sent(x)' <=> Sent(x)
        BY <2>5 DEF ServiceApplies, ServiceRefuses, Sent, IInv, TypeInv, TypeOK
      <3>2. UNCHANGED <<HandedMap, GoneMap>>
        BY <3>1 DEF HandedMap, GoneMap, Keyed, Key, Keys, IdempotencyKey
      <3> QED
        BY <3>1, <3>2, MapsFrame, VanishStep
    <2>6. ASSUME Crash PROVE [Approval!Next]_(Approval!vars)
      <3>1. UNCHANGED <<row, wire>> /\ \A x \in Requests : x \in GoneMap => x \in GoneMap'
        BY <2>6 DEF Crash, Active, GoneMap
      <3> QED
        BY <3>1, MapsFrame, VanishStep
    <2>7. CASE Prune
      BY <2>7 DEF Prune
    <2>8. CASE Tick \/ UNCHANGED vars
      <3>1. UNCHANGED <<row, wire, pc>>
        BY <2>8 DEF Tick, vars
      <3>2. UNCHANGED GoneMap
        BY <3>1 DEF GoneMap
      <3> QED
        BY <3>1, <3>2, MapsFrame, VanishStep
    <2> QED
      BY <2>1, <2>2, <2>3, <2>4, <2>5, <2>6, <2>7, <2>8 DEF Next, Handle
  <1> QED
    BY <1>1, <1>2, Invariance, PTL DEF Spec, ImplementsApprovedOperation, Approval!Spec

=============================================================================
