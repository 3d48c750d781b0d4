--------------------------- MODULE ToolLoopProofs ---------------------------
(* The safety of ToolLoop for every set of questions, calls and results,   *)
(* and every conversation: what the run of a question may name when it is  *)
(* the only one of its Executor.                                           *)
EXTENDS ToolLoop, FiniteSetTheorems, TLAPS

InLoop(a) == pc[a] \in {"idle", "gate", "decide", "flight"}

(* Every step adds at most one to barren. *)
StepsBound == \A a \in Asks : InLoop(a) => barren[a] < step[a]

(* What is under way is a call that was counted as sent. *)
FlightCalls == \A a \in Asks : pc[a] = "flight" => chosen[a] \in Calls /\ chosen[a] \in sent[a]

(* The types, with the two facts that make them inductive. *)
TypeInv == TypeOK /\ StepsBound /\ FlightCalls

(* One run at a time. *)
AtMostOneRuns == \A a, b \in Asks : Running(a) /\ Running(b) => a = b

(* The Executor knows what the one running question knows: its own         *)
(* conversation, what its own answers contained, and, of that, as          *)
(* unambiguous only what is determined.                                    *)
OwnKnowledge ==
  \A a \in Asks : Running(a) =>
    /\ known.query = Conversation(a)
    /\ known.seen \subseteq Conversation(a).ids \cup met[a]
    /\ known.seen \ known.ambiguous \subseteq Determined(a)

AloneInv == TypeInv /\ AtMostOneRuns /\ OwnKnowledge /\ NothingRestsOnAPick /\ ScreensAreResolved

-----------------------------------------------------------------------------
(* The identifiers of a result are identifiers. *)
LEMMA IdsInTyped == ASSUME NEW x \in Result PROVE IdsIn(x.items) \subseteq IDs
  <1>1. x.items \in Seq(Row)
    BY DEF Result
  <1>2. \A i \in DOMAIN x.items : x.items[i].ids \subseteq IDs
    <2> SUFFICES ASSUME NEW i \in DOMAIN x.items PROVE x.items[i].ids \subseteq IDs
      OBVIOUS
    <2>1. x.items[i] \in Row
      BY <1>1
    <2> QED BY <2>1 DEF Row
  <1> QED BY <1>2 DEF IdsIn

(* The knowledge of the Executor keeps its type. *)
LEMMA ResetTyped == ASSUME NEW w \in Words PROVE Reset(w) \in Knowledge
  BY DEF Reset, Knowledge, Words

LEMMA LearnTyped ==
  ASSUME NEW k \in Knowledge, NEW x \in Result, NEW s PROVE Learn(k, x, s) \in Knowledge
  <1>1. Marked(x, s, k.query) \subseteq IDs
    BY IdsInTyped DEF Marked
  <1> QED BY <1>1, IdsInTyped DEF Learn, Knowledge

LEMMA ConversationTyped == ASSUME NEW a \in Asks PROVE Conversation(a) \in Words
  BY ConstantsTyped DEF Conversation, Words

(* An identifier an answer leaves unmarked was unmarked before, was        *)
(* written, or is singled out by this answer.                              *)
LEMMA UnmarkedIsSingledOut ==
  ASSUME NEW a \in Asks, NEW c \in Calls, NEW x \in Result, NEW k \in Knowledge,
         k.query = Conversation(a), IsData(x),
         NEW id \in Learn(k, x, c \in Sorted).seen, id \notin Learn(k, x, c \in Sorted).ambiguous
  PROVE  \/ id \in k.seen \ k.ambiguous
         \/ id \in Conversation(a).ids
         \/ id \in SinglesOut(a, c, x)
  <1>1. CASE id \notin IdsIn(x.items)
    BY <1>1 DEF Learn
  <1>2. CASE id \in IdsIn(x.items) /\ x.kind # "list"
    BY <1>2 DEF SinglesOut
  <1>3. CASE id \in IdsIn(x.items) /\ x.kind = "list" /\ ~(Total(x) > 1)
    BY <1>3 DEF SinglesOut
  <1>4. CASE id \in IdsIn(x.items) /\ x.kind = "list" /\ Total(x) > 1
    <2>1. id \notin Marked(x, c \in Sorted, k.query)
      BY <1>4 DEF Learn
    <2>2. CASE id \in k.query.ids
      BY <2>2
    <2>3. CASE id \notin k.query.ids
      <3>1. PICK i \in DOMAIN x.items : LastRow(x, id, i) /\ Determinate(x, c \in Sorted, k.query, i)
        BY <2>1, <2>3, <1>4 DEF Marked
      <3>2. id \in x.items[i].ids /\ Determinate(x, c \in Sorted, Conversation(a), i)
        BY <3>1 DEF LastRow
      <3>3. SinglesOut(a, c, x) =
              UNION {x.items[n].ids : n \in {j \in DOMAIN x.items : Determinate(x, c \in Sorted, Conversation(a), j)}}
        BY <1>4 DEF SinglesOut
      <3> QED BY <3>2, <3>3
    <2> QED BY <2>2, <2>3
  <1> QED BY <1>1, <1>2, <1>3, <1>4

LEMMA SinglesOutTyped ==
  ASSUME NEW a \in Asks, NEW c \in Calls, NEW x \in Result
  PROVE  SinglesOut(a, c, x) \subseteq IDs
  <1>1. SinglesOut(a, c, x) \subseteq IdsIn(x.items)
    BY DEF SinglesOut, IdsIn
  <1> QED BY <1>1, IdsInTyped

LEMMA MarkTyped ==
  ASSUME incomplete \in [Asks -> BOOLEAN], NEW a \in Asks, MarkIncomplete(a)
  PROVE  incomplete' \in [Asks -> BOOLEAN]
  BY Zenon DEF MarkIncomplete

-----------------------------------------------------------------------------
(* The types, with the bound on barren and the call under way. *)
LEMMA RebuffStep ==
  ASSUME TypeInv, NEW a \in Asks, NEW c \in Calls, NEW v \in Verdicts, pc[a] = "decide", Rebuff(a, c, v),
         tried' \in [Asks -> SUBSET Calls], duplicated' \in [Asks -> BOOLEAN]
  PROVE  TypeInv'
  <1> USE ConstantsTyped DEF TypeInv, TypeOK, StepsBound, FlightCalls, InLoop, Goto, Rebuff, Choose, NextStep
  <1>1. incomplete' \in [Asks -> BOOLEAN]
    BY MarkTyped
  <1>2. pc' \in [Asks -> {"idle", "gate", "decide", "flight", "answer"} \cup Ends]
    OBVIOUS
  <1>3. step' \in [Asks -> 1..MaxSteps] /\ barren' \in [Asks -> 0..MaxSteps]
    OBVIOUS
  <1>4. chosen' \in [Asks -> Choices \cup {None}] /\ verdict' \in [Asks -> Verdicts]
    BY DEF Choices
  <1>5. TypeOK'
    BY <1>1, <1>2, <1>3, <1>4
  <1>6. StepsBound'
    BY SMTT(30)
  <1>7. FlightCalls'
    OBVIOUS
  <1> QED BY <1>5, <1>6, <1>7

LEMMA TypeStep == TypeInv /\ [Next]_vars => TypeInv'
  <1> SUFFICES ASSUME TypeInv, [Next]_vars PROVE TypeInv'
    OBVIOUS
  <1> USE ConstantsTyped DEF TypeInv, TypeOK, StepsBound, FlightCalls, InLoop, Goto, local, Modes, Ends,
                             Verdicts, Choices
  <1>1. ASSUME NEW a \in Asks, Start(a) PROVE TypeInv'
    BY <1>1, ConversationTyped, ResetTyped DEF Start
  <1>2. ASSUME NEW a \in Asks, Gate(a) \/ Decline(a) \/ ModelFails(a) \/ ChooseFinish(a) \/ Answer(a)
        PROVE TypeInv'
    BY <1>2 DEF Gate, Decline, ModelFails, ChooseFinish, Answer
  <1>3. ASSUME NEW a \in Asks, NEW p \in Proposals, ChooseProposal(a, p) PROVE TypeInv'
    BY <1>3, SMTT(30) DEF ChooseProposal, Conclude, Choose, NextStep, Judge
  <1>4. ASSUME NEW a \in Asks, NEW s \in Screens, ChooseScreen(a, s) PROVE TypeInv'
    BY <1>4, SMTT(30) DEF ChooseScreen, Conclude, Choose, NextStep, WithoutAmbiguity
  <1>5. ASSUME NEW a \in Asks, NEW c \in Calls, ChooseDuplicate(a, c) PROVE TypeInv'
    <2>1. duplicated' \in [Asks -> BOOLEAN] /\ tried' \in [Asks -> SUBSET Calls]
      BY <1>5 DEF ChooseDuplicate
    <2> HIDE DEF TypeInv
    <2> QED BY <1>5, <2>1, RebuffStep DEF ChooseDuplicate
  <1>6. ASSUME NEW a \in Asks, NEW c \in Calls, ChooseCall(a, c) PROVE TypeInv'
    <2>1. duplicated' \in [Asks -> BOOLEAN] /\ tried' \in [Asks -> SUBSET Calls]
      BY <1>6 DEF ChooseCall, Remember
    <2>2. CASE c \in Unfit /\ Rebuff(a, c, "unfit")
      <3> HIDE DEF TypeInv
      <3> QED BY <1>6, <2>1, <2>2, RebuffStep DEF ChooseCall
    <2>3. CASE c \notin Unfit /\ Judge(c) # "accepted" /\ Rebuff(a, c, Judge(c))
      <3>1. Judge(c) \in Verdicts
        BY DEF Judge
      <3> HIDE DEF TypeInv
      <3> QED BY <1>6, <2>1, <2>3, <3>1, RebuffStep DEF ChooseCall
    <2>4. CASE /\ Choose(a, c, "sent") /\ Goto(a, "flight")
               /\ sent' = [sent EXCEPT ![a] = @ \cup {c}]
               /\ UNCHANGED <<known, mode, step, executed, barren, incomplete, met, singled>>
      BY <1>6, <2>1, <2>4 DEF ChooseCall, Choose
    <2> QED BY <1>6, <2>2, <2>3, <2>4 DEF ChooseCall
  <1>7. ASSUME NEW a \in Asks, pc[a] = "flight", NEW x \in ResultsOf[chosen[a]], Return(a, x)
        PROVE TypeInv'
    <2>1. x \in Result
      BY <1>7
    <2>2. known' \in Knowledge
      BY <1>7, <2>1, LearnTyped DEF Return
    <2>3. met' \in [Asks -> SUBSET IDs] /\ singled' \in [Asks -> SUBSET IDs]
      BY <1>7, <2>1, IdsInTyped, SinglesOutTyped DEF Return
    <2> QED BY <1>7, <2>2, <2>3, SMTT(30) DEF Return, NextStep, MarkIncomplete
  <1>8. CASE MapRace
    BY <1>8 DEF MapRace, Running
  <1>9. CASE UNCHANGED vars
    BY <1>9 DEF vars
  <1> QED BY <1>1, <1>2, <1>3, <1>4, <1>5, <1>6, <1>7, <1>8, <1>9 DEF Next, Move

(* Every variable keeps its type; no run takes more than MaxSteps steps.   *)
THEOREM TypeCorrect == Spec => []TypeOK
  <1>1. Init => TypeInv
    BY ConstantsTyped, ResetTyped
       DEF Init, FreshLocals, TypeInv, TypeOK, StepsBound, FlightCalls, InLoop, Modes, Ends, Verdicts, Choices, Words
  <1>2. TypeInv => TypeOK
    BY DEF TypeInv
  <1> QED BY <1>1, <1>2, TypeStep, PTL DEF Spec

-----------------------------------------------------------------------------
(* One question at a time (orchctl, eval): Parallel = 1. *)

(* A run only starts when no other is under way. *)
LEMMA StartsAlone ==
  ASSUME Parallel = 1, NEW a \in Asks, Start(a)
  PROVE  \A b \in Asks : ~Running(b)
  <1> DEFINE S == {b \in Asks : Running(b)}
  <1>1. IsFiniteSet(S)
    BY ConstantsTyped, FS_Subset
  <1>2. Cardinality(S) \in Nat /\ Cardinality(S) < 1
    BY <1>1, FS_CardinalityType DEF Start
  <1>3. S = {}
    BY <1>1, <1>2, FS_EmptySet
  <1> QED BY <1>3

(* Whoever moves is running, and no move starts another run. *)
LEMMA MoversRun ==
  ASSUME TypeInv, NEW a \in Asks, Move(a)
  PROVE  Running(a) /\ \A b \in Asks : Running(b)' => Running(b)
  BY DEF TypeInv, TypeOK, Move, Running, Ends, Goto, Gate, Decline, ModelFails, ChooseFinish, Answer,
         ChooseProposal, ChooseScreen, ChooseDuplicate, ChooseCall, Conclude, Rebuff, Return, NextStep

(* What is judged acceptable while alone is determined; a screen's         *)
(* identifiers are known to the run itself.                                *)
LEMMA AcceptedIsDetermined ==
  ASSUME OwnKnowledge, NEW a \in Asks, Running(a), NEW c \in Choices
  PROVE  /\ Judge(c) = "accepted" => Args[c] \subseteq Determined(a)
         /\ WithoutAmbiguity(c) = "accepted" => Args[c] \subseteq Conversation(a).ids \cup met[a]
  BY DEF OwnKnowledge, Judge, WithoutAmbiguity, Unresolved, AmbiguousAmong

(* A move that leaves the Executor and the findings of the run alone keeps *)
(* its knowledge its own.                                                  *)
LEMMA SameKnowledge ==
  ASSUME OwnKnowledge, UNCHANGED <<known, met, singled>>, \A b \in Asks : Running(b)' => Running(b)
  PROVE  OwnKnowledge'
  BY DEF OwnKnowledge, Determined, Conversation

(* What an answer teaches the Executor, it teaches the run. *)
LEMMA ReturnKeepsOwnKnowledge ==
  ASSUME TypeInv, AtMostOneRuns, OwnKnowledge, NEW a \in Asks, pc[a] = "flight",
         NEW x \in ResultsOf[chosen[a]], Return(a, x), \A b \in Asks : Running(b)' => Running(b)
  PROVE  OwnKnowledge'
  <1> DEFINE c == chosen[a]
  <1>1. c \in Calls /\ x \in Result /\ known \in Knowledge
    BY ConstantsTyped DEF TypeInv, FlightCalls, TypeOK
  <1>2. Running(a)
    BY DEF Running, Ends
  <1>3. SUFFICES /\ known'.query = Conversation(a)
                 /\ known'.seen \subseteq Conversation(a).ids \cup met'[a]
                 /\ known'.seen \ known'.ambiguous \subseteq Conversation(a).ids \cup singled'[a]
    <2>1. \A b \in Asks : Running(b)' => b = a
      BY <1>2 DEF AtMostOneRuns
    <2> QED BY <2>1 DEF OwnKnowledge, Determined, Conversation
  <1>4. /\ known.query = Conversation(a)
        /\ known.seen \subseteq Conversation(a).ids \cup met[a]
        /\ known.seen \ known.ambiguous \subseteq Conversation(a).ids \cup singled[a]
    BY <1>2 DEF OwnKnowledge, Determined
  <1>5. known' = Learn(known, x, c \in Sorted)
    BY DEF Return
  <1>6. CASE ~IsData(x)
    BY <1>4, <1>5, <1>6 DEF Learn, Return, TypeInv, TypeOK
  <1>7. CASE IsData(x)
    <2>1. /\ met'[a] = met[a] \cup IdsIn(x.items)
          /\ singled'[a] = singled[a] \cup SinglesOut(a, c, x)
      BY <1>7 DEF Return, TypeInv, TypeOK
    <2>2. known'.query = Conversation(a) /\ known'.seen = known.seen \cup IdsIn(x.items)
      BY <1>4, <1>5, <1>7 DEF Learn
    <2>3. ASSUME NEW id \in known'.seen, id \notin known'.ambiguous
          PROVE  id \in Conversation(a).ids \cup singled'[a]
      <3>1. \/ id \in known.seen \ known.ambiguous
            \/ id \in Conversation(a).ids
            \/ id \in SinglesOut(a, c, x)
        BY <1>1, <1>4, <1>5, <1>7, <2>3, UnmarkedIsSingledOut
      <3> QED BY <1>4, <2>1, <3>1
    <2> QED BY <1>4, <2>1, <2>2, <2>3
  <1> QED BY <1>6, <1>7

(* A choice made leaves the two promises standing if it keeps them itself. *)
LEMMA ChoiceStep ==
  ASSUME TypeInv, NothingRestsOnAPick, ScreensAreResolved, NEW a \in Asks, NEW c \in Choices, NEW v,
         Choose(a, c, v), UNCHANGED <<met, singled>>,
         v \in {"sent", "accepted"} /\ c \notin Screens => Args[c] \subseteq Determined(a),
         \A b \in Asks : b # a => pc'[b] = pc[b],
         pc'[a] = "opened" => Args[c] \subseteq Conversation(a).ids \cup met[a]
  PROVE  NothingRestsOnAPick' /\ ScreensAreResolved'
  BY DEF TypeInv, TypeOK, NothingRestsOnAPick, ScreensAreResolved, Choose, Determined, Conversation

LEMMA AloneStep ==
  ASSUME Parallel = 1, AloneInv, TypeInv', [Next]_vars
  PROVE  AloneInv'
  <1> USE DEF AloneInv
  <1> DEFINE Kept == AtMostOneRuns' /\ OwnKnowledge' /\ NothingRestsOnAPick' /\ ScreensAreResolved'
  <1> SUFFICES Kept
    OBVIOUS
  <1>1. ASSUME NEW a \in Asks, Start(a) PROVE Kept
    <2>1. \A b \in Asks : ~Running(b)
      BY <1>1, StartsAlone
    <2>2. \A b \in Asks : Running(b)' => b = a
      BY <1>1, <2>1 DEF Start, Goto, Running, TypeInv, TypeOK
    <2>3. known' = Reset(Conversation(a)) /\ UNCHANGED local /\ pc'[a] # "opened"
      BY <1>1 DEF Start, Goto, TypeInv, TypeOK
    <2>4. OwnKnowledge'
      BY <2>2, <2>3 DEF OwnKnowledge, Reset, Determined, Conversation
    <2>5. NothingRestsOnAPick' /\ ScreensAreResolved'
      BY <1>1, <2>3 DEF NothingRestsOnAPick, ScreensAreResolved, local, Determined, Conversation, Start, Goto,
                        TypeInv, TypeOK
    <2> QED BY <2>2, <2>4, <2>5 DEF AtMostOneRuns
  <1>2. ASSUME NEW a \in Asks, Move(a) PROVE Kept
    <2>1. Running(a) /\ \A b \in Asks : Running(b)' => Running(b)
      BY <1>2, MoversRun
    <2>2. AtMostOneRuns'
      BY <2>1 DEF AtMostOneRuns
    <2>3. CASE Gate(a) \/ Decline(a) \/ ModelFails(a) \/ ChooseFinish(a) \/ Answer(a)
      <3>1. UNCHANGED <<known, chosen, verdict, met, singled>>
        BY <2>3 DEF Gate, Decline, ModelFails, ChooseFinish, Answer, local
      <3>2. \A b \in Asks : pc'[b] = "opened" => pc[b] = "opened"
        BY <2>3 DEF Gate, Decline, ModelFails, ChooseFinish, Answer, Goto, TypeInv, TypeOK
      <3> QED BY <2>1, <2>2, <3>1, <3>2, SameKnowledge
              DEF NothingRestsOnAPick, ScreensAreResolved, Determined, Conversation
    <2>4. ASSUME NEW p \in Proposals, ChooseProposal(a, p) PROVE Kept
      <3> DEFINE v == IF p \in Unfit THEN "unfit" ELSE Judge(p)
      <3>1. Choose(a, p, v) /\ UNCHANGED <<known, met, singled>>
        BY <2>4 DEF ChooseProposal, Conclude
      <3>2. pc'[a] # "opened" /\ \A b \in Asks : b # a => pc'[b] = pc[b]
        BY <2>4 DEF ChooseProposal, Conclude, NextStep, Goto, TypeInv, TypeOK
      <3>3. v \in {"sent", "accepted"} => Args[p] \subseteq Determined(a)
        BY <2>1, AcceptedIsDetermined DEF Choices, Judge
      <3> QED BY <2>1, <2>2, <3>1, <3>2, <3>3, SameKnowledge, ChoiceStep DEF Choices
    <2>5. ASSUME NEW s \in Screens, ChooseScreen(a, s) PROVE Kept
      <3>1. Choose(a, s, WithoutAmbiguity(s)) /\ UNCHANGED <<known, met, singled>>
        BY <2>5 DEF ChooseScreen, Conclude
      <3>2. \A b \in Asks : b # a => pc'[b] = pc[b]
        BY <2>5 DEF ChooseScreen, Conclude, NextStep, Goto, TypeInv, TypeOK
      <3>3. pc'[a] = "opened" => WithoutAmbiguity(s) = "accepted"
        BY <2>5 DEF ChooseScreen, Conclude, NextStep, Goto, TypeInv, TypeOK
      <3> QED BY <2>1, <2>2, <3>1, <3>2, <3>3, SameKnowledge, ChoiceStep, AcceptedIsDetermined DEF Choices
    <2>6. ASSUME NEW c \in Calls, NEW v, Rebuff(a, c, v), v \notin {"sent", "accepted"} PROVE Kept
      <3>1. Choose(a, c, v) /\ UNCHANGED <<known, met, singled>>
        BY <2>6 DEF Rebuff
      <3>2. pc'[a] # "opened" /\ \A b \in Asks : b # a => pc'[b] = pc[b]
        BY <2>6 DEF Rebuff, NextStep, Goto, TypeInv, TypeOK
      <3> QED BY <2>1, <2>2, <2>6, <3>1, <3>2, SameKnowledge, ChoiceStep DEF Choices
    <2>7. ASSUME NEW c \in Calls, ChooseDuplicate(a, c) PROVE Kept
      BY <2>6, <2>7 DEF ChooseDuplicate
    <2>8. ASSUME NEW c \in Calls, ChooseCall(a, c) PROVE Kept
      <3>1. CASE c \in Unfit /\ Rebuff(a, c, "unfit")
        BY <2>6, <3>1
      <3>2. CASE Judge(c) # "accepted" /\ Rebuff(a, c, Judge(c))
        BY <2>6, <3>2 DEF Judge
      <3>3. CASE Judge(c) = "accepted" /\ Choose(a, c, "sent") /\ Goto(a, "flight")
                 /\ UNCHANGED <<known, met, singled>>
        <4>1. pc'[a] # "opened" /\ \A b \in Asks : b # a => pc'[b] = pc[b]
          BY <3>3 DEF Goto, TypeInv, TypeOK
        <4> QED BY <2>1, <2>2, <3>3, <4>1, SameKnowledge, ChoiceStep, AcceptedIsDetermined DEF Choices
      <3> QED BY <2>8, <3>1, <3>2, <3>3 DEF ChooseCall
    <2>9. ASSUME pc[a] = "flight", NEW x \in ResultsOf[chosen[a]], Return(a, x) PROVE Kept
      <3>1. OwnKnowledge'
        BY <2>1, <2>9, ReturnKeepsOwnKnowledge
      <3>2. UNCHANGED <<chosen, verdict>> /\ \A b \in Asks : singled[b] \subseteq singled'[b] /\ met[b] \subseteq met'[b]
        BY <2>9 DEF Return, TypeInv, TypeOK
      <3>3. \A b \in Asks : pc'[b] = "opened" => pc[b] = "opened"
        BY <2>9 DEF Return, NextStep, Goto, TypeInv, TypeOK
      <3> QED BY <2>2, <3>1, <3>2, <3>3 DEF NothingRestsOnAPick, ScreensAreResolved, Determined, Conversation
    <2> HIDE DEF Kept
    <2> QED BY <1>2, <2>3, <2>4, <2>5, <2>7, <2>8, <2>9 DEF Move
  <1>3. CASE MapRace
    <2>1. PICK a, b \in Asks : a # b /\ pc[a] = "flight" /\ pc[b] \in {"decide", "flight"}
      BY <1>3 DEF MapRace
    <2>2. Running(a) /\ Running(b)
      BY <2>1 DEF Running, Ends
    <2> QED BY <2>1, <2>2 DEF AtMostOneRuns
  <1>4. CASE UNCHANGED vars
    BY <1>4 DEF vars, local, AtMostOneRuns, OwnKnowledge, NothingRestsOnAPick, ScreensAreResolved, Running,
                Determined, Conversation
  <1> HIDE DEF Kept
  <1> QED BY <1>1, <1>2, <1>3, <1>4 DEF Next

(* One question at a time, nothing a run asks a service for or proposes    *)
(* rests on a silent pick among several candidates: it was written in the  *)
(* conversation, or an answer of the same run singled it out.              *)
THEOREM NoSilentPickAlone == ASSUME Parallel = 1 PROVE Spec => []NothingRestsOnAPick
  <1>1. Init => AloneInv
    <2>1. Init => TypeInv
      BY ConstantsTyped, ResetTyped
         DEF Init, FreshLocals, TypeInv, TypeOK, StepsBound, FlightCalls, InLoop, Modes, Ends, Verdicts, Choices, Words
    <2> QED BY <2>1 DEF Init, FreshLocals, AloneInv, AtMostOneRuns, OwnKnowledge, NothingRestsOnAPick,
                        ScreensAreResolved, Running
  <1>2. AloneInv /\ [Next]_vars => AloneInv'
    BY AloneStep, TypeStep DEF AloneInv
  <1>3. AloneInv => NothingRestsOnAPick
    BY DEF AloneInv
  <1> QED BY <1>1, <1>2, <1>3, PTL DEF Spec

(* One question at a time, a screen opens only with identifiers of the     *)
(* conversation or of the run's own answers.                               *)
THEOREM ScreensResolvedAlone == ASSUME Parallel = 1 PROVE Spec => []ScreensAreResolved
  <1>1. Init => AloneInv
    <2>1. Init => TypeInv
      BY ConstantsTyped, ResetTyped
         DEF Init, FreshLocals, TypeInv, TypeOK, StepsBound, FlightCalls, InLoop, Modes, Ends, Verdicts, Choices, Words
    <2> QED BY <2>1 DEF Init, FreshLocals, AloneInv, AtMostOneRuns, OwnKnowledge, NothingRestsOnAPick,
                        ScreensAreResolved, Running
  <1>2. AloneInv /\ [Next]_vars => AloneInv'
    BY AloneStep, TypeStep DEF AloneInv
  <1>3. AloneInv => ScreensAreResolved
    BY DEF AloneInv
  <1> QED BY <1>1, <1>2, <1>3, PTL DEF Spec

-----------------------------------------------------------------------------
(* However many questions share the Executor. *)

(* What was sent was tried; what was executed was sent; a run that left    *)
(* the loop early was executed.                                            *)
LoopInv ==
  /\ TypeInv
  /\ \A a \in Asks : sent[a] \subseteq tried[a]
  /\ \A a \in Asks : executed[a] => sent[a] # {}
  /\ \A a \in Asks : pc[a] \in {"answer", "answered"} /\ step[a] < MaxSteps => executed[a]

LEMMA LoopStep == LoopInv /\ [Next]_vars => LoopInv'
  <1> SUFFICES ASSUME LoopInv, [Next]_vars PROVE LoopInv'
    OBVIOUS
  <1>0. TypeInv /\ TypeInv'
    BY TypeStep DEF LoopInv
  <1> USE DEF LoopInv
  <1> HIDE DEF TypeInv
  <1> DEFINE Kept == /\ \A a \in Asks : sent'[a] \subseteq tried'[a]
                     /\ \A a \in Asks : executed'[a] => sent'[a] # {}
                     /\ \A a \in Asks : pc'[a] \in {"answer", "answered"} /\ step'[a] < MaxSteps => executed'[a]
  <1>1. ASSUME NEW a \in Asks, Start(a) \/ Gate(a) \/ Decline(a) \/ ModelFails(a) \/ Answer(a) PROVE Kept
    BY <1>0, <1>1 DEF Start, Gate, Decline, ModelFails, Answer, Goto, local, TypeInv, TypeOK
  <1>2. ASSUME NEW a \in Asks, ChooseFinish(a) PROVE Kept
    BY <1>0, <1>2 DEF ChooseFinish, OffersFinish, Forced, Goto, local, TypeInv, TypeOK
  <1>3. ASSUME NEW a \in Asks, NEW p \in Proposals, ChooseProposal(a, p) PROVE Kept
    BY <1>0, <1>3 DEF ChooseProposal, Conclude, NextStep, Goto, TypeInv, TypeOK
  <1>4. ASSUME NEW a \in Asks, NEW s \in Screens, ChooseScreen(a, s) PROVE Kept
    BY <1>0, <1>4 DEF ChooseScreen, Conclude, NextStep, Goto, TypeInv, TypeOK
  <1>5. ASSUME NEW a \in Asks, NEW c \in Calls, ChooseDuplicate(a, c) PROVE Kept
    BY <1>0, <1>5 DEF ChooseDuplicate, Rebuff, NextStep, Goto, TypeInv, TypeOK
  <1>6. ASSUME NEW a \in Asks, NEW c \in Calls, ChooseCall(a, c) PROVE Kept
    BY <1>0, <1>6 DEF ChooseCall, Remember, Rebuff, NextStep, Goto, TypeInv, TypeOK
  <1>7. ASSUME NEW a \in Asks, pc[a] = "flight", NEW x \in ResultsOf[chosen[a]], Return(a, x) PROVE Kept
    <2>1. sent[a] # {}
      BY <1>0, <1>7 DEF TypeInv, FlightCalls
    <2> QED BY <1>0, <1>7, <2>1 DEF Return, NextStep, Goto, TypeInv, TypeOK
  <1>8. CASE MapRace
    BY <1>0, <1>8 DEF MapRace, local, TypeInv, TypeOK
  <1>9. CASE UNCHANGED vars
    BY <1>0, <1>9 DEF vars, local
  <1>10. LoopInv' <=> TypeInv' /\ Kept
    OBVIOUS
  <1> HIDE DEF Kept, LoopInv
  <1> QED BY <1>0, <1>1, <1>2, <1>3, <1>4, <1>5, <1>6, <1>7, <1>8, <1>9, <1>10 DEF Next, Move

LEMMA LoopInvariant == Spec => []LoopInv
  <1>1. Init => LoopInv
    BY ConstantsTyped, ResetTyped
       DEF Init, FreshLocals, LoopInv, TypeInv, TypeOK, StepsBound, FlightCalls, InLoop, Modes, Ends, Verdicts, Choices, Words
  <1> QED BY <1>1, LoopStep, PTL DEF Spec

(* A run finishes before its last step only after an answer of a service,  *)
(* also when other runs use the Executor at the same time.                 *)
THEOREM FinishRestsOnAnAnswer == Spec => []FinishNeedsAnAnswer
  <1>1. LoopInv => FinishNeedsAnAnswer
    BY DEF LoopInv, FinishNeedsAnAnswer
  <1> QED BY <1>1, LoopInvariant, PTL

(* No run hands a service the same call twice, whatever came back.         *)
THEOREM NeverAskedTwice == Spec => NoServiceIsAskedTwice
  <1> DEFINE Step == \A a \in Asks : pc[a] # "flight" /\ pc'[a] = "flight" => chosen'[a] \notin sent[a]
  <1>1. LoopInv /\ [Next]_vars => [Step]_vars
    <2> SUFFICES ASSUME LoopInv, Next, NEW b \in Asks, pc[b] # "flight", pc'[b] = "flight"
                 PROVE  chosen'[b] \notin sent[b]
      BY DEF vars
    <2> USE DEF LoopInv, TypeInv, TypeOK, Goto
    <2>1. ASSUME NEW a \in Asks, NEW c \in Calls, ChooseCall(a, c) PROVE chosen'[b] \notin sent[b]
      BY <2>1 DEF ChooseCall, Rebuff, NextStep, Choose
    <2>2. ASSUME NEW a \in Asks, Start(a) \/ Gate(a) \/ Decline(a) \/ ModelFails(a) \/ ChooseFinish(a) \/ Answer(a)
          PROVE  FALSE
      BY <2>2 DEF Start, Gate, Decline, ModelFails, ChooseFinish, Answer
    <2>3. ASSUME NEW a \in Asks, NEW c \in Choices, ChooseProposal(a, c) \/ ChooseScreen(a, c) \/ ChooseDuplicate(a, c)
          PROVE  FALSE
      BY <2>3 DEF ChooseProposal, ChooseScreen, ChooseDuplicate, Conclude, Rebuff, NextStep
    <2>4. ASSUME NEW a \in Asks, pc[a] = "flight", NEW x \in ResultsOf[chosen[a]], Return(a, x) PROVE FALSE
      BY <2>4 DEF Return, NextStep
    <2>5. CASE MapRace
      BY <2>5 DEF MapRace
    <2> QED BY <2>1, <2>2, <2>3, <2>4, <2>5 DEF Next, Move, Choices
  <1> QED BY <1>1, LoopInvariant, PTL DEF Spec, NoServiceIsAskedTwice

(* Once the stop guard has spoken, a run can do nothing but finish or fail:*)
(* no call, no screen, no proposal and no further step (loop.go:377-380).  *)
THEOREM ForcedRunsFinish == Spec => ForcedRunsOnlyFinish
  <1> DEFINE Step == \A a \in Asks : Forced(a) /\ pc[a] = "decide"
                       => sent'[a] = sent[a] /\ pc'[a] \notin {"opened", "proposed"} /\ step'[a] = step[a]
  <1>1. TypeInv /\ [Next]_vars => [Step]_vars
    <2> DEFINE Finishes(b) == sent'[b] = sent[b] /\ pc'[b] \notin {"opened", "proposed"} /\ step'[b] = step[b]
    <2> SUFFICES ASSUME TypeOK, Next, NEW b \in Asks, Forced(b), pc[b] = "decide" PROVE Finishes(b)
      BY DEF vars, TypeInv
    <2> USE DEF TypeOK, Goto
    <2>1. ~OffersTool(b) /\ ~OffersScreen(b) /\ ~OffersProposal(b)
      BY DEF OffersTool, OffersScreen, OffersProposal
    <2> HIDE DEF Forced
    <2>2. ASSUME NEW a \in Asks,
                 Start(a) \/ Gate(a) \/ Decline(a) \/ ModelFails(a) \/ ChooseFinish(a) \/ Answer(a)
          PROVE  Finishes(b)
      BY <2>2 DEF Start, Gate, Decline, ModelFails, ChooseFinish, Answer, local
    <2>3. ASSUME NEW a \in Asks, NEW c \in Choices, ChooseProposal(a, c) \/ ChooseScreen(a, c)
          PROVE  Finishes(b)
      <3>1. a # b
        BY <2>1, <2>3 DEF ChooseProposal, ChooseScreen
      <3> QED BY <2>3, <3>1 DEF ChooseProposal, ChooseScreen, Conclude, NextStep
    <2>4. ASSUME NEW a \in Asks, NEW c \in Calls, ChooseDuplicate(a, c) \/ ChooseCall(a, c)
          PROVE  Finishes(b)
      <3>1. a # b
        BY <2>1, <2>4 DEF ChooseDuplicate, ChooseCall
      <3> QED BY <2>4, <3>1 DEF ChooseDuplicate, ChooseCall, Rebuff, NextStep
    <2>5. ASSUME NEW a \in Asks, pc[a] = "flight", NEW x \in ResultsOf[chosen[a]], Return(a, x)
          PROVE  Finishes(b)
      BY <2>5 DEF Return, NextStep
    <2>6. CASE MapRace
      BY <2>6 DEF MapRace, local
    <2> QED BY <2>2, <2>3, <2>4, <2>5, <2>6 DEF Next, Move, Choices
  <1>2. Spec => []TypeInv
    BY LoopInvariant, PTL DEF LoopInv
  <1> QED BY <1>1, <1>2, PTL DEF Spec, ForcedRunsOnlyFinish

=============================================================================
