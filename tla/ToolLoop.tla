------------------------------ MODULE ToolLoop ------------------------------
(***************************************************************************)
(* Runner.Run (loop.go): the steps in which a language model, bound by a   *)
(* schema, chooses calls of read-only tools, and the run that ends in an   *)
(* answer, a screen to open or an update to propose.  The model's choices  *)
(* are nondeterministic within the schema it is given.                     *)
(*                                                                         *)
(* Every question runs in the goroutine of its request, but all of them    *)
(* share one Runner and so one Executor: `known` is the state the Executor *)
(* keeps of "one conversation", and `Parallel` the number of questions     *)
(* that may run at a time.  One at a time is the test drivers orchctl and  *)
(* eval; the BFF has no limit.                                             *)
(***************************************************************************)
EXTENDS IdentifierGuard, FiniteSets

CONSTANTS
  Asks,       \* the questions
  Calls,      \* tool calls as the model writes them: a tool with arguments
  Proposals,  \* update proposals: a command with arguments
  Screens,    \* screens to open: a route with its clean filters
  Args,       \* [choice -> SUBSET IDs]: identifiers among the arguments
  Unfit,      \* calls and proposals refused for their form: unknown tool,
              \* value outside an enum, missing or mistyped parameter
  Sorted,     \* the calls with a sort argument
  ResultsOf,  \* [Calls -> SUBSET Result]: what a service may answer
  Typed,      \* [Asks -> Words]: what the user wrote, in this turn or before
  Shown,      \* [Asks -> Words]: what the earlier answers of the history say
  IntentGate, StopGuard,   \* options of the run
  MaxSteps,   \* Options.MaxSteps
  Parallel,
  None        \* no choice yet

Choices == Calls \cup Proposals \cup Screens

ASSUME ConstantsTyped ==
  /\ Args \in [Choices -> SUBSET IDs]
  /\ Unfit \subseteq Calls \cup Proposals /\ Sorted \subseteq Calls
  /\ ResultsOf \in [Calls -> SUBSET Result]
  /\ {Typed, Shown} \subseteq [Asks -> Words]
  /\ {IntentGate, StopGuard} \subseteq BOOLEAN
  /\ {MaxSteps, Parallel} \subseteq Nat \ {0}
  /\ None \notin Choices
  /\ IsFiniteSet(Asks)

ASSUME ChoicesDisjoint ==
  /\ Calls \cap Proposals = {} /\ Calls \cap Screens = {} /\ Proposals \cap Screens = {}

VARIABLES
  known,       \* the Executor: seenIDs, ambiguousIDs, query (shared)
  pc,          \* where the run of a question stands
  mode,        \* what the intent gate made of it; "open" is no verdict
  step,        \* the loop's i
  executed,    \* some call came back without an error of the Executor
  barren,      \* results in a row that brought nothing
  duplicated,  \* a call was repeated
  tried,       \* seenCalls
  chosen,      \* the last choice of the model
  verdict,     \* what became of it
  incomplete,  \* Trace.Incomplete
  sent,        \* the calls of this question handed to a service
  met,         \* the identifiers its own answers contained
  singled      \* those of them some own answer singled out

local == <<mode, step, executed, barren, duplicated, tried, chosen, verdict,
           incomplete, sent, met, singled>>
vars == <<known, pc, local>>

Modes == {"open", "tool", "navigate", "write"}
Ends == {"answered", "opened", "proposed", "declined", "error", "dead"}
Verdicts == {"none", "sent", "duplicate", "unfit", "unresolved", "ambiguous", "accepted"}

TypeOK ==
  /\ known \in Knowledge
  /\ pc \in [Asks -> {"idle", "gate", "decide", "flight", "answer"} \cup Ends]
  /\ mode \in [Asks -> Modes]
  /\ step \in [Asks -> 1..MaxSteps]
  /\ executed \in [Asks -> BOOLEAN] /\ duplicated \in [Asks -> BOOLEAN]
  /\ barren \in [Asks -> 0..MaxSteps]
  /\ tried \in [Asks -> SUBSET Calls] /\ sent \in [Asks -> SUBSET Calls]
  /\ chosen \in [Asks -> Choices \cup {None}] /\ verdict \in [Asks -> Verdicts]
  /\ incomplete \in [Asks -> BOOLEAN]
  /\ met \in [Asks -> SUBSET IDs] /\ singled \in [Asks -> SUBSET IDs]

(* The whole conversation: Reset is given the history and the question. *)
Conversation(a) == [ids   |-> Typed[a].ids \cup Shown[a].ids,
                    names |-> Typed[a].names \cup Shown[a].names]

FreshLocals ==
  /\ mode = [a \in Asks |-> "open"]
  /\ step = [a \in Asks |-> 1]
  /\ executed = [a \in Asks |-> FALSE] /\ duplicated = [a \in Asks |-> FALSE]
  /\ barren = [a \in Asks |-> 0]
  /\ tried = [a \in Asks |-> {}] /\ sent = [a \in Asks |-> {}]
  /\ chosen = [a \in Asks |-> None] /\ verdict = [a \in Asks |-> "none"]
  /\ incomplete = [a \in Asks |-> FALSE]
  /\ met = [a \in Asks |-> {}] /\ singled = [a \in Asks |-> {}]

Init ==
  /\ known = Reset([ids |-> {}, names |-> {}])
  /\ pc = [a \in Asks |-> "idle"]
  /\ FreshLocals

Running(a) == pc[a] \notin {"idle"} \cup Ends

Goto(a, label) == pc' = [pc EXCEPT ![a] = label]

-----------------------------------------------------------------------------
(* The start of a run: Reset, the intent gate and, in two-stage mode, the  *)
(* choice of services (whose effect is only to offer fewer tools).         *)

(* A run that begins with what the one before it learned. *)
StartWithoutReset(a) ==
  /\ pc[a] = "idle"
  /\ Cardinality({b \in Asks : Running(b)}) < Parallel
  /\ Goto(a, IF IntentGate THEN "gate" ELSE "decide")
  /\ UNCHANGED <<known, local>>

Start(a) ==
  /\ pc[a] = "idle"
  /\ Cardinality({b \in Asks : Running(b)}) < Parallel
  /\ known' = Reset(Conversation(a))
  /\ Goto(a, IF IntentGate THEN "gate" ELSE "decide")
  /\ UNCHANGED local

(* A verdict of the gate, or "open" when the gate's call fails. *)
Gate(a) ==
  /\ pc[a] = "gate"
  /\ \E m \in Modes : mode' = [mode EXCEPT ![a] = m]
  /\ Goto(a, "decide")
  /\ UNCHANGED <<known, step, executed, barren, duplicated, tried, chosen, verdict,
                 incomplete, sent, met, singled>>

(* Out of scope: declined without entering the loop. *)
Decline(a) == pc[a] = "gate" /\ Goto(a, "declined") /\ UNCHANGED <<known, local>>

-----------------------------------------------------------------------------
(* The schema of a step: LoopSchema, NavigateOnlySchema, WriteSchema and   *)
(* FinishOnlySchema.                                                       *)

Forced(a) == StopGuard /\ executed[a] /\ (barren[a] >= 2 \/ duplicated[a])

(* Tools offered without a look at the stop guard, and a finish offered    *)
(* before anything was executed.                                           *)
OffersToolAlways(a) == mode[a] \in {"open", "tool"} \/ (mode[a] = "write" /\ ~executed[a])
OffersFinishAtOnce(a) == Forced(a) \/ mode[a] # "navigate"

OffersTool(a) == ~Forced(a) /\ (mode[a] \in {"open", "tool"} \/ (mode[a] = "write" /\ ~executed[a]))
OffersScreen(a) == ~Forced(a) /\ mode[a] \in {"open", "navigate"}
OffersProposal(a) == ~Forced(a) /\ mode[a] = "write"
OffersFinish(a) == Forced(a) \/ (executed[a] /\ mode[a] # "navigate")

(* The model's call fails, is cut off at max_tokens or is no JSON; also    *)
(* the end of a run whose client has gone.                                 *)
ModelFails(a) ==
  /\ pc[a] = "decide" /\ Goto(a, "error") /\ UNCHANGED <<known, local>>

ChooseFinish(a) ==
  /\ pc[a] = "decide" /\ OffersFinish(a)
  /\ Goto(a, "answer")
  /\ UNCHANGED <<known, local>>

(* The last line of the loop: on to the next step, or out of it.           *)
NextStep(a) ==
  IF step[a] = MaxSteps THEN Goto(a, "answer") /\ UNCHANGED step
  ELSE Goto(a, "decide") /\ step' = [step EXCEPT ![a] = @ + 1]

(* What the last line of a tool step adds: the run was cut off.            *)
MarkIncomplete(a) == incomplete' = [incomplete EXCEPT ![a] = (step[a] = MaxSteps)]

Choose(a, c, v) == chosen' = [chosen EXCEPT ![a] = c] /\ verdict' = [verdict EXCEPT ![a] = v]

(* The verdict on identifiers: of calls and proposals, and of screens,     *)
(* which are not asked whether an identifier is one of many.               *)
WithoutAmbiguity(c) ==
  IF Unresolved(known, Args[c]) # {} THEN "unresolved" ELSE "accepted"

Judge(c) ==
  IF Unresolved(known, Args[c]) # {} THEN "unresolved"
  ELSE IF AmbiguousAmong(known, Args[c]) # {} THEN "ambiguous"
  ELSE "accepted"

(* resolveProposal, resolveNavigation: accepted, they end the run; refused,*)
(* they cost a step and count as barren.                                   *)
Conclude(a, c, v, end) ==
  /\ Choose(a, c, v)
  /\ \/ /\ v = "accepted"
        /\ Goto(a, end)
        /\ UNCHANGED <<step, barren>>
     \/ /\ v # "accepted"
        /\ NextStep(a)
        /\ barren' = [barren EXCEPT ![a] = @ + 1]
  /\ UNCHANGED <<known, mode, executed, duplicated, tried, incomplete, sent, met, singled>>

ChooseProposal(a, p) ==
  /\ pc[a] = "decide" /\ OffersProposal(a)
  /\ Conclude(a, p, IF p \in Unfit THEN "unfit" ELSE Judge(p), "proposed")

ChooseScreen(a, s) ==
  /\ pc[a] = "decide" /\ OffersScreen(a)
  /\ Conclude(a, s, WithoutAmbiguity(s), "opened")

-----------------------------------------------------------------------------
(* A tool step: the test against seenCalls, Execute, and the bookkeeping.  *)

Rebuff(a, c, v) ==
  /\ Choose(a, c, v)
  /\ barren' = [barren EXCEPT ![a] = @ + 1]
  /\ MarkIncomplete(a)
  /\ NextStep(a)
  /\ UNCHANGED <<known, mode, executed, sent, met, singled>>

ChooseDuplicate(a, c) ==
  /\ pc[a] = "decide" /\ OffersTool(a) /\ c \in tried[a]
  /\ Rebuff(a, c, "duplicate")
  /\ duplicated' = [duplicated EXCEPT ![a] = TRUE]
  /\ UNCHANGED tried

RememberNothing(a, c) == UNCHANGED tried

Remember(a, c) == tried' = [tried EXCEPT ![a] = @ \cup {c}]

(* Execute up to the HTTP call. *)
ChooseCall(a, c) ==
  /\ pc[a] = "decide" /\ OffersTool(a) /\ c \notin tried[a]
  /\ Remember(a, c)
  /\ UNCHANGED duplicated
  /\ \/ c \in Unfit /\ Rebuff(a, c, "unfit")
     \/ c \notin Unfit /\ Judge(c) # "accepted" /\ Rebuff(a, c, Judge(c))
     \/ /\ c \notin Unfit /\ Judge(c) = "accepted"
        /\ Choose(a, c, "sent")
        /\ Goto(a, "flight")
        /\ sent' = [sent EXCEPT ![a] = @ \cup {c}]
        /\ UNCHANGED <<known, mode, step, executed, barren, incomplete, met, singled>>

(* barrenResult: the list is empty or, unsorted, shows less than a tenth.  *)
Barren(c, x) ==
  \/ ~IsData(x)
  \/ x.items = <<>>
  \/ (x.kind = "list" /\ c \notin Sorted /\ x.count > Len(x.items) * 10)

(* The identifiers an answer singles out by itself: those of a record, of  *)
(* the only candidate, of the first of a sorted list, and of a row named   *)
(* in the conversation.                                                    *)
SinglesOut(a, c, x) ==
  IF x.kind = "list" /\ Total(x) > 1
  THEN UNION {x.items[i].ids : i \in {j \in DOMAIN x.items : Determinate(x, c \in Sorted, Conversation(a), j)}}
  ELSE IdsIn(x.items)

(* The answer arrives (or does not: "broken"), and the step ends. *)
Return(a, x) ==
  LET c == chosen[a] IN
  /\ pc[a] = "flight"
  /\ known' = Learn(known, x, c \in Sorted)
  /\ executed' = [executed EXCEPT ![a] = @ \/ x.kind # "broken"]
  /\ barren' = [barren EXCEPT ![a] = IF Barren(c, x) THEN @ + 1 ELSE 0]
  /\ MarkIncomplete(a)
  /\ NextStep(a)
  /\ met' = [met EXCEPT ![a] = IF IsData(x) THEN @ \cup IdsIn(x.items) ELSE @]
  /\ singled' = [singled EXCEPT ![a] = IF IsData(x) THEN @ \cup SinglesOut(a, c, x) ELSE @]
  /\ UNCHANGED <<mode, duplicated, tried, chosen, verdict, sent>>

(* An answer whose stream never ends. *)
AnswerNever(a) == pc[a] = "answer" /\ FALSE

(* The final answer; it fails, or was withdrawn for quoting the system     *)
(* prompt (an error too).                                                  *)
Answer(a) ==
  /\ pc[a] = "answer"
  /\ \E end \in {"answered", "error"} : Goto(a, end)
  /\ UNCHANGED <<known, local>>

(* The maps of the Executor have no lock.  Two goroutines that use one at  *)
(* the same time, one of them to write, may get past each other or make    *)
(* the runtime kill the process, and every run in it.                      *)
MapRace ==
  /\ \E a, b \in Asks : a # b /\ pc[a] = "flight" /\ pc[b] \in {"decide", "flight"}
  /\ pc' = [a \in Asks |-> IF Running(a) THEN "dead" ELSE pc[a]]
  /\ UNCHANGED <<known, local>>

Move(a) ==
  \/ Gate(a) \/ Decline(a) \/ ModelFails(a) \/ ChooseFinish(a) \/ Answer(a)
  \/ \E p \in Proposals : ChooseProposal(a, p)
  \/ \E s \in Screens : ChooseScreen(a, s)
  \/ \E c \in Calls : ChooseDuplicate(a, c) \/ ChooseCall(a, c)
  \/ (pc[a] = "flight" /\ \E x \in ResultsOf[chosen[a]] : Return(a, x))

Next == (\E a \in Asks : Start(a) \/ Move(a)) \/ MapRace

Spec == Init /\ [][Next]_vars

(* A run goes on: its calls to the model and to the services time out.     *)
Fairness == \A a \in Asks : WF_vars(Move(a))

-----------------------------------------------------------------------------
(* Properties. *)

(* What the conversation says, or an answer of this very run singled out.  *)
Determined(a) == Conversation(a).ids \cup singled[a]

(* Nothing rests on a silent pick: what a call of a service or an update   *)
(* proposal names was written in the conversation or singled out by an     *)
(* answer of the same run (executor.go AmbiguousIDs, loop.go               *)
(* resolveProposal), whatever lists came in between.                       *)
NothingRestsOnAPick ==
  \A a \in Asks : verdict[a] \in {"sent", "accepted"} /\ chosen[a] \notin Screens
                    => Args[chosen[a]] \subseteq Determined(a)

(* A screen opens with identifiers of the conversation or of this run's    *)
(* own answers, and of no other run of the Executor (resolveNavigation).   *)
ScreensAreResolved ==
  \A a \in Asks : pc[a] = "opened" => Args[chosen[a]] \subseteq Conversation(a).ids \cup met[a]

(* No run asks a service the same thing twice, as the model wrote it       *)
(* (seenCalls), also not when the first answer was a refusal or got lost.  *)
NoServiceIsAskedTwice ==
  [][\A a \in Asks : pc[a] # "flight" /\ pc'[a] = "flight" => chosen'[a] \notin sent[a]]_vars

(* Where the stop guard is on, a run that has data and repeats itself, or  *)
(* got nothing twice in a row, leaves the services alone from then on and  *)
(* neither opens a screen nor proposes anything (FinishOnlySchema).        *)
ForcedRunsOnlyFinish ==
  [][\A a \in Asks : Forced(a) /\ pc[a] = "decide"
       => sent'[a] = sent[a] /\ pc'[a] \notin {"opened", "proposed"} /\ step'[a] = step[a]]_vars

(* A run that finishes before its last step has had an answer of a service *)
(* first: no refusal, duplicate or lost call opens the way to finish       *)
(* (allowFinish of the schemas).                                           *)
FinishNeedsAnAnswer ==
  \A a \in Asks : pc[a] \in {"answer", "answered"} /\ ~incomplete[a] /\ step[a] < MaxSteps
                    => executed[a] /\ sent[a] # {}

(* Every question ends: in an answer, a screen, a proposal, an error or    *)
(* with the process.                                                       *)
EveryAskEnds == \A a \in Asks : Running(a) ~> ~Running(a)

=============================================================================
