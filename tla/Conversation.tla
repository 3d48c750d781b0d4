---------------------------- MODULE Conversation ----------------------------
(***************************************************************************)
(* A conversation with the assistant: the page that asks (AssistantPage,   *)
(* streamAsk), the handler that streams the run of a question (handleAsk), *)
(* the writing of the final answer piece by piece (finalAnswer, ChatStream *)
(* and LeaksSystem), and the approval of a proposal on the page.           *)
(*                                                                         *)
(* Questions are numbered in the order they are asked; an event, a piece   *)
(* of text, a proposal is known by the question it comes from.  What the   *)
(* loop chooses is ToolLoop's affair; here it ends one way or another.     *)
(***************************************************************************)
EXTENDS Naturals, Sequences

CONSTANTS
  MaxAsks,      \* bound of the model: questions
  MaxPieces,    \* bound of the model: pieces of an answer
  Pieces,       \* what the model may write
  Secret,       \* the pieces that make up a line of the system prompt
  Refusal,      \* the answer put in the place of one with such a line
  Raw,          \* what nobody looks at: a reason, an output an error quotes
  None

Asks == 1 .. MaxAsks
Words == Pieces \cup {Refusal}

ASSUME ConstantsTyped ==
  /\ {MaxAsks, MaxPieces} \subseteq Nat
  /\ Secret \in Seq(Pieces) /\ Secret # <<>>
  /\ Raw \subseteq Seq(Pieces) /\ Refusal \notin Pieces
  /\ None \notin Nat

VARIABLES
  view,       \* the state of the page
  seen,       \* what of it was drawn last, which the buttons act on
  current,    \* abortRef: the question whose stream the page follows
  reader,     \* [Asks -> the page's end of a stream]
  heard,      \* [Asks -> events of it handled]
  run,        \* [Asks -> the handler of a question]
  approvals   \* what executeCommand was called with

vars == <<view, seen, current, reader, heard, run, approvals>>

Event(kind, text) == [kind |-> kind, text |-> text]

(* A text is a sequence of pieces, each with the question it is from.      *)
From(k, text) == [i \in DOMAIN text |-> [ask |-> k, piece |-> text[i]]]

Fresh ==
  [asked |-> None, turns |-> <<>>, steps |-> {}, answer |-> <<>>, proposal |-> None,
   navigation |-> None, trace |-> None, error |-> None, quote |-> <<>>, done |-> None,
   running |-> FALSE]

(* What the form, where there is one, and the card of a proposal hold on   *)
(* to.                                                                     *)
Drawn(v) ==
  [form |-> IF v.running THEN None ELSE [asked |-> v.asked, turns |-> v.turns, answer |-> v.answer],
   card |-> IF v.proposal = None THEN None ELSE [proposal |-> v.proposal, trace |-> v.trace]]

(* Reasoned: the answer is the reason of a screen or a proposal.           *)
NoRun == [phase |-> "none", text |-> <<>>, answer |-> <<>>, reasoned |-> FALSE, out |-> <<>>]

AskOrNone == Asks \cup {None}
Texts == Seq([ask : Asks, piece : Words])

IsView(v) ==
  /\ DOMAIN v = DOMAIN Fresh
  /\ {v.asked, v.proposal, v.navigation, v.trace, v.error, v.done} \subseteq AskOrNone
  /\ v.steps \subseteq Asks
  /\ {v.answer, v.quote} \subseteq Texts
  /\ v.turns \in Seq([query : Asks, answer : Texts \ {<<>>}])
  /\ v.running \in BOOLEAN

TypeOK ==
  /\ IsView(view)
  /\ seen.form # None => seen.form.answer \in Texts
  /\ seen.card # None => seen.card.proposal \in Asks
  /\ current \in AskOrNone
  /\ reader \in [Asks -> {"none", "open", "left", "aborted", "closed"}]
  /\ heard \in [Asks -> Nat]
  /\ \A k \in Asks :
       /\ run[k].phase \in {"none", "start", "loop", "writing", "trace", "ended", "gone"}
       /\ run[k].text \in Seq(Pieces) /\ Len(run[k].text) <= MaxPieces
       /\ run[k].answer \in Seq(Words) /\ run[k].reasoned \in BOOLEAN
       /\ heard[k] <= Len(run[k].out)
       /\ reader[k] = "none" <=> run[k].phase = "none"
  /\ approvals \subseteq [ask : Asks, trace : AskOrNone]

Init ==
  /\ view = Fresh /\ seen = Drawn(Fresh)
  /\ current = None
  /\ reader = [k \in Asks |-> "none"] /\ heard = [k \in Asks |-> 0]
  /\ run = [k \in Asks |-> NoRun]
  /\ approvals = {}

-----------------------------------------------------------------------------
(* The page. *)

(* A stream is aborted: no more of it comes in than has come, and its run  *)
(* is cancelled; what that still does nobody hears.                        *)
Abort ==
  /\ reader' = [k \in Asks |-> IF k = current THEN "aborted" ELSE reader[k]]
  /\ run' = [k \in Asks |-> IF k = current THEN [run[k] EXCEPT !.phase = "gone"] ELSE run[k]]

(* A stream is over; of its run the answer is kept.                        *)
Over(k) ==
  [NoRun EXCEPT !.phase = "gone", !.answer = run[k].answer, !.reasoned = run[k].reasoned]

(* Every turn is sent, also one without an answer. *)
HistoryWithGaps ==
  Append(seen.form.turns, [query |-> seen.form.asked, answer |-> seen.form.answer])

(* The turns so far, and the last one if it was answered.                  *)
History ==
  LET form == seen.form IN
  IF form.asked # None /\ form.answer # <<>>
  THEN Append(form.turns, [query |-> form.asked, answer |-> form.answer])
  ELSE form.turns

(* The steps of the question before stay. *)
ClearedButSteps(k, history) ==
  [Fresh EXCEPT !.asked = k, !.turns = history, !.running = TRUE, !.steps = view.steps]

(* The proposal of the question before stays. *)
ClearedButProposal(k, history) ==
  [Fresh EXCEPT !.asked = k, !.turns = history, !.running = TRUE, !.proposal = view.proposal]

Cleared(k, history) == [Fresh EXCEPT !.asked = k, !.turns = history, !.running = TRUE]

(* A question is asked with the form as it was drawn last: a second press  *)
(* before the page is drawn again finds the form still there.              *)
Ask(k) ==
  /\ seen.form # None
  /\ reader[k] = "none" /\ \A j \in Asks : j < k => reader[j] # "none"
  /\ reader' = [j \in Asks |-> CASE j = k -> "open" [] j = current -> "aborted"
                                 [] j \notin {k, current} -> reader[j]]
  /\ run' = [j \in Asks |-> CASE j = k -> [NoRun EXCEPT !.phase = "start"]
                              [] j = current -> [run[j] EXCEPT !.phase = "gone"]
                              [] j \notin {k, current} -> run[j]]
  /\ current' = k
  /\ view' = Cleared(k, History)
  /\ UNCHANGED <<seen, heard, approvals>>

(* "Start a new conversation". *)
NewConversation ==
  /\ seen.form # None /\ seen.form.asked # None
  /\ Abort /\ current' = None
  /\ view' = Fresh
  /\ UNCHANGED <<seen, heard, approvals>>

(* Another page is opened: this one's state goes.  Nothing aborts its      *)
(* stream: its run goes on, and what comes of it is read to the end, with  *)
(* nobody to show it, so that how far does not matter.                     *)
Leave ==
  /\ view # Fresh
  /\ view' = Fresh /\ seen' = Drawn(Fresh) /\ current' = None
  /\ reader' = [k \in Asks |-> IF reader[k] = "open" THEN "left" ELSE reader[k]]
  /\ heard' = [k \in Asks |-> IF reader[k] = "open" THEN 0 ELSE heard[k]]
  /\ UNCHANGED <<run, approvals>>

(* The page is drawn. *)
Render ==
  /\ seen # Drawn(view) /\ seen' = Drawn(view)
  /\ UNCHANGED <<view, current, reader, heard, run, approvals>>

ShownError(k, text) == [view EXCEPT !.error = k, !.quote = From(k, text)]

(* The final answer is added to what was written before it.               *)
ShownAdding(k, e) ==
  CASE e.kind \in {"delta", "answer"} -> [view EXCEPT !.answer = @ \o From(k, e.text)]
    [] e.kind = "error"    -> ShownError(k, e.text)
    [] e.kind = "done"     -> [view EXCEPT !.done = k]
    [] e.kind \in {"start", "step", "proposal", "navigate"} -> view

(* What an event does to a page that still follows its question.           *)
Shown(k, e) ==
  CASE e.kind = "start"    -> [view EXCEPT !.trace = k]
    [] e.kind = "step"     -> [view EXCEPT !.steps = @ \cup {k}]
    [] e.kind = "delta"    -> [view EXCEPT !.answer = @ \o From(k, e.text)]
    [] e.kind = "error"    -> ShownError(k, e.text)
    [] e.kind = "proposal" -> [view EXCEPT !.proposal = k]
    [] e.kind = "navigate" -> [view EXCEPT !.navigation = k]
    [] e.kind = "answer"   -> [view EXCEPT !.answer = From(k, e.text)]
    [] e.kind = "done"     -> [view EXCEPT !.done = k]

(* Whoever hears an event shows it. *)
FollowsAny(k) == TRUE

(* isLatest *)
Follows(k) == current = k

(* An event arrives; what is already underway also after an abort.         *)
Hear(k) ==
  /\ reader[k] \in {"open", "aborted"} /\ heard[k] < Len(run[k].out)
  /\ heard' = [heard EXCEPT ![k] = @ + 1]
  /\ view' = IF Follows(k) THEN Shown(k, run[k].out[heard[k] + 1]) ELSE view
  /\ UNCHANGED <<seen, current, reader, run, approvals>>

(* Whichever stream ends ends the waiting. *)
FinallyAlways(k, v) == view' = [v EXCEPT !.running = FALSE] /\ current' = None

(* It ends only a run without an error. *)
FinallyIfFine(k, v) ==
  IF current = k /\ v.error = None
  THEN view' = [v EXCEPT !.running = FALSE] /\ current' = None
  ELSE view' = v /\ UNCHANGED current

Finally(k, v) ==
  IF current = k
  THEN view' = [v EXCEPT !.running = FALSE] /\ current' = None
  ELSE view' = v /\ UNCHANGED current

(* The stream ends, after the handler returned. *)
End(k) ==
  /\ reader[k] = "open" /\ run[k].phase = "ended" /\ heard[k] = Len(run[k].out)
  /\ reader' = [reader EXCEPT ![k] = "closed"]
  /\ Finally(k, view)
  /\ heard' = [heard EXCEPT ![k] = 0] /\ run' = [run EXCEPT ![k] = Over(k)]
  /\ UNCHANGED <<seen, approvals>>

(* The stream breaks, wherever it is: the network, the BFF.  The read of   *)
(* an aborted one fails too, which is no error.                            *)
Break(k) ==
  /\ reader[k] \in {"open", "aborted"}
  /\ reader' = [reader EXCEPT ![k] = "closed"]
  /\ Finally(k, IF reader[k] = "open" THEN ShownError(k, <<>>) ELSE view)
  /\ heard' = [heard EXCEPT ![k] = 0] /\ run' = [run EXCEPT ![k] = Over(k)]
  /\ UNCHANGED <<seen, approvals>>

(* A stream that was left ends, or breaks; the page there is now does not  *)
(* hear of it.                                                             *)
LeftEnds(k) ==
  /\ reader[k] = "left"
  /\ reader' = [reader EXCEPT ![k] = "closed"]
  /\ heard' = [heard EXCEPT ![k] = 0] /\ run' = [run EXCEPT ![k] = Over(k)]
  /\ UNCHANGED <<view, seen, current, approvals>>

(* The proposal on the page is approved; again, as long as the card is not *)
(* drawn anew.                                                             *)
Approve ==
  /\ seen.card # None
  /\ approvals' = approvals \cup {[ask |-> seen.card.proposal, trace |-> seen.card.trace]}
  /\ UNCHANGED <<view, seen, current, reader, heard, run>>

(* It is put away. *)
Dismiss ==
  /\ seen.card # None
  /\ view' = [view EXCEPT !.proposal = None]
  /\ UNCHANGED <<seen, current, reader, heard, run, approvals>>

-----------------------------------------------------------------------------
(* The handler. *)

Go(k, phase, events) ==
  run' = [run EXCEPT ![k].phase = phase, ![k].out = @ \o events]
Still == UNCHANGED <<view, seen, current, reader, heard, approvals>>

(* The question is refused (no such user, no text), or its stream begins.  *)
Begin(k) ==
  /\ run[k].phase = "start"
  /\ \/ Go(k, "loop", <<Event("start", <<>>)>>)
     \/ Go(k, "ended", <<Event("error", <<>>)>>)
  /\ Still

(* A step of the loop is reported. *)
Step(k) ==
  /\ run[k].phase = "loop"
  /\ \A i \in DOMAIN run[k].out : run[k].out[i].kind # "step"
  /\ Go(k, "loop", <<Event("step", <<>>)>>)
  /\ Still

Reasoned(events) == \E i \in DOMAIN events : events[i].kind \in {"navigate", "proposal"}

(* The last events of a run; its trace is recorded after them.             *)
Conclude(k, events, answer) ==
  run' = [run EXCEPT ![k].phase = "trace", ![k].answer = answer,
                     ![k].reasoned = Reasoned(events),
                     ![k].out = @ \o events \o <<Event("answer", answer), Event("done", <<>>)>>]

(* The loop gives up, with an error that may quote what came from the      *)
(* model, or ends with a screen or a proposal and the reason the model     *)
(* gave for it, or with the question turned away, or before the writing.   *)
LoopEnds(k) ==
  /\ run[k].phase = "loop"
  /\ \/ \E text \in Raw : \/ Conclude(k, <<Event("error", text)>>, <<>>)
                           \/ Conclude(k, <<Event("navigate", <<>>)>>, text)
                           \/ Conclude(k, <<Event("proposal", <<>>)>>, text)
     \/ Conclude(k, <<>>, <<Refusal>>)
     \/ run' = [run EXCEPT ![k].phase = "writing"]
  /\ Still

Contains(text, line) ==
  \E i \in 0 .. Len(text) - Len(line) : SubSeq(text, i + 1, i + Len(line)) = line

(* Only the piece itself is looked at. *)
LeaksPiece(text) == text # <<>> /\ Contains(<<text[Len(text)]>>, Secret)

(* LeaksSystem: a whole line, in all that was written so far.              *)
Leaks(text) == Contains(text, Secret)

(* ChatStream hands on a piece, unless the text now holds a line of the    *)
(* system prompt: then the writing is broken off and the answer replaced.  *)
Write(k) ==
  /\ run[k].phase = "writing" /\ Len(run[k].text) < MaxPieces
  /\ \E p \in Pieces :
       LET text == Append(run[k].text, p) IN
       \/ /\ Leaks(text)
          /\ Conclude(k, <<Event("error", <<>>)>>, <<Refusal>>)
       \/ /\ ~Leaks(text)
          /\ run' = [run EXCEPT ![k].text = text, ![k].out = Append(@, Event("delta", <<p>>))]
  /\ Still

(* The model's stream ends, with its end mark or without; or it fails.     *)
WritingEnds(k) ==
  /\ run[k].phase = "writing"
  /\ \/ Conclude(k, <<>>, run[k].text)
     \/ \E text \in Raw : Conclude(k, <<Event("error", text)>>, <<>>)
  /\ Still

(* RecordTrace, whether it succeeds or not; the handler returns.           *)
RecordTrace(k) == run[k].phase = "trace" /\ Go(k, "ended", <<>>) /\ Still

Serve(k) ==
  Begin(k) \/ Step(k) \/ LoopEnds(k) \/ Write(k) \/ WritingEnds(k) \/ RecordTrace(k)

Next ==
  \/ \E k \in Asks : Ask(k) \/ Hear(k) \/ End(k) \/ Break(k) \/ LeftEnds(k) \/ Serve(k)
  \/ NewConversation \/ Leave \/ Render \/ Approve \/ Dismiss

Spec == Init /\ [][Next]_vars

(* Calls of the handler time out; what is sent is heard, or the connection *)
(* breaks; the page is drawn.                                              *)
FairSpec ==
  /\ Spec
  /\ WF_vars(Render)
  /\ \A k \in Asks : WF_vars(Serve(k)) /\ WF_vars(Hear(k)) /\ WF_vars(End(k))

-----------------------------------------------------------------------------
(* Properties. *)

Asked(text) == {text[i].ask : i \in DOMAIN text}
Written(text) == [i \in DOMAIN text |-> text[i].piece]

(* All that the page shows under a question is of that question: nothing   *)
(* of an earlier stream that is still coming in, nothing left over         *)
(* (AssistantPage.tsx:146-155).                                            *)
OneQuestionOnThePage ==
  LET v == view IN
  v.steps \cup Asked(v.answer) \cup Asked(v.quote) \cup ({v.proposal, v.navigation, v.trace, v.error, v.done} \ {None})
    \subseteq {v.asked}

(* The history of the next question, which its run takes for the user's    *)
(* own words, holds questions with what was written for them, each once    *)
(* and in order, however fast one asks (AssistantPage.tsx:157-160).        *)
TurnsAreOfTheirQuestion ==
  seen.form # None =>
    \A i \in DOMAIN History :
      /\ History[i].answer # <<>> /\ Asked(History[i].answer) = {History[i].query}
      /\ \A j \in DOMAIN History : i < j => History[i].query < History[j].query

(* An approval carries the trace of the question its proposal came from:   *)
(* the key that keeps it from being executed twice is made of it           *)
(* (server.go:287).                                                        *)
ApprovalsNameTheirTrace == \A a \in approvals : a.trace = a.ask

(* The page waits exactly as long as the stream of the question it asked   *)
(* last is open, and of what this page opened no other stream is: whoever  *)
(* asks again or starts anew aborts the one before, and the end of an      *)
(* aborted one, late, does not end the waiting                             *)
(* (AssistantPage.tsx:146-149, 201-205).  A stream that was left with an   *)
(* earlier page may be open beside it, for nothing aborts that one.        *)
WaitsForItsStream ==
  /\ view.running <=> current # None
  /\ view.running => current = view.asked
  /\ \A k \in Asks : reader[k] = "open" <=> current = k

(* A page at rest that reports no error has the whole answer of the run,   *)
(* not only the pieces that came before it (client.ts:322).                *)
RestIsComplete ==
  LET v == view IN
  ~v.running /\ v.asked # None /\ v.error = None =>
    v.done = v.asked /\ Written(v.answer) = run[v.asked].answer

(* No line of the system prompt gets onto the page with an answer that     *)
(* finalAnswer wrote, in whatever pieces it was written, nor is one kept   *)
(* among the turns (loop.go:646-655).  It is the only text that is looked  *)
(* at: the reason of a screen or a proposal, which is the answer then      *)
(* (loop.go:452, 476), and the output that an error quotes (loop.go:404)   *)
(* may hold such a line, and nothing is said of them here.                 *)
NoPromptIsWritten ==
  /\ view.asked # None /\ ~run[view.asked].reasoned => ~Contains(Written(view.answer), Secret)
  /\ \A i \in DOMAIN view.turns :
       LET turn == view.turns[i] IN
       ~run[turn.query].reasoned => ~Contains(Written(turn.answer), Secret)

(* A question is not waited for for ever. *)
WaitingEnds == view.running ~> ~view.running

=============================================================================
