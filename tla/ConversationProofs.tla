------------------------- MODULE ConversationProofs -------------------------
(* A conversation of any length, with answers of any length: what is on    *)
(* the page under a question is of that question, the history is the       *)
(* user's, a page at rest has the whole answer, and no line of the system  *)
(* prompt is on it.                                                        *)
EXTENDS Conversation, SequenceTheorems, TLAPS

Kinds == {"start", "step", "delta", "error", "proposal", "navigate", "answer", "done"}
Events == [kind : Kinds, text : Seq(Words)]
Phases == {"none", "start", "loop", "writing", "trace", "ended", "gone"}
Runs ==
  [phase : Phases, text : Seq(Pieces), answer : Seq(Words), reasoned : BOOLEAN, out : Seq(Events)]

Turns == Seq([query : Asks, answer : Texts \ {<<>>}])
Views ==
  [asked : AskOrNone, turns : Turns, steps : SUBSET Asks, answer : Texts, proposal : AskOrNone,
   navigation : AskOrNone, trace : AskOrNone, error : AskOrNone, quote : Texts, done : AskOrNone,
   running : BOOLEAN]
Forms == [asked : AskOrNone, turns : Turns, answer : Texts]
Cards == [proposal : Asks, trace : AskOrNone]

StateTyped ==
  /\ view \in Views
  /\ seen \in [form : Forms \cup {None}, card : Cards \cup {None}]
  /\ current \in AskOrNone
  /\ reader \in [Asks -> {"none", "open", "left", "aborted", "closed"}]
  /\ heard \in [Asks -> Nat]
  /\ run \in [Asks -> Runs]
  /\ approvals \subseteq [ask : Asks, trace : AskOrNone]

(* How far a stream is heard, what its run has written, and whether there  *)
(* is a run behind it.                                                     *)
Bounds ==
  \A k \in Asks :
    /\ heard[k] <= Len(run[k].out)
    /\ Len(run[k].text) <= MaxPieces
    /\ reader[k] = "none" <=> run[k].phase = "none"
    /\ reader[k] = "none" => heard[k] = 0 /\ ~run[k].reasoned
    /\ reader[k] \in {"open", "left"} <=> run[k].phase \notin {"none", "gone"}

AskedInOrder == \A j, k \in Asks : j < k /\ reader[k] # "none" => reader[j] # "none"

(* The page waits for one stream, and has opened no other that is open.    *)
Waits ==
  /\ view.running <=> current # None
  /\ \A k \in Asks : reader[k] = "open" <=> current = k

TypeInv == StateTyped /\ Bounds /\ AskedInOrder /\ Waits

-----------------------------------------------------------------------------
(* What a handler has sent: a start, perhaps a step, the pieces it wrote,  *)
(* and, once it has concluded, perhaps one event more, the answer and the  *)
(* end; or a refusal alone.                                                *)
Base(out) == IF Len(out) >= 2 /\ out[2].kind = "step" THEN 2 ELSE 1
Rejected(r) == r.out = <<Event("error", <<>>)>>
Concluded(r) == r.phase \in {"trace", "ended"} /\ ~Rejected(r)

Piecewise(r) ==
  /\ r.out[1] = Event("start", <<>>)
  /\ Base(r.out) = 2 => r.out[2] = Event("step", <<>>)
  /\ Len(r.out) >= Base(r.out) + Len(r.text)
  /\ \A i \in 1 .. Len(r.text) : r.out[Base(r.out) + i] = Event("delta", <<r.text[i]>>)

Ending(r) ==
  LET n == Base(r.out) + Len(r.text) IN
  /\ \/ Len(r.out) = n + 2
     \/ Len(r.out) = n + 3 /\ r.out[n + 1].kind \in {"error", "navigate", "proposal"}
  /\ r.out[Len(r.out) - 1] = Event("answer", r.answer)
  /\ r.out[Len(r.out)] = Event("done", <<>>)

RunOk(r) ==
  /\ r.phase = "start" => r.out = <<>>
  /\ r.phase \in {"start", "loop"} \/ Rejected(r) => r.text = <<>>
  /\ r.phase = "trace" => ~Rejected(r)
  /\ r.phase \in {"loop", "writing"} =>
       ~Rejected(r) /\ Piecewise(r) /\ Len(r.out) = Base(r.out) + Len(r.text)
  /\ Concluded(r) => Piecewise(r) /\ Ending(r)
  /\ ~Contains(r.text, Secret)
  /\ ~r.reasoned => ~Contains(r.answer, Secret)
  /\ r.phase \notin {"trace", "ended"} => ~r.reasoned

(* What the first n events of a run amount to. *)
Said(r, n) ==
  IF Concluded(r) /\ n >= Len(r.out) - 1 THEN r.answer
  ELSE LET m == n - Base(r.out) IN
       [i \in 1 .. (IF m < Len(r.text) THEN m ELSE Len(r.text)) |-> r.text[i]]

(* What they make of the page. *)
Follow(v, k, r, n) ==
  /\ v.asked = k
  /\ v.answer = From(k, Said(r, n))
  /\ n > 0 /\ ~Rejected(r) => v.trace = k
  /\ n > 0 /\ Rejected(r) => v.error = k
  /\ n = Len(r.out) /\ Concluded(r) => v.done = k

OpenRuns == \A k \in Asks : reader[k] \in {"open", "left"} => RunOk(run[k])
Followed == current # None => Follow(view, current, run[current], heard[current])

-----------------------------------------------------------------------------
(* What a form holds: the question, the answer so far, the turns before.   *)
TurnsOk(turns) ==
  \A i \in DOMAIN turns :
    /\ turns[i].answer # <<>> /\ Asked(turns[i].answer) = {turns[i].query}
    /\ \A j \in DOMAIN turns : i < j => turns[i].query < turns[j].query

FormOk(f) ==
  /\ f.asked = None => f.turns = <<>>
  /\ Asked(f.answer) \subseteq {f.asked}
  /\ TurnsOk(f.turns)
  /\ \A i \in DOMAIN f.turns : f.turns[i].query < f.asked

PageOk ==
  /\ FormOk(view)
  /\ view.asked # None => reader[view.asked] \notin {"none", "left"}
  /\ seen.form # None =>
       FormOk(seen.form) /\ (seen.form.asked # None => reader[seen.form.asked] # "none")

CardOk ==
  /\ view.proposal # None => view.trace = view.proposal
  /\ seen.card # None => seen.card.trace = seen.card.proposal

PageInv ==
  /\ OpenRuns /\ Followed /\ PageOk /\ CardOk
  /\ OneQuestionOnThePage /\ ApprovalsNameTheirTrace /\ RestIsComplete

-----------------------------------------------------------------------------
(* Texts. *)

(* A part of a text that does not hold the line does not hold it either.   *)
LEMMA PrefixHoldsNoMore ==
  ASSUME NEW S, NEW text \in Seq(S), NEW line \in Seq(S), NEW m \in Int, m <= Len(text),
         ~Contains(text, line), line # <<>>
  PROVE  ~Contains([i \in 1 .. m |-> text[i]], line)
  <1> DEFINE t == [i \in 1 .. m |-> text[i]]
  <1>1. CASE m <= 0
    <2>1. t = <<>>
      BY <1>1
    <2>2. Len(t) = 0 /\ Len(line) \in Nat \ {0}
      BY <2>1, EmptySeq
    <2>3. ~Contains(<<>>, line)
      BY <2>1, <2>2 DEF Contains
    <2> QED BY <2>1, <2>3
  <1>2. CASE m > 0
    <2>1. t \in Seq(S) /\ Len(t) = m
      BY <1>2
    <2> SUFFICES ASSUME NEW i \in 0 .. m - Len(line), SubSeq(t, i + 1, i + Len(line)) = line
                 PROVE  FALSE
      BY <2>1 DEF Contains
    <2>2. Len(line) \in Nat \ {0}
      BY EmptySeq
    <2>3. SubSeq(t, i + 1, i + Len(line)) = SubSeq(text, i + 1, i + Len(line))
      BY <1>2, <2>1, <2>2
    <2>4. i \in 0 .. Len(text) - Len(line)
      BY <2>2
    <2> QED BY <2>3, <2>4 DEF Contains
  <1> QED BY <1>1, <1>2

(* The line takes pieces: what has none does not hold it.                  *)
LEMMA OthersHoldNone ==
  /\ ~Contains(<<>>, Secret)
  /\ ~Contains(<<Refusal>>, Secret)
  <1>1. Len(Secret) \in Nat \ {0} /\ Secret[1] \in Pieces
    BY ConstantsTyped, EmptySeq, LenProperties, ElementOfSeq
  <1>2. ASSUME NEW i \in 0 .. 1 - Len(Secret),
               SubSeq(<<Refusal>>, i + 1, i + Len(Secret)) = Secret
        PROVE  FALSE
    <2>1. i = 0 /\ Len(Secret) = 1
      BY <1>1, <1>2
    <2>2. SubSeq(<<Refusal>>, 1, 1) = <<Refusal>>
      BY SubSeqFull, <<Refusal>> \in Seq(Words), Len(<<Refusal>>) = 1 DEF Words
    <2>3. Secret[1] = Refusal
      BY <1>2, <2>1, <2>2
    <2> QED BY <1>1, <2>3, ConstantsTyped
  <1> QED BY <1>1, <1>2 DEF Contains

LEMMA WrittenFrom ==
  ASSUME NEW k, NEW text \in Seq(Words)
  PROVE  /\ Written(From(k, text)) = text
         /\ DOMAIN From(k, text) = DOMAIN text
         /\ Asked(From(k, text)) \subseteq {k}
         /\ k \in Asks => From(k, text) \in Texts
         /\ From(k, text) = <<>> <=> text = <<>>
  <1>1. DOMAIN From(k, text) = DOMAIN text /\ \A i \in DOMAIN text : From(k, text)[i] = [ask |-> k, piece |-> text[i]]
    BY DEF From
  <1>2. \A i \in DOMAIN text : From(k, text)[i].ask = k /\ From(k, text)[i].piece = text[i]
    BY <1>1
  <1>3. Written(From(k, text)) = [i \in DOMAIN text |-> text[i]]
    BY <1>1, <1>2 DEF Written
  <1>4. text = [i \in DOMAIN text |-> text[i]]
    BY LenProperties
  <1>5. Asked(From(k, text)) \subseteq {k}
    BY <1>1, <1>2 DEF Asked
  <1>6. ASSUME k \in Asks PROVE From(k, text) \in Texts
    <2> DEFINE e(i) == [ask |-> k, piece |-> text[i]]
    <2>1. \A i \in 1 .. Len(text) : e(i) \in [ask : Asks, piece : Words]
      BY <1>6
    <2>2. [i \in 1 .. Len(text) |-> e(i)] \in Seq([ask : Asks, piece : Words])
      BY <2>1, LenProperties, IsASeq
    <2> QED BY <2>2, LenProperties DEF From, Texts, Words
  <1>7. From(k, text) = <<>> <=> text = <<>>
    BY <1>1
  <1> QED BY <1>1, <1>3, <1>4, <1>5, <1>6, <1>7

-----------------------------------------------------------------------------
(* Runs. *)

LEMMA SaidTyped ==
  ASSUME NEW r \in Runs, NEW n \in Nat
  PROVE  Said(r, n) \in Seq(Words)
  <1>1. r.text \in Seq(Pieces) /\ r.answer \in Seq(Words) /\ Base(r.out) \in Nat
    BY DEF Runs, Base
  <1> DEFINE m == n - Base(r.out)
             l == IF m < Len(r.text) THEN m ELSE Len(r.text)
             t == [i \in 1 .. l |-> r.text[i]]
  <1>2. l \in Int /\ l <= Len(r.text)
    BY <1>1
  <1>3. t \in Seq(Words)
    <2>1. CASE l <= 0
      BY <2>1, <1>2
    <2>2. CASE l > 0
      <3> DEFINE e(i) == r.text[i]
      <3>1. \A i \in 1 .. l : e(i) \in Words
        BY <1>1, <1>2 DEF Words
      <3>2. [i \in 1 .. l |-> e(i)] \in Seq(Words)
        BY <3>1, <2>2, <1>2, IsASeq
      <3> QED BY <3>2
    <2> QED BY <2>1, <2>2, <1>2
  <1> QED BY <1>1, <1>3 DEF Said

(* Of a run that wrote its answer the page is never told a line of the     *)
(* prompt.                                                                 *)
LEMMA SaidHoldsNone ==
  ASSUME NEW r \in Runs, RunOk(r), ~r.reasoned, NEW n \in Nat
  PROVE  ~Contains(Said(r, n), Secret)
  <1> DEFINE m == n - Base(r.out)
             l == IF m < Len(r.text) THEN m ELSE Len(r.text)
  <1>1. r.text \in Seq(Words) /\ Secret \in Seq(Words) /\ Secret # <<>>
    BY ConstantsTyped, SeqMonotonic DEF Runs, Words
  <1>2. l \in Int /\ l <= Len(r.text)
    BY <1>1 DEF Base
  <1>3. ~Contains([i \in 1 .. l |-> r.text[i]], Secret)
    BY <1>1, <1>2, PrefixHoldsNoMore DEF RunOk
  <1> QED BY <1>3 DEF Said, RunOk

(* What an event adds to what was said before it.                          *)
Adds(n, e, before, after) ==
  \/ e = Event("start", <<>>) /\ after = before
  \/ n > 0 /\ e.kind \in {"step", "error", "navigate", "proposal", "done"} /\ after = before
  \/ n > 0 /\ e.kind = "delta" /\ e.text \in Seq(Words) /\ after = before \o e.text
  \/ n > 0 /\ e.kind = "answer" /\ e.text \in Seq(Words) /\ after = e.text

LEMMA NextEvent ==
  ASSUME NEW r \in Runs, RunOk(r), r.phase \in {"loop", "writing"} \/ Concluded(r),
         NEW n \in Nat, n < Len(r.out)
  PROVE  /\ Adds(n, r.out[n + 1], Said(r, n), Said(r, n + 1))
         /\ n + 1 = Len(r.out) /\ Concluded(r) => r.out[n + 1].kind = "done"
  <1> DEFINE b == Base(r.out)
             t == Len(r.text)
             size == Len(r.out)
             e == r.out[n + 1]
             Part(l) == [i \in 1 .. (IF l < t THEN l ELSE t) |-> r.text[i]]
  <1>1. /\ b \in {1, 2} /\ t \in Nat /\ size \in Nat /\ n < size
        /\ r.text \in Seq(Pieces) /\ r.text \in Seq(Words) /\ r.answer \in Seq(Words)
    BY SeqMonotonic DEF Base, Runs, Words
  <1>2. Piecewise(r) /\ ~Rejected(r)
    BY DEF RunOk, Concluded
  <1>3. /\ Concluded(r) \in BOOLEAN
        /\ ~Concluded(r) => size = b + t
        /\ Concluded(r) => Ending(r) /\ size \in {b + t + 2, b + t + 3}
    BY <1>1 DEF RunOk, Ending, Concluded
  <1>4. /\ Said(r, n) = IF Concluded(r) /\ n >= size - 1 THEN r.answer ELSE Part(n - b)
        /\ Said(r, n + 1) = IF Concluded(r) /\ n + 1 >= size - 1 THEN r.answer ELSE Part((n + 1) - b)
    BY DEF Said
  <1>5. Part(0) = <<>> /\ Part(-1) = <<>> /\ Part(-2) = <<>>
    BY <1>1
  <1>6. \A l \in Nat : l >= t => Part(l) = Part(t)
    BY <1>1
  <1>7. ASSUME NEW l \in Nat, l < t PROVE Part(l + 1) = Part(l) \o <<r.text[l + 1]>>
    <2>1. Part(l + 1) = [i \in 1 .. l + 1 |-> r.text[i]] /\ Part(l) = [i \in 1 .. l |-> r.text[i]]
      BY <1>1, <1>7
    <2>2. Part(l + 1) \in Seq(Words) /\ Part(l) \in Seq(Words) /\ <<r.text[l + 1]>> \in Seq(Words)
      <3> DEFINE w(i) == r.text[i]
      <3>1. \A i \in 1 .. l + 1 : w(i) \in Words
        BY <1>1, <1>7
      <3>2. [i \in 1 .. l + 1 |-> w(i)] \in Seq(Words) /\ [i \in 1 .. l |-> w(i)] \in Seq(Words)
        BY <3>1, <1>7, IsASeq
      <3>3. r.text[l + 1] \in Words
        BY <3>1, <1>7
      <3>4. <<r.text[l + 1]>> \in Seq(Words)
        BY <3>3
      <3> HIDE DEF Part
      <3> QED BY <2>1, <3>2, <3>4
    <2>3. Len(Part(l + 1)) = l + 1 /\ Len(Part(l)) = l /\ Len(<<r.text[l + 1]>>) = 1
      BY <2>1
    <2>4. /\ Part(l) \o <<r.text[l + 1]>> \in Seq(Words)
          /\ Len(Part(l) \o <<r.text[l + 1]>>) = l + 1
          /\ \A i \in 1 .. l + 1 : (Part(l) \o <<r.text[l + 1]>>)[i] = r.text[i]
      BY <2>1, <2>2, <2>3, ConcatProperties
    <2> QED BY <2>1, <2>2, <2>3, <2>4, SeqEqual
  <1> HIDE DEF Part, b, t, e, size
  <1> SUFFICES /\ Adds(n, e, Said(r, n), Said(r, n + 1))
               /\ n + 1 = size /\ Concluded(r) => e.kind = "done"
    BY DEF e, size
  <1>8. CASE n = 0
    <2>1. e = Event("start", <<>>)
      BY <1>8, <1>2 DEF Piecewise, e
    <2>2. Said(r, n) = <<>> /\ Said(r, n + 1) = <<>>
      BY <1>8, <1>1, <1>3, <1>4, <1>5
    <2>3. ~(n + 1 = size /\ Concluded(r))
      BY <1>8, <1>1, <1>3
    <2> QED BY <2>1, <2>2, <2>3 DEF Adds
  <1>9. CASE n > 0 /\ n < b
    <2>1. n = 1 /\ b = 2 /\ e = Event("step", <<>>)
      BY <1>9, <1>1, <1>2 DEF Piecewise, e, b
    <2>2. Said(r, n) = <<>> /\ Said(r, n + 1) = <<>>
      BY <2>1, <1>1, <1>3, <1>4, <1>5
    <2>3. ~(n + 1 = size /\ Concluded(r))
      BY <2>1, <1>1, <1>3
    <2> QED BY <2>1, <2>2, <2>3 DEF Adds, Event
  <1>10. CASE n >= b /\ n < b + t
    <2>1. (n + 1) - b \in 1 .. t /\ b + ((n + 1) - b) = n + 1
      BY <1>10, <1>1
    <2>2. e = Event("delta", <<r.text[(n + 1) - b]>>)
      BY <2>1, <1>2 DEF Piecewise, e, b, t
    <2>3. Part(n - b + 1) = Part(n - b) \o <<r.text[n - b + 1]>>
      BY <1>7, <1>10, <1>1
    <2>4. e.text \in Seq(Words) /\ e.kind = "delta" /\ e.text = <<r.text[(n + 1) - b]>>
      BY <2>1, <2>2, <1>1 DEF Event, t
    <2>5. n - b + 1 = (n + 1) - b /\ n > 0 /\ n + 1 < b + t + 1
      BY <1>10, <1>1
    <2>6. Said(r, n + 1) = Part((n + 1) - b) /\ Said(r, n) = Part(n - b)
      BY <1>1, <1>3, <1>4, <1>10
    <2>7. ~(n + 1 = size /\ Concluded(r))
      BY <2>5, <1>1, <1>3
    <2> QED BY <2>3, <2>4, <2>5, <2>6, <2>7 DEF Adds
  <1>11. CASE n >= b + t
    <2>1. Concluded(r) /\ Ending(r) /\ n \in {size - 3, size - 2, size - 1} /\ n > 0
      BY <1>11, <1>1, <1>3
    <2>2. CASE n = size - 3
      <3>1. n = b + t /\ e.kind \in {"error", "navigate", "proposal"}
        BY <2>1, <2>2, <1>1, <1>3, <1>11, SMTT(30) DEF Ending, e, b, t, size
      <3>2. Said(r, n + 1) = Part((n + 1) - b) /\ Said(r, n) = Part(n - b)
        BY <2>1, <2>2, <1>1, <1>4
      <3>3. Part((n + 1) - b) = Part(n - b)
        BY <3>1, <1>1, <1>6
      <3>4. ~(n + 1 = size)
        BY <2>2, <1>1
      <3> QED BY <3>1, <3>2, <3>3, <3>4, <2>1 DEF Adds
    <2>3. CASE n = size - 2
      <3>1. e = Event("answer", r.answer) /\ Said(r, n + 1) = r.answer
        BY <2>1, <2>3, <1>1, <1>4 DEF Ending, e, size
      <3> QED BY <3>1, <2>1, <2>3, <1>1 DEF Event, Adds
    <2>4. CASE n = size - 1
      <3>1. e = Event("done", <<>>) /\ Said(r, n + 1) = r.answer /\ Said(r, n) = r.answer
        BY <2>1, <2>4, <1>1, <1>4 DEF Ending, e, size
      <3> QED BY <3>1, <2>1 DEF Event, Adds
    <2> QED BY <2>1, <2>2, <2>3, <2>4
  <1> QED BY <1>1, <1>8, <1>9, <1>10, <1>11

(* A run goes on: what it has sent stays sent, and amounts to the same.    *)
Extends(q, r) ==
  /\ Len(q.out) <= Len(r.out)
  /\ \A n \in 0 .. Len(q.out) : Said(r, n) = Said(q, n)
  /\ q.out # <<>> => (Rejected(r) <=> Rejected(q))
  /\ Len(r.out) = Len(q.out) /\ Concluded(r) => Concluded(q)
  /\ q.reasoned => r.reasoned

LEMMA NothingSaid ==
  ASSUME NEW r \in Runs, r.text = <<>>, ~Concluded(r), NEW n \in Nat
  PROVE  Said(r, n) = <<>>
  <1>1. Len(r.text) = 0 /\ Base(r.out) \in Nat
    BY DEF Base
  <1>2. 1 .. (IF n - Base(r.out) < Len(r.text) THEN n - Base(r.out) ELSE Len(r.text)) = {}
    BY <1>1
  <1> QED BY <1>2 DEF Said

LEMMA SameSaid ==
  ASSUME NEW q \in Runs, NEW r \in Runs, NEW n \in Nat, n <= Base(q.out) + Len(q.text),
         ~Concluded(q), Base(r.out) = Base(q.out), Concluded(r) => n < Len(r.out) - 1,
         Len(q.text) <= Len(r.text), \A i \in 1 .. Len(q.text) : r.text[i] = q.text[i]
  PROVE  Said(r, n) = Said(q, n)
  <1> DEFINE m == n - Base(q.out)
             l == IF m < Len(q.text) THEN m ELSE Len(q.text)
  <1>1. Base(q.out) \in Nat /\ Len(q.text) \in Nat /\ Len(r.text) \in Nat /\ Len(r.out) \in Nat
    BY DEF Base, Runs
  <1>2. l = m /\ (IF m < Len(r.text) THEN m ELSE Len(r.text)) = m /\ m <= Len(q.text)
    BY <1>1
  <1>3. Said(q, n) = [i \in 1 .. m |-> q.text[i]]
    BY <1>2 DEF Said
  <1>4. ~(Concluded(r) /\ n >= Len(r.out) - 1)
    BY <1>1
  <1>5. Said(r, n) = [i \in 1 .. m |-> r.text[i]]
    BY <1>2, <1>4 DEF Said
  <1>6. \A i \in 1 .. m : r.text[i] = q.text[i]
    BY <1>1, <1>2
  <1> QED BY <1>3, <1>5, <1>6

LEMMA EventTyped ==
  ASSUME NEW kind \in Kinds, NEW text \in Seq(Words)
  PROVE  Event(kind, text) \in Events /\ Event(kind, text).kind = kind /\ Event(kind, text).text = text
  BY DEF Event, Events

(* The last events of a run.                                               *)
Extra(events) ==
  \/ events = <<>>
  \/ \E kind \in {"error", "navigate", "proposal"} : \E text \in Seq(Words) : events = <<Event(kind, text)>>

Closed(q, events, answer) ==
  [q EXCEPT !.phase = "trace", !.answer = answer, !.reasoned = Reasoned(events),
            !.out = @ \o events \o <<Event("answer", answer), Event("done", <<>>)>>]

LEMMA Concluding ==
  ASSUME NEW q \in Runs, RunOk(q), q.phase \in {"loop", "writing"},
         NEW events, Extra(events),
         NEW answer \in Seq(Words), ~Reasoned(events) => ~Contains(answer, Secret),
         NEW r, r = Closed(q, events, answer)
  PROVE  r \in Runs /\ RunOk(r) /\ Extends(q, r) /\ r.text = q.text /\ r.phase = "trace"
  <1> DEFINE last == <<Event("answer", answer), Event("done", <<>>)>>
             b == Base(q.out)
             t == Len(q.text)
             size == Len(q.out)
  <1>1. q.out \in Seq(Events) /\ q.text \in Seq(Pieces) /\ b \in {1, 2} /\ t \in Nat /\ size \in Nat
    BY DEF Runs, Base
  <1>2. Piecewise(q) /\ ~Rejected(q) /\ size = b + t /\ q.out[1] = Event("start", <<>>) /\ size > 0
    BY <1>1 DEF RunOk, Piecewise
  <1>3. /\ events \in Seq(Events) /\ Len(events) \in {0, 1}
        /\ Len(events) = 1 => events[1].kind \in {"error", "navigate", "proposal"}
    <2>1. CASE events = <<>>
      BY <2>1
    <2>2. ASSUME NEW kind \in {"error", "navigate", "proposal"}, NEW text \in Seq(Words),
                 events = <<Event(kind, text)>>
          PROVE  events \in Seq(Events) /\ Len(events) = 1 /\ events[1].kind = kind
      <3>1. Event(kind, text) \in Events /\ Event(kind, text).kind = kind
        <4>1. kind \in Kinds
          BY <2>2 DEF Kinds
        <4> QED BY <4>1, EventTyped
      <3> QED BY <2>2, <3>1
    <2> QED BY <2>1, <2>2 DEF Extra
  <1>4. last \in Seq(Events) /\ Len(last) = 2 /\ last[1] = Event("answer", answer) /\ last[2] = Event("done", <<>>)
    <2>1. Event("answer", answer) \in Events /\ Event("done", <<>>) \in Events
      BY EventTyped, EmptySeq, "answer" \in Kinds, "done" \in Kinds DEF Kinds
    <2> QED BY <2>1
  <1> HIDE DEF last
  <1> DEFINE out == q.out \o events \o last
  <1>5. /\ out \in Seq(Events)
        /\ Len(out) = size + Len(events) + 2
        /\ \A i \in 1 .. size : out[i] = q.out[i]
        /\ Len(events) = 1 => out[size + 1] = events[1]
        /\ out[size + Len(events) + 1] = last[1] /\ out[size + Len(events) + 2] = last[2]
    <2>1. /\ q.out \o events \in Seq(Events)
          /\ Len(q.out \o events) = size + Len(events)
          /\ \A i \in 1 .. size + Len(events) :
               (q.out \o events)[i] = IF i <= size THEN q.out[i] ELSE events[i - size]
      BY <1>1, <1>3, ConcatProperties
    <2> DEFINE sent == q.out \o events
               m == Len(events)
    <2>2. sent \in Seq(Events) /\ Len(sent) = size + m /\ m \in {0, 1} /\ size \in Nat
      BY <1>1, <1>3, <2>1
    <2> HIDE DEF sent
    <2>3. /\ sent \o last \in Seq(Events)
          /\ Len(sent \o last) = Len(sent) + 2
          /\ \A i \in 1 .. Len(sent) + 2 :
               (sent \o last)[i] = IF i <= Len(sent) THEN sent[i] ELSE last[i - Len(sent)]
      <3>1. last \in Seq(Events) /\ Len(last) = 2 /\ sent \in Seq(Events)
        BY <1>4, <2>2
      <3>2. /\ sent \o last \in Seq(Events)
            /\ Len(sent \o last) = Len(sent) + Len(last)
            /\ \A i \in 1 .. Len(sent) + Len(last) :
                 (sent \o last)[i] = IF i <= Len(sent) THEN sent[i] ELSE last[i - Len(sent)]
        BY <3>1, ConcatProperties
      <3> QED BY <3>1, <3>2
    <2> HIDE DEF m, size
    <2>4. /\ Len(sent \o last) = size + m + 2
          /\ \A i \in 1 .. size + m + 2 :
               (sent \o last)[i] = IF i <= size + m THEN sent[i] ELSE last[i - (size + m)]
      BY <2>2, <2>3
    <2>5. /\ \A i \in 1 .. size : (sent \o last)[i] = q.out[i]
          /\ m = 1 => (sent \o last)[size + 1] = events[1]
      BY <2>1, <2>2, <2>4 DEF sent, m, size
    <2>6. /\ (sent \o last)[size + m + 1] = last[1]
          /\ (sent \o last)[size + m + 2] = last[2]
      <3>1. size + m + 1 \in 1 .. size + m + 2 /\ size + m + 2 \in 1 .. size + m + 2
        BY <2>2
      <3>2. (size + m + 1) - (size + m) = 1 /\ (size + m + 2) - (size + m) = 2
        BY <2>2
      <3>3. ~(size + m + 1 <= size + m) /\ ~(size + m + 2 <= size + m)
        BY <2>2
      <3> QED BY <2>4, <3>1, <3>2, <3>3
    <2> QED BY <2>3, <2>4, <2>5, <2>6 DEF sent, m
  <1>6. /\ r \in Runs /\ r.text = q.text /\ r.phase = "trace" /\ r.answer = answer /\ r.out = out
        /\ r.reasoned = Reasoned(events)
    <2>1. Reasoned(events) \in BOOLEAN
      BY DEF Reasoned
    <2> QED BY <1>5, <2>1 DEF last, Runs, Phases, Closed
  <1> HIDE DEF out, size, b, t
  <1>7. Base(out) = b
    <2>1. CASE size >= 2
      <3>1. out[2] = q.out[2] /\ Len(out) >= 2
        BY <2>1, <1>1, <1>3, <1>5
      <3> QED BY <2>1, <3>1 DEF Base, size, b
    <2>2. CASE size = 1
      <3>1. b = 1
        BY <2>2 DEF Base, size, b
      <3>2. out[2].kind # "step"
        <4>1. CASE Len(events) = 1
          BY <4>1, <2>2, <1>3, <1>5
        <4>2. CASE Len(events) = 0
          BY <4>2, <2>2, <1>4, <1>5 DEF Event
        <4> QED BY <4>1, <4>2, <1>3
      <3> QED BY <3>1, <3>2 DEF Base
    <2> QED BY <2>1, <2>2, <1>1, <1>2
  <1>8. Piecewise(r) /\ ~Rejected(r) /\ Concluded(r)
    <2>1. out[1] = Event("start", <<>>) /\ (b = 2 => out[2] = Event("step", <<>>))
      <3>1. out[1] = q.out[1] /\ (b = 2 => out[2] = q.out[2])
        BY <1>1, <1>2, <1>5
      <3> QED BY <3>1, <1>2 DEF Piecewise, b
    <2>2. Len(out) >= b + t
      BY <1>1, <1>2, <1>3, <1>5
    <2>3. \A i \in 1 .. t : out[b + i] = Event("delta", <<q.text[i]>>)
      <3> SUFFICES ASSUME NEW i \in 1 .. t PROVE out[b + i] = Event("delta", <<q.text[i]>>)
        OBVIOUS
      <3>1. q.out[b + i] = Event("delta", <<q.text[i]>>)
        BY <1>2 DEF Piecewise, b, t
      <3>2. b + i \in 1 .. size
        BY <1>1, <1>2
      <3> QED BY <3>1, <3>2, <1>5
    <2>4. Piecewise(r)
      BY <2>1, <2>2, <2>3, <1>6, <1>7 DEF Piecewise, t
    <2>5. r.out # <<Event("error", <<>>)>>
      <3>1. r.out[1].kind = "start"
        BY <2>1, <1>6 DEF Event
      <3>2. <<Event("error", <<>>)>>[1].kind = "error"
        BY DEF Event
      <3> QED BY <3>1, <3>2
    <2> QED BY <2>4, <2>5, <1>6 DEF Rejected, Concluded
  <1>9. Ending(r)
    <2>1. Base(r.out) + Len(r.text) = size
      BY <1>2, <1>6, <1>7 DEF t
    <2>2. Len(r.out) = size + Len(events) + 2
      BY <1>5, <1>6
    <2>3. /\ r.out[Len(r.out) - 1] = Event("answer", r.answer)
          /\ r.out[Len(r.out)] = Event("done", <<>>)
      <3>1. Len(r.out) - 1 = size + Len(events) + 1
        BY <2>2, <1>1, <1>3
      <3>2. /\ r.out[size + Len(events) + 1] = Event("answer", answer)
            /\ r.out[size + Len(events) + 2] = Event("done", <<>>)
        BY <1>4, <1>5, <1>6
      <3> QED BY <2>2, <3>1, <3>2, <1>6
    <2>4. Len(events) = 1 => r.out[size + 1].kind \in {"error", "navigate", "proposal"}
      BY <1>3, <1>5, <1>6
    <2>5. Len(r.out) = size + 2 \/ (Len(r.out) = size + 3 /\ Len(events) = 1)
      <3>1. CASE Len(events) = 0
        BY <3>1, <2>2, <1>1
      <3>2. CASE Len(events) = 1
        BY <3>2, <2>2, <1>1
      <3> QED BY <3>1, <3>2, <1>3
    <2> QED BY <2>1, <2>3, <2>4, <2>5 DEF Ending
  <1>10. RunOk(r)
    BY <1>6, <1>8, <1>9 DEF RunOk
  <1>11. ASSUME NEW n \in 0 .. size PROVE Said(r, n) = Said(q, n)
    <2>1. n <= Base(q.out) + Len(q.text) /\ n < Len(r.out) - 1
      BY <1>1, <1>2, <1>3, <1>5, <1>6, <1>11 DEF b, t
    <2>2. ~Concluded(q)
      BY DEF Concluded
    <2>3. Base(r.out) = Base(q.out) /\ Len(q.text) <= Len(r.text)
      BY <1>1, <1>6, <1>7 DEF b, t
    <2>4. \A i \in 1 .. Len(q.text) : r.text[i] = q.text[i]
      BY <1>6
    <2>5. n \in Nat
      BY <1>1, <1>11
    <2> QED BY <2>1, <2>2, <2>3, <2>4, <2>5, <1>6, SameSaid
  <1>12. ~q.reasoned
    BY DEF RunOk
  <1> QED BY <1>2, <1>5, <1>6, <1>8, <1>10, <1>11, <1>12 DEF Extends, size

-----------------------------------------------------------------------------
(* The handler. *)

Moves(k, r) ==
  /\ reader[k] \in {"open", "left"} /\ r \in Runs /\ r.phase \notin {"none", "gone"}
  /\ Len(r.text) <= MaxPieces
  /\ RunOk(r) /\ Extends(run[k], r)
  /\ run' = [run EXCEPT ![k] = r] /\ Still

Sent(q, phase, events) == [q EXCEPT !.phase = phase, !.out = @ \o events]

LEMMA Updates ==
  ASSUME TypeInv, NEW k \in Asks, NEW phase, NEW events, NEW answer
  PROVE  /\ Go(k, phase, events) => run' = [run EXCEPT ![k] = Sent(run[k], phase, events)]
         /\ Conclude(k, events, answer) => run' = [run EXCEPT ![k] = Closed(run[k], events, answer)]
  BY DEF TypeInv, StateTyped, Go, Conclude, Sent, Closed

LEMMA OpenRun ==
  ASSUME TypeInv, OpenRuns, NEW k \in Asks, run[k].phase \in {"start", "loop", "writing", "trace", "ended"}
  PROVE  /\ reader[k] \in {"open", "left"} /\ run[k] \in Runs /\ RunOk(run[k]) /\ Len(run[k].text) <= MaxPieces
         /\ run[k].out \in Seq(Events) /\ run[k].text \in Seq(Pieces) /\ run[k].answer \in Seq(Words)
  <1>1. reader[k] \in {"open", "left"} /\ run[k] \in Runs /\ Len(run[k].text) <= MaxPieces
    BY DEF TypeInv, StateTyped, Bounds
  <1> QED BY <1>1 DEF OpenRuns, Runs

LEMMA ConcludeMoves ==
  ASSUME TypeInv, OpenRuns, NEW k \in Asks, run[k].phase \in {"loop", "writing"}, Still,
         NEW events, Extra(events), NEW answer \in Seq(Words),
         ~Reasoned(events) => ~Contains(answer, Secret), Conclude(k, events, answer)
  PROVE  \E r : Moves(k, r)
  <1> DEFINE r == Closed(run[k], events, answer)
  <1>1. reader[k] \in {"open", "left"} /\ run[k] \in Runs /\ RunOk(run[k]) /\ Len(run[k].text) <= MaxPieces
    BY OpenRun
  <1>2. r \in Runs /\ RunOk(r) /\ Extends(run[k], r) /\ r.text = run[k].text /\ r.phase = "trace"
    BY <1>1, Concluding
  <1>3. run' = [run EXCEPT ![k] = r]
    BY Updates
  <1> HIDE DEF r
  <1> QED BY <1>1, <1>2, <1>3 DEF Moves

LEMMA BeginMoves ==
  ASSUME TypeInv, OpenRuns, NEW k \in Asks, Begin(k)
  PROVE  \E r : Moves(k, r)
  <1> DEFINE q == run[k]
  <1>1. reader[k] \in {"open", "left"} /\ q \in Runs /\ RunOk(q) /\ q.phase = "start" /\ Still
    BY OpenRun DEF Begin
  <1>2. q.out = <<>> /\ q.text = <<>> /\ Len(q.out) = 0 /\ Len(q.text) = 0
    BY <1>1 DEF RunOk
  <1>3. ~Concluded(q)
    BY <1>1 DEF Concluded
  <1>4. ASSUME NEW phase, NEW kind, <<phase, kind>> \in {<<"loop", "start">>, <<"ended", "error">>},
               Go(k, phase, <<Event(kind, <<>>)>>)
        PROVE  \E r : Moves(k, r)
    <2> DEFINE e == Event(kind, <<>>)
               r == Sent(q, phase, <<e>>)
    <2>1. kind \in Kinds /\ <<>> \in Seq(Words) /\ phase \in {"loop", "ended"}
      BY <1>4 DEF Kinds
    <2>2. e \in Events /\ e.kind = kind
      BY <2>1, EventTyped
    <2> HIDE DEF e, q
    <2>3. <<>> \o <<e>> = <<e>>
      BY <2>2
    <2>4. /\ r \in Runs /\ r.phase = phase /\ r.text = <<>> /\ r.out = <<e>> /\ r.answer = q.answer
          /\ r.reasoned = q.reasoned
      <3>1. r = [q EXCEPT !.phase = phase, !.out = <<e>>]
        BY <1>2, <2>3 DEF Sent
      <3>2. <<e>> \in Seq(Events) /\ phase \in Phases
        BY <2>1, <2>2 DEF Phases
      <3> QED BY <1>1, <1>2, <3>1, <3>2 DEF Runs
    <2>5. run' = [run EXCEPT ![k] = r]
      BY <1>4, Updates DEF q, e
    <2> HIDE DEF r
    <2>6. Base(r.out) = 1 /\ Len(r.out) = 1 /\ Len(r.text) = 0
      BY <2>4 DEF Base
    <2>7. RunOk(r) /\ ~Concluded(r)
      <3>1. CASE phase = "loop" /\ kind = "start"
        <4>1. e = Event("start", <<>>)
          BY <3>1 DEF e
        <4>2. <<Event("start", <<>>)>> # <<Event("error", <<>>)>>
          <5>1. Event("start", <<>>) # Event("error", <<>>)
            BY DEF Event
          <5> QED BY <5>1
        <4>3. ~Rejected(r) /\ ~Concluded(r)
          BY <3>1, <4>1, <4>2, <2>4 DEF Rejected, Concluded
        <4>4. Piecewise(r)
          BY <2>4, <2>6, <4>1 DEF Piecewise
        <4> QED BY <3>1, <4>3, <4>4, <1>1, <2>4, <2>6 DEF RunOk
      <3>2. CASE phase = "ended" /\ kind = "error"
        <4>1. Rejected(r) /\ ~Concluded(r)
          BY <3>2, <2>4 DEF e, Rejected, Concluded
        <4> QED BY <3>2, <4>1, <1>1, <1>2, <2>4 DEF RunOk
      <3> QED BY <3>1, <3>2, <1>4
    <2>8. Extends(q, r)
      <3>1. \A n \in 0 .. Len(q.out) : Said(r, n) = Said(q, n)
        BY <1>1, <1>2, <1>3, <2>4, <2>7, NothingSaid
      <3> QED BY <3>1, <1>2, <2>4, <2>6, <2>7 DEF Extends
    <2>9. Len(r.text) <= MaxPieces /\ r.phase \notin {"none", "gone"}
      BY <2>1, <2>4, <2>6, ConstantsTyped
    <2> QED BY <1>1, <2>4, <2>5, <2>7, <2>8, <2>9 DEF Moves, q
  <1>5. \/ Go(k, "loop", <<Event("start", <<>>)>>)
        \/ Go(k, "ended", <<Event("error", <<>>)>>)
    BY DEF Begin
  <1> QED BY <1>4, <1>5

LEMMA StepMoves ==
  ASSUME TypeInv, OpenRuns, NEW k \in Asks, Step(k)
  PROVE  \E r : Moves(k, r)
  <1> DEFINE q == run[k]
             e == Event("step", <<>>)
             r == Sent(q, "loop", <<e>>)
  <1>1. reader[k] \in {"open", "left"} /\ q \in Runs /\ RunOk(q) /\ q.phase = "loop" /\ Still /\ q.out \in Seq(Events)
    BY OpenRun DEF Step
  <1>2. /\ \A i \in DOMAIN q.out : q.out[i].kind # "step"
        /\ run' = [run EXCEPT ![k] = r]
    BY Updates DEF Step
  <1>3. e \in Events /\ e.kind = "step" /\ e # Event("error", <<>>)
    <2>1. <<>> \in Seq(Words) /\ "step" \in Kinds
      BY DEF Kinds
    <2> QED BY <2>1, EventTyped DEF Event
  <1> HIDE DEF q, e
  <1>4. q.text = <<>> /\ Len(q.text) = 0 /\ Piecewise(q) /\ ~Rejected(q) /\ Len(q.out) = Base(q.out)
    <2>1. q.text = <<>> /\ Piecewise(q) /\ ~Rejected(q) /\ Len(q.out) = Base(q.out) + Len(q.text)
      BY <1>1 DEF RunOk
    <2>2. Len(q.text) = 0 /\ Base(q.out) \in Nat
      BY <2>1 DEF Base
    <2> QED BY <2>1, <2>2
  <1>5. Base(q.out) = 1 /\ Len(q.out) = 1 /\ q.out[1] = Event("start", <<>>)
    <2>1. Base(q.out) = 1
      BY <1>1, <1>2 DEF Base
    <2> QED BY <2>1, <1>4 DEF Piecewise
  <1>6. /\ r \in Runs /\ r.phase = "loop" /\ r.text = <<>> /\ r.answer = q.answer /\ r.out = q.out \o <<e>>
        /\ r.reasoned = q.reasoned
    <2>1. q.out \o <<e>> \in Seq(Events)
      BY <1>1, <1>3
    <2> QED BY <2>1, <1>1, <1>4 DEF Sent, Runs, Phases
  <1> HIDE DEF r
  <1>7. Len(r.out) = 2 /\ r.out[1] = Event("start", <<>>) /\ r.out[2] = e /\ r.out # <<>>
    BY <1>1, <1>3, <1>5, <1>6
  <1>8. Base(r.out) = 2 /\ Len(r.text) = 0
    BY <1>3, <1>6, <1>7 DEF Base
  <1>9. ~Rejected(r) /\ ~Concluded(r) /\ ~Concluded(q)
    <2>1. Len(<<Event("error", <<>>)>>) = 1
      OBVIOUS
    <2> QED BY <2>1, <1>1, <1>6, <1>7 DEF Rejected, Concluded
  <1>10. Piecewise(r)
    BY <1>6, <1>7, <1>8 DEF Piecewise, e
  <1>11. RunOk(r)
    BY <1>1, <1>6, <1>7, <1>8, <1>9, <1>10, <1>4 DEF RunOk
  <1>12. Extends(q, r)
    <2>1. \A n \in 0 .. Len(q.out) : Said(r, n) = Said(q, n)
      BY <1>1, <1>4, <1>5, <1>6, <1>9, NothingSaid
    <2> QED BY <2>1, <1>4, <1>5, <1>6, <1>7, <1>9 DEF Extends
  <1>13. Len(r.text) <= MaxPieces
    BY <1>8, ConstantsTyped
  <1> QED BY <1>1, <1>2, <1>6, <1>11, <1>12, <1>13 DEF Moves, q

(* The writing begins: nothing is sent. *)
LEMMA TurnsToWriting ==
  ASSUME NEW q \in Runs, RunOk(q), q.phase = "loop", NEW r, r = [q EXCEPT !.phase = "writing"]
  PROVE  r \in Runs /\ RunOk(r) /\ Extends(q, r) /\ r.phase = "writing" /\ r.text = q.text
  <1>1. /\ r \in Runs /\ r.phase = "writing" /\ r.text = q.text /\ r.out = q.out /\ r.answer = q.answer
        /\ r.reasoned = q.reasoned
    BY DEF Runs, Phases
  <1>2. ~Concluded(q) /\ ~Concluded(r) /\ (Rejected(r) <=> Rejected(q))
    BY <1>1 DEF Concluded, Rejected
  <1>3. q.text = <<>> /\ Piecewise(q) /\ ~Rejected(q)
    BY DEF RunOk
  <1>4. Piecewise(r)
    BY <1>1, <1>3 DEF Piecewise
  <1>5. RunOk(r)
    BY <1>1, <1>2, <1>3, <1>4 DEF RunOk
  <1>6. \A n \in 0 .. Len(q.out) : Said(r, n) = Said(q, n)
    <2>1. Len(q.out) \in Nat
      BY DEF Runs
    <2>2. 0 .. Len(q.out) \subseteq Nat
      BY <2>1
    <2> QED BY <2>2, <1>1, <1>2, <1>3, NothingSaid
  <1>7. Len(q.out) <= Len(r.out)
    BY <1>1 DEF Runs
  <1> QED BY <1>1, <1>2, <1>5, <1>6, <1>7 DEF Extends

(* What the loop ends with: nobody looks at what comes with it.            *)
LEMMA Endings ==
  ASSUME NEW text \in Raw
  PROVE  /\ text \in Seq(Words)
         /\ Extra(<<>>) /\ Extra(<<Event("error", text)>>)
         /\ Extra(<<Event("navigate", <<>>)>>) /\ Extra(<<Event("proposal", <<>>)>>)
         /\ Reasoned(<<Event("navigate", <<>>)>>) /\ Reasoned(<<Event("proposal", <<>>)>>)
  <1>1. text \in Seq(Words)
    BY ConstantsTyped, SeqMonotonic DEF Words
  <1>2. ASSUME NEW kind \in {"navigate", "proposal"} PROVE Reasoned(<<Event(kind, <<>>)>>)
    <2>1. 1 \in DOMAIN <<Event(kind, <<>>)>> /\ <<Event(kind, <<>>)>>[1] = Event(kind, <<>>)
      OBVIOUS
    <2>2. Event(kind, <<>>).kind = kind
      BY DEF Event
    <2> QED BY <1>2, <2>1, <2>2 DEF Reasoned
  <1>3. <<>> \in Seq(Words)
    OBVIOUS
  <1> QED BY <1>1, <1>2, <1>3 DEF Extra

LEMMA LoopEndsMoves ==
  ASSUME TypeInv, OpenRuns, NEW k \in Asks, LoopEnds(k)
  PROVE  \E r : Moves(k, r)
  <1>1. run[k].phase = "loop" /\ Still
    BY DEF LoopEnds
  <1>2. ASSUME NEW text \in Raw,
               \/ Conclude(k, <<Event("error", text)>>, <<>>)
               \/ Conclude(k, <<Event("navigate", <<>>)>>, text)
               \/ Conclude(k, <<Event("proposal", <<>>)>>, text)
        PROVE  \E r : Moves(k, r)
    <2>1. <<>> \in Seq(Words) /\ ~Contains(<<>>, Secret)
      BY OthersHoldNone
    <2> QED BY <1>1, <1>2, <2>1, Endings, ConcludeMoves
  <1>4. CASE Conclude(k, <<>>, <<Refusal>>)
    <2>1. <<Refusal>> \in Seq(Words) /\ ~Contains(<<Refusal>>, Secret) /\ Extra(<<>>)
      BY OthersHoldNone DEF Words, Extra
    <2> QED BY <1>1, <1>4, <2>1, ConcludeMoves
  <1>3. CASE run' = [run EXCEPT ![k].phase = "writing"]
    <2> DEFINE r == [run[k] EXCEPT !.phase = "writing"]
    <2>1. reader[k] \in {"open", "left"} /\ run[k] \in Runs /\ RunOk(run[k]) /\ Len(run[k].text) <= MaxPieces
      BY <1>1, OpenRun
    <2>2. r \in Runs /\ RunOk(r) /\ Extends(run[k], r) /\ r.phase = "writing" /\ r.text = run[k].text
      BY <1>1, <2>1, TurnsToWriting
    <2>3. run' = [run EXCEPT ![k] = r]
      BY <1>3
    <2> HIDE DEF r
    <2> QED BY <1>1, <2>1, <2>2, <2>3 DEF Moves
  <1> QED BY <1>2, <1>3, <1>4 DEF LoopEnds

LEMMA WritingEndsMoves ==
  ASSUME TypeInv, OpenRuns, NEW k \in Asks, WritingEnds(k)
  PROVE  \E r : Moves(k, r)
  <1>1. run[k].phase = "writing" /\ Still
    BY DEF WritingEnds
  <1>2. run[k].text \in Seq(Words) /\ ~Contains(run[k].text, Secret)
    BY <1>1, OpenRun, SeqMonotonic DEF RunOk, Words
  <1>3. <<>> \in Seq(Words) /\ ~Contains(<<>>, Secret)
    BY OthersHoldNone
  <1>4. ASSUME NEW text \in Raw, Conclude(k, <<Event("error", text)>>, <<>>)
        PROVE  \E r : Moves(k, r)
    BY <1>1, <1>3, <1>4, Endings, ConcludeMoves
  <1>5. Extra(<<>>)
    BY DEF Extra
  <1> QED BY <1>1, <1>2, <1>4, <1>5, ConcludeMoves DEF WritingEnds

LEMMA RecordTraceMoves ==
  ASSUME TypeInv, OpenRuns, NEW k \in Asks, RecordTrace(k)
  PROVE  \E r : Moves(k, r)
  <1> DEFINE q == run[k]
             r == Sent(q, "ended", <<>>)
  <1>1. reader[k] \in {"open", "left"} /\ q \in Runs /\ RunOk(q) /\ q.phase = "trace" /\ q.out \in Seq(Events)
        /\ Still /\ Len(q.text) <= MaxPieces
    BY OpenRun DEF RecordTrace
  <1>2. run' = [run EXCEPT ![k] = r]
    BY Updates DEF RecordTrace
  <1> HIDE DEF q
  <1>3. q.out \o <<>> = q.out
    BY <1>1, ConcatEmptySeq
  <1>4. /\ r \in Runs /\ r.phase = "ended" /\ r.text = q.text /\ r.answer = q.answer /\ r.out = q.out
        /\ r.reasoned = q.reasoned
    BY <1>1, <1>3 DEF Sent, Runs, Phases
  <1> HIDE DEF r
  <1>5. ~Rejected(q) /\ ~Rejected(r) /\ Concluded(q) /\ Concluded(r)
    BY <1>1, <1>4 DEF RunOk, Rejected, Concluded
  <1>6. Piecewise(q) /\ Ending(q)
    BY <1>1, <1>5 DEF RunOk
  <1>7. Piecewise(r) /\ Ending(r)
    BY <1>4, <1>6 DEF Piecewise, Ending
  <1>8. RunOk(r)
    BY <1>1, <1>4, <1>5, <1>7 DEF RunOk
  <1>9. \A n : Said(r, n) = Said(q, n)
    BY <1>4, <1>5 DEF Said
  <1>10. Len(q.out) <= Len(r.out)
    BY <1>1, <1>4
  <1>11. Extends(q, r)
    BY <1>4, <1>5, <1>9, <1>10 DEF Extends
  <1> QED BY <1>1, <1>2, <1>4, <1>8, <1>11 DEF Moves, q

(* A piece is handed on. *)
WithPiece(q, p) ==
  [q EXCEPT !.text = Append(q.text, p), !.out = Append(@, Event("delta", <<p>>))]

LEMMA PieceMoves ==
  ASSUME NEW q \in Runs, RunOk(q), q.phase = "writing", NEW p \in Pieces,
         ~Contains(Append(q.text, p), Secret),
         NEW r, r = WithPiece(q, p)
  PROVE  r \in Runs /\ RunOk(r) /\ Extends(q, r) /\ r.phase = "writing" /\ Len(r.text) = Len(q.text) + 1
  <1> DEFINE e == Event("delta", <<p>>)
             text == Append(q.text, p)
             out == Append(q.out, e)
             b == Base(q.out)
             t == Len(q.text)
             size == Len(q.out)
  <1>1. q.out \in Seq(Events) /\ q.text \in Seq(Pieces) /\ b \in {1, 2} /\ t \in Nat /\ size \in Nat
    BY DEF Runs, Base
  <1>2. Piecewise(q) /\ ~Rejected(q) /\ size = b + t /\ q.out[1] = Event("start", <<>>) /\ q.out # <<>>
    <2>1. Piecewise(q) /\ ~Rejected(q) /\ size = b + t
      BY DEF RunOk
    <2> QED BY <1>1, <2>1 DEF Piecewise
  <1>3. e \in Events /\ e.kind = "delta"
    <2>1. <<p>> \in Seq(Words) /\ "delta" \in Kinds
      BY DEF Kinds, Words
    <2> QED BY <2>1, EventTyped
  <1>4. /\ text \in Seq(Pieces) /\ Len(text) = t + 1 /\ text[t + 1] = p
        /\ \A i \in 1 .. t : text[i] = q.text[i]
    BY <1>1, AppendProperties
  <1> HIDE DEF e
  <1>5. /\ out \in Seq(Events) /\ Len(out) = size + 1 /\ out[size + 1] = e
        /\ \A i \in 1 .. size : out[i] = q.out[i]
    BY <1>1, <1>3, AppendProperties
  <1>6. /\ r \in Runs /\ r.phase = "writing" /\ r.text = text /\ r.answer = q.answer /\ r.out = out
        /\ r.reasoned = q.reasoned
    BY <1>4, <1>5 DEF Runs, e, WithPiece
  <1>7. ~Concluded(q) /\ ~Concluded(r) /\ ~Contains(r.text, Secret)
    BY <1>6 DEF Concluded
  <1> HIDE DEF out, text, size, b, t
  <1>8. Base(out) = b
    <2>1. CASE size >= 2
      <3>1. out[2] = q.out[2] /\ Len(out) >= 2
        BY <2>1, <1>1, <1>5
      <3> QED BY <2>1, <3>1 DEF Base, size, b
    <2>2. CASE size = 1
      <3>1. b = 1
        BY <2>2 DEF Base, size, b
      <3>2. out[2].kind # "step"
        BY <2>2, <1>3, <1>5
      <3> QED BY <3>1, <3>2 DEF Base
    <2> QED BY <2>1, <2>2, <1>1, <1>2
  <1>9. Piecewise(r) /\ ~Rejected(r)
    <2>1. out[1] = Event("start", <<>>) /\ (b = 2 => out[2] = Event("step", <<>>))
      <3>1. out[1] = q.out[1] /\ (b = 2 => out[2] = q.out[2])
        BY <1>1, <1>2, <1>5
      <3> QED BY <3>1, <1>2 DEF Piecewise, b
    <2>2. Len(out) = b + Len(text) /\ Len(out) >= 2
      BY <1>1, <1>2, <1>4, <1>5
    <2>3. \A i \in 1 .. Len(text) : out[b + i] = Event("delta", <<text[i]>>)
      <3> SUFFICES ASSUME NEW i \in 1 .. Len(text) PROVE out[b + i] = Event("delta", <<text[i]>>)
        OBVIOUS
      <3>1. CASE i <= t
        <4>1. i \in 1 .. t /\ b + i \in 1 .. size
          BY <3>1, <1>1, <1>2, <1>4
        <4>2. q.out[b + i] = Event("delta", <<q.text[i]>>)
          BY <4>1, <1>2 DEF Piecewise, b, t
        <4> QED BY <4>1, <4>2, <1>4, <1>5
      <3>2. CASE i = t + 1
        BY <3>2, <1>1, <1>2, <1>4, <1>5 DEF e
      <3> QED BY <3>1, <3>2, <1>1, <1>4
    <2>4. Piecewise(r)
      BY <2>1, <2>2, <2>3, <1>6, <1>8, <1>1, <1>4 DEF Piecewise
    <2>5. Len(<<Event("error", <<>>)>>) = 1
      OBVIOUS
    <2> QED BY <2>2, <2>4, <2>5, <1>6 DEF Rejected
  <1>10. Len(r.out) = Base(r.out) + Len(r.text)
    BY <1>1, <1>2, <1>4, <1>5, <1>6, <1>8
  <1>11. RunOk(r)
    BY <1>6, <1>7, <1>9, <1>10 DEF RunOk
  <1>12. ASSUME NEW n \in 0 .. size PROVE Said(r, n) = Said(q, n)
    <2>1. n \in Nat /\ n <= Base(q.out) + Len(q.text)
      BY <1>1, <1>2, <1>12 DEF b, t
    <2>2. Len(q.text) <= Len(r.text) /\ Base(r.out) = Base(q.out)
      BY <1>1, <1>4, <1>6, <1>8 DEF b, t
    <2>3. \A i \in 1 .. Len(q.text) : r.text[i] = q.text[i]
      BY <1>4, <1>6 DEF t
    <2> QED BY <2>1, <2>2, <2>3, <1>6, <1>7, SameSaid
  <1>13. Len(q.out) < Len(r.out) /\ Len(r.text) = Len(q.text) + 1
    BY <1>1, <1>4, <1>5, <1>6 DEF size, t
  <1> QED BY <1>6, <1>7, <1>9, <1>11, <1>12, <1>13, <1>2 DEF Extends, size

LEMMA WriteMoves ==
  ASSUME TypeInv, OpenRuns, NEW k \in Asks, Write(k)
  PROVE  \E r : Moves(k, r)
  <1> DEFINE q == run[k]
  <1>1. /\ reader[k] \in {"open", "left"} /\ q \in Runs /\ RunOk(q) /\ q.phase = "writing" /\ Still
        /\ Len(q.text) < MaxPieces
    BY OpenRun DEF Write
  <1>2. PICK p \in Pieces :
          \/ Conclude(k, <<Event("error", <<>>)>>, <<Refusal>>)
          \/ /\ ~Contains(Append(q.text, p), Secret)
             /\ run' = [run EXCEPT ![k].text = Append(q.text, p), ![k].out = Append(@, Event("delta", <<p>>))]
    BY DEF Write, Leaks
  <1>3. CASE Conclude(k, <<Event("error", <<>>)>>, <<Refusal>>)
    <2>1. <<Refusal>> \in Seq(Words) /\ ~Contains(<<Refusal>>, Secret) /\ <<>> \in Seq(Words)
      BY OthersHoldNone DEF Words
    <2>2. Extra(<<Event("error", <<>>)>>)
      BY <2>1 DEF Extra
    <2> QED BY <1>1, <1>3, <2>1, <2>2, ConcludeMoves
  <1>4. CASE /\ ~Contains(Append(q.text, p), Secret)
             /\ run' = [run EXCEPT ![k].text = Append(q.text, p), ![k].out = Append(@, Event("delta", <<p>>))]
    <2> DEFINE r == WithPiece(q, p)
    <2>1. run' = [run EXCEPT ![k] = r]
      BY <1>4 DEF WithPiece
    <2>2. r \in Runs /\ RunOk(r) /\ Extends(q, r) /\ r.phase = "writing" /\ Len(r.text) = Len(q.text) + 1
      BY <1>1, <1>4, PieceMoves
    <2>3. Len(q.text) + 1 <= MaxPieces
      BY <1>1, ConstantsTyped DEF Runs
    <2> HIDE DEF r
    <2> QED BY <1>1, <2>1, <2>2, <2>3 DEF Moves
  <1> QED BY <1>2, <1>3, <1>4

LEMMA ServeMoves ==
  ASSUME TypeInv, OpenRuns, NEW k \in Asks, Serve(k)
  PROVE  \E r : Moves(k, r)
  BY BeginMoves, StepMoves, LoopEndsMoves, WriteMoves, WritingEndsMoves, RecordTraceMoves DEF Serve

-----------------------------------------------------------------------------
(* Types. *)

LEMMA NoneIsNoAsk == None \notin Asks /\ Asks \subseteq Nat
  BY ConstantsTyped DEF Asks

LEMMA FreshTyped ==
  /\ Fresh \in Views /\ Fresh.asked = None /\ Fresh.turns = <<>> /\ Fresh.answer = <<>>
  /\ Fresh.proposal = None /\ Fresh.trace = None /\ ~Fresh.running /\ Fresh.steps = {}
  /\ Fresh.navigation = None /\ Fresh.error = None /\ Fresh.quote = <<>> /\ Fresh.done = None
  BY DEF Fresh, Views, AskOrNone, Texts, Turns

LEMMA DrawnTyped ==
  ASSUME NEW v \in Views
  PROVE  Drawn(v) \in [form : Forms \cup {None}, card : Cards \cup {None}]
  <1>1. [asked |-> v.asked, turns |-> v.turns, answer |-> v.answer] \in Forms
    BY DEF Views, Forms
  <1>2. v.proposal # None => [proposal |-> v.proposal, trace |-> v.trace] \in Cards
    BY DEF Views, Cards, AskOrNone
  <1> QED BY <1>1, <1>2 DEF Drawn

LEMMA HistoryTyped ==
  ASSUME StateTyped, seen.form # None
  PROVE  seen.form \in Forms /\ History \in Turns
  <1>1. seen.form \in Forms
    BY DEF StateTyped
  <1> DEFINE f == seen.form
             T == [query : Asks, answer : Texts \ {<<>>}]
  <1>2. f.turns \in Seq(T) /\ f.asked \in AskOrNone /\ f.answer \in Texts
    BY <1>1 DEF Forms, Turns
  <1>3. ASSUME f.asked # None, f.answer # <<>>
        PROVE  Append(f.turns, [query |-> f.asked, answer |-> f.answer]) \in Seq(T)
    <2>1. [query |-> f.asked, answer |-> f.answer] \in T
      BY <1>2, <1>3 DEF AskOrNone
    <2> HIDE DEF T
    <2> QED BY <1>2, <2>1, AppendProperties
  <1> QED BY <1>1, <1>2, <1>3 DEF History, Turns

LEMMA ClearedTyped ==
  ASSUME NEW k \in Asks, NEW h \in Turns
  PROVE  /\ Cleared(k, h) \in Views /\ Cleared(k, h).asked = k /\ Cleared(k, h).turns = h
         /\ Cleared(k, h).running /\ Cleared(k, h).answer = <<>> /\ Cleared(k, h).steps = {}
         /\ Cleared(k, h).proposal = None /\ Cleared(k, h).trace = None
         /\ Cleared(k, h).navigation = None /\ Cleared(k, h).error = None
         /\ Cleared(k, h).quote = <<>> /\ Cleared(k, h).done = None
  BY FreshTyped DEF Cleared, Views, AskOrNone

LEMMA ShownTyped ==
  ASSUME view \in Views, NEW k \in Asks, NEW e \in Events
  PROVE  Shown(k, e) \in Views /\ Shown(k, e).running = view.running
  <1>1. e.kind \in Kinds /\ e.text \in Seq(Words)
    BY DEF Events
  <1>2. From(k, e.text) \in Texts
    BY <1>1, WrittenFrom
  <1>3. view.answer \in Texts /\ view.answer \o From(k, e.text) \in Texts
    BY <1>2, ConcatProperties DEF Views, Texts
  <1>4. k \in AskOrNone
    BY DEF AskOrNone
  <1> HIDE DEF Events
  <1>5. CASE e.kind = "start"
    BY <1>4, <1>5 DEF Shown, Views
  <1>6. CASE e.kind = "step"
    BY <1>6 DEF Shown, Views
  <1>7. CASE e.kind = "delta"
    BY <1>3, <1>7 DEF Shown, Views
  <1>8. CASE e.kind = "error"
    BY <1>2, <1>4, <1>8 DEF Shown, ShownError, Views
  <1>9. CASE e.kind = "proposal"
    BY <1>4, <1>9 DEF Shown, Views
  <1>10. CASE e.kind = "navigate"
    BY <1>4, <1>10 DEF Shown, Views
  <1>11. CASE e.kind = "answer"
    BY <1>2, <1>11 DEF Shown, Views
  <1>12. CASE e.kind = "done"
    BY <1>4, <1>12 DEF Shown, Views
  <1> QED BY <1>1, <1>5, <1>6, <1>7, <1>8, <1>9, <1>10, <1>11, <1>12 DEF Kinds

LEMMA TypeInit == Init => TypeInv
  <1> SUFFICES ASSUME Init PROVE TypeInv
    OBVIOUS
  <1>1. /\ NoRun \in Runs /\ NoRun.phase = "none" /\ Len(NoRun.out) = 0 /\ Len(NoRun.text) = 0
        /\ ~NoRun.reasoned
    BY DEF NoRun, Runs, Phases
  <1>2. StateTyped
    BY <1>1, FreshTyped, DrawnTyped DEF Init, StateTyped, AskOrNone
  <1>3. Bounds
    BY <1>1, ConstantsTyped DEF Init, Bounds
  <1>4. AskedInOrder /\ Waits
    BY FreshTyped, NoneIsNoAsk DEF Init, AskedInOrder, Waits
  <1> QED BY <1>2, <1>3, <1>4 DEF TypeInv

LEMMA MovesTyped ==
  ASSUME TypeInv, NEW k \in Asks, NEW r, Moves(k, r)
  PROVE  TypeInv'
  <1>1. /\ reader[k] \in {"open", "left"} /\ r \in Runs /\ r.phase \notin {"none", "gone"}
        /\ Len(r.text) <= MaxPieces /\ Len(run[k].out) <= Len(r.out) /\ run' = [run EXCEPT ![k] = r]
        /\ UNCHANGED <<view, seen, current, reader, heard, approvals>>
    BY DEF Moves, Extends, Still
  <1>2. StateTyped'
    BY <1>1 DEF TypeInv, StateTyped
  <1>3. Bounds'
    <2>1. heard[k] <= Len(r.out)
      BY <1>1 DEF TypeInv, Bounds, StateTyped, Runs
    <2> QED BY <1>1, <2>1 DEF TypeInv, Bounds, StateTyped
  <1>4. AskedInOrder' /\ Waits'
    BY <1>1 DEF TypeInv, AskedInOrder, Waits
  <1> QED BY <1>2, <1>3, <1>4 DEF TypeInv

LEMMA NoRunTyped ==
  /\ NoRun \in Runs /\ NoRun.phase = "none" /\ NoRun.out = <<>> /\ NoRun.text = <<>> /\ NoRun.answer = <<>>
  /\ ~NoRun.reasoned
  BY DEF NoRun, Runs, Phases

LEMMA OverTyped ==
  ASSUME StateTyped, NEW k \in Asks
  PROVE  /\ Over(k) \in Runs /\ Over(k).phase = "gone" /\ Over(k).answer = run[k].answer
         /\ Over(k).out = <<>> /\ Over(k).text = <<>> /\ Over(k).reasoned = run[k].reasoned
  <1>1. run[k].answer \in Seq(Words) /\ run[k].reasoned \in BOOLEAN /\ "gone" \in Phases
    BY DEF StateTyped, Runs, Phases
  <1> QED BY <1>1, NoRunTyped DEF Over, Runs

LEMMA AskTyped ==
  ASSUME TypeInv, NEW k \in Asks, Ask(k)
  PROVE  TypeInv'
  <1> DEFINE new == [NoRun EXCEPT !.phase = "start"]
  <1>1. new \in Runs /\ new.phase = "start" /\ new.out = <<>> /\ new.text = <<>>
    BY NoRunTyped DEF Runs, Phases
  <1>2. /\ reader[k] = "none" /\ \A j \in Asks : j < k => reader[j] # "none"
        /\ reader' = [j \in Asks |-> IF j = k THEN "open" ELSE IF j = current THEN "aborted" ELSE reader[j]]
        /\ run' = [j \in Asks |-> IF j = k THEN new
                                  ELSE IF j = current THEN [run[j] EXCEPT !.phase = "gone"] ELSE run[j]]
        /\ current' = k /\ view' = Cleared(k, History) /\ seen.form # None
        /\ UNCHANGED <<seen, heard, approvals>>
    <2>1. reader' = [j \in Asks |-> CASE j = k -> "open" [] j = current -> "aborted"
                                      [] j \notin {k, current} -> reader[j]]
      BY DEF Ask
    <2>2. run' = [j \in Asks |-> CASE j = k -> new
                                   [] j = current -> [run[j] EXCEPT !.phase = "gone"]
                                   [] j \notin {k, current} -> run[j]]
      BY DEF Ask
    <2>3. current # k
      BY DEF Ask, TypeInv, Waits
    <2>4. reader' = [j \in Asks |-> IF j = k THEN "open" ELSE IF j = current THEN "aborted" ELSE reader[j]]
      BY <2>1, <2>3
    <2> HIDE DEF new
    <2>5. run' = [j \in Asks |-> IF j = k THEN new
                                 ELSE IF j = current THEN [run[j] EXCEPT !.phase = "gone"] ELSE run[j]]
      BY <2>2, <2>3
    <2> QED BY <2>4, <2>5 DEF Ask
  <1> HIDE DEF new
  <1>3. view' \in Views /\ view'.running
    BY <1>2, HistoryTyped, ClearedTyped DEF TypeInv
  <1>4. \A j \in Asks : run[j] \in Runs /\ [run[j] EXCEPT !.phase = "gone"] \in Runs
    BY DEF TypeInv, StateTyped, Runs, Phases
  <1>5. reader[current] = "open" \/ current = None
    BY NoneIsNoAsk DEF TypeInv, StateTyped, Waits, AskOrNone
  <1>6. StateTyped'
    <2>1. reader' \in [Asks -> {"none", "open", "left", "aborted", "closed"}]
      BY <1>2 DEF TypeInv, StateTyped
    <2>2. run' \in [Asks -> Runs]
      BY <1>1, <1>2, <1>4
    <2> QED BY <1>2, <1>3, <2>1, <2>2 DEF TypeInv, StateTyped, AskOrNone
  <1>7. Bounds'
    <2> SUFFICES ASSUME NEW j \in Asks
                 PROVE  /\ heard'[j] <= Len(run'[j].out) /\ Len(run'[j].text) <= MaxPieces
                        /\ reader'[j] = "none" <=> run'[j].phase = "none"
                        /\ reader'[j] = "none" => heard'[j] = 0 /\ ~run'[j].reasoned
                        /\ reader'[j] \in {"open", "left"} <=> run'[j].phase \notin {"none", "gone"}
      BY DEF Bounds
    <2>1. CASE j = k
      <3>1. heard[k] = 0 /\ Len(<<>>) = 0 /\ MaxPieces \in Nat
        BY <1>2, ConstantsTyped DEF TypeInv, Bounds
      <3> QED BY <2>1, <3>1, <1>1, <1>2
    <2>2. CASE j # k /\ j = current
      <3>1. run'[j].out = run[j].out /\ run'[j].text = run[j].text /\ run'[j].phase = "gone"
        BY <1>2, <1>4, <2>2 DEF Runs
      <3> QED BY <1>2, <2>2, <3>1 DEF TypeInv, Bounds
    <2>3. CASE j \notin {k, current}
      <3>1. run'[j] = run[j] /\ reader'[j] = reader[j] /\ heard'[j] = heard[j]
        BY <1>2, <2>3
      <3> QED BY <3>1 DEF TypeInv, Bounds
    <2> QED BY <2>1, <2>2, <2>3
  <1>8. AskedInOrder'
    <2>1. \A j \in Asks : reader'[j] = "none" <=> j # k /\ reader[j] = "none"
      BY <1>2, <1>5, NoneIsNoAsk
    <2> QED BY <2>1, <1>2, NoneIsNoAsk DEF TypeInv, AskedInOrder
  <1>9. Waits'
    BY <1>2, <1>3, NoneIsNoAsk DEF TypeInv, Waits
  <1> QED BY <1>6, <1>7, <1>8, <1>9 DEF TypeInv

(* A stream that is over, or given up, is none. *)
LEMMA StreamTyped ==
  ASSUME TypeInv, NEW k \in Asks, reader[k] # "none",
         reader' = [reader EXCEPT ![k] = "closed"],
         heard' = [heard EXCEPT ![k] = 0], run' = [run EXCEPT ![k] = Over(k)]
  PROVE  /\ reader' \in [Asks -> {"none", "open", "left", "aborted", "closed"}]
         /\ heard' \in [Asks -> Nat] /\ run' \in [Asks -> Runs]
         /\ Bounds' /\ AskedInOrder'
  <1>1. Over(k) \in Runs /\ Over(k).phase = "gone" /\ Over(k).out = <<>> /\ Over(k).text = <<>>
    BY OverTyped DEF TypeInv
  <1>2. Len(<<>>) = 0 /\ MaxPieces \in Nat
    BY ConstantsTyped
  <1>3. Bounds'
    <2> SUFFICES ASSUME NEW j \in Asks
                 PROVE  /\ heard'[j] <= Len(run'[j].out) /\ Len(run'[j].text) <= MaxPieces
                        /\ reader'[j] = "none" <=> run'[j].phase = "none"
                        /\ reader'[j] = "none" => heard'[j] = 0 /\ ~run'[j].reasoned
                        /\ reader'[j] \in {"open", "left"} <=> run'[j].phase \notin {"none", "gone"}
      BY DEF Bounds
    <2>1. CASE j = k
      <3>1. reader'[j] = "closed" /\ heard'[j] = 0 /\ run'[j] = Over(k)
        BY <2>1 DEF TypeInv, StateTyped
      <3> QED BY <3>1, <1>1, <1>2
    <2>2. CASE j # k
      <3>1. reader'[j] = reader[j] /\ heard'[j] = heard[j] /\ run'[j] = run[j]
        BY <2>2 DEF TypeInv, StateTyped
      <3> QED BY <3>1 DEF TypeInv, Bounds
    <2> QED BY <2>1, <2>2
  <1>4. AskedInOrder'
    <2>1. \A j \in Asks : reader'[j] = "none" <=> reader[j] = "none"
      BY DEF TypeInv, StateTyped
    <2> QED BY <2>1 DEF TypeInv, AskedInOrder
  <1> QED BY <1>1, <1>3, <1>4 DEF TypeInv, StateTyped

LEMMA FinallyTyped ==
  ASSUME TypeInv, NEW k \in Asks, NEW v \in Views, v.running = view.running,
         reader[k] # "none", reader' = [reader EXCEPT ![k] = "closed"], Finally(k, v)
  PROVE  view' \in Views /\ current' \in AskOrNone /\ Waits'
  <1>1. CASE current = k
    <2>1. view' \in Views /\ ~view'.running /\ current' = None
      BY <1>1 DEF Finally, Views
    <2>2. \A j \in Asks : reader'[j] # "open"
      BY <1>1 DEF TypeInv, Waits, StateTyped
    <2> QED BY <2>1, <2>2, NoneIsNoAsk DEF Waits, AskOrNone
  <1>2. CASE current # k
    <2>1. view' = v /\ current' = current
      BY <1>2 DEF Finally
    <2>2. \A j \in Asks : reader'[j] = "open" <=> reader[j] = "open"
      BY <1>2 DEF TypeInv, Waits, StateTyped
    <2> QED BY <2>1, <2>2 DEF TypeInv, Waits, StateTyped
  <1> QED BY <1>1, <1>2

LEMMA StreamEndTyped ==
  ASSUME TypeInv, NEW k \in Asks, End(k) \/ Break(k)
  PROVE  TypeInv'
  <1>1. /\ reader[k] # "none" /\ reader' = [reader EXCEPT ![k] = "closed"]
        /\ heard' = [heard EXCEPT ![k] = 0] /\ run' = [run EXCEPT ![k] = Over(k)]
        /\ UNCHANGED <<seen, approvals>>
    BY DEF End, Break
  <1>2. view \in Views /\ ShownError(k, <<>>) \in Views /\ ShownError(k, <<>>).running = view.running
    <2>1. From(k, <<>>) \in Texts
      BY WrittenFrom, <<>> \in Seq(Words)
    <2> QED BY <2>1 DEF TypeInv, StateTyped, Views, AskOrNone, ShownError
  <1>3. PICK v \in Views : v.running = view.running /\ Finally(k, v)
    BY <1>2 DEF End, Break
  <1>4. view' \in Views /\ current' \in AskOrNone /\ Waits'
    BY <1>1, <1>3, FinallyTyped
  <1>5. /\ reader' \in [Asks -> {"none", "open", "left", "aborted", "closed"}]
        /\ heard' \in [Asks -> Nat] /\ run' \in [Asks -> Runs]
        /\ Bounds' /\ AskedInOrder'
    BY <1>1, StreamTyped
  <1>6. StateTyped'
    BY <1>1, <1>4, <1>5 DEF TypeInv, StateTyped
  <1> QED BY <1>4, <1>5, <1>6 DEF TypeInv

LEMMA NewConversationTyped ==
  ASSUME TypeInv, NewConversation
  PROVE  TypeInv'
  <1>1. /\ reader' = [k \in Asks |-> IF k = current THEN "aborted" ELSE reader[k]]
        /\ run' = [k \in Asks |-> IF k = current THEN [run[k] EXCEPT !.phase = "gone"] ELSE run[k]]
        /\ current' = None /\ view' = Fresh /\ UNCHANGED <<seen, heard, approvals>>
    BY DEF NewConversation, Abort
  <1>2. \A k \in Asks : /\ run[k] \in Runs /\ [run[k] EXCEPT !.phase = "gone"] \in Runs
                        /\ [run[k] EXCEPT !.phase = "gone"].phase = "gone"
                        /\ [run[k] EXCEPT !.phase = "gone"].out = run[k].out
                        /\ [run[k] EXCEPT !.phase = "gone"].text = run[k].text
    BY DEF TypeInv, StateTyped, Runs, Phases
  <1>3. StateTyped'
    <2>1. reader' \in [Asks -> {"none", "open", "left", "aborted", "closed"}] /\ run' \in [Asks -> Runs]
      BY <1>1, <1>2 DEF TypeInv, StateTyped
    <2> QED BY <1>1, <2>1, FreshTyped DEF TypeInv, StateTyped, AskOrNone
  <1>4. \A k \in Asks : k = current => reader[k] = "open"
    BY DEF TypeInv, Waits
  <1>5. Bounds'
    BY <1>1, <1>2, <1>4 DEF TypeInv, Bounds
  <1>6. AskedInOrder'
    BY <1>1, <1>4 DEF TypeInv, AskedInOrder
  <1>7. Waits'
    BY <1>1, FreshTyped, NoneIsNoAsk DEF TypeInv, Waits
  <1> QED BY <1>3, <1>5, <1>6, <1>7 DEF TypeInv

LEMMA LeaveTyped ==
  ASSUME TypeInv, Leave
  PROVE  TypeInv'
  <1>1. /\ view' = Fresh /\ seen' = Drawn(Fresh) /\ current' = None
        /\ reader' = [k \in Asks |-> IF reader[k] = "open" THEN "left" ELSE reader[k]]
        /\ heard' = [k \in Asks |-> IF reader[k] = "open" THEN 0 ELSE heard[k]]
        /\ UNCHANGED <<run, approvals>>
    BY DEF Leave
  <1>2. StateTyped'
    BY <1>1, FreshTyped, DrawnTyped DEF TypeInv, StateTyped, AskOrNone
  <1>3. \A k \in Asks : 0 <= Len(run[k].out)
    BY DEF TypeInv, StateTyped, Runs
  <1>4. Bounds'
    BY <1>1, <1>3 DEF TypeInv, Bounds
  <1>5. AskedInOrder' /\ Waits'
    BY <1>1, FreshTyped, NoneIsNoAsk DEF TypeInv, AskedInOrder, Waits
  <1> QED BY <1>2, <1>4, <1>5 DEF TypeInv

LEMMA LeftEndsTyped ==
  ASSUME TypeInv, NEW k \in Asks, LeftEnds(k)
  PROVE  TypeInv'
  <1>1. /\ reader[k] = "left" /\ reader' = [reader EXCEPT ![k] = "closed"]
        /\ heard' = [heard EXCEPT ![k] = 0] /\ run' = [run EXCEPT ![k] = Over(k)]
        /\ UNCHANGED <<view, seen, current, approvals>>
    BY DEF LeftEnds
  <1>2. /\ reader' \in [Asks -> {"none", "open", "left", "aborted", "closed"}]
        /\ heard' \in [Asks -> Nat] /\ run' \in [Asks -> Runs] /\ Bounds' /\ AskedInOrder'
    BY <1>1, StreamTyped
  <1>3. Waits'
    BY <1>1 DEF TypeInv, StateTyped, Waits
  <1> QED BY <1>1, <1>2, <1>3 DEF TypeInv, StateTyped

LEMMA HearTyped ==
  ASSUME TypeInv, NEW k \in Asks, Hear(k)
  PROVE  TypeInv'
  <1> DEFINE e == run[k].out[heard[k] + 1]
  <1>1. /\ reader[k] \in {"open", "aborted"} /\ heard[k] < Len(run[k].out)
        /\ heard' = [heard EXCEPT ![k] = @ + 1]
        /\ view' = Shown(k, e) \/ view' = view
        /\ UNCHANGED <<seen, current, reader, run, approvals>>
    BY DEF Hear
  <1>2. run[k].out \in Seq(Events) /\ heard[k] \in Nat
    BY DEF TypeInv, StateTyped, Runs
  <1>3. e \in Events
    <2>1. heard[k] + 1 \in 1 .. Len(run[k].out)
      BY <1>1, <1>2
    <2> QED BY <2>1, <1>2, ElementOfSeq
  <1> HIDE DEF e
  <1>4. view' \in Views /\ view'.running = view.running
    BY <1>1, <1>3, ShownTyped DEF TypeInv, StateTyped
  <1>5. StateTyped'
    BY <1>1, <1>4 DEF TypeInv, StateTyped
  <1>6. Bounds'
    BY <1>1, <1>2 DEF TypeInv, Bounds, StateTyped
  <1>7. AskedInOrder' /\ Waits'
    BY <1>1, <1>4 DEF TypeInv, AskedInOrder, Waits
  <1> QED BY <1>5, <1>6, <1>7 DEF TypeInv

LEMMA CardTyped ==
  ASSUME TypeInv, Render \/ Approve \/ Dismiss \/ UNCHANGED vars
  PROVE  TypeInv'
  <1>1. UNCHANGED <<current, reader, heard, run>> /\ view'.running = view.running
    BY DEF Render, Approve, Dismiss, vars, TypeInv, StateTyped, Views
  <1>2. StateTyped'
    <2>1. CASE Render
      BY <2>1, DrawnTyped DEF Render, TypeInv, StateTyped
    <2>2. CASE Approve
      <3>1. seen.card \in Cards
        BY <2>2 DEF Approve, TypeInv, StateTyped
      <3> QED BY <2>2, <3>1 DEF Approve, TypeInv, StateTyped, Cards
    <2>3. CASE Dismiss
      BY <2>3 DEF Dismiss, TypeInv, StateTyped, Views, AskOrNone
    <2>4. CASE UNCHANGED vars
      BY <2>4 DEF vars, TypeInv, StateTyped
    <2> QED BY <2>1, <2>2, <2>3, <2>4
  <1>3. Bounds' /\ AskedInOrder' /\ Waits'
    BY <1>1 DEF TypeInv, Bounds, AskedInOrder, Waits
  <1> QED BY <1>2, <1>3 DEF TypeInv

-----------------------------------------------------------------------------
(* The page. *)

LEMMA EmptyForm ==
  ASSUME NEW f, f.turns = <<>>, f.answer = <<>>
  PROVE  FormOk(f)
  <1>1. Asked(<<>>) = {} /\ DOMAIN <<>> = {}
    BY DEF Asked
  <1> QED BY <1>1 DEF FormOk, TurnsOk

(* The answers under a question that a page follows. *)
LEMMA FollowedForm ==
  ASSUME NEW v \in Views, NEW w \in Views, NEW k \in Asks, NEW r \in Runs, NEW n \in Nat,
         Follow(v, k, r, n), FormOk(w), w.asked = v.asked, w.turns = v.turns
  PROVE  FormOk(v)
  <1>1. Said(r, n) \in Seq(Words)
    BY SaidTyped
  <1>2. Asked(v.answer) \subseteq {v.asked}
    BY <1>1, WrittenFrom DEF Follow
  <1> QED BY <1>2 DEF FormOk

(* The history with the last question. *)
LEMMA HistoryOk ==
  ASSUME StateTyped, seen.form # None, FormOk(seen.form)
  PROVE  /\ TurnsOk(History)
         /\ \A i \in DOMAIN History :
              History[i].query \in Asks /\ (History[i].query <= seen.form.asked) /\ seen.form.asked # None
  <1> DEFINE f == seen.form
             T == [query : Asks, answer : Texts \ {<<>>}]
             last == [query |-> f.asked, answer |-> f.answer]
  <1>1. f \in Forms /\ f.turns \in Seq(T) /\ f.asked \in AskOrNone /\ f.answer \in Texts
    BY HistoryTyped DEF Forms, Turns
  <1>2. \A i \in DOMAIN f.turns : f.turns[i].query \in Asks /\ f.turns[i].query < f.asked /\ f.asked # None
    <2>1. f.asked = None => DOMAIN f.turns = {}
      BY DEF FormOk
    <2>2. \A i \in DOMAIN f.turns : f.turns[i] \in T
      <3> HIDE DEF T
      <3> QED BY <1>1
    <2>3. \A i \in DOMAIN f.turns : f.turns[i].query \in Asks
      BY <2>2
    <2> QED BY <2>1, <2>3 DEF FormOk
  <1>3. CASE f.asked # None /\ f.answer # <<>>
    <2>1. f.asked \in Asks /\ History = Append(f.turns, last)
      BY <1>1, <1>3 DEF History, AskOrNone
    <2>2. last \in T
      BY <1>1, <1>3, <2>1
    <2>3. Asked(f.answer) = {f.asked}
      <3>1. Asked(f.answer) # {}
        <4>1. 1 \in DOMAIN f.answer
          BY <1>1, <1>3 DEF Texts
        <4> QED BY <4>1 DEF Asked
      <3> QED BY <3>1 DEF FormOk
    <2> DEFINE h == History
               m == Len(f.turns)
    <2> HIDE DEF T
    <2>4. /\ m \in Nat /\ DOMAIN f.turns = 1 .. m /\ DOMAIN h = 1 .. m + 1 /\ h[m + 1] = last
          /\ \A i \in 1 .. m : h[i] = f.turns[i]
      <3>1. h \in Seq(T) /\ Len(h) = m + 1 /\ h[m + 1] = last /\ \A i \in 1 .. m : h[i] = f.turns[i]
        BY <1>1, <2>1, <2>2, AppendProperties
      <3> QED BY <1>1, <3>1
    <2>5. last.query = f.asked /\ last.answer = f.answer
      OBVIOUS
    <2> HIDE DEF h, m, last
    <2>6. \A i \in DOMAIN h : h[i].query \in Asks /\ h[i].query <= f.asked
      <3> SUFFICES ASSUME NEW i \in 1 .. m + 1 PROVE h[i].query \in Asks /\ h[i].query <= f.asked
        BY <2>4
      <3>1. CASE i = m + 1
        <4>1. h[i].query = f.asked /\ f.asked \in Nat
          BY <3>1, <2>1, <2>4, <2>5, NoneIsNoAsk
        <4> QED BY <4>1, <2>1
      <3>2. CASE i \in 1 .. m
        <4>1. h[i].query \in Asks /\ h[i].query < f.asked
          BY <3>2, <1>2, <2>4
        <4>2. h[i].query \in Nat /\ f.asked \in Nat
          BY <4>1, <2>1, NoneIsNoAsk
        <4> QED BY <4>1, <4>2
      <3> QED BY <3>1, <3>2, <2>4
    <2>7. TurnsOk(h)
      <3> SUFFICES ASSUME NEW i \in 1 .. m + 1
                   PROVE  /\ h[i].answer # <<>> /\ Asked(h[i].answer) = {h[i].query}
                          /\ \A j \in 1 .. m + 1 : i < j => h[i].query < h[j].query
        BY <2>4 DEF TurnsOk
      <3>1. CASE i = m + 1
        BY <3>1, <1>3, <2>3, <2>4, <2>5
      <3>2. CASE i \in 1 .. m
        <4>1. /\ f.turns[i].answer # <<>> /\ Asked(f.turns[i].answer) = {f.turns[i].query}
              /\ \A j \in 1 .. m : i < j => f.turns[i].query < f.turns[j].query
          BY <3>2, <2>4 DEF FormOk, TurnsOk
        <4>2. f.turns[i].query < last.query
          BY <3>2, <1>2, <2>4, <2>5
        <4>3. h[i] = f.turns[i] /\ h[m + 1] = last
          BY <3>2, <2>4
        <4>4. ASSUME NEW j \in 1 .. m + 1, i < j PROVE h[i].query < h[j].query
          <5>1. CASE j \in 1 .. m
            BY <4>1, <4>3, <4>4, <5>1, <2>4
          <5>2. CASE j = m + 1
            BY <4>2, <4>3, <5>2
          <5> QED BY <5>1, <5>2, <2>4
        <4> QED BY <4>1, <4>3, <4>4
      <3> QED BY <3>1, <3>2, <2>4
    <2> QED BY <2>6, <2>7, <1>3 DEF h
  <1>4. CASE ~(f.asked # None /\ f.answer # <<>>)
    <2>1. History = f.turns
      BY <1>4 DEF History
    <2>2. TurnsOk(History)
      BY <2>1 DEF FormOk
    <2>3. ASSUME NEW i \in DOMAIN f.turns
          PROVE  f.turns[i].query \in Asks /\ f.turns[i].query <= f.asked /\ f.asked # None
      <3>1. f.turns[i].query \in Asks /\ f.turns[i].query < f.asked /\ f.asked # None
        BY <1>2, <2>3
      <3>2. f.turns[i].query \in Nat /\ f.asked \in Nat
        BY <3>1, <1>1, NoneIsNoAsk DEF AskOrNone
      <3> QED BY <3>1, <3>2
    <2> QED BY <2>1, <2>2, <2>3
  <1> QED BY <1>3, <1>4

LEMMA PageInit == Init => PageInv
  <1> SUFFICES ASSUME Init PROVE PageInv
    OBVIOUS
  <1>1. FormOk(Fresh)
    BY FreshTyped, EmptyForm
  <1>2. Drawn(Fresh).form = [asked |-> None, turns |-> <<>>, answer |-> <<>>] /\ Drawn(Fresh).card = None
    BY FreshTyped DEF Drawn
  <1>3. PageOk
    <2>1. FormOk(seen.form) /\ seen.form.asked = None
      BY <1>2, EmptyForm DEF Init
    <2> QED BY <1>1, <2>1, FreshTyped DEF Init, PageOk
  <1>4. OpenRuns /\ Followed /\ CardOk /\ ApprovalsNameTheirTrace
    BY <1>2, FreshTyped DEF Init, OpenRuns, Followed, CardOk, ApprovalsNameTheirTrace
  <1>5. OneQuestionOnThePage /\ RestIsComplete
    BY FreshTyped DEF Init, OneQuestionOnThePage, RestIsComplete, Asked
  <1> QED BY <1>3, <1>4, <1>5 DEF PageInv

(* What the handler does, the page does not see at once. *)
LEMMA MovesPage ==
  ASSUME TypeInv, PageInv, NEW k \in Asks, NEW r, Moves(k, r)
  PROVE  PageInv'
  <1>1. /\ reader[k] \in {"open", "left"} /\ r \in Runs /\ RunOk(r) /\ Extends(run[k], r)
        /\ run' = [run EXCEPT ![k] = r] /\ UNCHANGED <<view, seen, current, reader, heard, approvals>>
    BY DEF Moves, Still
  <1>2. run'[k] = r /\ \A j \in Asks \ {k} : run'[j] = run[j]
    BY <1>1 DEF TypeInv, StateTyped
  <1>3. OpenRuns'
    BY <1>1, <1>2 DEF PageInv, OpenRuns
  <1>4. Followed' /\ RestIsComplete'
    <2>1. CASE reader[k] = "open"
      <3> DEFINE n == heard[k]
                 q == run[k]
      <3>1. current = k /\ view.running
        BY <2>1, NoneIsNoAsk DEF TypeInv, Waits
      <3>2. Follow(view, k, q, n) /\ n \in 0 .. Len(q.out) /\ q.out \in Seq(Events) /\ r.out \in Seq(Events)
        BY <1>1, <3>1, NoneIsNoAsk DEF PageInv, Followed, TypeInv, StateTyped, Bounds, Runs
      <3>3. n > 0 => q.out # <<>>
        BY <3>2
      <3>4. n = Len(r.out) => n = Len(q.out) /\ Len(r.out) = Len(q.out)
        BY <1>1, <3>2 DEF Extends
      <3> HIDE DEF q, n
      <3>5. Follow(view, k, r, n)
        BY <1>1, <3>2, <3>3, <3>4 DEF Follow, Extends, q
      <3> QED BY <1>1, <1>2, <3>1, <3>5 DEF Followed, RestIsComplete, n
    <2>2. CASE reader[k] = "left"
      <3>1. current # k /\ (current # None => current \in Asks \ {k})
        BY <2>2 DEF TypeInv, StateTyped, Waits, AskOrNone
      <3>2. view.asked # None => view.asked \in Asks \ {k}
        BY <2>2 DEF TypeInv, StateTyped, Views, AskOrNone, PageInv, PageOk
      <3> QED BY <1>1, <1>2, <3>1, <3>2 DEF PageInv, Followed, RestIsComplete
    <2> QED BY <1>1, <2>1, <2>2
  <1> QED BY <1>1, <1>3, <1>4 DEF PageInv, PageOk, CardOk, OneQuestionOnThePage, ApprovalsNameTheirTrace

LEMMA AskPage ==
  ASSUME TypeInv, PageInv, NEW k \in Asks, Ask(k)
  PROVE  PageInv'
  <1> DEFINE new == [NoRun EXCEPT !.phase = "start"]
  <1>1. /\ reader[k] = "none" /\ current' = k /\ view' = Cleared(k, History)
        /\ UNCHANGED <<seen, heard, approvals>> /\ seen.form # None
    BY DEF Ask
  <1>2. run'[k] = new
    <2>1. run' = [j \in Asks |-> CASE j = k -> [NoRun EXCEPT !.phase = "start"]
                              [] j = current -> [run[j] EXCEPT !.phase = "gone"]
                              [] j \notin {k, current} -> run[j]]
      BY DEF Ask
    <2>2. current # k
      BY <1>1 DEF TypeInv, Waits
    <2> QED BY <2>1, <2>2
  <1>3. reader' \in [Asks -> {"none", "open", "left", "aborted", "closed"}] /\ Waits'
    BY AskTyped DEF TypeInv, StateTyped
  <1>4. reader'[k] = "open" /\ \A j \in Asks : reader[j] # "none" => reader'[j] # "none"
    BY <1>1, <1>3 DEF Ask, Waits
  <1>5. /\ new \in Runs /\ new.phase = "start" /\ new.out = <<>> /\ new.text = <<>> /\ new.answer = <<>>
        /\ ~new.reasoned
    BY NoRunTyped DEF Runs, Phases
  <1> HIDE DEF new
  <1>6. ~Concluded(new) /\ RunOk(new)
    BY <1>5, OthersHoldNone DEF Concluded, RunOk
  <1>7. OpenRuns'
    <2> SUFFICES ASSUME NEW j \in Asks, reader'[j] \in {"open", "left"} PROVE RunOk(run'[j])
      BY DEF OpenRuns
    <2>1. CASE reader'[j] = "open"
      BY <2>1, <1>1, <1>2, <1>3, <1>6 DEF Waits
    <2>2. CASE reader'[j] = "left"
      <3>1. j # k /\ j # current /\ reader[j] = "left"
        BY <2>2, <1>4 DEF Ask, TypeInv, Waits
      <3>2. run'[j] = run[j]
        BY <3>1 DEF Ask
      <3> QED BY <3>1, <3>2 DEF PageInv, OpenRuns
    <2> QED BY <2>1, <2>2
  <1>8. History \in Turns
    BY <1>1, HistoryTyped DEF TypeInv
  <1>9. /\ view'.asked = k /\ view'.turns = History /\ view'.running /\ view'.answer = <<>>
        /\ view'.steps = {} /\ view'.proposal = None /\ view'.navigation = None
        /\ view'.trace = None /\ view'.error = None /\ view'.quote = <<>> /\ view'.done = None
    BY <1>1, <1>8, ClearedTyped
  <1>10. Followed'
    <2>1. heard[k] = 0
      BY <1>1 DEF TypeInv, Bounds
    <2>2. Said(new, 0) = <<>> /\ From(k, <<>>) = <<>>
      BY <1>5, <1>6, NothingSaid, WrittenFrom, <<>> \in Seq(Words)
    <2> QED BY <1>1, <1>2, <1>6, <1>9, <2>1, <2>2 DEF Followed, Follow
  <1>11. PageOk'
    <2>1. FormOk(seen.form) /\ (seen.form.asked # None => reader[seen.form.asked] # "none")
      BY <1>1 DEF PageInv, PageOk
    <2>2. seen.form.asked \in AskOrNone
      BY <1>1, HistoryTyped DEF TypeInv, Forms
    <2>3. seen.form.asked # None => seen.form.asked \in Nat /\ k \in Nat /\ seen.form.asked < k
      <3>1. seen.form.asked # None => seen.form.asked \in Asks /\ seen.form.asked # k
        BY <1>1, <2>1, <2>2 DEF AskOrNone
      <3>2. seen.form.asked # None => ~(k < seen.form.asked)
        BY <1>1, <2>1, <3>1 DEF TypeInv, AskedInOrder
      <3>3. ASSUME seen.form.asked # None PROVE seen.form.asked \in Nat /\ k \in Nat /\ seen.form.asked < k
        <4>1. seen.form.asked \in Nat /\ k \in Nat
          BY <3>1, <3>3, NoneIsNoAsk
        <4>2. seen.form.asked # k /\ ~(k < seen.form.asked)
          BY <3>1, <3>2, <3>3
        <4> QED BY <4>1, <4>2
      <3> QED BY <3>3
    <2>4. TurnsOk(History)
      BY <1>1, <2>1, HistoryOk DEF TypeInv
    <2>5. ASSUME NEW i \in DOMAIN History PROVE History[i].query < k
      <3>1. History[i].query \in Asks /\ History[i].query <= seen.form.asked /\ seen.form.asked # None
        BY <1>1, <2>1, <2>5, HistoryOk DEF TypeInv
      <3> QED BY <3>1, <2>3, NoneIsNoAsk
    <2>6. FormOk(view')
      <3>1. Asked(<<>>) = {}
        BY DEF Asked
      <3> QED BY <1>9, <2>4, <2>5, <3>1, NoneIsNoAsk DEF FormOk
    <2> QED BY <1>1, <1>4, <1>9, <2>1, <2>2, <2>6 DEF PageOk, AskOrNone
  <1>12. CardOk' /\ ApprovalsNameTheirTrace'
    BY <1>1, <1>9 DEF PageInv, CardOk, ApprovalsNameTheirTrace
  <1>13. OneQuestionOnThePage' /\ RestIsComplete'
    BY <1>9 DEF OneQuestionOnThePage, RestIsComplete, Asked
  <1> QED BY <1>7, <1>10, <1>11, <1>12, <1>13 DEF PageInv

LEMMA FreshPage ==
  ASSUME TypeInv, PageInv, NewConversation \/ Leave
  PROVE  PageInv'
  <1>1. view' = Fresh /\ current' = None /\ approvals' = approvals
    BY DEF NewConversation, Leave
  <1>2. Waits' /\ reader' \in [Asks -> {"none", "open", "left", "aborted", "closed"}]
    BY NewConversationTyped, LeaveTyped DEF TypeInv, StateTyped
  <1>3. \A j \in Asks : reader[j] # "none" => reader'[j] # "none"
    BY DEF NewConversation, Abort, Leave
  <1>4. OpenRuns' /\ Followed'
    <2> SUFFICES ASSUME NEW j \in Asks, reader'[j] \in {"open", "left"} PROVE RunOk(run'[j])
      BY <1>1 DEF OpenRuns, Followed
    <2>1. reader'[j] = "left"
      BY <1>1, <1>2, NoneIsNoAsk DEF Waits
    <2>2. CASE NewConversation
      <3>1. reader[j] = "left" /\ j # current
        BY <2>1, <2>2 DEF NewConversation, Abort
      <3>2. run'[j] = run[j]
        BY <2>2, <3>1 DEF NewConversation, Abort
      <3> QED BY <3>1, <3>2 DEF PageInv, OpenRuns
    <2>3. CASE Leave
      <3>1. reader[j] \in {"open", "left"} /\ run' = run
        BY <2>1, <2>3 DEF Leave
      <3> QED BY <3>1 DEF PageInv, OpenRuns
    <2> QED BY <2>2, <2>3
  <1>5. seen' = seen \/ seen' = Drawn(Fresh)
    BY DEF NewConversation, Leave
  <1>6. Drawn(Fresh).form = [asked |-> None, turns |-> <<>>, answer |-> <<>>] /\ Drawn(Fresh).card = None
    BY FreshTyped DEF Drawn
  <1>7. PageOk'
    <2>1. FormOk(view') /\ view'.asked = None
      BY <1>1, FreshTyped, EmptyForm
    <2>2. CASE seen' = seen
      <3>1. seen.form # None => seen.form.asked \in AskOrNone
        BY HistoryTyped DEF TypeInv, Forms
      <3> QED BY <1>3, <2>1, <2>2, <3>1 DEF PageInv, PageOk, AskOrNone
    <2>3. CASE seen' = Drawn(Fresh)
      <3>1. FormOk(seen'.form) /\ seen'.form.asked = None
        BY <1>6, <2>3, EmptyForm
      <3> QED BY <2>1, <3>1 DEF PageOk
    <2> QED BY <1>5, <2>2, <2>3
  <1>8. CardOk' /\ ApprovalsNameTheirTrace'
    BY <1>1, <1>5, <1>6, FreshTyped DEF PageInv, CardOk, ApprovalsNameTheirTrace
  <1>9. OneQuestionOnThePage' /\ RestIsComplete'
    BY <1>1, FreshTyped DEF OneQuestionOnThePage, RestIsComplete, Asked
  <1> QED BY <1>4, <1>7, <1>8, <1>9 DEF PageInv

LEMMA FromConcat ==
  ASSUME NEW k, NEW s \in Seq(Words), NEW t \in Seq(Words)
  PROVE  From(k, s \o t) = From(k, s) \o From(k, t)
  <1> DEFINE S == [ask : {k}, piece : Words]
             f(u) == [i \in 1 .. Len(u) |-> [ask |-> k, piece |-> u[i]]]
  <1>1. ASSUME NEW u \in Seq(Words) PROVE From(k, u) = f(u) /\ f(u) \in Seq(S) /\ Len(f(u)) = Len(u)
    <2> DEFINE e(i) == [ask |-> k, piece |-> u[i]]
               m == Len(u)
    <2>1. \A i \in 1 .. m : e(i) \in S
      BY <1>1
    <2>2. m \in Nat /\ DOMAIN u = 1 .. m
      BY <1>1
    <2> HIDE DEF m
    <2>3. [i \in 1 .. m |-> e(i)] \in Seq(S) /\ Len([i \in 1 .. m |-> e(i)]) = m
      BY <2>1, <2>2, IsASeq
    <2> QED BY <2>2, <2>3 DEF From, m
  <1>2. s \o t \in Seq(Words) /\ Len(s \o t) = Len(s) + Len(t)
    BY ConcatProperties
  <1> DEFINE g == f(s) \o f(t)
             a == Len(s)
             b == Len(t)
  <1>3. f(s) \in Seq(S) /\ f(t) \in Seq(S) /\ Len(f(s)) = a /\ Len(f(t)) = b /\ a \in Nat /\ b \in Nat
    BY <1>1
  <1>4. /\ g \in Seq(S) /\ Len(g) = a + b
        /\ \A i \in 1 .. a + b : g[i] = IF i <= a THEN f(s)[i] ELSE f(t)[i - a]
    <2> HIDE DEF f, S, a, b
    <2> QED BY <1>3, ConcatProperties
  <1>5. f(s \o t) \in Seq(S) /\ Len(f(s \o t)) = a + b
    BY <1>1, <1>2
  <1>6. \A i \in 1 .. a + b : f(s \o t)[i] = g[i]
    <2> SUFFICES ASSUME NEW i \in 1 .. a + b PROVE f(s \o t)[i] = g[i]
      OBVIOUS
    <2>1. f(s \o t)[i] = [ask |-> k, piece |-> (s \o t)[i]]
      BY <1>2
    <2>2. CASE i <= a
      <3>1. (s \o t)[i] = s[i] /\ i \in 1 .. Len(s)
        BY <2>2, <1>3, ConcatProperties
      <3>2. f(s)[i] = [ask |-> k, piece |-> s[i]]
        BY <3>1
      <3> QED BY <2>1, <2>2, <3>1, <3>2, <1>4
    <2>3. CASE i > a
      <3>1. (s \o t)[i] = t[i - a] /\ i - a \in 1 .. Len(t) /\ ~(i <= a)
        BY <2>3, <1>3, ConcatProperties
      <3>2. f(t)[i - a] = [ask |-> k, piece |-> t[i - a]]
        BY <3>1
      <3> QED BY <2>1, <3>1, <3>2, <1>4
    <2> QED BY <2>2, <2>3, <1>3
  <1>7. f(s \o t) = g
    <2> HIDE DEF f, g, S, a, b
    <2> QED BY <1>3, <1>4, <1>5, <1>6, SeqEqual
  <1> QED BY <1>1, <1>2, <1>7

(* An event of a question on the page that follows it. *)
LEMMA ShownFollows ==
  ASSUME view \in Views, NEW k \in Asks, NEW r \in Runs, RunOk(r), NEW n \in Nat, n < Len(r.out),
         r.phase \notin {"none", "gone"}, Follow(view, k, r, n),
         view.proposal # None => view.trace = view.proposal, OneQuestionOnThePage,
         view' = Shown(k, r.out[n + 1])
  PROVE  /\ Follow(view', k, r, n + 1)
         /\ view'.asked = view.asked /\ view'.turns = view.turns
         /\ view'.proposal # None => view'.trace = view'.proposal
         /\ OneQuestionOnThePage'
  <1> DEFINE e == r.out[n + 1]
             before == Said(r, n)
             after == Said(r, n + 1)
  <1>1. before \in Seq(Words) /\ after \in Seq(Words)
    BY SaidTyped
  <1>2. r.out # <<>> /\ r.phase # "start" /\ Len(r.out) \in Nat /\ r.phase \in Phases /\ e \in Events
    <2>1. r.out \in Seq(Events) /\ r.phase \in Phases
      BY DEF Runs
    <2>2. Len(r.out) # 0 /\ Len(r.out) \in Nat
      BY <2>1
    <2> QED BY <2>1, <2>2, ElementOfSeq, Len(<<>>) = 0 DEF RunOk
  <1>3. e.kind \in Kinds
    BY <1>2 DEF Events
  <1>4. CASE Rejected(r)
    <2>1. n = 0 /\ e = Event("error", <<>>) /\ ~Concluded(r) /\ r.text = <<>>
      BY <1>4 DEF Rejected, Concluded, RunOk
    <2>2. before = <<>> /\ after = <<>>
      BY <2>1, NothingSaid
    <2>3. view' = [view EXCEPT !.error = k, !.quote = <<>>]
      <3>1. view' = ShownError(k, <<>>)
        BY <2>1 DEF Shown, Event
      <3>2. From(k, <<>>) = <<>>
        BY WrittenFrom, <<>> \in Seq(Words)
      <3> QED BY <3>1, <3>2 DEF ShownError
    <2>4. Follow(view', k, r, n + 1)
      BY <1>4, <2>1, <2>2, <2>3 DEF Follow, Views
    <2>5. OneQuestionOnThePage'
      <3>1. Asked(<<>>) = {}
        BY DEF Asked
      <3> QED BY <2>3, <3>1 DEF OneQuestionOnThePage, Follow, Views
    <2> QED BY <2>3, <2>4, <2>5 DEF Views
  <1>5. CASE ~Rejected(r)
    <2>1. r.phase \in {"loop", "writing"} \/ Concluded(r)
      BY <1>2, <1>5 DEF Concluded, Phases
    <2>2. /\ Adds(n, e, before, after)
          /\ n + 1 = Len(r.out) /\ Concluded(r) => e.kind = "done"
      BY <2>1, NextEvent
    <2>3. n > 0 => view.trace = k
      BY <1>5 DEF Follow
    <2>4. view.asked = k /\ view.answer = From(k, before)
      BY DEF Follow
    <2>5. view.steps \cup Asked(view.quote) \subseteq {k} /\ {view.proposal, view.navigation, view.error, view.done} \subseteq {k, None}
      BY <2>4 DEF OneQuestionOnThePage
    <2> HIDE DEF e, before, after
    <2> SUFFICES /\ view'.answer = From(k, after) /\ view'.trace = k
                 /\ e.kind = "done" => view'.done = k
                 /\ view'.asked = view.asked /\ view'.turns = view.turns
                 /\ view'.steps \cup Asked(view'.quote) \subseteq {k}
                 /\ {view'.proposal, view'.navigation, view'.error, view'.done} \subseteq {k, None}
      <3>1. Follow(view', k, r, n + 1)
        BY <1>5, <2>2, <2>4 DEF Follow, after
      <3>2. Asked(view'.answer) \subseteq {k}
        BY <1>1, WrittenFrom
      <3> QED BY <3>1, <3>2, <2>4 DEF OneQuestionOnThePage
    <2>6. view' = Shown(k, e)
      BY DEF e
    <2>7. CASE e = Event("start", <<>>)
      <3>1. view' = [view EXCEPT !.trace = k] /\ after = before
        BY <2>2, <2>6, <2>7 DEF Shown, Adds, Event
      <3> QED BY <3>1, <2>4, <2>5, <2>7 DEF Views, Event
    <2>8. CASE n > 0 /\ e.kind = "step" /\ after = before
      <3>1. view' = [view EXCEPT !.steps = @ \cup {k}]
        BY <2>6, <2>8 DEF Shown
      <3> QED BY <3>1, <2>3, <2>4, <2>5, <2>8 DEF Views
    <2>9. CASE n > 0 /\ e.kind = "error" /\ after = before
      <3>1. view' = [view EXCEPT !.error = k, !.quote = From(k, e.text)]
        BY <2>6, <2>9 DEF Shown, ShownError
      <3>2. Asked(From(k, e.text)) \subseteq {k}
        BY <1>2, WrittenFrom DEF Events
      <3> QED BY <3>1, <3>2, <2>3, <2>4, <2>5, <2>9 DEF Views
    <2>10. CASE n > 0 /\ e.kind = "navigate" /\ after = before
      <3>1. view' = [view EXCEPT !.navigation = k]
        BY <2>6, <2>10 DEF Shown
      <3> QED BY <3>1, <2>3, <2>4, <2>5, <2>10 DEF Views
    <2>11. CASE n > 0 /\ e.kind = "proposal" /\ after = before
      <3>1. view' = [view EXCEPT !.proposal = k]
        BY <2>6, <2>11 DEF Shown
      <3> QED BY <3>1, <2>3, <2>4, <2>5, <2>11 DEF Views
    <2>12. CASE n > 0 /\ e.kind = "done" /\ after = before
      <3>1. view' = [view EXCEPT !.done = k]
        BY <2>6, <2>12 DEF Shown
      <3> QED BY <3>1, <2>3, <2>4, <2>5, <2>12 DEF Views
    <2>13. CASE n > 0 /\ e.kind = "delta" /\ e.text \in Seq(Words) /\ after = before \o e.text
      <3>1. view' = [view EXCEPT !.answer = @ \o From(k, e.text)]
        BY <2>6, <2>13 DEF Shown
      <3>2. view'.answer = From(k, after)
        BY <3>1, <2>4, <2>13, <1>1, FromConcat DEF Views
      <3> QED BY <3>1, <3>2, <2>3, <2>4, <2>5, <2>13 DEF Views
    <2>14. CASE n > 0 /\ e.kind = "answer" /\ e.text \in Seq(Words) /\ after = e.text
      <3>1. view' = [view EXCEPT !.answer = From(k, e.text)]
        BY <2>6, <2>14 DEF Shown
      <3> QED BY <3>1, <2>3, <2>4, <2>5, <2>14 DEF Views
    <2> QED BY <2>2, <2>7, <2>8, <2>9, <2>10, <2>11, <2>12, <2>13, <2>14 DEF Adds
  <1> QED BY <1>4, <1>5

LEMMA HearPage ==
  ASSUME TypeInv, PageInv, NEW k \in Asks, Hear(k)
  PROVE  PageInv'
  <1> DEFINE n == heard[k]
             r == run[k]
  <1>1. /\ reader[k] \in {"open", "aborted"} /\ n < Len(r.out)
        /\ view' = IF current = k THEN Shown(k, r.out[n + 1]) ELSE view
        /\ UNCHANGED <<seen, current, reader, run, approvals>>
    BY DEF Hear, Follows
  <1>2. /\ n \in Nat /\ r \in Runs /\ view \in Views
        /\ heard'[k] = n + 1 /\ \A j \in Asks \ {k} : heard'[j] = heard[j]
    BY DEF Hear, TypeInv, StateTyped
  <1>3. OpenRuns'
    BY <1>1 DEF PageInv, OpenRuns
  <1>4. CASE current # k
    <2>1. view' = view /\ (current # None => current \in Asks \ {k})
      BY <1>1, <1>4 DEF TypeInv, StateTyped, AskOrNone
    <2>2. Followed'
      BY <1>1, <1>2, <2>1 DEF PageInv, Followed
    <2> QED BY <1>1, <1>3, <2>1, <2>2
         DEF PageInv, PageOk, CardOk, OneQuestionOnThePage, ApprovalsNameTheirTrace, RestIsComplete
  <1>5. CASE current = k
    <2>1. reader[k] = "open" /\ view.running /\ RunOk(r) /\ r.phase \notin {"none", "gone"}
          /\ Follow(view, k, r, n)
      BY <1>5, NoneIsNoAsk DEF TypeInv, Waits, PageInv, OpenRuns, Followed, Bounds
    <2>2. (view.proposal # None => view.trace = view.proposal) /\ OneQuestionOnThePage
      BY DEF PageInv, CardOk
    <2>3. view' = Shown(k, r.out[n + 1])
      BY <1>1, <1>5
    <2> HIDE DEF n, r
    <2>4. /\ Follow(view', k, r, n + 1)
          /\ view'.asked = view.asked /\ view'.turns = view.turns
          /\ view'.proposal # None => view'.trace = view'.proposal
          /\ OneQuestionOnThePage'
      BY <1>1, <1>2, <2>1, <2>2, <2>3, ShownFollows
    <2>5. view' \in Views /\ view'.running
      <3>1. TypeInv'
        BY HearTyped
      <3> QED BY <1>1, <1>5, <3>1, NoneIsNoAsk DEF TypeInv, StateTyped, Waits
    <2>6. Followed'
      BY <1>1, <1>2, <1>5, <2>4 DEF Followed, r
    <2>7. FormOk(view')
      BY <1>2, <2>1, <2>4, <2>5, FollowedForm DEF PageInv, PageOk
    <2>8. PageOk' /\ CardOk'
      BY <1>1, <2>4, <2>7 DEF PageInv, PageOk, CardOk
    <2>9. RestIsComplete' /\ ApprovalsNameTheirTrace'
      BY <1>1, <2>5 DEF RestIsComplete, PageInv, ApprovalsNameTheirTrace
    <2> QED BY <1>3, <2>4, <2>6, <2>8, <2>9 DEF PageInv
  <1> QED BY <1>4, <1>5

(* A stream is over: whoever waited for it has all of it, or an error.     *)
LEMMA StreamEndPage ==
  ASSUME TypeInv, PageInv, NEW k \in Asks, End(k) \/ Break(k)
  PROVE  PageInv'
  <1>1. /\ reader[k] \in {"open", "aborted"} /\ reader' = [reader EXCEPT ![k] = "closed"]
        /\ heard' = [heard EXCEPT ![k] = 0] /\ run' = [run EXCEPT ![k] = Over(k)]
        /\ UNCHANGED <<seen, approvals>>
    BY DEF End, Break
  <1>2. /\ view \in Views /\ view.asked \in AskOrNone /\ seen \in [form : Forms \cup {None}, card : Cards \cup {None}]
        /\ current \in AskOrNone
        /\ reader'[k] = "closed" /\ run'[k] = Over(k)
        /\ \A j \in Asks \ {k} : reader'[j] = reader[j] /\ heard'[j] = heard[j] /\ run'[j] = run[j]
    BY <1>1 DEF TypeInv, StateTyped, Views
  <1>3. OpenRuns'
    BY <1>2 DEF PageInv, OpenRuns
  <1>4. \A j \in Asks : run'[j].answer = run[j].answer /\ (reader[j] # "none" => reader'[j] # "none")
    BY <1>2, OverTyped DEF TypeInv
  <1>5. ASSUME view'.asked = view.asked, view'.turns = view.turns, view'.answer = view.answer
        PROVE  PageOk'
    <2>1. FormOk(view')
      BY <1>5 DEF PageInv, PageOk, FormOk
    <2>2. ASSUME seen.form # None, seen.form.asked # None PROVE seen.form.asked \in Asks
      BY <1>2, <2>2 DEF Forms, AskOrNone
    <2> QED BY <1>1, <1>2, <1>4, <1>5, <2>1, <2>2 DEF PageInv, PageOk, AskOrNone
  <1>6. ApprovalsNameTheirTrace'
    BY <1>1 DEF PageInv, ApprovalsNameTheirTrace
  <1>7. CASE current # k
    <2>1. view' = view /\ current' = current /\ reader[k] = "aborted"
      BY <1>1, <1>7 DEF End, Break, Finally, TypeInv, Waits
    <2>2. Followed'
      BY <1>2, <1>7, <2>1 DEF PageInv, Followed, AskOrNone
    <2>3. RestIsComplete'
      BY <1>2, <1>4, <2>1 DEF PageInv, RestIsComplete, AskOrNone
    <2> QED BY <1>1, <1>3, <1>5, <1>6, <2>1, <2>2, <2>3 DEF PageInv, CardOk, OneQuestionOnThePage
  <1>8. CASE current = k
    <2>1. reader[k] = "open" /\ k # None /\ current' = None
      BY <1>8, NoneIsNoAsk DEF TypeInv, Waits, End, Break, Finally
    <2>2. Follow(view, k, run[k], heard[k])
      BY <1>8, <2>1 DEF PageInv, Followed
    <2>3. Followed'
      BY <2>1 DEF Followed
    <2>4. CASE End(k)
      <3>1. /\ view' = [view EXCEPT !.running = FALSE]
            /\ run[k].phase = "ended" /\ heard[k] = Len(run[k].out)
        BY <1>8, <2>4 DEF End, Finally
      <3>2. /\ view'.asked = k /\ view'.turns = view.turns /\ view'.answer = view.answer
            /\ view'.steps = view.steps /\ view'.proposal = view.proposal
            /\ view'.navigation = view.navigation /\ view'.trace = view.trace
            /\ view'.error = view.error /\ view'.quote = view.quote /\ view'.done = view.done
            /\ view.asked = k
        BY <2>2, <3>1 DEF Views, Follow
      <3>3. RestIsComplete'
        <4> SUFFICES ASSUME view.error = None
                     PROVE  view.done = k /\ Written(view.answer) = run[k].answer
          BY <1>2, <1>4, <3>2 DEF RestIsComplete
        <4>1. ~Rejected(run[k])
          <5>1. Rejected(run[k]) => heard[k] > 0
            BY <3>1 DEF Rejected
          <5> QED BY <2>1, <2>2, <5>1 DEF Follow
        <4>2. Concluded(run[k])
          BY <3>1, <4>1 DEF Concluded
        <4>3. run[k].answer \in Seq(Words) /\ heard[k] >= Len(run[k].out) - 1
          <5>1. run[k] \in Runs /\ heard[k] \in Nat
            BY DEF TypeInv, StateTyped
          <5> QED BY <3>1, <5>1 DEF Runs
        <4>4. view.answer = From(k, run[k].answer)
          BY <2>2, <4>2, <4>3 DEF Follow, Said
        <4> QED BY <2>2, <3>1, <4>2, <4>3, <4>4, WrittenFrom DEF Follow
      <3> QED BY <1>1, <1>3, <1>5, <1>6, <2>3, <3>2, <3>3 DEF PageInv, CardOk, OneQuestionOnThePage
    <2>5. CASE Break(k)
      <3>1. view' = [[view EXCEPT !.error = k, !.quote = From(k, <<>>)] EXCEPT !.running = FALSE]
        BY <1>8, <2>1, <2>5 DEF Break, Finally, ShownError
      <3>2. From(k, <<>>) = <<>> /\ Asked(<<>>) = {}
        <4>1. From(k, <<>>) = <<>>
          BY WrittenFrom, <<>> \in Seq(Words)
        <4>2. Asked(<<>>) = {}
          BY DEF Asked
        <4> QED BY <4>1, <4>2
      <3>3. /\ view'.asked = k /\ view'.turns = view.turns /\ view'.answer = view.answer
            /\ view'.steps = view.steps /\ view'.proposal = view.proposal
            /\ view'.navigation = view.navigation /\ view'.trace = view.trace
            /\ view'.error = k /\ view'.quote = <<>> /\ view'.done = view.done /\ view.asked = k
        BY <2>2, <3>1, <3>2 DEF Views, Follow
      <3>4. RestIsComplete'
        BY <2>1, <3>3 DEF RestIsComplete
      <3> QED BY <1>1, <1>3, <1>5, <1>6, <2>3, <3>2, <3>3, <3>4 DEF PageInv, CardOk, OneQuestionOnThePage
    <2> QED BY <2>4, <2>5
  <1> QED BY <1>7, <1>8

(* Of a stream that was left nobody hears. *)
LEMMA LeftEndsPage ==
  ASSUME TypeInv, PageInv, NEW k \in Asks, LeftEnds(k)
  PROVE  PageInv'
  <1>1. /\ reader[k] = "left" /\ reader' = [reader EXCEPT ![k] = "closed"]
        /\ heard' = [heard EXCEPT ![k] = 0] /\ run' = [run EXCEPT ![k] = Over(k)]
        /\ UNCHANGED <<view, seen, current, approvals>>
    BY DEF LeftEnds
  <1>2. /\ reader'[k] = "closed"
        /\ \A j \in Asks \ {k} : reader'[j] = reader[j] /\ heard'[j] = heard[j] /\ run'[j] = run[j]
    BY <1>1 DEF TypeInv, StateTyped
  <1>3. current # None => current \in Asks \ {k}
    BY <1>1 DEF TypeInv, StateTyped, Waits, AskOrNone
  <1>4. view.asked # None => view.asked \in Asks \ {k}
    BY <1>1 DEF TypeInv, StateTyped, Views, AskOrNone, PageInv, PageOk
  <1>5. OpenRuns' /\ Followed' /\ RestIsComplete'
    BY <1>1, <1>2, <1>3, <1>4 DEF PageInv, OpenRuns, Followed, RestIsComplete
  <1>6. PageOk'
    <2>1. ASSUME seen.form # None, seen.form.asked # None PROVE seen.form.asked \in Asks
      BY <2>1, HistoryTyped DEF TypeInv, Forms, AskOrNone
    <2> QED BY <1>1, <1>2, <1>4, <2>1 DEF PageInv, PageOk
  <1> QED BY <1>1, <1>5, <1>6 DEF PageInv, CardOk, OneQuestionOnThePage, ApprovalsNameTheirTrace

LEMMA CardPage ==
  ASSUME TypeInv, PageInv, Render \/ Approve \/ Dismiss \/ UNCHANGED vars
  PROVE  PageInv'
  <1>1. UNCHANGED <<current, reader, heard, run>>
    BY DEF Render, Approve, Dismiss, vars
  <1>2. OpenRuns'
    BY <1>1 DEF PageInv, OpenRuns
  <1>3. view \in Views
    BY DEF TypeInv, StateTyped
  <1>4. CASE Render
    <2>1. seen' = Drawn(view) /\ view' = view /\ approvals' = approvals
      BY <1>4 DEF Render
    <2>2. PageOk'
      <3> DEFINE f == [asked |-> view.asked, turns |-> view.turns, answer |-> view.answer]
      <3>1. seen'.form # None => seen'.form = f
        BY <2>1 DEF Drawn
      <3>2. FormOk(f) /\ (f.asked # None => reader[f.asked] # "none")
        BY DEF PageInv, PageOk, FormOk
      <3> HIDE DEF f
      <3> QED BY <1>1, <2>1, <3>1, <3>2 DEF PageInv, PageOk
    <2>3. CardOk'
      BY <2>1 DEF Drawn, PageInv, CardOk
    <2> QED BY <1>1, <1>2, <2>1, <2>2, <2>3
         DEF PageInv, Followed, OneQuestionOnThePage, ApprovalsNameTheirTrace, RestIsComplete
  <1>5. CASE Approve
    <2>1. UNCHANGED <<view, seen>> /\ ApprovalsNameTheirTrace'
      BY <1>5 DEF Approve, PageInv, CardOk, ApprovalsNameTheirTrace
    <2> QED BY <1>1, <1>2, <2>1 DEF PageInv, PageOk, CardOk, Followed, OneQuestionOnThePage, RestIsComplete
  <1>6. CASE Dismiss
    <2>1. view' = [view EXCEPT !.proposal = None] /\ UNCHANGED <<seen, approvals>>
      BY <1>6 DEF Dismiss
    <2>2. /\ view'.asked = view.asked /\ view'.turns = view.turns /\ view'.answer = view.answer
          /\ view'.steps = view.steps /\ view'.proposal = None
          /\ view'.navigation = view.navigation /\ view'.trace = view.trace
          /\ view'.error = view.error /\ view'.quote = view.quote /\ view'.done = view.done
          /\ view'.running = view.running
      BY <1>3, <2>1 DEF Views
    <2>3. PageOk' /\ CardOk'
      BY <1>1, <2>1, <2>2 DEF PageInv, PageOk, CardOk, FormOk
    <2>4. Followed' /\ OneQuestionOnThePage' /\ RestIsComplete'
      BY <1>1, <2>2 DEF PageInv, Followed, Follow, OneQuestionOnThePage, RestIsComplete
    <2> QED BY <1>2, <2>1, <2>3, <2>4 DEF PageInv, ApprovalsNameTheirTrace
  <1>7. CASE UNCHANGED vars
    <2>1. UNCHANGED <<view, seen, approvals>>
      BY <1>7 DEF vars
    <2> QED BY <1>1, <1>2, <2>1
         DEF PageInv, PageOk, CardOk, Followed, OneQuestionOnThePage, ApprovalsNameTheirTrace, RestIsComplete
  <1> QED BY <1>4, <1>5, <1>6, <1>7

-----------------------------------------------------------------------------
(* The inductive invariant. *)

LEMMA PageStep ==
  ASSUME TypeInv, PageInv, [Next]_vars
  PROVE  TypeInv' /\ PageInv'
  <1>1. ASSUME NEW k \in Asks, Ask(k) PROVE TypeInv' /\ PageInv'
    BY <1>1, AskTyped, AskPage
  <1>2. ASSUME NEW k \in Asks, Hear(k) PROVE TypeInv' /\ PageInv'
    BY <1>2, HearTyped, HearPage
  <1>3. ASSUME NEW k \in Asks, End(k) \/ Break(k) PROVE TypeInv' /\ PageInv'
    BY <1>3, StreamEndTyped, StreamEndPage
  <1>8. ASSUME NEW k \in Asks, LeftEnds(k) PROVE TypeInv' /\ PageInv'
    BY <1>8, LeftEndsTyped, LeftEndsPage
  <1>4. ASSUME NEW k \in Asks, Serve(k) PROVE TypeInv' /\ PageInv'
    <2>1. PICK r : Moves(k, r)
      BY <1>4, ServeMoves DEF PageInv
    <2> QED BY <2>1, MovesTyped, MovesPage
  <1>5. CASE NewConversation
    BY <1>5, NewConversationTyped, FreshPage
  <1>6. CASE Leave
    BY <1>6, LeaveTyped, FreshPage
  <1>7. CASE Render \/ Approve \/ Dismiss \/ UNCHANGED vars
    BY <1>7, CardTyped, CardPage
  <1> QED BY <1>1, <1>2, <1>3, <1>4, <1>5, <1>6, <1>7, <1>8 DEF Next

LEMMA Invariance == Spec => [](TypeInv /\ PageInv)
  <1>1. Init => TypeInv /\ PageInv
    BY TypeInit, PageInit
  <1>2. (TypeInv /\ PageInv) /\ [Next]_vars => (TypeInv /\ PageInv)'
    BY PageStep
  <1> QED BY <1>1, <1>2, PTL DEF Spec

(* What the page, its streams and their handlers hold has its type, and no *)
(* more of a stream is heard than there is (AssistantPage.tsx:116-130).    *)
THEOREM ConversationTyped == Spec => []TypeOK
  <1>1. TypeInv => TypeOK
    <2> SUFFICES ASSUME TypeInv PROVE TypeOK
      OBVIOUS
    <2>1. IsView(view)
      <3>1. DOMAIN view = DOMAIN Fresh
        BY DEF TypeInv, StateTyped, Views, Fresh
      <3> QED BY <3>1 DEF TypeInv, StateTyped, Views, Turns, IsView
    <2>2. (seen.form # None => seen.form.answer \in Texts) /\ (seen.card # None => seen.card.proposal \in Asks)
      BY DEF TypeInv, StateTyped, Forms, Cards
    <2>3. \A k \in Asks :
            /\ run[k].phase \in {"none", "start", "loop", "writing", "trace", "ended", "gone"}
            /\ run[k].text \in Seq(Pieces) /\ run[k].answer \in Seq(Words) /\ run[k].reasoned \in BOOLEAN
      BY DEF TypeInv, StateTyped, Runs, Phases
    <2> QED BY <2>1, <2>2, <2>3 DEF TypeInv, StateTyped, Bounds, TypeOK
  <1> QED BY <1>1, Invariance, PTL

(* However many questions are asked, streams broken off and events late,   *)
(* nothing on the page is of another question than the one it shows        *)
(* (AssistantPage.tsx:146-155).                                            *)
THEOREM PageOfOneQuestion == Spec => []OneQuestionOnThePage
  <1>1. PageInv => OneQuestionOnThePage
    BY DEF PageInv
  <1> QED BY <1>1, Invariance, PTL

(* The history sent with a question holds each question before it at most  *)
(* once, in order, with what was written for it                            *)
(* (AssistantPage.tsx:157-160).                                            *)
THEOREM HistoryOfItsQuestions == Spec => []TurnsAreOfTheirQuestion
  <1>1. TypeInv /\ PageInv => TurnsAreOfTheirQuestion
    <2> SUFFICES ASSUME TypeInv, PageInv, seen.form # None PROVE TurnsOk(History)
      BY DEF TurnsAreOfTheirQuestion, TurnsOk
    <2> QED BY HistoryOk DEF TypeInv, PageInv, PageOk
  <1> QED BY <1>1, Invariance, PTL

(* An approval, also of a card that is no longer true, carries the trace   *)
(* of the question its proposal came from (server.go:287).                 *)
THEOREM ApprovalsAreOfTheirTrace == Spec => []ApprovalsNameTheirTrace
  <1>1. PageInv => ApprovalsNameTheirTrace
    BY DEF PageInv
  <1> QED BY <1>1, Invariance, PTL

(* The page waits as long as the stream of the question it asked last is   *)
(* open, and has no other open, however fast one asks and however late an  *)
(* aborted stream ends; one left with an earlier page may still be         *)
(* (AssistantPage.tsx:146-149, 201-205).                                   *)
THEOREM PageWaitsForItsStream == Spec => []WaitsForItsStream
  <1>1. TypeInv /\ PageInv => WaitsForItsStream
    BY DEF TypeInv, Waits, PageInv, Followed, Follow, WaitsForItsStream
  <1> QED BY <1>1, Invariance, PTL

(* When nothing is waited for and no error is shown, the answer on the     *)
(* page is the one the run concluded with, whatever pieces came before it  *)
(* (client.ts:322).                                                        *)
THEOREM RestHasTheAnswer == Spec => []RestIsComplete
  <1>1. PageInv => RestIsComplete
    BY DEF PageInv
  <1> QED BY <1>1, Invariance, PTL

-----------------------------------------------------------------------------
(* The prompt.  What was written for a question stays free of it, on the   *)
(* page, in what was drawn of it and among the turns, whatever becomes of  *)
(* the run; that its answer is a reason is not forgotten either.           *)

Quotes(text) == Contains(Written(text), Secret)

Kept(f, runs) ==
  /\ f.asked # None /\ ~runs[f.asked].reasoned => ~Quotes(f.answer)
  /\ \A i \in DOMAIN f.turns : ~runs[f.turns[i].query].reasoned => ~Quotes(f.turns[i].answer)

PromptInv == Kept(view, run) /\ (seen.form # None => Kept(seen.form, run))

LEMMA KeptStays ==
  ASSUME NEW f, f.asked \in AskOrNone, f.turns \in Turns, NEW runs, NEW later, Kept(f, runs),
         \A j \in Asks : runs[j].reasoned => later[j].reasoned
  PROVE  Kept(f, later)
  <1>1. \A i \in DOMAIN f.turns : f.turns[i].query \in Asks
    <2> DEFINE T == [query : Asks, answer : Texts \ {<<>>}]
    <2>1. \A i \in DOMAIN f.turns : f.turns[i] \in T
      <3>1. f.turns \in Seq(T)
        BY DEF Turns
      <3> HIDE DEF T
      <3> QED BY <3>1
    <2> QED BY <2>1
  <1>2. f.asked # None => f.asked \in Asks
    BY DEF AskOrNone
  <1> QED BY <1>1, <1>2 DEF Kept

LEMMA HistoryKept ==
  ASSUME StateTyped, seen.form # None, Kept(seen.form, run)
  PROVE  \A i \in DOMAIN History : ~run[History[i].query].reasoned => ~Quotes(History[i].answer)
  <1> DEFINE f == seen.form
             T == [query : Asks, answer : Texts \ {<<>>}]
             last == [query |-> f.asked, answer |-> f.answer]
             m == Len(f.turns)
  <1>1. f.turns \in Seq(T) /\ f.asked \in AskOrNone /\ f.answer \in Texts
    BY HistoryTyped DEF Forms, Turns
  <1>2. CASE f.asked # None /\ f.answer # <<>>
    <2>1. History = Append(f.turns, last) /\ last \in T
      BY <1>1, <1>2 DEF History, AskOrNone
    <2>2. last.query = f.asked /\ last.answer = f.answer
      OBVIOUS
    <2> HIDE DEF T, last
    <2>3. /\ m \in Nat /\ DOMAIN f.turns = 1 .. m /\ DOMAIN History = 1 .. m + 1
          /\ History[m + 1] = last /\ \A i \in 1 .. m : History[i] = f.turns[i]
      <3>1. /\ History \in Seq(T) /\ Len(History) = m + 1 /\ History[m + 1] = last
            /\ \A i \in 1 .. m : History[i] = f.turns[i]
        BY <1>1, <2>1, AppendProperties
      <3> QED BY <1>1, <3>1
    <2> SUFFICES ASSUME NEW i \in 1 .. m + 1, ~run[History[i].query].reasoned
                 PROVE  ~Quotes(History[i].answer)
      BY <2>3
    <2>4. CASE i = m + 1
      BY <1>2, <2>2, <2>3, <2>4 DEF Kept
    <2>5. CASE i \in 1 .. m
      BY <2>3, <2>5 DEF Kept
    <2> QED BY <2>3, <2>4, <2>5
  <1>3. CASE ~(f.asked # None /\ f.answer # <<>>)
    <2>1. History = f.turns
      BY <1>3 DEF History
    <2> QED BY <2>1 DEF Kept
  <1> QED BY <1>2, <1>3

LEMMA ReasonedStays ==
  ASSUME TypeInv, PageInv, [Next]_vars
  PROVE  \A j \in Asks : run[j].reasoned => run'[j].reasoned
  <1>1. run \in [Asks -> Runs]
    BY DEF TypeInv, StateTyped
  <1>2. ASSUME NEW k \in Asks, Ask(k), NEW j \in Asks, run[j].reasoned PROVE run'[j].reasoned
    <2>1. j # k
      BY <1>2 DEF Ask, TypeInv, Bounds
    <2>2. CASE j = current
      <3>1. run'[j] = [run[j] EXCEPT !.phase = "gone"]
        BY <1>2, <2>1, <2>2 DEF Ask
      <3> QED BY <3>1, <1>1, <1>2 DEF Runs
    <2>3. CASE j # current
      <3>1. run'[j] = run[j]
        BY <1>2, <2>1, <2>3 DEF Ask
      <3> QED BY <3>1, <1>2
    <2> QED BY <2>2, <2>3
  <1>3. ASSUME NEW k \in Asks, run' = [run EXCEPT ![k] = Over(k)], NEW j \in Asks, run[j].reasoned
        PROVE  run'[j].reasoned
    <2>1. Over(k).reasoned = run[k].reasoned
      BY OverTyped DEF TypeInv
    <2> QED BY <1>1, <1>3, <2>1
  <1>4. ASSUME NEW k \in Asks, Serve(k), NEW j \in Asks, run[j].reasoned PROVE run'[j].reasoned
    <2>1. PICK r : Moves(k, r)
      BY <1>4, ServeMoves DEF PageInv
    <2>2. run' = [run EXCEPT ![k] = r] /\ (run[k].reasoned => r.reasoned)
      BY <2>1 DEF Moves, Extends
    <2> QED BY <1>1, <1>4, <2>2
  <1>5. ASSUME NewConversation, NEW j \in Asks, run[j].reasoned PROVE run'[j].reasoned
    <2>1. run'[j] = IF j = current THEN [run[j] EXCEPT !.phase = "gone"] ELSE run[j]
      BY <1>5 DEF NewConversation, Abort
    <2> QED BY <2>1, <1>1, <1>5 DEF Runs
  <1>6. ASSUME NEW k \in Asks, End(k) \/ Break(k) \/ LeftEnds(k) PROVE run' = [run EXCEPT ![k] = Over(k)]
    BY <1>6 DEF End, Break, LeftEnds
  <1>7. ASSUME \/ Leave \/ Render \/ Approve \/ Dismiss \/ UNCHANGED vars
               \/ \E k \in Asks : Hear(k)
        PROVE  run' = run
    BY <1>7 DEF Leave, Render, Approve, Dismiss, vars, Hear
  <1> QED BY <1>2, <1>3, <1>4, <1>5, <1>6, <1>7 DEF Next

(* What a step makes of the turns, of the answer nobody follows, and of    *)
(* what is drawn.                                                          *)
LEMMA PageTurns ==
  ASSUME TypeInv, PageInv, [Next]_vars
  PROVE  /\ \/ view'.turns = view.turns \/ view'.turns = <<>>
            \/ seen.form # None /\ view'.turns = History
         /\ \/ current' # None \/ view'.asked = None
            \/ view'.asked = view.asked /\ view'.answer = view.answer
         /\ seen' \in {seen, Drawn(view), Drawn(Fresh)}
  <1>1. view \in Views /\ Fresh.asked = None /\ Fresh.turns = <<>>
    BY FreshTyped DEF TypeInv, StateTyped
  <1>2. ASSUME NEW k \in Asks, Ask(k)
        PROVE  current' # None /\ view'.turns = History /\ seen.form # None /\ seen' = seen
    <2>1. History \in Turns
      BY <1>2, HistoryTyped DEF Ask, TypeInv
    <2> QED BY <1>2, <2>1, ClearedTyped, NoneIsNoAsk DEF Ask
  <1>3. ASSUME NEW k \in Asks, Hear(k)
        PROVE  seen' = seen /\ view'.turns = view.turns /\ (current' # None \/ view' = view)
    <2>1. CASE current = k
      <3> DEFINE n == heard[k]
                 r == run[k]
      <3>1. /\ reader[k] = "open" /\ n < Len(r.out) /\ view' = Shown(k, r.out[n + 1])
            /\ current' = current /\ seen' = seen /\ n \in Nat /\ r \in Runs
        BY <1>3, <2>1 DEF Hear, Follows, TypeInv, StateTyped, Waits
      <3>2. RunOk(r) /\ r.phase \notin {"none", "gone"} /\ Follow(view, k, r, n)
        BY <2>1, <3>1, NoneIsNoAsk DEF PageInv, OpenRuns, Followed, TypeInv, Bounds
      <3>3. (view.proposal # None => view.trace = view.proposal) /\ OneQuestionOnThePage
        BY DEF PageInv, CardOk
      <3> HIDE DEF n, r
      <3>4. view'.turns = view.turns
        BY <1>1, <3>1, <3>2, <3>3, ShownFollows
      <3> QED BY <2>1, <3>1, <3>4, NoneIsNoAsk
    <2>2. CASE current # k
      BY <1>3, <2>2 DEF Hear, Follows
    <2> QED BY <2>1, <2>2
  <1>4. ASSUME NEW k \in Asks, End(k) \/ Break(k)
        PROVE  /\ seen' = seen /\ view'.turns = view.turns
               /\ view'.asked = view.asked /\ view'.answer = view.answer
    <2>1. PICK v \in {view, ShownError(k, <<>>)} : Finally(k, v)
      BY <1>4 DEF End, Break
    <2>2. From(k, <<>>) \in Texts
      BY WrittenFrom, <<>> \in Seq(Words)
    <2>3. v \in Views /\ v.turns = view.turns /\ v.asked = view.asked /\ v.answer = view.answer
      BY <1>1, <2>1, <2>2 DEF ShownError, Views, AskOrNone
    <2>4. CASE view' = v
      BY <1>4, <2>3, <2>4 DEF End, Break
    <2>5. CASE view' = [v EXCEPT !.running = FALSE]
      <3>1. /\ [v EXCEPT !.running = FALSE].turns = v.turns
            /\ [v EXCEPT !.running = FALSE].asked = v.asked
            /\ [v EXCEPT !.running = FALSE].answer = v.answer
        BY <2>3 DEF Views
      <3> QED BY <1>4, <2>3, <2>5, <3>1 DEF End, Break
    <2> QED BY <2>1, <2>4, <2>5 DEF Finally
  <1>5. ASSUME NEW k \in Asks, LeftEnds(k) \/ Serve(k) PROVE view' = view /\ seen' = seen
    BY <1>5 DEF LeftEnds, Serve, Begin, Step, LoopEnds, Write, WritingEnds, RecordTrace, Still
  <1>6. NewConversation \/ Leave => view' = Fresh /\ seen' \in {seen, Drawn(Fresh)}
    BY DEF NewConversation, Leave
  <1>7. Render => view' = view /\ seen' = Drawn(view)
    BY DEF Render
  <1>8. Approve \/ UNCHANGED vars => view' = view /\ seen' = seen
    BY DEF Approve, vars
  <1>9. Dismiss => /\ view'.turns = view.turns /\ view'.asked = view.asked
                   /\ view'.answer = view.answer /\ seen' = seen
    BY <1>1 DEF Dismiss, Views
  <1> QED BY <1>1, <1>2, <1>3, <1>4, <1>5, <1>6, <1>7, <1>8, <1>9 DEF Next

LEMMA PromptInit == Init => PromptInv
  <1> SUFFICES ASSUME Init PROVE PromptInv
    OBVIOUS
  <1>1. view.asked = None /\ view.turns = <<>> /\ DOMAIN <<>> = {}
    BY FreshTyped DEF Init
  <1>2. seen.form = [asked |-> None, turns |-> <<>>, answer |-> <<>>]
    BY FreshTyped DEF Init, Drawn
  <1> QED BY <1>1, <1>2 DEF PromptInv, Kept

LEMMA PromptStep ==
  ASSUME TypeInv, PageInv, PromptInv, [Next]_vars, TypeInv', PageInv'
  PROVE  PromptInv'
  <1>1. \A j \in Asks : run[j].reasoned => run'[j].reasoned
    BY ReasonedStays
  <1>2. view.asked \in AskOrNone /\ view.turns \in Turns /\ view' \in Views
    BY DEF TypeInv, StateTyped, Views
  <1>3. Kept(view, run')
    BY <1>1, <1>2, KeptStays DEF PromptInv
  <1>4. ASSUME seen.form # None PROVE Kept(seen.form, run')
    <2>1. seen.form.asked \in AskOrNone /\ seen.form.turns \in Turns
      BY <1>4, HistoryTyped DEF TypeInv, Forms
    <2> QED BY <1>1, <1>4, <2>1, KeptStays DEF PromptInv
  <1>5. ASSUME seen.form # None, NEW i \in DOMAIN History
        PROVE  ~run'[History[i].query].reasoned => ~Quotes(History[i].answer)
    <2>1. FormOk(seen.form)
      BY <1>5 DEF PageInv, PageOk
    <2>2. History[i].query \in Asks
      BY <1>5, <2>1, HistoryOk DEF TypeInv
    <2>3. ~run[History[i].query].reasoned => ~Quotes(History[i].answer)
      BY <1>5, HistoryKept DEF TypeInv, PromptInv
    <2> QED BY <1>1, <2>2, <2>3
  <1>6. /\ \/ view'.turns = view.turns \/ view'.turns = <<>>
           \/ seen.form # None /\ view'.turns = History
        /\ \/ current' # None \/ view'.asked = None
           \/ view'.asked = view.asked /\ view'.answer = view.answer
        /\ seen' \in {seen, Drawn(view), Drawn(Fresh)}
    BY PageTurns
  <1>7. ASSUME view'.asked # None, ~run'[view'.asked].reasoned PROVE ~Quotes(view'.answer)
    <2>1. CASE current' # None
      <3> DEFINE k == current'
                 r == run'[k]
      <3>1. k \in Asks /\ Follow(view', k, r, heard'[k]) /\ r \in Runs /\ heard'[k] \in Nat
        BY <2>1 DEF TypeInv, StateTyped, AskOrNone, PageInv, Followed
      <3>2. RunOk(r)
        BY <3>1 DEF TypeInv, Waits, PageInv, OpenRuns
      <3>3. view'.asked = k /\ view'.answer = From(k, Said(r, heard'[k]))
        BY <3>1 DEF Follow
      <3> HIDE DEF k, r
      <3>4. ~r.reasoned
        BY <1>7, <3>3 DEF r
      <3>5. Said(r, heard'[k]) \in Seq(Words) /\ ~Contains(Said(r, heard'[k]), Secret)
        BY <3>1, <3>2, <3>4, SaidTyped, SaidHoldsNone
      <3> QED BY <3>3, <3>5, WrittenFrom DEF Quotes
    <2>2. CASE current' = None
      BY <1>3, <1>6, <1>7, <2>2 DEF Kept
    <2> QED BY <2>1, <2>2
  <1>8. ASSUME NEW i \in DOMAIN view'.turns
        PROVE  ~run'[view'.turns[i].query].reasoned => ~Quotes(view'.turns[i].answer)
    <2>1. view'.turns # <<>>
      BY <1>8
    <2> QED BY <1>3, <1>5, <1>6, <1>8, <2>1 DEF Kept
  <1>9. Kept(view', run')
    BY <1>7, <1>8 DEF Kept
  <1>10. ASSUME seen'.form # None PROVE Kept(seen'.form, run')
    <2>1. CASE seen' = seen
      BY <1>4, <1>10, <2>1
    <2>2. CASE seen' = Drawn(view)
      <3>1. seen'.form = [asked |-> view.asked, turns |-> view.turns, answer |-> view.answer]
        BY <1>10, <2>2 DEF Drawn
      <3> QED BY <1>3, <3>1 DEF Kept
    <2>3. CASE seen' = Drawn(Fresh)
      <3>1. seen'.form = [asked |-> None, turns |-> <<>>, answer |-> <<>>] /\ DOMAIN <<>> = {}
        BY <2>3, FreshTyped DEF Drawn
      <3> QED BY <3>1 DEF Kept
    <2> QED BY <1>6, <2>1, <2>2, <2>3
  <1> QED BY <1>9, <1>10 DEF PromptInv

LEMMA PromptInvariance == Spec => [](TypeInv /\ PageInv /\ PromptInv)
  <1>1. Init => TypeInv /\ PageInv /\ PromptInv
    BY TypeInit, PageInit, PromptInit
  <1>2. (TypeInv /\ PageInv /\ PromptInv) /\ [Next]_vars => (TypeInv /\ PageInv /\ PromptInv)'
    BY PageStep, PromptStep
  <1> QED BY <1>1, <1>2, PTL DEF Spec

(* Whatever the model writes, in pieces of whatever size, and whatever it  *)
(* gives for a reason, no line of the system prompt is in an answer that   *)
(* finalAnswer wrote, on the page or among the turns it keeps              *)
(* (loop.go:646-655).                                                      *)
THEOREM PromptIsNotWritten == Spec => []NoPromptIsWritten
  <1>1. PromptInv => NoPromptIsWritten
    BY DEF PromptInv, Kept, Quotes, NoPromptIsWritten
  <1> QED BY <1>1, PromptInvariance, PTL

=============================================================================
