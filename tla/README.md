# Formal models of nlops

nlops lets a user operate five business services in natural language: a React page sends a
question to the BFF, a language model bound by a JSON schema chooses calls of read-only tools
in a loop, and an update the model proposes is executed only when a person approves it. This
directory holds TLA+ models of that program, TLC runs over small instances of them, and proofs
that TLAPS checks for every value of the constants.

Line numbers refer to the sources of the repository. `PROJECT.json` maps every definition that
models code to its lines.

## 1. Inventory

| Component | Source | State it keeps | Operations | What is hard in it |
|---|---|---|---|---|
| Command execution (BFF) | `bff/internal/server/server.go` `handleExecute`, `readBefore`, `idempotencyKey` | none of its own; the goroutine of a request | `POST /api/commands/execute` | double clicks, retries after a timeout, death between the service's commit and the audit write, early returns |
| Audit store | `bff/internal/audit/audit.go`, `services/schema/003_audit.sql` | `audit.command_executions` (rows with a unique key are the lock), `audit.traces` | `Claim`, `Complete`, `RecordExecution`, `Prune`, `RecordTrace` | a lock made of a row: takeover by age, late `Complete`, deletion by age |
| BFF process | `bff/cmd/bff/main.go` | process lifetime | start, daily prune, `Shutdown` with 5 s | dies with every handler in it |
| Ask stream (BFF) | `server.go` `handleAsk` | one SSE stream per question | `POST /api/ask` | order of events, client gone |
| Tool loop | `orchestrator/loop/loop.go`, schemas in `pkg/prompt/prompt.go` | locals of one run: step, executed, barren, duplicated, seenCalls | `Run` | the model may choose anything its schema allows; several guards interact |
| Tool executor | `orchestrator/executor/executor.go` | `seenIDs`, `ambiguousIDs`, `query`, `queryIDs` - "one conversation" | `Reset`, `Execute`, `UnresolvedIDs`, `AmbiguousIDs` | one Executor is shared by all requests of the BFF, without a lock |
| Screen lists (BFF) | `server.go` `handleOrders`, `handleStock`, `handleCustomers`, `screenSummary` | none | list screens, the one-line summary of a screen | several service calls are joined; counts and rows come from different requests |
| Audit screens | `bff/internal/server/audit_api.go`, `features/audit` | none | read-only lists | paging |
| Service framework | `services/internal/svc` | none | `Handle`, `ListPage`, keyset cursors | count and rows are two statements; ties and NULLs in the sort column |
| Order service | `services/cmd/order/main.go` | `orders.orders` | search, get, cancel | check and update are two statements |
| Other services | `services/cmd/{customer,inventory,shipping,billing}` | their schemas | lists, details, `PATCH` of contact and stock quantity | absolute updates, region filter |
| Roles | `pkg/authctx/authctx.go` | finite matrices | `AccessTo`, `CanWrite`, `RegionFilter` | the same decision in three places |
| Catalogs | `pkg/toolschema`, `pkg/command`, `pkg/uiroute`, `catalog/` | loaded once | lookups, validation of proposals | none at run time |
| LLM client | `pkg/llm` | none | `Chat`, `ChatStream` | a stream that ends without `[DONE]` |
| Assistant page | `features/assistant/AssistantPage.tsx`, `shared/api/client.ts` | the conversation, one `AbortController` | ask, reset, approve | late events of an aborted stream |
| List pages | `shared/api/useResource.ts`, `shared/ui/usePaging.ts`, `useSorting.ts` | cursor stack, last response | filter, sort, next, previous | stale responses |
| Drivers and evaluation | `orchestrator/cmd/orchctl`, `eval/cmd/*` | none | sequential runs of the loop | none; they are the "one question at a time" use of the loop |
| Deployment | `deploy/`, `pkg/dbconf` | configuration | none | none |

How they interact: the page calls `/api/ask` (SSE) and `/api/commands/execute`. `handleAsk` calls
`Runner.Run`, which calls the LLM client and, through the Executor, the services. A run ends in an
answer, a screen to open or a proposal; a proposal comes back later, approved, as a separate
`/api/commands/execute`, which claims a row in the audit database, reads the record, sends the
update to the service and completes the row. Nothing connects the two requests but the trace id in
the body, which is half of the idempotency key.

What makes each modelled component correct:

- *Command execution*: one handler per approval; an approval reaches the service again only if
  the first attempt was lost; answers and rows tell what happened in the service; recorded
  results are final; what was executed is in the audit; every accepted request ends.
- *Services*: an update is made by a caller with the right to it, at most once, and answered by
  what became of it; no field is lost between two updates; a walk through the pages of a list
  shows every row that stays, once.
- *Screens*: a page shows the answer to what it asks for now, with the rows of its user only, and
  tells a user "nothing found" only where there is nothing; the orders of a name are all of them;
  the summary of a screen counts what the screen does; a page comes to rest.
- *Conversation*: what stands under a question belongs to it; the history pairs questions with
  their own answers; an approval carries the trace of its own proposal; a page at rest has the
  whole answer or an error; no answer written at the end of a run holds a line of the system
  prompt; waiting ends.
- *Tool loop and executor*: no call and no proposal rests on an identifier that neither the
  conversation nor an answer of the same run determined; a run finishes from an answer of a
  service; no service is asked the same thing twice; a run that repeats itself is stopped;
  every run ends.

## 2. Modules

| Module | Models | Role |
|---|---|---|
| `CommandExecution` | `handleExecute` with `Claim`, `Complete`, `Prune`, the service, the clock, the death of the process | component |
| `ApprovedOperation` | what the execution of an approval promises: one holder, one hand-over per holder, a new holder only when the former is gone, nothing after a recorded result | abstract specification, implemented by `CommandExecution` |
| `ServiceContract` | what BFF and service agree on for an update: one effect at most, "ok" only with it, a refusal only without it | abstract specification, implemented by `CommandExecution` (the side that assumes it) and by `ServiceWrites` (the side that gives it): the composition of the two |
| `ServiceWrites` | the three updates of the services, statement by statement, behind `svc.Handle` | component |
| `AccessControl` | roles, the two matrices and the region filter (operators only) | used by `ServiceWrites` and `Screens` |
| `ListPage` | a walk through the pages of a list: `ListPage`, `Pg`, keyset cursors, `has_more`, while the table is written | component |
| `ServiceLists` | the nine paged lists as `ListPage` sees them: orders, tiebreak, columns that may be NULL or are not selected | data of `ListPage` |
| `IdentifierGuard` | what the Executor knows of identifiers and what its two refusals look at (operators only) | pure part of the Executor |
| `ToolLoop` | `Runner.Run` for several questions over one shared Executor; EXTENDS `IdentifierGuard` | component |
| `Conversation` | the assistant page, `streamAsk`, `handleAsk`, the writing of the answer with its leak guard, the approval on the page | component |
| `Screens` | `useResource`, `usePaging`, the three pages, the handlers behind them, `screenSummary`; EXTENDS `AccessControl` | component |
| `MC...` | values of the constants for TLC | instances |
| `CommandExecutionProofs`, `ApprovalRefinementProofs`, `IdentifierGuardProofs`, `ToolLoopProofs`, `ServiceWritesProofs`, `ListPageProofs`, `ScreensProofs`, `ConversationProofs` | theorems about the module they are named after | proofs |

### CommandExecution and the code

One request is one goroutine of `handleExecute`; `pc` is where it stands.

| Action | Code |
|---|---|
| `Reject` | 401, 404, unreadable body (not recorded); unknown command, bad arguments, no right to write (recorded by `RecordExecution`) |
| `Accept` | the checks passed |
| `Claim`, `ClaimAckLost`, `ClaimFails`, `ClaimConflict`, `ClaimNothing` | the `INSERT ... ON CONFLICT DO UPDATE ... RETURNING` of `Claim`: new row or takeover; committed but answered with an error; failed; no row returned; no key or no audit database |
| `Lookup` | the second statement of `Claim` and the answer to a duplicate: 503, 409 or the earlier result |
| `Abandon` | the two 500 answers without `Complete` |
| `ReadBefore` | `readBefore`, which gives nil on any failure |
| `MissingPathParameter`, `Send`, `Receive`, `Unreachable` | building the request, `HTTP.Do`, its answer, or its error (no connection, 15 s, client gone) |
| `Complete` | `Complete` (`UPDATE ... WHERE execution_id`) or `RecordExecution` without a key, and the answer to the client |
| `ServiceApplies`, `ServiceRefuses` | the service: applied and answered ok or failed after the commit; refused, or failed before it |
| `Crash`, `Prune`, `Tick` | the process, the daily cleaning, the clock of the database |

`version`, `replaced` and `before` count the writes of a record: they say which state an update
replaced and which one `readBefore` saw. A key is the header, or the pair of trace and operation
(the hash is taken as collision free). `execution_id` is drawn anew by every `Claim`; a request
claims once, so the request stands for it. Argument values, `changedFields` (display only) and
log lines are left out.

Timing enters by one assumption, `LifeLimit <= StaleClaim`: a handler is past its claim for less
than the two minutes after which its row may be taken over. The code's own calls bound it: the
HTTP client of the BFF has a timeout of 15 s (`server.go:65`), used once by `readBefore` and once
by the update, and the audit statements run under 5 s. `audit.go:222-228` states the same
intention. A retention is days (times twelve), a handler is seconds.

### IdentifierGuard, ToolLoop and the code

`known` is the state of the Executor: `seen`, `ambiguous` and the words of the conversation
(`query`). `Learn` is `recordIDs` and `markAmbiguity` on the projection of an answer; `Unresolved`
and `AmbiguousAmong` are the two refusals. An identifier is a value of an argument or field whose
name ends in "id" and is not fixed by an enum.

| Action | Code |
|---|---|
| `Start` | `Run`: `Exec.Reset(historyText, query)` |
| `Gate`, `Decline` | the intent gate (`open` when its call fails) |
| `OffersTool`, `OffersScreen`, `OffersProposal`, `OffersFinish`, `Forced` | the schema of a step and the stop guard |
| `ChooseFinish`, `ModelFails` | the model finishes; its call fails or its output is unusable |
| `ChooseDuplicate`, `ChooseCall`, `Return` | a tool step: `seenCalls`, the guards of `Execute`, the HTTP call, the bookkeeping of its answer |
| `ChooseProposal`, `ChooseScreen` | `resolveProposal`, `resolveNavigation` |
| `Answer` | `finalAnswer` |
| `MapRace` | the unlocked maps of the Executor: the Go runtime may kill the process |

The model's choices are nondeterministic within the schema. Tools, results and identifiers are
model values; `ResultsOf` says what a service may answer to a call: lists counted beyond their
rows, single records, refusals, missing rights, broken connections. `met` and `singled` are
history: what the answers of this very run contained, and singled out. `sent` is the history of
calls handed to a service.

Assumed: both catalogs are loaded, and `GuardUnresolvedIDs` and `GuardAmbiguousReads` are on (the
defaults). `ForceFirst` (the eval harness) is not modelled; two-stage routing only by its effect,
fewer tools or an error. `Parallel = 1` is `orchctl` and the eval drivers, which run one question
at a time, and a BFF with one user as long as he waits for his answers; `Parallel > 1` is the BFF,
which builds one Runner (`main.go:55`) and calls it from every request (`server.go:191`). One user
is enough for it: leaving the assistant page, and asking on the next one, runs two questions.

### ServiceWrites, ServiceContract and the code

A handler is a few statements without a transaction around them; `pc` is which one comes next.

| Action | Code |
|---|---|
| `Receive`, `Deny` | a request comes in; `FromRequest` and `RequireWrite` refuse it (401, 403) |
| `Admit` | the body: unreadable (500), unfit (409), or good |
| `SelectOrder`, `UpdateOrder` | `POST /orders/{id}/cancel`: the SELECT with the region, the test of the status, the UPDATE without either |
| `SelectCustomer`, `UpdateContact` | `PATCH .../contact`: `assertVisible`, then `COALESCE(NULLIF(...))` per field |
| `UpdateStock` | `PATCH .../stock`: one statement, an absolute value |
| `StatementFails`, `Committed` | a statement fails (500, nothing written); a committed update is answered, or its answer is lost (500) |
| `Advance` | confirmation, shipment and delivery of an order, by others |

`found` and `earlier` are history: the status of the order, and the requests already answered,
when a request arrived. `version` counts the writes of a record, `wrote` says which requests had
their effect. The refinement maps `pc` and `answer` to the `wire` of `ServiceContract`; the one
of `CommandExecution` is its own `wire`.

### ListPage, ServiceLists and the code

| Action | Code |
|---|---|
| `Ask` | the client asks for the first or the next page |
| `Count` | `SELECT count(*)`, left out with `count=none` |
| `Read` | `SELECT ... ORDER BY ... LIMIT`, behind the cursor or the offset; `HasMore`, `NextCursor` |
| `Fail` | a statement fails: 500 |
| `Resort` | the client sends its cursor with another order; `DecodeCursor` drops it |
| `Write` | a row is written, comes into the list or leaves it |

`Precedes` is the ORDER BY with its tiebreak and PostgreSQL's NULL last, `RowAbove` and
`RowBelow` the row comparison with its unknown. A row is seen through filter and region: one that
stops to match is gone. `steady` are the rows nobody has written since the walk began, `raced`
marks a count that is older than the rows it is used for.

### Screens and the code

| Action | Code |
|---|---|
| `UsersCome` | `UserProvider`: the list of users has come; until then, and for ever if it fails, a page has no user and takes an empty list (`NotAsked`) without asking |
| `Open`, `SetFilter`, `SetPage`, `SwitchUser`, `ShowDefault` | the acts on a page: menu or proposal, filter fields with `resetOffset`, pager, user menu, the default threshold written into the address |
| `RunEffect`, `Deliver` | `useResource`: the effect of a new key undoes the old one and asks; an answer comes in and is taken, unless cancelled |
| `ResolveNames`, `ListRows`, `Fail` | the calls of a handler: the customers of a name, the list itself, and the failure of either or of the way back |
| `Propose` | `handleAsk` sums up the screen it proposes (`screenSummary`) |
| `Write` | a row comes or goes |

The key of a page holds user, route, filter and offset, as the pages build it. The names put
beside the orders, sorting (one more part of the key) and the choice of a page size are left out.

### Conversation and the code

| Action | Code |
|---|---|
| `Ask`, `NewConversation`, `Leave` | `ask` and `reset` of `AssistantPage`, with the abort of the stream before; another page is opened, which aborts nothing |
| `Render` | React draws: form and card act on what was drawn last |
| `Hear`, `End`, `Break` | `streamAsk` and `dispatch`: an event, the end of the stream, its break; `finally` |
| `LeftEnds` | the stream of a page that was left ends or breaks; nobody is told |
| `Approve`, `Dismiss` | `ProposalCard` |
| `Begin`, `Step`, `LoopEnds` | `handleAsk`: refusal or start; a step; then an error, a screen, a proposal, the question turned away, or the writing of an answer |
| `Write`, `WritingEnds` | `finalAnswer` with `ChatStream` and `LeaksSystem`: a piece, or the end with or without `[DONE]`, or a failure |
| `RecordTrace` | the write of the trace, after the last event and before the handler returns |

Questions are numbered; an event, a piece, a proposal is known by the number of its question.
An aborted stream delivers no more than was sent, and nothing of its run is heard any more. One
that was left (`reader[k] = "left"`) stays open and its run goes on beside those of the page
opened next; its events change nothing, so that they are not counted. `Raw` are the texts from the
model that nobody looks at: the reason of a screen or a proposal, which becomes the answer
(`loop.go:452`, `476`; `reasoned` of a run says so), and the output an error quotes
(`loop.go:404`; `quote` of the page).

## 3. Runs

| Run | Question | Bounds |
|---|---|---|
| `exec_crash` | What do answers and rows say when processes die and the audit database fails? Does the whole implement `ApprovedOperation`, and use the services as `ServiceContract` allows? | three sends of one approval (symmetric), `StaleClaim = LifeLimit = 1`, clock to 3, rows kept for ever |
| `exec_fault_free` | Without faults: once per approval, an honest `before`; does every request end? | two sends of one approval and another approval on the same record; services may refuse, fail, never answer |
| `exec_prune` | Does the lock survive a `Prune` that deletes rows of any status, and a header key reused for another command? | two requests under one header (one of them cannot be sent), one without a key, retention 1, clock to 3 |
| `service_writes` | What do three callers do to one order, customer and stock while the warehouse goes on? Do the services implement `ServiceContract`? | three requests (symmetric), twelve calls: every kind by callers with the right, without it, or elsewhere; bodies that are unreadable, empty or negative; a record that does not exist |
| `list_walk` | Does a walk show every row that stays, once, and end? | four lists (unique and shared tiebreak, a column with NULLs, a key the answer leaves out), every table of up to three rows over two values and NULL, pages of one and two rows, one write or change of the order |
| `screens` | What does a page show, whatever the order of calls and answers? | no user at first, two acts of the user, two requests under way, one row that comes or goes, pages of one row, names that match nobody, one and two customers |
| `conversation` | What does a page show of two questions? | two questions, answers of up to two pieces, a line of the prompt that is two pieces long, and is all that reasons and errors say |
| `loop_alone` | Every sequence of choices of one question, on an Executor used before | six steps (the default of the BFF), five calls, two proposals, one screen, every mode |
| `loop_shared` | What holds when questions share the Executor? | two questions at a time, three steps, the map race |
| `guard_rows` | Are the marks, as the model states them, those of the row-by-row loop? | all lists of up to three rows over three identifiers, a named and a nameless row, counts 0 and 5, sorted or not, after any sequence of lists |
| `loop_pick`, `screen_summary` | disagreements, see section 6 | |

Why the bounds suffice to be interesting: a takeover needs one request that holds a row, one that
takes it and one that comes in between: three. A clock to 3 lets a claim go stale twice. The stop
guard fires in the third step at the earliest (a call, a duplicate); three steps reach it with two
questions, six steps reach every interleaving of it with proposals and screens. Lists of two rows
are the smallest ambiguous ones; `count` 25 is a list of which less than a tenth is shown.
An update lost between two others needs three requests. Three rows and pages of one make three
pages with a row between two others; two values make ties. A filter, a page and a user are each
changed while an answer is on its way with two acts and two requests. Two questions are one that
is replaced and one that replaces it, and one turn of history.
`MaxTime`, `MaxSteps`, `MaxChanges`, `MaxActs`, `MaxAsks`, `MaxPieces` and the sets are the only
bounds; `MaxSteps` is an option of the code. The systems may stop (requests end, nobody is obliged
to ask), so deadlock is not checked, except in `guard_rows`.

Every property of a passing run has a mutant: a definition of the model changed the way a bug in
the code would change it, with which TLC finds the property violated.

### Fairness

- `CommandExecution` asks weak fairness of `Handle(r)`: the goroutine of an accepted request is
  scheduled, and each of its calls ends, by an answer or by its timeout. Clients, the service, the
  clock, crashes and pruning promise nothing.
- `ToolLoop` asks weak fairness of `Move(a)`: calls of the model time out after 10 minutes
  (`llm/client.go:171`), calls of services after 15 s (`executor.go:93`). Whether the next
  question ever starts is left open.
- `ListPage` (`WalksEnd`) assumes a client that goes on (`WF(Ask)`) and statements that do not
  fail for ever (`SF(Count)`, `SF(Read)`).
- `Screens` (`PagesSettle`) asks weak fairness of React's effects (`ShowDefault`, `RunEffect`) and
  of the calls and answers of a request (`Serve(i)`): the BFF's calls time out after 15 s. A
  failure is an answer too. Neither the user nor the list of users (`UsersCome`) promises anything.
- `Conversation` (`WaitingEnds`) asks weak fairness of `Render`, of the handler (`Serve`: its
  calls time out), and of `Hear` and `End`: what is sent is read. Users, breaks and the
  streams of pages that were left promise nothing.

## 4. What is proved

All theorems hold for every set of requests, keys, targets, questions, calls, results, users and
rows, under the named assumptions (`ConstantsTyped`, `Timing`, `NoRowIsNoRow`, `NoneIsNoRecord`,
`NamelessIsNoName`, `ChoicesDisjoint`, `CallsTyped`), which TLC evaluates on the instances.
`NoneIsNoRecord` says that the value for "nothing there" is no request, no reply and nothing
loaded. Every safety property of a passing run is stated by a theorem.

`CommandExecutionProofs`:

- `TypeCorrect`, `RunnersExclude` (`OneRunnerPerApproval`), `NoRepeatWithoutLoss`
  (`RepeatOnlyAfterLoss`), `AnswersAreTrue` (`OutcomesAreTrue`), `RecordsAreFinal`
  (`ResultsAreFinal`), `ExecutionsAudited` (`ExecutionsAreRecorded`), `BeforeIsHonest`
  (`BeforeMissesOnlyOthers`), and `OnceWithoutFaults` (`AppliedAtMostOnce`, `ClaimedIsCompleted`
  when nothing crashes, the audit database does not fail and no catalog entry is broken), and
  `UsesServicesAsPromised` (`RespectsServiceContract`: each step of a request is a step of the
  contract or a stutter).

The argument. `OneRunnerPerApproval` is not inductive: a row that is taken over names its new
owner, and nothing in the formula says that the old one is no longer at work. The strengthening
is `OwnsItsRow`: a keyed handler past its claim owns the row of its key, running and stamped by
itself, and is younger than `LifeLimit`. A takeover needs a row older than `StaleClaim`, so with
`LifeLimit <= StaleClaim` it robs nobody (`ClaimRobsNobody`), and neither does `Prune`. On top of
it, `SentIsAccounted` says that what was handed to the service is on its way to `Complete`, lost,
or settled in its row; `WireIsTrue` ties answers to effects, `OutcomesFromWire` ties outcomes to
answers that really came, and `RowsNameTheirRunner` ties rows to the request whose outcome they
carry: a row says running exactly until that request has recorded. `Chronicle` says that every
former version of a record was replaced by some request, which gives `BeforeIsHonest`.

`ApprovalRefinementProofs`: `ImplementsApproval`. With rows kept for ever, each step of a handler
is a step of `ApprovedOperation` or a stutter: a claim is `Take` (its old holder is gone, by
`RowsNameTheirRunner` and `OwnsItsRow`), `Send` is `Hand`, a written `Complete` is `RecordResult`,
and everything that ends a request without its result is `Vanish`.

`ToolLoopProofs`: `TypeCorrect`; `FinishRestsOnAnAnswer` and `NeverAskedTwice` for any number of
concurrent questions; `NoSilentPickAlone` and `ScreensResolvedAlone` for one at a time. The
strengthening for the last two (`AloneInv`) is that the Executor knows what the one running
question knows: its query is the conversation, `seen` holds nothing but the conversation's and
the run's own identifiers, and what is seen and not ambiguous is determined. The step that
matters is that an identifier an answer leaves unmarked was unmarked before, was written, or is
singled out by this answer (`UnmarkedIsSingledOut`). For the others, `LoopInv`: sent calls are
remembered, and a run that has executed has sent. `ForcedRunsFinish` (`ForcedRunsOnlyFinish`), for
any number of questions, needs the types only: what a forced run is offered, and that no step of
another question touches its locals.

`IdentifierGuardProofs`: `TheLoopMarksTheSame` (`RowsDecideInOrder`). `ToolLoop` uses the marks in
the form "the last row of an identifier decides", the code marks and unmarks row by row. The two
agree for lists of any length, whatever the Executor knew before. It is an induction over the
rows, by a least row at which they disagree (`LeastOf`, from the well-foundedness of the
naturals); that the recursion of the loop has a value at all is `LoopRuns`, shown the same way.

`ServiceWritesProofs`: `TypeCorrect`; `CancelledWasOpen` (`CancelsFoundOrdersOpen`);
`UpdatesAreKept` (`NoFieldIsLost`); `WritesAreInField` (`WritersStayInTheirField`);
`ServicesKeepContract` (`ImplementsServiceContract`). The argument: a status never leaves
CANCELLED and never returns to an open one, so an order found open by the SELECT was open when the
request arrived; a handler that has reached its UPDATE passed the region test, which nothing takes
back (regions do not change); for `NoFieldIsLost`, the last writer of a column is a request that
was not answered before the overwritten one arrived, which needs that an answered request writes
no more; for the contract, a request has written exactly when its answer is "ok" or a lost one.

`ListPageProofs`: `TypeCorrect`; `NothingIsRepeated` (`CursorWalksRepeatNothing`);
`NothingElseIsMissed` (`CursorWalksMissOnlyTiesAndNulls`), for tables of any size and any number
of writes. The strengthening says where a walk stands: a steady row lies behind the cursor exactly
if it has been shown, up to ties and NULLs. The step that matters is that of a page: its last row
bounds all others of the page, and every steady row up to it is in it. `QuietPagesFit`
(`QuietPagesFitTogether`) is about walks by offset: while nobody writes, in a list with a unique
tiebreak that `MaxOffset` reaches, the rows shown lead all others, and there are as many of them
as the offset says (`OffsetWalk`). The order is then total, so there is only one such set
(`FirstRowsAreOne`): what the next page skips is exactly what was shown (`PagesJoin`).

`ScreensProofs`: `ScreensTyped` (`TypeOK`), `TheAnswerIsShown` (`AnswerOfTheKeyIsShown`),
`RowsShownAreTheUsers` (`RowsAreTheUsers`), `AnEmptyPageIsAnEmptyList`
(`NothingFoundIsNothingThere`), `OrdersOfANameAreNeverAPart` (`OrdersOfANameAreAll`) and
`SummariesCountAsTheScreen` (`OtherSummariesAreRight`), for tables, page sizes and numbers of
requests of any size. None of them is inductive: they speak of the end of a request and say
nothing of its way there. The strengthening, `ScreensInv`:

- `RequestsOk`: each request, at each of its calls, holds what the rows of the tables make of its
  parameters. `ReplyOk` holds whatever is written meanwhile: the rows answered are the user's, and
  a page without rows lies behind the end of its list (`PageOf`). `QuietOk` holds while nobody
  writes: the customers resolved are still those of the name, and the reply is the one all its
  calls would give now (`Expected`). A write ends `QuietOk` for all requests, and nothing else.
- `LiveOk`: the request the page waits for asks for a list of this page, and once it was answered,
  its answer is what was loaded. This is what `cancelled` of `useResource` is for.
- `LoadedOk`: what was loaded is as its request was; the request itself is found again from the
  key, because the key holds all of its parameters, the user among them (`KeysTell`).
- `WithinTheList`: a page that has gone on, and has not strayed, lies before the end of the list
  that it would be answered now. The pager only goes on by a count, so this rests on `QuietOk` of
  what was loaded, and on `CountsAgree`: the pages of a list all count the same.

Underneath lies what a slice of a finite set of numbers holds (`SliceBounded`): no more rows than
asked for, and none only behind the end.

`ConversationProofs`: `ConversationTyped` (`TypeOK`), `PageOfOneQuestion`
(`OneQuestionOnThePage`), `HistoryOfItsQuestions` (`TurnsAreOfTheirQuestion`),
`ApprovalsAreOfTheirTrace` (`ApprovalsNameTheirTrace`), `PageWaitsForItsStream`
(`WaitsForItsStream`), `RestHasTheAnswer` (`RestIsComplete`) and `PromptIsNotWritten`
(`NoPromptIsWritten`), for any number of questions and of pieces. The invariant has two halves,
and a third for the prompt:

- `TypeInv`: the types, `Waits` (the page waits as long as the stream it follows is open), that
  nothing more is heard than was sent (`Bounds`), and that questions are asked in order
  (`AskedInOrder`).
- `PageInv`: `OpenRuns` says what the handler of an open stream has sent: a start, a step perhaps,
  the pieces in order, and, once it has concluded, the answer and the end, or a refusal alone.
  `Followed` says that the page is what the events heard so far amount to (`Said`): so the answer
  that comes at the end replaces the pieces before it by the same text or by the refusal, and a
  page at rest has it whole. `PageOk` and `CardOk` say the same of what was drawn last, on which
  the buttons act.
- `PromptInv`: on the page and on what was drawn last, an answer or a turn with a line of the
  prompt is one of a run that answered with a reason. While a question is followed, this comes
  from what its run has written: the guard looks at the text as a whole before a piece goes out,
  and no part of a text without the line holds it (`PrefixHoldsNoMore`). Afterwards, a question
  is only moved among the turns (`PageTurns`), and a run that answered with a reason stays one
  that did (`ReasonedStays`).

## 5. Model-checked only, and not modelled

Model-checked only:

- liveness (`EveryRequestEnds`, `EveryAskEnds`, `WalksEnd`, `PagesSettle`, `WaitingEnds`): it
  rests on fairness and on ENABLED, which are out of the prover's reach;
- the two disagreements of section 6: a run shows that the property fails.

The other way round, the type invariants of `CommandExecution`, `ToolLoop`, `ServiceWrites` and
`ListPage`, and `ClaimedIsCompleted`, are proved and in no run.

Not modelled:

- the audit screens: read-only, the newest rows up to a limit;
- reads of one record and the aggregates (counts, sums) of the services: one statement each,
  nothing shared;
- the loading of catalogs, prompts and their wording, the text of answers, `changedFields`, the
  fields of projections, the decoding of JSON and of SSE lines;
- `ForceFirst` and the scoring of the eval drivers; they call the loop one question at a time;
- `useSorting` and the choice of a page size (more parts of a key `Screens` has already);
- deployment and configuration.

`RecordTrace` is only the step that delays the end of a stream; what it writes is read by the
audit screens alone.

## 6. Where code and comments disagree

Each of these is a run TLC answers with a counterexample.

- `loop_pick`: the Executor holds the state of one conversation (`executor.go:102`), and all
  requests of the BFF share one. A call goes out with an identifier that only another user's
  answers contained.
- `screen_summary`: the summary of a screen is that of its route and filters (`server.go:900`).
  `screenSummary` passes `at_most` on under a name the service does not know, and counts all
  orders for a customer name nobody has; the screens behind them do neither.
  `OtherSummariesAreRight` shows that these are the only two cases.

Further points that came up while modelling. They follow from the code and are stated by the
exceptions of the properties, or by the actions of the modules.

Commands:

- An approval may be applied twice after a crash between the service's commit and `Complete`:
  after two minutes a retry takes the row over (`audit.go:254`), although the key is to keep an
  approval from running twice (`server.go:287`, `003_audit.sql:82-83`). `RepeatOnlyAfterLoss`
  shows that this is the only way.
- The 500 answers at `server.go:463` and `server.go:494`, which only a broken catalog reaches,
  come after `Claim` and without `Complete` (`audit.go:232`): for two minutes retries are told
  that the execution is under way.
- `before` may not be the state the update replaced (`BeforeMissesOnlyOthers` says how far it may
  be off). A header key reused for another command finds, or takes over, the row of the first.

Loop:

- A call is remembered before it is made (`loop.go:492`): refused for an identifier that was not
  yet resolved, it is refused as "already executed" after the search it was told to make. What is
  compared is the call as written, before the Executor drops unknown arguments.
- A customer found as the only match becomes "one of several candidates" by the list of its own
  orders (`executor.go:271`).
- In write mode the tools are withdrawn after the first executed call (`loop.go:366`), also when
  it identified nothing; a run whose last step is a refused screen or proposal ends without being
  marked incomplete (`loop.go:521`); the words of earlier answers count as the user's
  (`loop.go:228`).

Services and lists:

- A cancellation tests the status in one statement and updates in another without a condition:
  an order shipped inside that window is cancelled. `CancelsFoundOrdersOpen` says exactly this.
- A stock is set to an absolute value: of two concurrent ones the last wins. The caller's
  warehouse is not looked at. `authctx.go:83` names a `Roles.Verify` that does not exist.
- A cursor of `shipped_at` in descending order starts with the NULLs and is then NULL: the rest
  of the list is lost. The cursor of order items holds no line number, which the answer leaves
  out. Rows of one product in two warehouses share a tiebreak, and the second may be skipped.
  A counted first page may say that there are no more when a row came after the count. Beyond
  `MaxOffset` every page is the same.

Screens:

- Without a user a page asks nobody, takes an empty list, and says that nothing was found
  (`OrderPage.tsx:56-66`, and so the other two): for a moment until `/api/users` answers, beside
  the error of `UserProvider` if it fails. `NothingFoundIsNothingThere` speaks of users only.
- The pager works on the count of the list shown before while the next one loads; another user
  keeps the page number; both may lead behind the end of the list. While a page loads, the rows
  of the user before stay visible. Back to a filter left a moment ago, its older answer is not
  marked as loading.

Conversation:

- The pieces of a broken answer enter the history of the next question as an answer. A stream of
  the model that ends without `[DONE]` is a complete answer (`stream.go:24`). Of a line of the
  system prompt, the pieces before the last are on the page for a moment, until the refusal
  overwrites them.
- Another user keeps the conversation, and with it the identifiers of the other's answers.
  Leaving the page does not abort the stream: the run goes on beside that of the next question,
  and two streams of one user are open. `WaitsForItsStream` speaks of those the page opened itself.
- `LeaksSystem` is asked of what `finalAnswer` writes, and of nothing else. The reason of a screen
  or a proposal (free text of up to 120 characters, `prompt.go:306`) is shown as the answer and
  enters the history, the arguments of a step are shown, and an error quotes up to 300 bytes of
  output (`loop.go:404`), all unlooked at. `NoPromptIsWritten` and its theorem make exactly this
  exception; steps have no text in the model.
- An approval may come before its trace is recorded, and the trace may never be. The page waits
  for `RecordTrace` before the form comes back. "New conversation" and a question, both pressed
  before the page is drawn again, bring the old turns back. After an approval that failed, asking
  anew gives a new trace and so a new key.

## 7. Plan

Every subsystem that keeps state or has an order of steps has a module, and every safety property
of a run a theorem. What could follow: a composition of `Conversation` with `CommandExecution`
over the key of an approval, with its theorem that an approval on the page is the one executed; an
abstract specification of a data hook (the page shows the answer to its last key) that `Screens`
implements; an instance of `ListPage` for each of the nine lists.
