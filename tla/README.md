# A verification development of treat

`treat` is a set of Rust crates for RPC-style HTTP services: a JSON envelope
(`{data, meta}` or `{errors}`), typed errors with a chain of causes, adapters for
axum, actix-web and poem, and middlewares that give every request an id, a tracing
span and a log line for its error. This directory holds TLA+ models of the parts
whose correctness depends on interleaving, on the order of calls or on several
functions agreeing, TLC configurations that check them, and proofs checked by TLAPS.

Paths below are relative to `src/crates/`; line numbers are in `PROJECT.json`.

## 1. Inventory

| Component | State | Operations | What is hard | What makes it correct | Module |
|---|---|---|---|---|---|
| Envelope: `treat-core/src/response.rs`, `response_report.rs`, `rpc_status.rs` | `ApiResponse {data, meta, errors}` | `success*`, `failure`, `with_*`, `Serialize`, `rpc_status`, `into_inner` | builders can leave `data` and `errors` both set; three functions test `errors` on their own | one of `data`/`errors` on the wire, header agrees with body, client learns the outcome | `Exchange` |
| Typed error: `error.rs` | `ApiErrorInner` in a `Box`, causes behind an `Arc` | `error`, `with_*`, `map_code`, `clone`, `track` | some twenty calls in any order, each of which must keep what the others said; one status field with three setters; a second source; shared causes | what was said last is what is read; the trail can be followed back; status decided by the outermost error; chains only grow | `TypedError`, `Exchange`, `ErrorChain` |
| Error collection: `error_report.rs` | work list of the recursion, `seen`, `output` | `into_api_response`, `collect_messages`, `report_collect_messages` | a tree walked through an iterator that sees only part of it; deduplication by address; folding of foreign text | every error once, causes after their error, no text lost, nothing internal | `ErrorChain`, `Exchange` |
| Conversions: `wrap_error_code.rs`, `ok_or_error.rs`, `track.rs` | none | `wrap_api_*`, `with_error_code*`, `ok_or_api_*`, `track_*`, `track_hop` | what a wrapper keeps of what it wraps; hops that are not recorded | as for typed errors | the actions of `TypedError`, `Exchange`, `ErrorChain` |
| Wire form: `error_message.rs`, conversions of `error.rs` | none | `to_error_message*`, `From`, `Serialize`, `Debug` | three conversions, two renderings as JSON, five loggers | they agree; causes only if asked for | `ErrorRendering` |
| Adapters: `error_*.rs`, `response_*.rs` | none | one per framework and kind of result | three independent implementations | same answer in every framework | `Exchange` |
| Extractors: `extract_*.rs`, `serde_path.rs` | none | `ApiJson`, `ApiValidated` | four ways to reject a request | 422 with an envelope, but for a body axum cannot read | `Exchange`; the pointer of a parse error in `Validation` |
| Validation: `validate.rs` | one prefix shared by a recursion | `validation_error_messages` | push/truncate discipline | every violation reported once, under a pointer that resolves to its place | `Validation` |
| Meta slots: `meta_slots.rs` | none | `Pagination::new` | none: one `div_ceil` behind a test for zero | - | not modelled |
| `treat-tower` | span and id of each `TraceFuture` | `poll_ready`, `call`, `poll` | polled by any thread; `Err` outcomes; panics | spans nest, id echoed, status recorded | `LoggingService`, `RequestTracing` |
| `treat-axum-logging` | the inner service of each middleware | `poll_ready`, `call`, `poll` | readiness is reserved on one instance; lazy future | never calls an unready instance, strands no capacity, logs once | `LoggingService`, `RequestTracing`, the log lines in `ErrorRendering` |
| `treat-actix` | span, id of each `TracingResponse`, span of each `StreamSpan` | `call`, `poll`, `poll_next` | body streamed after the future is gone; code types known only at run time | as above, and structured logs in mixed codebases | `RequestTracing`, `ErrorRendering`, `Exchange` |
| OpenTelemetry propagation: `otel.rs` | none | `set_otel_parent` | the work is done by another crate | - | not modelled |
| Derive macros: `treat-derive` | none | generate conversions from and to enums | catch-all of `FromErrorMessage`; a copied range; two generated statuses | an error reaches the variant of its code, with the status declared | `WireCodes` |
| `treat`, `treat-hygiene*` | none | re-exports, compile-time checks | - | - | not modelled |

How they interact: a handler builds an `ApiResponse` or `ApiError` (conversions);
the adapter of its framework turns it into a response and stashes the error in the
response's extensions; on the way out the logging middleware finds it there and
hands it to the configured logger, and the tracing middleware records the status
and echoes the request id, which it had put in the request's extensions on the way
in; the client parses the envelope back.

The hazards of this code, each with its line and the properties that would catch it,
are listed in `PROJECT.json`.

## 2. Modules

**`Admission`** is the abstract specification of a middleware over a service of
limited capacity: `Submit`, `Admit` (in exchange for a free permit), `Leave` (gives
everything back). It says nothing of instances, clones or futures.

**`LoggingService`** is the readiness protocol of `LoggingMiddleware` and
`TraceService`. `service[h]` is the `state`/`inner` field of the middleware a
connection owns; `captured[r]` the instance moved into the `async` block of a
request's future; `holder[p]` says which instance or inner response future holds a
permit of the inner service. `PollReady`, `CallLogging`, `CallTrace` are the methods;
`PollReadyFails` is a `poll_ready` whose inner service fails; the error is passed on and the connection given up.
`Start` is the first poll of LoggingMiddleware's future, where the inner call is made;
`Finish` and `Cancel` end a future; `Connect`, `Disconnect`, `Arrive` are the server's.
The inner service is tower's `ConcurrencyLimit`, which is not in this repository and
is modelled by the contract that `logging.rs:92-99` quotes. `stageView` and
`grantView` map it to `Admission`.

**`RequestTracing`** is the life of a request under `TraceLayer`, `LoggingLayer`
(alone or stacked either way) or the actix `Logger`. Each thread has its stack of
entered spans (`current`), which is tracing's context: it decides the parent of a new
span and the span of an event. `Call` runs through the layers up to the first lazy
one, `CallInner` is that one's inner call, `Enter` the entering of a layer's span in a
poll, `Suspend` a `Pending`, `Panic` a panic that unwinds through the poll (both leave the
spans by the layers' guards, `Unwind`), `Resolve` the handler's answer, and `Return` one layer's
code after its inner future resolved (`TraceReturn`, `LoggingReturn`, `ActixReturn`).
`Emit` stands for any event of a handler. A poll of an actix body is `BeginBody`, which enters
`StreamSpan`'s span, `EmitBody`, any event of the body, which gets the span that the thread is then in, and
`EndBody`, which leaves the span again.

**`TypedError`** is one `ApiError` from the call that creates it through builders,
`map_code`, wrappers and hops. A location is a line (which stands for a file and a line) and a
column, because `track_hop` compares lines only; texts are model values; a source is what its chain
displays, outermost first, and `origins` the places its links have. Which places erris records is not said in this
repository, so a cause is taken to have one or not, and an error that becomes a cause (`AsReports`) to keep those
below it or not. `calls` is a history variable, what was done to the error since it
was created: `Follows` reads `hops` against it. docs say that every `?` records its hop
except on the raise line; the code (`track.rs:96-109`) also leaves out one on the line of the
hop before, and `Follows` states exactly what may be left out.

**`ErrorRendering`** is every way out of that error: the three conversions into an
`ErrorMessage`, the derived and the hand-written JSON and the way back, `Debug`, and the three
loggers of treat-axum-logging and two of treat-actix, which try their own code type, then the
default, then fall back to `Debug`. `Debug` lists the places from the last hop to the raise location and goes on
with those of the source's links (`error.rs:754-765`); the structured forms stop at the raise. A message is the sequence of the texts it is joined from, a
JSON object the function of the fields it has, a log line the places it names in their order.

**`ErrorChain`** builds chains out of `error`, `clone`, `map_code`, `with_source` and
foreign errors, as nodes of a `heap`, then runs `collect_messages` or
`report_collect_messages` on one, a loop iteration at a time; `frames` holds what the
chain iterator of each active call has left. erris is not in this repository: its
`chain()` is `Chain`, from the description in the comments at `error_report.rs:58-63`
and `118-127`. Which branch of a wrapper it yields first is not said there, so both
orders are checked. In the loop, `ListError` records the entry and recurses,
`SkipSeen` is the deduplication, `FoldForeign` is `append_foreign_cause`. `verbose` is the
argument of `report_collect_messages`: if it is set, an entry's message carries what its source
displays (`Entry`), so `NoInternalText` is about collections without it.

**`Exchange`** is one call from the handler's builders to the client. `Success` to
`Convert` are the builders and conversions; every adapter is an operator of its own
(`AxumError`, `ActixResponse`, ...), so agreement between them is a property and not
an assumption; `Reject` is an extractor's rejection, `StripHeader` a proxy, `Receive` the
client. `rejected` is a history variable: the extractor, and why it turned the request down. Two answers
differ from 422 with an envelope. A body that axum cannot read is answered by axum's own rejection, a 400
without an envelope (`extract_axum.rs:28-30, 54-56`); and the status of `ApiResponseError` can be
overridden by the code around the extractor (`Overrides`). A JSON document is the set of its fields and their values, so an absent
field, `null` and `[]` are told apart. `explicit` and `adopted` are history variables
that record what StatusDecidedOutermost is about. A chain of causes is the
list of its codes: what the collector makes of branching chains is `ErrorChain`'s subject.

**`Validation`** is a body on its way through `ApiValidated`: it does not parse
(`Malformed`, with the pointer `serde_path.rs` makes of serde's path), or `validate_api`
walks the tree of its violations. `frames` are the active loops of `collect`, over the
fields of a struct or the items of a list: `Descend` is a recursive call, `Report` a
field's own violations, `Ascend` the end of a loop with the caller's `truncate`. Field
names are sequences of characters, because escaping two of them is what the pointers
are about. A tree is a function from the paths of the invalid fields to the rules they violate;
`OneKind` is validator's `ValidationErrorsKind`; a field that is listed has violated a rule
(`RulesAreListed`). A hand-written `Validate` that fails
with no violation at all is left out.

**`WireCodes`** puts the three derive macros together: `Compile` is what they (and rustc,
for a match that is not exhaustive) accept, `From`, `FromReport`, `ByHand` and
`WithCodeStatus` the generated and library ways to an error and its status, `Send` the
code and status on the wire, `Receive` the generated match of the client. `Earlier` is the order
in which the arms were emitted. `err.seeded` is a history variable: whether a generated
function set the status. Two things the model shows that no text of the repository
denies: two variants of a client with the same code compile, and the second is never
constructed; and `with_code_status` on a variant without `#[status]` stores the default, so
that `has_status` becomes true and `with_source_status` no longer applies.

`MC*.tla` hold symmetry sets, values for functions and state constraints, `*_proofs.tla`
the theorems; `Recursion` is what those of recursive definitions rest on (section 5). Operators named `...Mut...` are plausible mistakes: each is put in place
of the operator it is named after to see the run's property fail.

## 3. What is checked

| Run | Question | Bounds |
|---|---|---|
| `logging_service` | `NeverCalledUnready`, `NoStrandedPermit`, `OnePermitPerRequest`; under fairness `ImplementsAdmission`, `EveryRequestLeaves` | one logging and one tracing connection, 3 requests, 2 permits, 5 instances: more requests than permits, as many instances as connections and requests can own, so no step waits for a free name; no symmetry, as liveness is checked |
| `request_tracing` | `ScopesNested`, `SpansChained`, `EventsInOwnSpan`, `LoggedOnce`, `Correlated`, `StatusOnEverySpan`, `AnswerUntouched` | 2 requests, 2 threads, 5 stacks, 3 ids (one more than requests), one `Pending` per request |
| `typed_error` | `TrailFaithful`, `ClientReadsWhatWasSaid`, `ConversionsAgree`, `CausesOnlyIfVerbose`, `LogsTellTheTrail`, `LogsTellTheCause`, `LogsMatchTheAnswer` | any error and any two calls on it, so every ordered pair of builders (one call if the error has two causes or a cause with a place); on an error created bare, also one call after three hops; 3 lines of 2 columns: a trail that leaves a line and comes back to it; a code of the service's type, one of another and one of the default; sources of up to two |
| `error_chain` | `EveryErrorListedOnce`, `CausesFollow`, `NoInternalText`, `NoCauseLost`, `ChainsOnlyGrow` | 5 nodes: enough for a wrapper with an error in each branch that has a cause or shares one with a clone, collected with and without causes in the messages; up to 4 of them with 2 texts, one a substring of the other, and with foreign errors that have sources |
| `exchange` | envelope, header, client, adapters, status, privacy, rejections, span status | up to 4 builder calls; two codes, one mapped to 999; statuses on both sides of both ends of 100..599; default status 500, so that a default and a replaced status differ |
| `validation` | `PrefixPointsHere`, `EveryViolationLocated`, `ItemsInOrder` | two names, one the escaped form of the other; up to 3 invalid fields, each violating one or two rules, at depths that mix fields, nested structs and lists of two items: enough for two siblings left and one to come at every kind of loop |
| `wire_codes` | `RoutedByCode`, `DeclaredStatusSent` | services of 2 variants out of 6 declarations (no code, the code `_`, one code twice, an invalid status), clients of up to 3 out of 5; default status 500 |

`error_chain` checks its module's `TypeOK` too; like that of every other module that models code
it is proved (section 5). Five nodes leave little room for clones: `ChainsOnlyGrow` sees a clone and its
original in few chains, and its theorem (`CausesAccumulate`) is what covers them.

State constraints: `MCTypedError`'s `Bounded` is the bound on calls named above. In `MCErrorChain`, `Relevant` only follows collections on chains
that use everything built (what is left over cannot be reached from the root) and keeps at
most two errors at a time that are not yet part of another one; `Plain` allows the second
text and the foreign errors with sources in trees of up to four nodes only.

Deadlock is checked for `LoggingService`, `Validation` and `WireCodes`; in the last two only
an answer given, a refusal or an error received may stop (`Answered`, `Over`). The other models
are of requests and calls that end anywhere, so their runs say `CHECK_DEADLOCK FALSE`.

### What the violation runs show

Each checks one sentence of the repository against the code:

- `typed_cause_dropped`: `error_report.rs:22-23` says that `collect_messages` collects
  "every `ApiError` found in its cause chain"; a `&'static str` error that wraps a typed one is
  collected without it, as a cause is recognised only if its code is of the outermost error's
  type or of the default one. `error_chain` shows
  that with the caller's type and the default only, as `error_report.rs:64-68`
  presumes, nothing is lost. An unrecognised error without a cause is moreover folded as a foreign
  one would be, `treat error: ...` included: `NoInternalText` holds in `error_chain` because `Callers` there is
  the typed code (`InternalOnlyIfLost` says what holds without that).
- `middle_text_lost`: a foreign error with a cause of its own is taken for one of erris'
  wrappers, and its text is dropped (`error_report.rs:31-36`). `NoCauseLost` shows that
  the text of a leaf is always kept.
- `folded_elsewhere`: foreign text goes to the entry listed last, not to one it hangs
  off (`test_api_error.rs:173-174`), in a collection that is not verbose: of two causes of one error, the
  foreign one that is visited second ends up in the message of the typed one visited first.
- `header_missing`: a rejection by actix's `ApiValidated` has no `X-RPC-Status`
  (`rpc_status.rs:10-11`).
- `span_policies_differ`: an error with the default status 200 is `ERROR` on actix and
  `OK` on tower (`treat-tower/src/root_span.rs:68-69` says they match). On 4xx and
  5xx errors they do agree: `SpansAgreeOnFailures`.

## 4. Fairness

Only `EveryRequestLeaves`, in `logging_service`, needs it. Weak fairness of the calls, of first polls and of
`Finish`: an executor polls a task that was woken, a server calls what it found ready,
and handlers return. Strong fairness of `PollReady`: permits are contended, so the poll of a given
connection may be enabled and disabled for ever; tokio's semaphore, which
`ConcurrencyLimit` acquires from, queues its waiters, so each gets its turn. Nothing
is assumed of `Arrive`, `Cancel` or `Disconnect`. Without the swap in
`LoggingMiddleware::call` the property fails under the same fairness.

## 5. What is proved

By TLAPS, for every value of the constants that satisfies the assumptions named in the modules. Most say
that a bound is a number and that `None` and `Blank` are nothing else (`BoundIsNat`, `BoundsAreNat`,
`NoneIsNothing`, `NoneIsNoValue`, `StashIsEmptyOrError`, `BlankIsNoCode`, `TextsAreTexts`) or what the
constants are (`DistinctKinds`, `Declarations`, `DeclaredOfCodes`, `Feature`, `Deployments`,
`SixteenBits`, `Digits`, `NamesAreTexts`). Three say something of the system: no layer is stacked
twice (`EachLayerOnce`); actix's Logger, which is middleware of another framework, is not combined with
tower layers (`ActixAlone`); a field is listed as invalid with at least one rule (`RulesAreListed`).

`LoggingService_proofs`
: `Readiness`: `Spec => []IInv`. `NeverCalledUnready` and `NoStrandedPermit` are not
  inductive by themselves: nothing in them stops two connections from sharing an
  instance, one of which spends the other's reservation, or a stale `ready` flag. IInv adds
  that an instance has one owner (`OwnedOnce`), a request one driver (`DrivenOnce`), a
  user at most one permit (`SpentOnce`) and that `ready` and `created` are backed by a
  reservation (`BackedByPermit`). Each action preserves each conjunct it can disturb;
  `CalledOnlyWhenReady`, `NothingStranded` and `ServiceWellFormed` follow.
: `OnePermitEach`: a permit is granted to a request in the view exactly if the middlewares keep it
  for that request, in one of three places (`SpentOn`), and the request's stage says in which.
: `MiddlewaresImplementAdmission`: each action maps to an action of `Admission` or to a
  stutter: `Arrive` to `Submit`, a `PollReady` that reserves to `Admit`, `Finish`, `Cancel`
  and the `Disconnect` of a driven request to `Leave`, the rest to nothing; the swap in
  `CallLogging` moves a permit's holder but not its beneficiary.

`RequestTracing_proofs`
: `ScopesInvariant`: `Spec => []ScopeInv`, with `NoSpanLeaks` and `SpansFormOneChain` as
  corollaries. The strengthening is `PolledOnce`: one thread polls a request at a time,
  and only layers that were called are entered, so what a poll pops is what it pushed,
  whether it returns, suspends or panics.
: `EventsStayHome`: since `current` is known in every state, so is the span an event gets;
  `EventsInv` adds that the journal's spans are spans.
: `AnswersInvariant`: `Spec => []AnswerInv`, from which `ResponsesCorrelated` and `SpansToldTheStatus`.
  `Correlated` and `StatusOnEverySpan` speak of answers that have been given; to be inductive they need
  who has answered (`AnsweredByHandler`: exactly from the handler's answer on, and then all layers have
  been called) and whose id it is (`IdSettled`: of the layers of a stack one has ids, and it has
  settled its request's before it passes an answer on).
: `AnswersLoggedOnce`: `LoggedOnce` counts entries of the journal; only the return of the logging layer
  adds one, and it is passed once (`PolledOnce`). `LayersPassAnswersOn`: the action property.

`TypedError_proofs`
: `ErrorsWellFormed` and `TrailIsFaithful`, from `IInv == TypeOK /\ CallsTyped /\ TrailFaithful`
  (`CallsTyped`: the history is one of calls). Each action is shown to be of one of three kinds: it
  creates an error, it is a place the error passes, or it touches neither `hops` nor `location`;
  each kind preserves the trail, the second by extending the assignment of hops to calls by one.
: `OneMessageForClients` (`ConversionsAgree`): the conversions and renderings compared field by field,
  for every well formed error. `ClientsReadWhatWasSaid`, `CausesStayPrivate` and `LoggedAsAnswered`
  (`LogsMatchTheAnswer`: the code a logger tries first is the one last given) need the
  history: `SaidInv` says of each field that it is what `calls` said of it last, of the status that it is the
  last one set or else the first one adopted (`ErrorsAreWhatWasSaid`).
: `LogsNameTheCause` (`LogsTellTheCause`) needs what a report displays: `CauseInv` says that the
  texts of `source` and the places of `origins` are those of the causes attached by `calls`, and no others
  (`ErrorsTellTheirCauses`).
: `LogsLeadToTheRaise` (`LogsTellTheTrail`): `Debug` and `error_hops` list the trail from its end, `hops()` from
  its start; `Debug` leaves out a place that repeats the one before and goes on with the places of
  the causes. `Listed`, a fold over the trail, is unfolded (`ListedUnfolds`), split at the raise (`KeptInTwo`: what
  is kept of two joined lists is what is kept of the first and then of the second), and an
  assignment of hops to calls survives that a repeated hop is left out. That what comes after the raise is
  exactly the places of the causes follows from `CauseInv`.

`Exchange_proofs`
: `ExchangeInvariant`: `Spec => []IInv`, with a corollary for each of the run's invariants.
  No invariant of the run is inductive, since each speaks of the answer alone. `IInv` says how the
  answer came about: what the handler holds fits the history variables (`HandlerInv`: the status
  field is what was last set, else adopted), what is on the wire is `Reply`, one operator for all
  adapters (`Uniform`), but for a stripped header (`ReplyInv`), or an extractor's answer
  (`RejectInv`), and the client has parsed just that (`ClientInv`). `Serialized` and `ParsedBack`
  are the lemmas about the envelope. `SpansAgree` follows from what the two policies look at.

`ErrorChain_proofs`
: The properties are about chains, which are defined by recursion over a heap. The recursive functions
  are what their definitions say only because a heap has no cycles, so the first invariant is that it has a
  ranking (`HeapInv`): `with_source` puts a report that nothing points to (`Owned`) below another, and
  the ranks are pushed up by the step. `UnderIs`, `ChainIs` and their like unfold the
  definitions from it.
: `CausesAccumulate`: `ChainsOnlyGrow`. `TypeCorrect`: `TypeOK`. `NothingListedTwice`: no error is listed
  twice and none from elsewhere, without hypothesis (`Distinct`: what is listed has been seen, except the
  root, which no chain leads back to).
: What is listed when some errors are not recognised (`Lost`: their code is neither the caller's nor the
  default one, and they are read as foreign errors would be) is said by three theorems without hypothesis.
  `NoneReachedIsLost`: an error is left out, or the text of a root cause, only if nothing but a lost error leads to it.
  `ComesAfterItsErrors`: an entry comes after an error it is a cause of, unless one of these is lost.
  `InternalOnlyIfLost`: the internal prefix gets into a message only through a lost error without a cause.
: `ListsTheErrors`, `TellsTheCauses`, `OutermostFirst` and `NothingInternal`, the invariants of the run, follow from
  them where nothing is lost (`KnownCodes`: all codes are of the caller's type or the default one, as in
  `error_chain`). That is needed: `typed_cause_dropped` shows the first fail without it.
: The order rests on `Led`: whatever a
  chain still yields hangs off an entry or off something the same chain yields earlier. That nothing is left out rests on `Covered`,
  the invariant of a graph traversal: there is a set of nodes that have been dealt with, and
  each node one of them points to, unless that one is lost, is in it or is still to come in a chain that is being read. When no
  chain is left that set is closed, so it holds all that is reached, although deduplication leaves subtrees unread.

`Validation_proofs`
: `WalkInvariant`: `Spec => []WalkInv`. Its first half is the discipline of the shared string: open loops are
  inside one another, the string is the pointer of the innermost, and the offset a loop is cut back to is the length
  of the pointer of the loop around it (`Stacked`). That rests on one lemma about spelling, that
  the pointer of a place is the one of the place around it and a token (`PointerIs`). The second half is that
  each place has been reported with all its rules or is ahead of an open loop, and that nothing else has been
  reported; a place reported hides no other since nothing lies below it (`OneKind`).
: `PrefixIsThePointer` (`PrefixPointsHere`), `TypeCorrect` and `EveryRuleReported` follow; the last says that a
  body is accepted exactly if nothing is wrong with it, and else answered with every rule violated under
  the pointer of its place.
: `ViolationsLocated` (`EveryViolationLocated`) adds what a client makes of the answer, and `ListsInOrder`
  (`ItemsInOrder`) its order. Two arguments carry them. `PointersAreRead`: a reader of RFC 6901 that gets a
  pointer character by character finds the path it was spelled from, whatever characters the names have, so
  no two places share a pointer (`PlacesApart`); the reading of an escaped name is what `/` and `~` must be escaped
  in this order for. `OnceInv`: an open loop is past the key the loops inside it lie below, and what it still
  has to do in a list comes at or after that item (`PastWhatIsOpen`); a place that has been reported stands in one block
  and no loop awaits it (`ReportedOnce`); of a list of which something has been reported, only later items are
  awaited (`LaterItemsAhead`). None of these is implied by `WalkInv`, in which a place may be reported twice.

`WireCodes_proofs`
: `MacrosInvariant`: `Spec => []IInv`, with `ErrorsReachTheirVariant` (`RoutedByCode`) and
  `DeclaredStatusReachesTheWire` (`DeclaredStatusSent`) as corollaries. The strengthening
  is that what runs was accepted by the macros (`AcceptedOnly`) and that an error carries a
  status generated for its own variant (`FromItsVariant`). `FirstArm` is the lemma behind the
  routing: of the arms that fit, one is first, and it is the catch-all only if no other fits.

`Recursion`
: The provers cannot instantiate the library's induction theorems, so what these proofs need is
  derived from finite sets: a set of numbers has a least element (`Least`), what holds of a node
  when it holds of all that are lower holds of all (`RankInduction`), what holds of 0 and goes up by one holds up to
  any bound (`UpToInduction`), and a function that is defined by recursion
  over something that only goes down exists (`RankedRecursion`). The proofs use it for chains, for the
  concatenation of sequences and for folds: the fold of the community modules, which removes the
  greatest index of a set of indices, goes over a sequence from left to right (`FoldUnfolds`).

Only model-checked: the liveness property `EveryRequestLeaves` of `logging_service`, which is outside the
prover's reach. Every other property of a passing run is a theorem.

## 6. What is not modelled

- Text: log wording, the separators in messages, span field values other than id and status.
  No property is about them.
- Statuses are resolved as in a release build; a debug build panics earlier.
- The `verbose-error` feature (a default for a flag both of whose values are covered), errors inside a
  collected chain that are verbose themselves, `Debug`'s alternate form, backtraces and span traces.
  `docs/troubleshooting.md:39-45` describes an earlier `Debug`, which rendered a fresh report whose `Location:`
  could be the one of the `Debug` call; the code (`error.rs:725-775`) lists captured locations only, and that is
  what is modelled.
- How erris renders the cause field of a structured log line.
- `map_code` to a code with another `Display` type: data.
- `Pagination::new`: one `div_ceil` behind a test for zero; a model of it would be its own reference.
- The same layer stacked twice (`EachLayerOnce`).
- Re-exporting crates (no behaviour), OpenTelemetry propagation (`set_otel_parent` hands headers to
  another crate and keeps nothing).

## 7. Plan

Every component with state or decisions of its own is modelled, the type invariant of
every module that models code is proved, and so are 37 of the 38 properties that the passing runs check; the other
one is liveness.
